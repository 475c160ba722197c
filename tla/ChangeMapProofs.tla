-------------------------- MODULE ChangeMapProofs --------------------------
(***************************************************************************)
(* What the map of a change says, for every checkout and every limit.      *)
(*                                                                         *)
(* The map is made in one pass, so the invariant says what each list holds *)
(* after so many files; what remains is that a sorted list holds what it   *)
(* is sorted from, and that the innermost of nested spans share no line.   *)
(***************************************************************************)
EXTENDS ChangeMap, FiniteSetTheorems, SequenceTheorems, TLAPS

-----------------------------------------------------------------------------
(* Sorted and cut lists *)

LEMMA Smaller ==
    ASSUME NEW a \in Int, NEW b \in Int
    PROVE  Min({a, b}) = IF a <= b THEN a ELSE b
  BY DEF Min

(* Tuples that differ in their file or their place.                        *)
Placed(refs) ==
    /\ IsFiniteSet(refs)
    /\ \A r \in refs : r[1] \in Int /\ r[2] \in Int
    /\ \A r, s \in refs : r[1] = s[1] /\ r[2] = s[2] => r = s

LEMMA BelowGrows ==
    ASSUME NEW refs, Placed(refs), NEW r \in refs, NEW s \in refs, Before(r, s)
    PROVE  Cardinality(Below(refs, r)) < Cardinality(Below(refs, s))
<1>1. Below(refs, r) \subseteq Below(refs, s)
  BY DEF Placed, Below, Before
<1>2. r \in Below(refs, s) /\ r \notin Below(refs, r)
  BY DEF Placed, Below, Before
<1>3. IsFiniteSet(Below(refs, s))
  <2>1. Below(refs, s) \in SUBSET refs
    BY DEF Below
  <2> QED BY <2>1, FS_Subset DEF Placed
<1>4. /\ Cardinality(Below(refs, r)) <= Cardinality(Below(refs, s))
      /\ Cardinality(Below(refs, r)) # Cardinality(Below(refs, s))
      /\ IsFiniteSet(Below(refs, r))
  BY <1>1, <1>2, <1>3, FS_Subset
<1> QED BY <1>3, <1>4, FS_CardinalityType

(* The ranks are the numbers from 0, one for each tuple.                   *)
LEMMA EveryRank ==
    ASSUME NEW refs, Placed(refs), NEW i \in 1..Cardinality(refs)
    PROVE  \E r \in refs : Cardinality(Below(refs, r)) = i - 1
<1> DEFINE n == Cardinality(refs)
           rank == [r \in refs |-> Cardinality(Below(refs, r)) + 1]
<1>1. n \in Nat /\ IsFiniteSet(1..n) /\ Cardinality(1..n) = n
  BY FS_CardinalityType, FS_Interval DEF Placed
<1>2. ASSUME NEW r \in refs
      PROVE  Cardinality(Below(refs, r)) \in Nat /\ rank[r] \in 1..n
  <2>1. Below(refs, r) \in SUBSET refs /\ r \notin Below(refs, r)
    BY DEF Below, Before, Placed
  <2>2. /\ IsFiniteSet(Below(refs, r)) /\ Cardinality(Below(refs, r)) <= n
        /\ Cardinality(Below(refs, r)) # n
    BY <2>1, FS_Subset DEF Placed
  <2>3. Cardinality(Below(refs, r)) \in Nat
    BY <2>2, FS_CardinalityType
  <2> QED BY <1>1, <2>2, <2>3
<1>3. ASSUME NEW r \in refs, NEW s \in refs, r # s PROVE rank[r] # rank[s]
  <2>1. Before(r, s) \/ Before(s, r)
    BY <1>3 DEF Before, Placed
  <2> QED BY <1>2, <2>1, BelowGrows
<1>4. rank \in Injection(refs, 1..n)
  BY <1>2, <1>3 DEF Injection, IsInjective
<1>5. rank \in Surjection(refs, 1..n)
  <2> HIDE DEF rank, n
  <2>1. Cardinality(refs) = Cardinality(1..n)
    BY <1>1 DEF n
  <2> QED BY <1>1, <1>4, <2>1, FS_Injection
<1>6. PICK r \in refs : rank[r] = i
  BY <1>5 DEF Surjection
<1> QED BY <1>2, <1>6

LEMMA SortedHolds ==
    ASSUME NEW refs, Placed(refs)
    PROVE  /\ Sorted(refs) \in Seq(refs)
           /\ Len(Sorted(refs)) = Cardinality(refs) /\ Cardinality(refs) \in Nat
           /\ Range(Sorted(refs)) = refs
<1> DEFINE list == Sorted(refs)
           n == Cardinality(refs)
<1>1. n \in Nat
  BY FS_CardinalityType DEF Placed
<1>2. list = [i \in 1..n |-> list[i]]
  BY DEF Sorted
<1>3. ASSUME NEW i \in 1..n
      PROVE  list[i] \in refs /\ Cardinality(Below(refs, list[i])) = i - 1
  <2>1. list[i] = CHOOSE r \in refs : Cardinality(Below(refs, r)) = i - 1
    BY DEF Sorted
  <2> QED BY <2>1, EveryRank
<1>4. ASSUME NEW r \in refs PROVE \E i \in 1..n : list[i] = r
  <2> DEFINE i == Cardinality(Below(refs, r)) + 1
  <2>1. i \in 1..n
    <3>1. Below(refs, r) \in SUBSET refs /\ r \notin Below(refs, r)
      BY DEF Below, Before, Placed
    <3>2. /\ IsFiniteSet(Below(refs, r)) /\ Cardinality(Below(refs, r)) <= n
          /\ Cardinality(Below(refs, r)) # n
      BY <3>1, FS_Subset DEF Placed
    <3>3. Cardinality(Below(refs, r)) \in Nat
      BY <3>2, FS_CardinalityType
    <3> QED BY <1>1, <3>2, <3>3
  <2>2. /\ list[i] \in refs
        /\ Cardinality(Below(refs, list[i])) = Cardinality(Below(refs, r))
    <3>1. Cardinality(Below(refs, list[i])) = i - 1 /\ list[i] \in refs
      BY <1>3, <2>1
    <3>2. i - 1 = Cardinality(Below(refs, r))
      <4>1. IsFiniteSet(Below(refs, r))
        <5>1. Below(refs, r) \in SUBSET refs
          BY DEF Below
        <5> QED BY <5>1, FS_Subset DEF Placed
      <4> QED BY <4>1, FS_CardinalityType
    <3> QED BY <3>1, <3>2
  <2> HIDE DEF i, list
  <2>3. ASSUME list[i] # r PROVE FALSE
    <3>1. Before(list[i], r) \/ Before(r, list[i])
      BY <2>2, <2>3 DEF Before, Placed
    <3>2. \A s \in refs : Cardinality(Below(refs, s)) \in Nat
      <4> SUFFICES ASSUME NEW s \in refs PROVE Cardinality(Below(refs, s)) \in Nat
        OBVIOUS
      <4>1. Below(refs, s) \in SUBSET refs
        BY DEF Below
      <4> QED BY <4>1, FS_Subset, FS_CardinalityType DEF Placed
    <3> QED BY <2>2, <3>1, <3>2, BelowGrows
  <2> QED BY <2>1, <2>3
<1> HIDE DEF list, n
<1>5. list \in Seq(refs) /\ Len(list) = n /\ DOMAIN list = 1..n
  BY <1>1, <1>2, <1>3
<1>6. Range(list) = refs
  BY <1>3, <1>4, <1>5 DEF Range
<1> QED BY <1>1, <1>5, <1>6 DEF list, n

LEMMA CutHolds ==
    ASSUME NEW S, NEW list \in Seq(S), NEW limit \in Nat
    PROVE  /\ Cut(list, limit) \in Seq(S)
           /\ Len(Cut(list, limit)) = Min({limit, Len(list)})
           /\ Len(Cut(list, limit)) <= limit
           /\ \A i \in DOMAIN Cut(list, limit) :
                 i \in DOMAIN list /\ Cut(list, limit)[i] = list[i]
<1> DEFINE n == Min({limit, Len(list)})
<1>1. n = (IF limit <= Len(list) THEN limit ELSE Len(list)) /\ Len(list) \in Nat
  BY Smaller
<1> HIDE DEF n
<1>2. n \in Nat /\ n <= limit /\ n <= Len(list)
  BY <1>1
<1>3. Cut(list, limit) = SubSeq(list, 1, n)
  BY DEF Cut, n
<1>4. \A i \in 1..n : list[i] \in S
  BY <1>2
<1>5. /\ SubSeq(list, 1, n) \in Seq(S) /\ Len(SubSeq(list, 1, n)) = n
      /\ \A i \in 1..n : SubSeq(list, 1, n)[i] = list[i]
  BY <1>2, <1>4, SubSeqProperties
<1>6. DOMAIN Cut(list, limit) = 1..n /\ 1..n \subseteq DOMAIN list
  BY <1>2, <1>3, <1>5
<1> QED BY <1>2, <1>3, <1>5, <1>6 DEF n

LEMMA FiniteImage ==
    ASSUME NEW S, IsFiniteSet(S), NEW f, f = [x \in S |-> f[x]]
    PROVE  IsFiniteSet({f[x] : x \in S})
<1>1. f \in Surjection(S, {f[x] : x \in S})
  BY DEF Surjection
<1> QED BY <1>1, FS_Surjection

-----------------------------------------------------------------------------
(* Imports *)

(* Outside a package's __init__ an import is resolved as Python does it.   *)
LEMMA ImportsAsPython ==
    ASSUME NEW file \in File, NEW import \in Import, ~(file.init /\ import.level > 0)
    PROVE  ImportsChanged(file, import) <=> PythonImports(file, import)
<1> DEFINE package == IF ModuleName(file) = <<>> THEN <<>> ELSE Front(ModuleName(file))
           above == Min({import.level - 1, Len(package)})
           base == IF import.level = 0 THEN import.base
                   ELSE Drop(package, above) \o import.base
           python == IF file.init THEN file.package ELSE Front(ModuleName(file))
           pybase == IF import.level = 0 THEN import.base
                     ELSE Drop(python, import.level - 1) \o import.base
<1>1. import.level \in Nat /\ file.init \in BOOLEAN
  BY DEF Import, File
<1>2. CASE import.level # 0
  <2>1. file.package \in Seq(Names) /\ file.stem \in Names /\ ~file.init
    BY <1>1, <1>2 DEF File
  <2>2. /\ ModuleName(file) \in Seq(Names) /\ Len(ModuleName(file)) \in Nat
        /\ ModuleName(file) # <<>>
    BY <2>1, AppendProperties DEF ModuleName
  <2>3. package = python /\ python = Front(ModuleName(file))
    BY <2>1, <2>2
  <2>4. Len(package) \in Nat
    <3>1. /\ SubSeq(ModuleName(file), 1, Len(ModuleName(file)) - 1) \in Seq(Names)
      BY <2>2
    <3> QED BY <2>3, <3>1 DEF Front
  <2> HIDE DEF package, python
  <2>5. above = IF import.level - 1 <= Len(package) THEN import.level - 1 ELSE Len(package)
    BY <1>1, <2>4, Smaller
  <2>6. base = pybase
    <3>1. CASE import.level - 1 <= Len(package)
      BY <1>2, <2>3, <2>5, <3>1
    <3>2. CASE import.level - 1 > Len(package)
      <4>1. above = Len(package)
        BY <1>1, <2>4, <2>5, <3>2
      <4>2. /\ Len(package) - above < 1 /\ Len(package) - above \in Int
            /\ Len(package) - (import.level - 1) < 1
            /\ Len(package) - (import.level - 1) \in Int
        BY <1>1, <2>4, <3>2, <4>1
      <4> HIDE DEF above
      <4>3. Drop(package, above) = <<>> /\ Drop(package, import.level - 1) = <<>>
        BY <4>2, SubSeqEmpty DEF Drop
      <4> QED BY <1>2, <2>3, <4>3
    <3> QED BY <1>1, <2>4, <3>1, <3>2
  <2> HIDE DEF base, pybase
  <2>7. /\ ImportsChanged(file, import)
             <=> Touches(base) \/ (\E name \in import.names : Touches(Append(base, name)))
        /\ PythonModules(file, import)
             = {pybase} \cup {Append(pybase, name) : name \in import.names}
    BY DEF ImportsChanged, PythonModules, package, python, base, pybase
  <2> QED BY <2>6, <2>7 DEF PythonImports
<1>3. CASE import.level = 0
  <2>1. /\ base = import.base /\ pybase = import.base
    BY <1>3
  <2> HIDE DEF base, pybase
  <2>2. /\ ImportsChanged(file, import)
             <=> Touches(base) \/ (\E name \in import.names : Touches(Append(base, name)))
        /\ PythonModules(file, import)
             = {pybase} \cup {Append(pybase, name) : name \in import.names}
    BY DEF ImportsChanged, PythonModules, package, python, base, pybase
  <2> QED BY <2>1, <2>2 DEF PythonImports
<1> QED BY <1>2, <1>3

-----------------------------------------------------------------------------
(* The invariant *)

ToParse == {f \in Changed : repo[f].hunks # {}}
Unparsed == {f \in ToParse : ~repo[f].parses}

SymbolsIn(f) == Intersecting(f, repo[f].nodes, repo[f].hunks)
Symbols == UNION {SymbolsIn(f) : f \in ToParse \ unparsed}

SymbolNames == {Name(symbols[s]) : s \in DOMAIN symbols}

NamedIn(f) == {i \in DOMAIN repo[f].mentions : repo[f].mentions[i] \in SymbolNames}
TouchingIn(f) ==
    {i \in DOMAIN repo[f].imports : ImportsChanged(repo[f], repo[f].imports[i])}

MentionsIn(f) == {<<f, i, repo[f].mentions[i]>> : i \in NamedIn(f)}
ImportsIn(f) == {<<f, i>> : i \in TouchingIn(f)}

Reported ==
    [symbols |-> Cut([s \in DOMAIN symbols |-> [symbol |-> symbols[s],
                                                references |-> References(symbols[s])]],
                     MaxSymbols),
     importers |-> Cut(Sorted(imports), MaxImporters),
     tests |-> Tests]

MInv ==
    /\ repo \in Repositories
    /\ at \in {"symbols", "scan", "done"}
    /\ scanned \in 0..Min({MaxFilesScanned, Len(repo)})
    /\ IF at = "symbols" THEN symbols = <<>> /\ unparsed = {} /\ scanned = 0
       ELSE unparsed = Unparsed /\ symbols = Sorted(Symbols)
    /\ mentions = UNION {MentionsIn(f) : f \in Readable}
    /\ imports = UNION {ImportsIn(f) : f \in Readable}
    /\ map = IF at = "done" THEN Reported ELSE Empty

LEMMA Checkout ==
    ASSUME MInv
    PROVE  /\ repo \in Seq(File) /\ Len(repo) \in Nat /\ DOMAIN repo = 1..Len(repo)
           /\ \A f \in DOMAIN repo : repo[f] \in File /\ Nested(repo[f].nodes)
           /\ scanned \in Nat /\ scanned <= MaxFilesScanned /\ scanned <= Len(repo)
           /\ MaxFilesScanned \in Nat
           /\ Min({MaxFilesScanned, Len(repo)}) \in {MaxFilesScanned, Len(repo)}
<1>1. repo \in Seq(File) /\ \A f \in DOMAIN repo : Nested(repo[f].nodes)
  BY RepositoriesAssumption DEF MInv
<1>2. Len(repo) \in Nat /\ DOMAIN repo = 1..Len(repo) /\ MaxFilesScanned \in Nat
  BY <1>1, LimitsAssumption
<1>3. Min({MaxFilesScanned, Len(repo)})
        = IF MaxFilesScanned <= Len(repo) THEN MaxFilesScanned ELSE Len(repo)
  BY <1>2, Smaller
<1>4. scanned \in 0..Min({MaxFilesScanned, Len(repo)})
  BY DEF MInv
<1> QED BY <1>1, <1>2, <1>3, <1>4

LEMMA NextMInv == MInv /\ [Next]_vars => MInv'
<1> SUFFICES ASSUME MInv, [Next]_vars PROVE MInv'
  OBVIOUS
<1>1. CASE FindSymbols
  <2>1. /\ at = "symbols" /\ at' = "scan" /\ scanned = 0
        /\ UNCHANGED <<repo, scanned, mentions, imports, map>>
    BY <1>1 DEF FindSymbols, MInv
  <2>2. unparsed' = Unparsed' /\ symbols' = Sorted(Symbols')
    BY <1>1, <2>1 DEF FindSymbols, Unparsed, ToParse, Changed, Symbols, SymbolsIn
  <2>3. Readable = {} /\ Readable' = {}
    BY <2>1 DEF Readable
  <2>4. mentions = {} /\ imports = {}
    BY <2>3 DEF MInv
  <2>5. /\ mentions' = UNION {MentionsIn(f)' : f \in Readable'}
        /\ imports' = UNION {ImportsIn(f)' : f \in Readable'}
    BY <2>1, <2>3, <2>4
  <2> QED BY <2>1, <2>2, <2>5 DEF MInv
<1>2. CASE Scan
  <2>1. /\ at = "scan" /\ scanned < Min({MaxFilesScanned, Len(repo)})
        /\ scanned' = scanned + 1
        /\ UNCHANGED <<at, repo, symbols, unparsed, map>>
    BY <1>2 DEF Scan
  <2> DEFINE g == scanned + 1
             looked == ~repo[g].changed /\ repo[g].parses
  <2>2. g \in DOMAIN repo /\ g \in 1..g /\ 1..g = 1..scanned \cup {g}
        /\ scanned' \in 0..Min({MaxFilesScanned, Len(repo)})
    <3>1. /\ scanned \in Nat /\ Len(repo) \in Nat /\ DOMAIN repo = 1..Len(repo)
          /\ MaxFilesScanned \in Nat
      BY Checkout
    <3>2. Min({MaxFilesScanned, Len(repo)})
            = IF MaxFilesScanned <= Len(repo) THEN MaxFilesScanned ELSE Len(repo)
      BY <3>1, Smaller
    <3> QED BY <2>1, <3>1, <3>2
  <2>3. /\ mentions' = mentions \cup (IF looked THEN MentionsIn(g) ELSE {})
        /\ imports' = imports \cup (IF looked THEN ImportsIn(g) ELSE {})
    BY <1>2, <2>1 DEF Scan, MentionsIn, ImportsIn, NamedIn, TouchingIn, SymbolNames
  <2>4. Readable' = Readable \cup (IF looked THEN {g} ELSE {})
    BY <2>1, <2>2 DEF Readable, Changed
  <2>5. \A f : MentionsIn(f)' = MentionsIn(f) /\ ImportsIn(f)' = ImportsIn(f)
    BY <2>1 DEF MentionsIn, ImportsIn, NamedIn, TouchingIn, SymbolNames,
       ImportsChanged, Touches, Modules, Changed
  <2> HIDE DEF looked, g
  <2>6. mentions' = UNION {MentionsIn(f) : f \in Readable'}
    BY <2>3, <2>4 DEF MInv
  <2>7. imports' = UNION {ImportsIn(f) : f \in Readable'}
    BY <2>3, <2>4 DEF MInv
  <2>8. Unparsed' = Unparsed /\ Symbols' = Symbols
    BY <2>1 DEF Unparsed, Symbols, ToParse, Changed, SymbolsIn
  <2> QED BY <2>1, <2>2, <2>5, <2>6, <2>7, <2>8 DEF MInv
<1>3. CASE Report
  <2>1. /\ at = "scan" /\ at' = "done" /\ map' = Reported
        /\ UNCHANGED <<repo, symbols, unparsed, scanned, mentions, imports>>
    BY <1>3 DEF Report, Reported
  <2>2. /\ Reported' = Reported /\ Readable' = Readable
        /\ Unparsed' = Unparsed /\ Symbols' = Symbols
    BY <2>1 DEF Reported, References, Tests, Importing, Readable, Changed,
       Unparsed, Symbols, ToParse, SymbolsIn
  <2>3. \A f : MentionsIn(f)' = MentionsIn(f) /\ ImportsIn(f)' = ImportsIn(f)
    BY <2>1 DEF MentionsIn, ImportsIn, NamedIn, TouchingIn, SymbolNames,
       ImportsChanged, Touches, Modules, Changed
  <2> QED BY <2>1, <2>2, <2>3 DEF MInv
<1>4. CASE UNCHANGED vars
  <2>1. UNCHANGED <<at, repo, symbols, unparsed, scanned, mentions, imports, map>>
    BY <1>4 DEF vars
  <2>2. /\ Reported' = Reported /\ Readable' = Readable
        /\ Unparsed' = Unparsed /\ Symbols' = Symbols
    BY <2>1 DEF Reported, References, Tests, Importing, Readable, Changed,
       Unparsed, Symbols, ToParse, SymbolsIn
  <2>3. \A f : MentionsIn(f)' = MentionsIn(f) /\ ImportsIn(f)' = ImportsIn(f)
    BY <2>1 DEF MentionsIn, ImportsIn, NamedIn, TouchingIn, SymbolNames,
       ImportsChanged, Touches, Modules, Changed
  <2> QED BY <2>1, <2>2, <2>3 DEF MInv
<1> QED BY <1>1, <1>2, <1>3, <1>4 DEF Next

LEMMA MapInductive == Spec => []MInv
<1>1. Init => MInv
  <2> SUFFICES ASSUME Init PROVE MInv
    OBVIOUS
  <2>1. /\ at = "symbols" /\ repo \in Repositories /\ symbols = <<>> /\ unparsed = {}
        /\ scanned = 0 /\ mentions = {} /\ imports = {} /\ map = Empty
    BY DEF Init
  <2>2. 0 \in 0..Min({MaxFilesScanned, Len(repo)})
    <3>1. repo \in Seq(File) /\ MaxFilesScanned \in Nat
      BY <2>1, RepositoriesAssumption, LimitsAssumption
    <3>2. Len(repo) \in Nat
      BY <3>1
    <3> QED BY <3>1, <3>2, Smaller
  <2>3. Readable = {}
    BY <2>1 DEF Readable
  <2> QED BY <2>1, <2>2, <2>3 DEF MInv
<1> QED BY <1>1, NextMInv, PTL DEF Spec

-----------------------------------------------------------------------------
(* What the lists hold *)

(* The elements of finite sets, one for each member of a finite set.       *)
LEMMA FiniteUnion ==
    ASSUME NEW S, IsFiniteSet(S), NEW sets, sets = [x \in S |-> sets[x]],
           \A x \in S : IsFiniteSet(sets[x])
    PROVE  IsFiniteSet(UNION {sets[x] : x \in S})
<1>1. IsFiniteSet({sets[x] : x \in S})
  BY FiniteImage
<1> QED BY <1>1, FS_UNION

LEMMA ReadableFiles ==
    ASSUME MInv
    PROVE  /\ IsFiniteSet(Readable) /\ Readable \subseteq DOMAIN repo
           /\ DOMAIN repo \subseteq Nat
           /\ \A f \in Readable :
                 /\ repo[f] \in File /\ f \notin Changed
                 /\ DOMAIN repo[f].mentions \subseteq Nat
                 /\ IsFiniteSet(DOMAIN repo[f].mentions)
                 /\ DOMAIN repo[f].imports \subseteq Nat
                 /\ IsFiniteSet(DOMAIN repo[f].imports)
                 /\ \A i \in DOMAIN repo[f].imports : repo[f].imports[i] \in Import
<1>1. /\ scanned \in Nat /\ scanned <= Len(repo) /\ Len(repo) \in Nat
      /\ DOMAIN repo = 1..Len(repo) /\ \A f \in DOMAIN repo : repo[f] \in File
  BY Checkout
<1>2. Readable \in SUBSET (1..scanned) /\ IsFiniteSet(1..scanned)
  BY <1>1, FS_Interval DEF Readable
<1>3. IsFiniteSet(Readable)
  BY <1>2, FS_Subset
<1>4. ASSUME NEW f \in Readable
      PROVE  /\ repo[f] \in File /\ f \notin Changed
             /\ DOMAIN repo[f].mentions \subseteq Nat
             /\ IsFiniteSet(DOMAIN repo[f].mentions)
             /\ DOMAIN repo[f].imports \subseteq Nat
             /\ IsFiniteSet(DOMAIN repo[f].imports)
             /\ \A i \in DOMAIN repo[f].imports : repo[f].imports[i] \in Import
  <2>1. repo[f] \in File /\ f \notin Changed
    BY <1>1, <1>2 DEF Readable
  <2>2. repo[f].mentions \in Seq(Names) /\ repo[f].imports \in Seq(Import)
    BY <2>1 DEF File
  <2>3. \A n \in Nat : IsFiniteSet(1..n)
    BY FS_Interval
  <2> QED BY <2>1, <2>2, <2>3
<1> QED BY <1>1, <1>2, <1>3, <1>4

LEMMA ImportsPlaced ==
    ASSUME MInv
    PROVE  /\ Placed(imports) /\ Importing \subseteq Readable
           /\ \A f \in Readable : \A i \in DOMAIN repo[f].imports :
                 <<f, i>> \in imports
                     <=> ImportsChanged(repo[f], repo[f].imports[i])
           /\ \A ref \in imports : /\ ref[1] \in Readable
                                   /\ ref[2] \in DOMAIN repo[ref[1]].imports
                                   /\ ref = <<ref[1], ref[2]>>
<1>1. \A ref : ref \in imports <=> \E f \in Readable : \E i \in TouchingIn(f) : ref = <<f, i>>
  BY DEF MInv, ImportsIn
<1>2. \A ref \in imports : /\ ref[1] \in Readable /\ ref[2] \in TouchingIn(ref[1])
                           /\ ref = <<ref[1], ref[2]>>
  BY <1>1
<1>3. \A f \in Readable : \A i : <<f, i>> \in imports <=> i \in TouchingIn(f)
  BY <1>1
<1>4. IsFiniteSet(imports)
  <2> DEFINE In == [f \in Readable |-> ImportsIn(f)]
  <2>1. ASSUME NEW f \in Readable PROVE IsFiniteSet(ImportsIn(f))
    <3>1. TouchingIn(f) \in SUBSET DOMAIN repo[f].imports
      BY DEF TouchingIn
    <3>2. IsFiniteSet(TouchingIn(f))
      BY <3>1, ReadableFiles, FS_Subset
    <3> DEFINE refs == [i \in TouchingIn(f) |-> <<f, i>>]
    <3>3. IsFiniteSet({refs[i] : i \in TouchingIn(f)})
      BY <3>2, FiniteImage
    <3> QED BY <3>3 DEF ImportsIn
  <2>2. IsFiniteSet(UNION {In[f] : f \in Readable})
    <3>1. In = [f \in Readable |-> In[f]] /\ \A f \in Readable : IsFiniteSet(In[f])
      BY <2>1
    <3> HIDE DEF In
    <3> QED BY <3>1, ReadableFiles, FiniteUnion
  <2>3. UNION {In[f] : f \in Readable} = imports
    BY DEF MInv
  <2> QED BY <2>2, <2>3
<1>5. Placed(imports)
  <2>1. \A ref \in imports : ref[1] \in Int /\ ref[2] \in Int
    BY <1>2, ReadableFiles DEF TouchingIn
  <2>2. \A r, s \in imports : r[1] = s[1] /\ r[2] = s[2] => r = s
    BY <1>2
  <2> QED BY <1>4, <2>1, <2>2 DEF Placed
<1>6. Importing \subseteq Readable
  BY <1>2 DEF Importing
<1>7. \A f \in Readable : \A i \in DOMAIN repo[f].imports :
          <<f, i>> \in imports <=> ImportsChanged(repo[f], repo[f].imports[i])
  BY <1>3 DEF TouchingIn
<1>8. \A ref \in imports : ref[2] \in DOMAIN repo[ref[1]].imports
  BY <1>2 DEF TouchingIn
<1> QED BY <1>2, <1>5, <1>6, <1>7, <1>8

(* The mentions of a name in the files that import something changed.      *)
MentionsOf(name) == {ref \in mentions : ref[1] \in Importing /\ ref[3] = name}

LEMMA MentionsPlaced ==
    ASSUME MInv
    PROVE  /\ \A name : Placed(MentionsOf(name))
           /\ \A f \in Readable : \A i \in DOMAIN repo[f].mentions :
                 repo[f].mentions[i] \in SymbolNames
                     => <<f, i, repo[f].mentions[i]>> \in mentions
           /\ \A ref \in mentions : /\ ref[1] \in Readable
                                    /\ repo[ref[1]].mentions[ref[2]] = ref[3]
<1>1. \A ref : ref \in mentions <=>
          \E f \in Readable : \E i \in NamedIn(f) : ref = <<f, i, repo[f].mentions[i]>>
  BY DEF MInv, MentionsIn
<1>2. \A ref \in mentions : /\ ref[1] \in Readable /\ ref[2] \in NamedIn(ref[1])
                            /\ ref = <<ref[1], ref[2], repo[ref[1]].mentions[ref[2]]>>
                            /\ repo[ref[1]].mentions[ref[2]] = ref[3]
  BY <1>1
<1>3. IsFiniteSet(mentions)
  <2> DEFINE In == [f \in Readable |-> MentionsIn(f)]
  <2>1. ASSUME NEW f \in Readable PROVE IsFiniteSet(MentionsIn(f))
    <3>1. NamedIn(f) \in SUBSET DOMAIN repo[f].mentions
      BY DEF NamedIn
    <3>2. IsFiniteSet(NamedIn(f))
      BY <3>1, ReadableFiles, FS_Subset
    <3> DEFINE refs == [i \in NamedIn(f) |-> <<f, i, repo[f].mentions[i]>>]
    <3>3. IsFiniteSet({refs[i] : i \in NamedIn(f)})
      BY <3>2, FiniteImage
    <3> QED BY <3>3 DEF MentionsIn
  <2>2. IsFiniteSet(UNION {In[f] : f \in Readable})
    <3>1. In = [f \in Readable |-> In[f]] /\ \A f \in Readable : IsFiniteSet(In[f])
      BY <2>1
    <3> HIDE DEF In
    <3> QED BY <3>1, ReadableFiles, FiniteUnion
  <2>3. UNION {In[f] : f \in Readable} = mentions
    BY DEF MInv
  <2> QED BY <2>2, <2>3
<1>4. ASSUME NEW name PROVE Placed(MentionsOf(name))
  <2>1. MentionsOf(name) \in SUBSET mentions
    BY DEF MentionsOf
  <2>2. IsFiniteSet(MentionsOf(name))
    BY <1>3, <2>1, FS_Subset
  <2>3. \A ref \in mentions : ref[1] \in Int /\ ref[2] \in Int
    BY <1>2, ReadableFiles DEF NamedIn
  <2>4. \A r, s \in mentions : r[1] = s[1] /\ r[2] = s[2] => r = s
    BY <1>2
  <2> QED BY <2>1, <2>2, <2>3, <2>4 DEF Placed
<1>5. \A f \in Readable : \A i \in DOMAIN repo[f].mentions :
          repo[f].mentions[i] \in SymbolNames
              => <<f, i, repo[f].mentions[i]>> \in mentions
  BY <1>1 DEF NamedIn
<1> QED BY <1>2, <1>4, <1>5

TestFiles == {f \in Importing : repo[f].test}
TestLines == {<<f, 0>> : f \in TestFiles}

LEMMA TestsPlaced ==
    ASSUME MInv
    PROVE  /\ Placed(TestLines) /\ Cardinality(TestLines) = Cardinality(TestFiles)
           /\ Cardinality(TestFiles) \in Nat
<1>1. TestFiles \in SUBSET Readable /\ Readable \subseteq Nat
  BY ImportsPlaced, ReadableFiles DEF TestFiles
<1>2. IsFiniteSet(TestFiles)
  BY <1>1, ReadableFiles, FS_Subset
<1> DEFINE line == [f \in TestFiles |-> <<f, 0>>]
<1>3. line \in Bijection(TestFiles, TestLines)
  BY DEF TestLines, Bijection, Injection, IsInjective, Surjection
<1>4. IsFiniteSet(TestLines) /\ Cardinality(TestLines) = Cardinality(TestFiles)
  BY <1>2, <1>3, FS_Bijection DEF ExistsBijection
<1>5. Placed(TestLines)
  BY <1>1, <1>4 DEF Placed, TestLines
<1> QED BY <1>2, <1>4, <1>5, FS_CardinalityType

LEMMA SymbolsPlaced ==
    ASSUME MInv, at # "symbols"
    PROVE  /\ Placed(Symbols) /\ Range(symbols) = Symbols /\ Len(symbols) \in Nat
           /\ DOMAIN symbols = 1..Len(symbols)
           /\ ToParse \subseteq Changed /\ unparsed = Unparsed
           /\ \A s : s \in Symbols <=>
                 \E f \in ToParse \ unparsed :
                    \E n \in Innermost(Touched(repo[f].nodes, repo[f].hunks)) :
                        s = Symbol(f, n)
<1>1. /\ symbols = Sorted(Symbols) /\ unparsed = Unparsed
  BY DEF MInv
<1>2. ToParse \subseteq Changed /\ Changed \subseteq DOMAIN repo
  BY DEF ToParse, Changed
<1>3. \A s : s \in Symbols <=>
          \E f \in ToParse \ unparsed :
             \E n \in Innermost(Touched(repo[f].nodes, repo[f].hunks)) :
                 s = Symbol(f, n)
  BY DEF Symbols, SymbolsIn, Intersecting
<1>4. /\ \A f \in DOMAIN repo : repo[f] \in File /\ Nested(repo[f].nodes)
      /\ DOMAIN repo = 1..Len(repo) /\ Len(repo) \in Nat
  BY Checkout
<1>5. ASSUME NEW f \in DOMAIN repo,
             NEW n \in Innermost(Touched(repo[f].nodes, repo[f].hunks))
      PROVE  n \in repo[f].nodes /\ n.first \in Nat /\ n.last \in Nat
  <2>1. n \in repo[f].nodes /\ repo[f].nodes \in SUBSET Node
    BY <1>4 DEF File, Innermost, Touched
  <2> QED BY <2>1 DEF Node
<1>6. ASSUME NEW f \in DOMAIN repo PROVE IsFiniteSet(SymbolsIn(f))
  <2> DEFINE inner == Innermost(Touched(repo[f].nodes, repo[f].hunks))
             symbol == [n \in inner |-> Symbol(f, n)]
  <2>1. IsFiniteSet(inner)
    <3>1. inner \in SUBSET repo[f].nodes
      BY <1>5
    <3> QED BY <1>4, <3>1, FS_Subset DEF Nested
  <2>2. IsFiniteSet({symbol[n] : n \in inner})
    <3>1. symbol = [n \in inner |-> symbol[n]]
      OBVIOUS
    <3> HIDE DEF symbol, inner
    <3> QED BY <2>1, <3>1, FiniteImage
  <2> QED BY <2>2 DEF SymbolsIn, Intersecting
<1>7. IsFiniteSet(Symbols)
  <2> DEFINE In == [f \in ToParse \ unparsed |-> SymbolsIn(f)]
  <2>1. IsFiniteSet(ToParse \ unparsed)
    <3>1. ToParse \ unparsed \in SUBSET (1..Len(repo))
      BY <1>2, <1>4
    <3>2. IsFiniteSet(1..Len(repo))
      BY <1>4, FS_Interval
    <3> QED BY <3>1, <3>2, FS_Subset
  <2>2. In = [f \in ToParse \ unparsed |-> In[f]]
        /\ \A f \in ToParse \ unparsed : IsFiniteSet(In[f])
    BY <1>2, <1>6
  <2>3. UNION {In[f] : f \in ToParse \ unparsed} = Symbols
    BY DEF Symbols
  <2> HIDE DEF In
  <2> QED BY <2>1, <2>2, <2>3, FiniteUnion
<1>8. Placed(Symbols)
  <2>1. \A s \in Symbols : s[1] \in Int /\ s[2] \in Int
    BY <1>2, <1>3, <1>4, <1>5 DEF Symbol
  <2>2. ASSUME NEW r \in Symbols, NEW s \in Symbols, r[1] = s[1], r[2] = s[2]
        PROVE  r = s
    <3>1. PICK f \in ToParse \ unparsed :
              \E n \in Innermost(Touched(repo[f].nodes, repo[f].hunks)) :
                  r = Symbol(f, n)
      BY <1>3
    <3>2. PICK n \in Innermost(Touched(repo[f].nodes, repo[f].hunks)) : r = Symbol(f, n)
      BY <3>1
    <3>3. \E m \in Innermost(Touched(repo[f].nodes, repo[f].hunks)) : s = Symbol(f, m)
      BY <1>3, <2>2, <3>2 DEF Symbol
    <3>4. PICK m \in Innermost(Touched(repo[f].nodes, repo[f].hunks)) : s = Symbol(f, m)
      BY <3>3
    <3>5. n.first = m.first
      BY <2>2, <3>2, <3>4 DEF Symbol
    <3>6. /\ n \in repo[f].nodes /\ m \in repo[f].nodes
          /\ n.first \in Nat /\ n.last \in Nat /\ m.first \in Nat /\ m.last \in Nat
          /\ Nested(repo[f].nodes)
      BY <1>2, <1>4, <1>5
    <3>7. n = m
      BY <3>5, <3>6 DEF Nested, Inside
    <3> QED BY <3>2, <3>4, <3>7
  <2> QED BY <1>7, <2>1, <2>2 DEF Placed
<1>9. Range(symbols) = Symbols /\ Len(symbols) \in Nat /\ DOMAIN symbols = 1..Len(symbols)
  BY <1>1, <1>8, SortedHolds
<1> QED BY <1>1, <1>2, <1>3, <1>8, <1>9

LEMMA ReportHolds ==
    ASSUME MInv, at = "done"
    PROVE  /\ \A i \in DOMAIN map.symbols :
                 /\ i \in DOMAIN symbols
                 /\ map.symbols[i].symbol = symbols[i]
                 /\ map.symbols[i].references = References(symbols[i])
           /\ Len(map.importers) <= MaxImporters
           /\ map.tests \in Seq(TestLines) /\ Len(map.tests) <= MaxTests
           /\ Len(map.tests) = Min({MaxTests, Cardinality(TestFiles)})
<1>1. map = Reported
  BY DEF MInv
<1>2. {MaxSymbols, MaxRefs, MaxImporters, MaxTests} \subseteq Nat
  BY LimitsAssumption
<1> DEFINE entry(i) == [symbol |-> symbols[i], references |-> References(symbols[i])]
           list == [i \in DOMAIN symbols |-> entry(i)]
<1>3. /\ map.symbols = Cut(list, MaxSymbols)
      /\ map.importers = Cut(Sorted(imports), MaxImporters) /\ map.tests = Tests
  BY <1>1 DEF Reported
<1>4. ASSUME NEW i \in DOMAIN map.symbols
      PROVE  /\ i \in DOMAIN symbols
             /\ map.symbols[i].symbol = symbols[i]
             /\ map.symbols[i].references = References(symbols[i])
  <2>1. DOMAIN symbols = 1..Len(symbols) /\ Len(symbols) \in Nat
    BY SymbolsPlaced
  <2>2. list \in Seq({list[k] : k \in DOMAIN symbols}) /\ DOMAIN list = DOMAIN symbols
    BY <2>1
  <2>3. i \in DOMAIN list /\ map.symbols[i] = list[i]
    <3>1. MaxSymbols \in Nat /\ i \in DOMAIN Cut(list, MaxSymbols)
      BY <1>2, <1>3
    <3>2. \E S : list \in Seq(S)
      BY <2>2
    <3> HIDE DEF list
    <3>3. PICK S : list \in Seq(S)
      BY <3>2
    <3>4. \A k \in DOMAIN Cut(list, MaxSymbols) :
              k \in DOMAIN list /\ Cut(list, MaxSymbols)[k] = list[k]
      BY <3>1, <3>3, CutHolds
    <3> QED BY <1>3, <3>1, <3>4
  <2>4. map.symbols[i] = entry(i) /\ i \in DOMAIN symbols
    BY <2>2, <2>3
  <2> QED BY <2>4
<1>5. Len(map.importers) <= MaxImporters
  <2>1. Sorted(imports) \in Seq(imports)
    BY ImportsPlaced, SortedHolds
  <2> QED BY <1>2, <1>3, <2>1, CutHolds
<1>6. map.tests = Cut(Sorted(TestLines), MaxTests)
  BY <1>3 DEF Tests, TestLines, TestFiles
<1>7. Sorted(TestLines) \in Seq(TestLines) /\ Len(Sorted(TestLines)) = Cardinality(TestFiles)
  BY TestsPlaced, SortedHolds
<1>8. /\ map.tests \in Seq(TestLines) /\ Len(map.tests) <= MaxTests
      /\ Len(map.tests) = Min({MaxTests, Cardinality(TestFiles)})
  BY <1>2, <1>6, <1>7, CutHolds
<1> QED BY <1>4, <1>5, <1>8

-----------------------------------------------------------------------------
(* What is collected and reported is of the files it is said to be of, and *)
(* within its limits, for every checkout (`build`).                        *)
THEOREM MapTyped == Spec => []TypeOK
<1>1. ASSUME MInv PROVE TypeOK
  <2>1. /\ at \in {"symbols", "scan", "done"}
        /\ scanned \in 0..Min({MaxFilesScanned, Len(repo)})
    BY <1>1 DEF MInv
  <2>2. /\ \A s \in DOMAIN symbols : symbols[s][1] \in Changed \ unparsed
        /\ unparsed \subseteq Changed
    <3>1. CASE at = "symbols"
      BY <1>1, <3>1 DEF MInv
    <3>2. CASE at # "symbols"
      <4>1. \A s \in DOMAIN symbols : symbols[s] \in Symbols
        BY <1>1, <3>2, SymbolsPlaced DEF Range
      <4>2. \A s \in Symbols : s[1] \in ToParse \ unparsed
        BY <1>1, <3>2, SymbolsPlaced DEF Symbol
      <4>3. ToParse \subseteq Changed /\ unparsed \subseteq ToParse
        BY <1>1, <3>2, SymbolsPlaced DEF Unparsed
      <4> QED BY <4>1, <4>2, <4>3
    <3> QED BY <3>1, <3>2
  <2>3. Readable \subseteq (1..scanned) \ Changed
    BY DEF Readable
  <2>4. \A ref \in mentions :
           ref[1] \in (1..scanned) \ Changed /\ repo[ref[1]].mentions[ref[2]] = ref[3]
    BY <1>1, <2>3, MentionsPlaced
  <2>5. \A ref \in imports :
           ref[1] \in (1..scanned) \ Changed /\ ref[2] \in DOMAIN repo[ref[1]].imports
    BY <1>1, <2>3, ImportsPlaced
  <2>6. /\ Len(map.importers) <= MaxImporters /\ Len(map.tests) <= MaxTests
        /\ \A s \in DOMAIN map.symbols : Len(map.symbols[s].references) <= MaxRefs
    <3>1. CASE at # "done"
      <4>1. map = Empty
        BY <1>1, <3>1 DEF MInv
      <4> QED BY <4>1, LimitsAssumption DEF Empty
    <3>2. CASE at = "done"
      <4>1. \A symbol : Len(References(symbol)) <= MaxRefs
        <5> SUFFICES ASSUME NEW symbol PROVE Len(References(symbol)) <= MaxRefs
          OBVIOUS
        <5>1. References(symbol) = Cut(Sorted(MentionsOf(Name(symbol))), MaxRefs)
          BY DEF References, MentionsOf
        <5>2. Sorted(MentionsOf(Name(symbol))) \in Seq(MentionsOf(Name(symbol)))
          BY <1>1, MentionsPlaced, SortedHolds
        <5> QED BY <5>1, <5>2, CutHolds, LimitsAssumption
      <4> QED BY <1>1, <3>2, <4>1, ReportHolds
    <3> QED BY <3>1, <3>2
  <2> QED BY <2>1, <2>2, <2>4, <2>5, <2>6 DEF TypeOK
<1> QED BY <1>1, MapInductive, PTL

(* In every checkout exactly the files that import a changed module are    *)
(* found, but for relative imports of a package's __init__                 *)
(* (`_imports_changed`, `_touches`).                                       *)
THEOREM ImportersFound == Spec => []ImportersAreFound
<1>1. ASSUME MInv PROVE ImportersAreFound
  <2> SUFFICES ASSUME NEW f \in Readable, NEW i \in DOMAIN repo[f].imports,
                      ~(repo[f].init /\ repo[f].imports[i].level > 0)
               PROVE  <<f, i>> \in imports <=> PythonImports(repo[f], repo[f].imports[i])
    BY DEF ImportersAreFound
  <2>1. repo[f] \in File /\ repo[f].imports[i] \in Import
    BY <1>1, ReadableFiles
  <2>2. <<f, i>> \in imports <=> ImportsChanged(repo[f], repo[f].imports[i])
    BY <1>1, ImportsPlaced
  <2>3. ImportsChanged(repo[f], repo[f].imports[i])
            <=> PythonImports(repo[f], repo[f].imports[i])
    BY <2>1, ImportsAsPython
  <2> QED BY <2>2, <2>3
<1> QED BY <1>1, MapInductive, PTL

(* A symbol without references is mentioned in no scanned file that        *)
(* imports what is changed, with the same exception, however many symbols, *)
(* files and references there are (`build`, `ChangeMap.render`).           *)
THEOREM NoReferencesNoMentions == Spec => []NoReferencesMeansNone
<1>1. ASSUME MInv PROVE NoReferencesMeansNone
  <2> SUFFICES ASSUME NEW s \in DOMAIN map.symbols,
                      map.symbols[s].references = <<>>, MaxRefs > 0,
                      NEW f \in Readable,
                      Last(map.symbols[s].symbol[4]) \in Range(repo[f].mentions),
                      NEW import \in Range(repo[f].imports),
                      PythonImports(repo[f], import),
                      ~(repo[f].init /\ import.level > 0)
               PROVE  FALSE
    BY DEF NoReferencesMeansNone
  <2>1. at = "done"
    <3>1. DOMAIN Empty.symbols = {}
      BY DEF Empty
    <3> QED BY <1>1, <3>1 DEF MInv
  <2>2. /\ s \in DOMAIN symbols /\ map.symbols[s].symbol = symbols[s]
        /\ map.symbols[s].references = References(symbols[s])
    BY <1>1, <2>1, ReportHolds
  <2> DEFINE name == Name(symbols[s])
  <2>3. name \in SymbolNames /\ name = Last(map.symbols[s].symbol[4])
    BY <2>2 DEF SymbolNames, Name
  <2>4. PICK k \in DOMAIN repo[f].mentions : repo[f].mentions[k] = name
    BY <2>3 DEF Range
  <2>5. PICK i \in DOMAIN repo[f].imports : repo[f].imports[i] = import
    BY DEF Range
  <2>6. repo[f] \in File /\ import \in Import
    BY <1>1, <2>5, ReadableFiles
  <2>7. ImportsChanged(repo[f], import)
    BY <2>6, ImportsAsPython
  <2>8. <<f, i>> \in imports
    BY <1>1, <2>5, <2>7, ImportsPlaced
  <2>9. f \in Importing
    BY <2>8 DEF Importing
  <2>10. <<f, k, name>> \in MentionsOf(name)
    BY <1>1, <2>3, <2>4, <2>9, MentionsPlaced DEF MentionsOf
  <2> HIDE DEF name
  <2>11. /\ Placed(MentionsOf(name)) /\ Sorted(MentionsOf(name)) \in Seq(MentionsOf(name))
         /\ Len(Sorted(MentionsOf(name))) = Cardinality(MentionsOf(name))
         /\ Cardinality(MentionsOf(name)) \in Nat
    BY <1>1, MentionsPlaced, SortedHolds
  <2>12. Cardinality(MentionsOf(name)) # 0
    BY <2>10, <2>11, FS_EmptySet DEF Placed
  <2>13. References(symbols[s]) = Cut(Sorted(MentionsOf(name)), MaxRefs)
    BY DEF References, MentionsOf, name
  <2>14. Len(References(symbols[s]))
             = Min({MaxRefs, Cardinality(MentionsOf(name))})
    BY <2>11, <2>13, CutHolds, LimitsAssumption
  <2>15. Len(References(symbols[s])) # 0
    BY <2>11, <2>12, <2>14, Smaller, LimitsAssumption
  <2> QED BY <2>2, <2>15
<1> QED BY <1>1, MapInductive, PTL

(* No symbol is inside another, in any file whose definitions are nested   *)
(* as Python's are (`_intersecting`).                                      *)
THEOREM SymbolsApart == Spec => []SymbolsAreApart
<1>1. ASSUME MInv PROVE SymbolsAreApart
  <2>1. CASE at = "symbols"
    BY <1>1, <2>1 DEF MInv, SymbolsAreApart, Range
  <2>2. CASE at # "symbols"
    <3> SUFFICES ASSUME NEW s \in Symbols, NEW t \in Symbols, s # t, s[1] = t[1]
                 PROVE  (s[2]..s[3]) \cap (t[2]..t[3]) = {}
      BY <1>1, <2>2, SymbolsPlaced DEF SymbolsAreApart
    <3>1. PICK f \in ToParse \ unparsed :
              \E n \in Innermost(Touched(repo[f].nodes, repo[f].hunks)) :
                  s = Symbol(f, n)
      BY <1>1, <2>2, SymbolsPlaced
    <3>2. PICK n \in Innermost(Touched(repo[f].nodes, repo[f].hunks)) : s = Symbol(f, n)
      BY <3>1
    <3>3. \E m \in Innermost(Touched(repo[f].nodes, repo[f].hunks)) : t = Symbol(f, m)
      BY <1>1, <2>2, <3>2, SymbolsPlaced DEF Symbol
    <3>4. PICK m \in Innermost(Touched(repo[f].nodes, repo[f].hunks)) : t = Symbol(f, m)
      BY <3>3
    <3>5. /\ f \in DOMAIN repo /\ Nested(repo[f].nodes)
          /\ repo[f].nodes \in SUBSET Node
      BY <1>1, <2>2, SymbolsPlaced, Checkout DEF Changed, File
    <3>6. n \in repo[f].nodes /\ m \in repo[f].nodes
          /\ n.first \in Nat /\ n.last \in Nat /\ m.first \in Nat /\ m.last \in Nat
      BY <3>5 DEF Innermost, Touched, Node
    <3>7. n # m /\ ~Inside(n, m) /\ ~Inside(m, n)
      BY <3>2, <3>4 DEF Innermost
    <3>8. m.last < n.first \/ n.last < m.first
      BY <3>5, <3>6, <3>7 DEF Nested
    <3> QED BY <3>2, <3>4, <3>6, <3>8 DEF Symbol
  <2> QED BY <2>1, <2>2
<1> QED BY <1>1, MapInductive, PTL

(* Every changed line of a definition is in a symbol, or is of a file that *)
(* is named as unparsed, or beside a changed definition, or in a block     *)
(* (`_intersecting`).                                                      *)
THEOREM ChangedLinesNamed == Spec => []ChangedLinesAreNamed
<1>1. ASSUME MInv PROVE ChangedLinesAreNamed
  <2> SUFFICES ASSUME at # "symbols", NEW f \in Changed \ unparsed,
                      NEW line \in repo[f].hunks, ~Hidden(f, line),
                      NEW node \in repo[f].nodes,
                      node.defines, line \in node.first..node.last
               PROVE  \E s \in Range(symbols) : s[1] = f /\ line \in s[2]..s[3]
    BY DEF ChangedLinesAreNamed
  <2> DEFINE nodes == repo[f].nodes
             touched == Touched(nodes, repo[f].hunks)
  <2>1. /\ Nested(nodes) /\ nodes \in SUBSET Node /\ repo[f].hunks \in SUBSET Nat
    BY <1>1, Checkout DEF Changed, File
  <2>2. \A m \in nodes : m.first \in Nat /\ m.last \in Nat
    BY <2>1 DEF Node
  <2>3. node \in touched
    <3> SUFFICES ASSUME NEW m \in nodes, m = node \/ Inside(node, m)
                 PROVE  m.defines /\ Overlaps(m, repo[f].hunks)
      BY DEF Touched
    <3>1. line \in m.first..m.last
      BY <2>2 DEF Inside
    <3> QED BY <3>1 DEF Hidden, Overlaps
  <2>4. node \in Innermost(touched)
    <3> SUFFICES ASSUME NEW m \in touched, Inside(m, node) PROVE FALSE
      BY <2>3 DEF Innermost
    <3>1. m \in nodes /\ m.defines /\ Overlaps(m, repo[f].hunks)
      BY DEF Touched
    <3> QED BY <3>1 DEF Hidden
  <2>5. f \in ToParse \ unparsed
    BY DEF ToParse
  <2>6. Symbol(f, node) \in Symbols
    BY <1>1, <2>4, <2>5, SymbolsPlaced
  <2> QED BY <1>1, <2>6, SymbolsPlaced DEF Symbol
<1> QED BY <1>1, MapInductive, PTL

(* Every test file that imports what is changed is reported, up to the     *)
(* limit on tests and whatever the limit on importers (`build`).           *)
THEOREM TestsReported == Spec => []TestsAreReported
<1>1. ASSUME MInv PROVE TestsAreReported
  <2> SUFFICES ASSUME at = "done"
               PROVE  LET tests == {f \in Readable : repo[f].test /\ f \in Importing}
                      IN /\ Len(map.tests) = Min({MaxTests, Cardinality(tests)})
                         /\ \A t \in Range(map.tests) : t[1] \in tests
    BY DEF TestsAreReported
  <2>1. {f \in Readable : repo[f].test /\ f \in Importing} = TestFiles
    BY <1>1, ImportsPlaced DEF TestFiles
  <2>2. /\ map.tests \in Seq(TestLines)
        /\ Len(map.tests) = Min({MaxTests, Cardinality(TestFiles)})
    BY <1>1, ReportHolds
  <2>3. \A t \in Range(map.tests) : t[1] \in TestFiles
    BY <2>2 DEF Range, TestLines
  <2> QED BY <2>1, <2>2, <2>3
<1> QED BY <1>1, MapInductive, PTL
=============================================================================
