----------------------------- MODULE Linker_proofs -----------------------------
(***************************************************************************)
(* The linker's counters and pointers are exact for every command line,    *)
(* whatever the object files and libraries define and import; the search   *)
(* of the libraries links what is needed and nothing else; what is linked  *)
(* is loaded, or skipped; and the interruptors are listed and called.      *)
(***************************************************************************)
EXTENDS Linker, FiniteSetTheorems, SequenceTheorems, TLAPS

SymInv == TypeSymbols /\ Counted /\ ExpCurrent
IInv == SymInv /\ TypeControl

-----------------------------------------------------------------------------
(* Facts about the table.                                                  *)

\* The kinds of entry are different from each other.
LEMMA Kinds == Unresolved # Absent /\ Absent \notin Definer /\ Unresolved \notin Definer
BY LinkerAssumption DEF Definer

\* The sets the counters count are finite, and the imports' numbers are 1 .. Len.
LEMMA Finite ==
    ASSUME TypeSymbols
    PROVE  /\ IsFiniteSet(Entries) /\ IsFiniteSet(OpenImports)
           /\ \A n \in Names : IsFiniteSet(ImpList(n))
           /\ DOMAIN imports = 1 .. Len(imports) /\ Len(imports) \in Nat
           /\ \A i \in DOMAIN imports : imports[i] \in Import
<1>1. DOMAIN imports = 1 .. Len(imports) /\ Len(imports) \in Nat
  BY LenProperties DEF TypeSymbols
<1>2. IsFiniteSet(1 .. Len(imports))
  BY <1>1, FS_Interval
<1>3. Entries \in SUBSET Names /\ OpenImports \in SUBSET (1 .. Len(imports))
      /\ \A n \in Names : ImpList(n) \in SUBSET (1 .. Len(imports))
  BY <1>1 DEF Entries, OpenImports, ImpList
<1>4. IsFiniteSet(Entries)
  BY <1>3, FS_Subset, LinkerAssumption
<1>5. IsFiniteSet(OpenImports) /\ \A n \in Names : IsFiniteSet(ImpList(n))
  BY <1>2, <1>3, FS_Subset
<1>6. \A i \in DOMAIN imports : imports[i] \in Import
  BY <1>1, ElementOfSeq DEF TypeSymbols
<1> QED
  BY <1>1, <1>4, <1>5, <1>6

\* An import's name is in the table.
LEMMA Named ==
    ASSUME SymInv, NEW i \in DOMAIN imports
    PROVE  imports[i].name \in Names /\ table[imports[i].name] # Absent
BY Finite, Kinds DEF SymInv, ExpCurrent, Import

-----------------------------------------------------------------------------
(* One lemma for each way the table changes.                               *)

\* InsertImport keeps the table exact.
LEMMA EnterImportStep ==
    ASSUME SymInv, NEW n \in Names, NEW owner \in Definer, EnterImport(n, owner)
    PROVE  SymInv'
<1> DEFINE exp == IF table[n] = Absent THEN Unresolved ELSE table[n]
           new == [name |-> n, owner |-> owner, exp |-> exp]
           k == Len(imports) + 1
<1>1. new \in Import /\ exp # Absent
  BY Kinds DEF SymInv, TypeSymbols, Import, Definer
<1>2. /\ table' = [table EXCEPT ![n] = exp]
      /\ expCount' = IF table[n] = Absent THEN expCount + 1 ELSE expCount
      /\ imports' = Append(imports, new)
      /\ impCount' = [impCount EXCEPT ![n] = @ + 1]
      /\ impOpen' = IF exp = Unresolved THEN impOpen + 1 ELSE impOpen
  BY DEF EnterImport
<1>3. /\ imports' \in Seq(Import) /\ DOMAIN imports' = 1 .. k /\ k \in Nat
      /\ DOMAIN imports = 1 .. Len(imports) /\ Len(imports) \in Nat
      /\ imports'[k] = new /\ \A i \in DOMAIN imports : imports'[i] = imports[i]
  BY <1>1, <1>2, AppendProperties, LenProperties DEF SymInv, TypeSymbols
<1>4. TypeSymbols'
  BY <1>1, <1>2, <1>3, Kinds DEF SymInv, TypeSymbols, Import
<1>5. table'[n] = exp /\ \A x \in Names \ {n} : table'[x] = table[x]
  BY <1>2 DEF SymInv, TypeSymbols
<1>6. \A i \in DOMAIN imports : /\ imports[i].name \in Names
                                /\ table'[imports[i].name] = table[imports[i].name]
  BY <1>5, Named
<1>7. ExpCurrent'
  <2> SUFFICES ASSUME NEW i \in DOMAIN imports' PROVE imports'[i].exp = table'[imports'[i].name]
    BY DEF ExpCurrent
  <2>1. CASE i = k
    BY <2>1, <1>3, <1>5
  <2>2. CASE i # k
    BY <2>2, <1>3, <1>6 DEF SymInv, ExpCurrent
  <2> QED
    BY <2>1, <2>2
<1>8. expCount' = Cardinality(Entries')
  <2>1. Entries' = Entries \cup {n}
    BY <1>1, <1>5 DEF Entries
  <2>2. n \in Entries <=> table[n] # Absent
    BY DEF Entries
  <2> QED
    BY <2>1, <2>2, <1>2, Finite, FS_AddElement DEF SymInv, Counted
<1>9. ASSUME NEW x \in Names PROVE impCount'[x] = Cardinality(ImpList(x)')
  <2>1. CASE x = n
    <3>1. ImpList(x)' = ImpList(x) \cup {k} /\ k \notin ImpList(x)
      BY <2>1, <1>3 DEF ImpList
    <3>2. Cardinality(ImpList(x)') = Cardinality(ImpList(x)) + 1
      BY <3>1, Finite, FS_AddElement DEF SymInv
    <3>3. impCount'[x] = impCount[x] + 1
      BY <2>1, <1>2 DEF SymInv, TypeSymbols
    <3> QED
      BY <3>2, <3>3 DEF SymInv, Counted
  <2>2. CASE x # n
    <3>1. ImpList(x)' = ImpList(x)
      BY <2>2, <1>3 DEF ImpList
    <3> QED
      BY <3>1, <2>2, <1>2 DEF SymInv, Counted, TypeSymbols
  <2> QED
    BY <2>1, <2>2
<1>10. impOpen' = Cardinality(OpenImports')
  <2>1. CASE exp = Unresolved
    <3>1. OpenImports' = OpenImports \cup {k} /\ k \notin OpenImports
      BY <2>1, <1>3, <1>5, <1>6 DEF OpenImports
    <3> QED
      BY <3>1, <2>1, <1>2, Finite, FS_AddElement DEF SymInv, Counted
  <2>2. CASE exp # Unresolved
    <3>1. OpenImports' = OpenImports
      BY <2>2, <1>3, <1>5, <1>6 DEF OpenImports
    <3> QED
      BY <3>1, <2>2, <1>2 DEF SymInv, Counted
  <2> QED
    BY <2>1, <2>2
<1> QED
  BY <1>4, <1>7, <1>8, <1>9, <1>10 DEF SymInv, Counted

\* An export of a new name keeps the table exact: no import has that name.
LEMMA NewNameStep ==
    ASSUME SymInv, NEW n \in Names, NEW definer \in Definer, NewName(n, definer)
    PROVE  SymInv'
<1>1. /\ table[n] = Absent /\ table' = [table EXCEPT ![n] = definer] /\ expCount' = expCount + 1
      /\ impCount' = impCount /\ imports' = imports /\ impOpen' = impOpen
  BY DEF NewName
<1>2. TypeSymbols'
  BY <1>1 DEF SymInv, TypeSymbols
<1>3. \A i \in DOMAIN imports : table'[imports[i].name] = table[imports[i].name]
  BY <1>1, Named DEF SymInv, TypeSymbols
<1>4. ExpCurrent' /\ OpenImports' = OpenImports
  BY <1>1, <1>3 DEF SymInv, ExpCurrent, OpenImports
<1>5. Entries' = Entries \cup {n} /\ n \notin Entries
  BY <1>1, Kinds DEF Entries, SymInv, TypeSymbols
<1>6. \A x \in Names : ImpList(x)' = ImpList(x)
  BY <1>1 DEF ImpList
<1>7. Counted'
  BY <1>1, <1>4, <1>5, <1>6, Finite, FS_AddElement DEF SymInv, Counted
<1> QED
  BY <1>2, <1>4, <1>7 DEF SymInv

\* An export in place of a dummy keeps the table exact: all imports of the
\* name were open, and none of them is any more.
LEMMA ResolveStep ==
    ASSUME SymInv, NEW n \in Names, NEW definer \in Definer, Resolve(n, definer)
    PROVE  SymInv'
<1> DEFINE Moved(i) == IF imports[i].name # n THEN imports[i]
                       ELSE [name |-> n, owner |-> imports[i].owner, exp |-> definer]
<1>1. /\ table[n] = Unresolved /\ table' = [table EXCEPT ![n] = definer]
      /\ impOpen' = impOpen - impCount[n]
      /\ imports' = [i \in DOMAIN imports |-> Moved(i)]
      /\ impCount' = impCount /\ expCount' = expCount
  BY DEF Resolve, IsUnresolved
<1>2. /\ DOMAIN imports' = DOMAIN imports /\ DOMAIN imports = 1 .. Len(imports)
      /\ Len(imports) \in Nat
      /\ \A i \in DOMAIN imports : imports[i] \in Import /\ imports'[i] = Moved(i)
  BY <1>1, Finite DEF SymInv
<1>3. \A i \in DOMAIN imports : /\ Moved(i) \in Import
                                /\ imports'[i].name = imports[i].name
                                /\ imports'[i].exp = IF imports[i].name = n THEN definer ELSE imports[i].exp
  BY <1>2 DEF Import
<1>4. imports' \in Seq(Import)
  <2> HIDE DEF Moved
  <2> QED
    BY <1>1, <1>2, <1>3, IsASeq
<1>5. table'[n] = definer /\ \A x \in Names \ {n} : table'[x] = table[x]
  BY <1>1 DEF SymInv, TypeSymbols
<1>6. ExpCurrent'
  <2> SUFFICES ASSUME NEW i \in DOMAIN imports PROVE imports'[i].exp = table'[imports'[i].name]
    BY <1>2 DEF ExpCurrent
  <2> QED
    BY <1>3, <1>5, Named DEF SymInv, ExpCurrent
<1>7. Entries' = Entries
  BY <1>1, <1>5, Kinds DEF Entries
<1>8. \A x \in Names : ImpList(x)' = ImpList(x)
  BY <1>2, <1>3 DEF ImpList
<1>9. OpenImports' = OpenImports \ ImpList(n) /\ OpenImports \cap ImpList(n) = ImpList(n)
  <2>1. \A i \in DOMAIN imports :
           table'[imports'[i].name] = Unresolved
              <=> table[imports[i].name] = Unresolved /\ imports[i].name # n
    BY <1>3, <1>5, Named, Kinds
  <2> QED
    BY <2>1, <1>1, <1>2 DEF OpenImports, ImpList
<1>10. impOpen' = Cardinality(OpenImports')
  <2>1. Cardinality(OpenImports \ ImpList(n))
           = Cardinality(OpenImports) - Cardinality(OpenImports \cap ImpList(n))
    BY Finite, FS_Difference DEF SymInv
  <2> QED
    BY <2>1, <1>1, <1>9 DEF SymInv, Counted
<1>11. impOpen' \in Nat
  <2>1. IsFiniteSet(OpenImports \ ImpList(n))
    BY Finite, FS_Difference DEF SymInv
  <2>2. Cardinality(OpenImports \ ImpList(n)) \in Nat
    BY <2>1, FS_CardinalityType
  <2> QED
    BY <2>2, <1>9, <1>10
<1>12. TypeSymbols'
  BY <1>1, <1>4, <1>11 DEF SymInv, TypeSymbols
<1> QED
  BY <1>1, <1>6, <1>7, <1>8, <1>10, <1>12 DEF SymInv, Counted

\* Nothing else changes it.
LEMMA SameStep ==
    ASSUME SymInv, UNCHANGED <<table, impCount, imports, impOpen, expCount>>
    PROVE  SymInv'
BY DEF SymInv, TypeSymbols, Counted, ExpCurrent, Entries, ImpList, OpenImports

\* InsertExport in all its cases.
LEMMA EnterExportStep ==
    ASSUME SymInv, NEW n \in Names, NEW definer \in Definer, EnterExport(n, definer)
    PROVE  SymInv'
BY NewNameStep, ResolveStep, SameStep DEF EnterExport, Duplicate

-----------------------------------------------------------------------------
(* The invariant is inductive.                                             *)

\* What the program holds is of its type.
LEMMA ProgramFacts ==
    ASSUME TypeControl
    PROVE  /\ \A i \in DOMAIN prog.items : /\ prog.items[i] \in Item
                                           /\ prog.items[i].name \in Names
                                           /\ prog.items[i].mods \in Seq(Modules)
                                           /\ \A k \in DOMAIN prog.items[i].mods :
                                                 prog.items[i].mods[k] \in Modules
           /\ DOMAIN prog.items = 1 .. Len(prog.items)
           /\ \A i \in DOMAIN prog.items :
                 prog.items[i].kind = "obj" => prog.items[i].mods[1] \in Modules
           /\ \A m \in Modules : \A k \in 1 .. Len(prog.exports[m]) : prog.exports[m][k] \in Names
           /\ {Label, Count, Dispatcher} \subseteq Names
           /\ Linker \in Definer /\ Modules \subseteq Definer
<1>1. /\ prog.items \in Seq(Item) /\ prog.exports \in [Modules -> Seq(Names)]
      /\ \A i \in DOMAIN prog.items :
            prog.items[i].kind = "obj" => prog.items[i].mods # <<>>
  BY LinkerAssumption DEF TypeControl
<1>2. DOMAIN prog.items = 1 .. Len(prog.items)
  BY <1>1, LenProperties
<1>3. ASSUME NEW i \in DOMAIN prog.items
      PROVE  /\ prog.items[i] \in Item /\ prog.items[i].name \in Names
             /\ prog.items[i].mods \in Seq(Modules)
             /\ \A k \in DOMAIN prog.items[i].mods : prog.items[i].mods[k] \in Modules
             /\ prog.items[i].mods # <<>> => prog.items[i].mods[1] \in Modules
  <2>1. prog.items[i] \in Item
    BY <1>1, <1>2, ElementOfSeq
  <2>2. prog.items[i].name \in Names /\ prog.items[i].mods \in Seq(Modules)
    BY <2>1 DEF Item
  <2>3. \A k \in 1 .. Len(prog.items[i].mods) : prog.items[i].mods[k] \in Modules
    BY <2>2, ElementOfSeq
  <2>4. DOMAIN prog.items[i].mods = 1 .. Len(prog.items[i].mods)
        /\ Len(prog.items[i].mods) \in Nat
        /\ (prog.items[i].mods # <<>> => 1 \in 1 .. Len(prog.items[i].mods))
    BY <2>2, LenProperties, EmptySeq
  <2> QED
    BY <2>1, <2>2, <2>3, <2>4
<1>4. \A m \in Modules : \A k \in 1 .. Len(prog.exports[m]) : prog.exports[m][k] \in Names
  BY <1>1, ElementOfSeq
<1> QED
  BY <1>1, <1>2, <1>3, <1>4, LinkerAssumption DEF Definer

\* So is each import of a module, the forced ones included.
LEMMA ImportNames ==
    ASSUME TypeControl, NEW m \in Modules, NEW k \in 1 .. Len(Imports(m))
    PROVE  Imports(m)[k] \in Names
<1> DEFINE c == Cardinality({x \in prog.condes : x[1] = m})
           forced == [j \in 1 .. c |-> Dispatcher]
<1>1. prog.imports[m] \in Seq(Names) /\ Dispatcher \in Names
  BY LinkerAssumption DEF TypeControl
<1>2. CASE c \in Nat
  <2>1. forced \in Seq(Names)
    BY <1>1, <1>2, IsASeq
  <2>2. Imports(m) \in Seq(Names)
    BY <1>1, <2>1, ConcatProperties DEF Imports
  <2> QED
    BY <2>2, ElementOfSeq
<1>3. c \in Nat
  <2>1. IsFiniteSet(prog.condes) /\ {x \in prog.condes : x[1] = m} \in SUBSET prog.condes
    BY LinkerAssumption DEF TypeControl
  <2>2. IsFiniteSet({x \in prog.condes : x[1] = m})
    BY <2>1, FS_Subset
  <2> QED
    BY <2>2, FS_CardinalityType
<1> QED
  BY <1>2, <1>3

\* The empty linker satisfies the invariant.
LEMMA InitIInv == Init => IInv
<1> SUFFICES ASSUME Init PROVE SymInv /\ TypeControl
  BY DEF IInv
<1>1. imports = <<>> /\ DOMAIN imports = {} /\ <<>> \in Seq(Import)
      /\ <<>> \in Seq(Modules \X Names) /\ <<>> \in Seq(Modules) /\ <<>> \in Seq(Seq(Modules))
  BY EmptySeq DEF Init
<1>2. TypeSymbols
  BY <1>1 DEF Init, TypeSymbols
<1>3. Entries = {} /\ OpenImports = {} /\ \A n \in Names : ImpList(n) = {}
  BY <1>1 DEF Init, Entries, OpenImports, ImpList
<1>4. Counted
  BY <1>3, FS_EmptySet DEF Init, Counted
<1>5. ExpCurrent
  BY <1>1 DEF ExpCurrent
<1>6. (CHOOSE m \in Modules : TRUE) \in Modules
  BY LinkerAssumption
<1>7. TypeControl
  <2> DEFINE m0 == CHOOSE m \in Modules : TRUE
  <2>1. ins = [m |-> m0, e |-> 1, i |-> 1, back |-> "input"]
    BY DEF Init
  <2>2. ins \in [m : Modules, e : Nat \ {0}, i : Nat \ {0}, back : {"input", "scan"}]
    <3>1. m0 \in Modules
      BY <1>6
    <3> HIDE DEF m0
    <3> QED
      BY <2>1, <3>1
  <2> QED
    BY <1>1, <2>2 DEF Init, TypeControl
<1> QED
  BY <1>2, <1>4, <1>5, <1>7 DEF SymInv

\* The command line's items.
LEMMA CommandLineStep ==
    ASSUME IInv, CommandLine
    PROVE  IInv'
<1>1. SymInv /\ TypeControl
  BY DEF IInv
<1>2. ASSUME NEW kind \in {"obj", "lib", "start", "end", "import", "define"}, Take(kind)
      PROVE  /\ Item1 \in Item /\ Item1.name \in Names /\ Item1.mods \in Seq(Modules)
             /\ Item1.kind = "obj" => Item1.mods[1] \in Modules
             /\ Item1.kind = kind /\ next' \in Nat \ {0}
  BY <1>1, <1>2, ProgramFacts DEF Take, Item1, TypeControl
<1>3. CASE ForceImport
  <2>1. SymInv'
    BY <1>1, <1>2, <1>3, ProgramFacts, EnterImportStep DEF ForceImport
  <2> QED
    BY <1>1, <1>2, <1>3, <2>1 DEF IInv, ForceImport, TypeControl, libs
<1>4. CASE DefineSymbol
  <2>1. SymInv'
    BY <1>1, <1>2, <1>4, ProgramFacts, EnterExportStep DEF DefineSymbol
  <2> QED
    BY <1>1, <1>2, <1>4, <2>1 DEF IInv, DefineSymbol, TypeControl, libs
<1>5. CASE ObjAdd
  <2>1. SymInv'
    BY <1>1, <1>5, SameStep DEF ObjAdd, symbols
  <2>2. Take("obj")
    BY <1>5 DEF ObjAdd
  <2>3. Item1.mods[1] \in Modules /\ next' \in Nat \ {0}
    BY <1>2, <2>2
  <2>4. /\ ref' = ref \cup {Item1.mods[1]} /\ pc' = "insert"
        /\ ins' = [m |-> Item1.mods[1], e |-> 1, i |-> 1, back |-> "input"]
        /\ UNCHANGED <<prog, condes, loaded, grouping, open, lib, mod, additions>>
    BY <1>5 DEF ObjAdd, Insert, symbols, libs
  <2>5. ins' \in [m : Modules, e : Nat \ {0}, i : Nat \ {0}, back : {"input", "scan"}]
    BY <2>3, <2>4
  <2> QED
    BY <1>1, <2>1, <2>3, <2>4, <2>5 DEF IInv, TypeControl
<1>6. CASE LibAdd
  <2>1. SymInv'
    BY <1>1, <1>6, SameStep DEF LibAdd, symbols
  <2>2. Take("lib")
    BY <1>6 DEF LibAdd
  <2>3. Item1.mods \in Seq(Modules) /\ next' \in Nat \ {0}
    BY <1>2, <2>2
  <2>4. open \in Seq(Seq(Modules)) /\ open' = Append(open, Item1.mods)
    BY <1>1, <1>6 DEF LibAdd, TypeControl
  <2>5. open' \in Seq(Seq(Modules))
    BY <2>3, <2>4, AppendProperties
  <2>6. /\ pc' \in {pc, "scan"} /\ lib' \in {lib, 1} /\ mod' \in {mod, 1}
        /\ additions' \in {additions, FALSE}
        /\ UNCHANGED <<prog, ins, condes, ref, loaded, grouping>>
    BY <1>6 DEF LibAdd, StartScan, symbols
  <2>7. /\ lib' \in Nat \ {0} /\ mod' \in Nat \ {0} /\ additions' \in BOOLEAN
    <3>1. additions \in BOOLEAN /\ lib \in Nat \ {0} /\ mod \in Nat \ {0}
      BY <1>1 DEF TypeControl
    <3>2. additions' = additions \/ additions' = FALSE
      BY <2>6
    <3>3. additions' \in BOOLEAN
      BY <3>1, <3>2, Zenon
    <3>4. lib' \in Nat \ {0} /\ mod' \in Nat \ {0}
      BY <3>1, <2>6
    <3> QED
      BY <3>3, <3>4
  <2>8. UNCHANGED <<prog, ins, condes, ref, loaded, grouping>>
    BY <2>6
  <2>9. pc' \in {pc, "scan"}
    BY <2>6
  <2> QED
    BY <1>1, <2>1, <2>3, <2>5, <2>7, <2>8, <2>9 DEF IInv, TypeControl
<1>7. CASE LibStartGroup
  <2>1. SymInv'
    BY <1>1, <1>7, SameStep DEF LibStartGroup, symbols
  <2>2. Take("start")
    BY <1>7 DEF LibStartGroup
  <2>3. next' \in Nat \ {0}
    BY <1>2, <2>2
  <2>4. grouping' = TRUE /\ UNCHANGED <<prog, pc, ins, condes, ref, loaded, open, lib, mod, additions>>
    BY <1>7 DEF LibStartGroup, symbols
  <2> QED
    BY <1>1, <2>1, <2>3, <2>4 DEF IInv, TypeControl
<1>8. CASE LibEndGroup
  <2>1. SymInv'
    BY <1>1, <1>8, SameStep DEF LibEndGroup, symbols
  <2>2. Take("end")
    BY <1>8 DEF LibEndGroup
  <2>3. next' \in Nat \ {0}
    BY <1>2, <2>2
  <2>4. /\ pc' = "scan" /\ lib' = 1 /\ mod' = 1 /\ additions' = FALSE
        /\ UNCHANGED <<prog, ins, condes, ref, loaded, grouping, open>>
    BY <1>8 DEF LibEndGroup, StartScan, symbols
  <2>5. lib' \in Nat \ {0} /\ mod' \in Nat \ {0} /\ additions' \in BOOLEAN
    <3>1. additions' \in BOOLEAN
      BY <2>4, Zenon
    <3>2. lib' \in Nat \ {0} /\ mod' \in Nat \ {0}
      BY <2>4
    <3> QED
      BY <3>1, <3>2
  <2>6. pc' = "scan" /\ UNCHANGED <<prog, ins, condes, ref, loaded, grouping, open>>
    BY <2>4
  <2> QED
    BY <1>1, <2>1, <2>3, <2>5, <2>6 DEF IInv, TypeControl
<1>9. CASE UsageError
  <2>1. SymInv'
    BY <1>1, <1>9, SameStep DEF UsageError, symbols
  <2>2. Take("define") \/ Take("start") \/ Take("end") \/ UNCHANGED next
    BY <1>9 DEF UsageError
  <2>3. next' \in Nat \ {0}
    BY <1>1, <1>2, <2>2 DEF TypeControl
  <2>4. /\ pc' = "error"
        /\ UNCHANGED <<prog, ins, condes, ref, loaded, grouping, open, lib, mod, additions>>
    BY <1>9 DEF UsageError, symbols, libs
  <2> QED
    BY <1>1, <2>1, <2>3, <2>4 DEF IInv, TypeControl
<1> QED
  BY <1>3, <1>4, <1>5, <1>6, <1>7, <1>8, <1>9 DEF CommandLine

\* A module's globals.
LEMMA InsertGlobalsStep ==
    ASSUME IInv, InsertGlobals
    PROVE  IInv'
<1>1. SymInv /\ TypeControl
  BY DEF IInv
<1>2. /\ ins.m \in Modules /\ ins.e \in Nat \ {0} /\ ins.i \in Nat \ {0}
      /\ ins.back \in {"input", "scan"} /\ ins.m \in Definer
  BY <1>1, ProgramFacts DEF TypeControl
<1>3. CASE InsertExport
  <2> DEFINE n == prog.exports[ins.m][ins.e]
  <2>1. ins.e <= Len(prog.exports[ins.m]) /\ Len(prog.exports[ins.m]) \in Nat
    BY <1>1, <1>2, <1>3, LinkerAssumption, LenProperties DEF InsertExport, TypeControl
  <2>2. n \in Names
    BY <1>1, <1>2, <2>1, ProgramFacts
  <2>3. /\ EnterExport(n, ins.m)
        /\ condes' = IF <<ins.m, n>> \in prog.condes THEN Append(condes, <<ins.m, n>>) ELSE condes
        /\ ins' = [m |-> ins.m, e |-> ins.e + 1, i |-> ins.i, back |-> ins.back]
        /\ UNCHANGED <<prog, next, pc, ref, loaded, grouping, open, lib, mod, additions>>
    BY <1>3 DEF InsertExport, libs
  <2>4. SymInv'
    BY <1>1, <1>2, <2>2, <2>3, EnterExportStep
  <2>5. condes \in Seq(Modules \X Names) /\ <<ins.m, n>> \in Modules \X Names
    BY <1>1, <1>2, <2>2 DEF TypeControl
  <2>6. condes' \in Seq(Modules \X Names)
    BY <2>3, <2>5, AppendProperties
  <2>7. ins' \in [m : Modules, e : Nat \ {0}, i : Nat \ {0}, back : {"input", "scan"}]
    BY <1>2, <2>3
  <2> HIDE DEF n
  <2> QED
    BY <1>1, <2>3, <2>4, <2>6, <2>7 DEF IInv, TypeControl
<1>4. CASE InsertDuplicate
  <2>1. SymInv'
    BY <1>1, <1>4, SameStep DEF InsertDuplicate, symbols
  <2>2. /\ pc' = "error"
        /\ UNCHANGED <<prog, next, ins, condes, ref, loaded, grouping, open, lib, mod, additions>>
    BY <1>4 DEF InsertDuplicate, symbols, libs
  <2> QED
    BY <1>1, <2>1, <2>2 DEF IInv, TypeControl
<1>5. CASE InsertImport
  <2> DEFINE n == Imports(ins.m)[ins.i]
  <2>1. n \in Names
    BY <1>1, <1>2, <1>5, ImportNames DEF InsertImport
  <2>2. /\ EnterImport(n, ins.m)
        /\ ins' = [m |-> ins.m, e |-> ins.e, i |-> ins.i + 1, back |-> ins.back]
        /\ UNCHANGED <<prog, next, pc, condes, ref, loaded, grouping, open, lib, mod, additions>>
    BY <1>5 DEF InsertImport, libs
  <2>3. SymInv'
    BY <1>1, <1>2, <2>1, <2>2, EnterImportStep
  <2>4. ins' \in [m : Modules, e : Nat \ {0}, i : Nat \ {0}, back : {"input", "scan"}]
    BY <1>2, <2>2
  <2> HIDE DEF n
  <2> QED
    BY <1>1, <2>2, <2>3, <2>4 DEF IInv, TypeControl
<1>6. CASE Inserted
  <2>1. SymInv'
    BY <1>1, <1>6, SameStep DEF Inserted, symbols
  <2>2. /\ pc' = ins.back
        /\ loaded' = IF ins.back = "input" THEN Append(loaded, ins.m) ELSE loaded
        /\ UNCHANGED <<prog, next, ins, condes, ref, grouping, open, lib, mod, additions>>
    BY <1>6 DEF Inserted, symbols, libs
  <2>3. loaded \in Seq(Modules)
    BY <1>1 DEF TypeControl
  <2>4. loaded' \in Seq(Modules)
    BY <1>2, <2>2, <2>3, AppendProperties
  <2> QED
    BY <1>1, <1>2, <2>1, <2>2, <2>4 DEF IInv, TypeControl
<1> QED
  BY <1>3, <1>4, <1>5, <1>6 DEF InsertGlobals

\* The walk over the libraries, which leaves the symbols alone.
LEMMA LibResolveStep ==
    ASSUME IInv, LibResolve
    PROVE  IInv'
<1>1. SymInv /\ TypeControl
  BY DEF IInv
<1>2. SymInv'
  BY <1>1, SameStep DEF LibResolve, LibCheckExports, NextLib, EndOfPass, LoadModule, LoadLib,
                        EndOfLoad, symbols
<1>3. /\ open \in Seq(Seq(Modules)) /\ Len(open) \in Nat /\ DOMAIN open = 1 .. Len(open)
      /\ lib \in Nat \ {0} /\ mod \in Nat \ {0}
  BY <1>1, LenProperties DEF TypeControl
<1>4. ASSUME lib <= Len(open), mod <= Len(open[lib])
      PROVE  open[lib][mod] \in Modules
  <2>1. open[lib] \in Seq(Modules)
    BY <1>3, <1>4, ElementOfSeq
  <2>2. Len(open[lib]) \in Nat
    BY <2>1, LenProperties
  <2>3. mod \in 1 .. Len(open[lib])
    BY <1>3, <1>4, <2>2
  <2> QED
    BY <2>1, <2>3, ElementOfSeq
<1>5. CASE LibCheckExports
  <2> DEFINE m == open[lib][mod]
  <2>1. m \in Modules
    BY <1>4, <1>5 DEF LibCheckExports
  <2>2. \/ Insert(m, "scan") /\ additions' = TRUE
        \/ UNCHANGED <<ref, ins, pc, additions>>
    BY <1>5 DEF LibCheckExports
  <2>3. mod' = mod + 1 /\ UNCHANGED <<prog, next, condes, loaded, grouping, open, lib>>
    BY <1>5 DEF LibCheckExports, symbols
  <2>4. /\ ins' \in [m : Modules, e : Nat \ {0}, i : Nat \ {0}, back : {"input", "scan"}]
        /\ ref' \subseteq Modules /\ pc' \in {pc, "insert"} /\ additions' \in BOOLEAN
    <3>1. CASE Insert(m, "scan") /\ additions' = TRUE
      <4>1. /\ ref' = ref \cup {m} /\ pc' = "insert"
            /\ ins' = [m |-> m, e |-> 1, i |-> 1, back |-> "scan"]
        BY <3>1 DEF Insert
      <4>2. additions' \in BOOLEAN
        BY <3>1
      <4> HIDE DEF m
      <4> QED
        BY <1>1, <2>1, <4>1, <4>2 DEF TypeControl
    <3>2. CASE UNCHANGED <<ref, ins, pc, additions>>
      BY <1>1, <3>2 DEF TypeControl
    <3> QED
      BY <2>2, <3>1, <3>2
  <2>5. mod' \in Nat \ {0}
    BY <1>3, <2>3
  <2> QED
    BY <1>1, <1>2, <2>3, <2>4, <2>5 DEF IInv, TypeControl
<1>6. CASE NextLib
  <2>1. lib' \in Nat \ {0} /\ mod' \in Nat \ {0}
    BY <1>3, <1>6 DEF NextLib
  <2>2. UNCHANGED <<prog, next, pc, ins, condes, ref, loaded, grouping, open, additions>>
    BY <1>6 DEF NextLib, symbols
  <2> QED
    BY <1>1, <1>2, <2>1, <2>2 DEF IInv, TypeControl
<1>7. CASE EndOfPass
  <2>1. lib' \in Nat \ {0} /\ mod' \in Nat \ {0} /\ additions' \in BOOLEAN /\ pc' \in {"scan", "load"}
    <3>1. additions' \in BOOLEAN
      BY <1>7, Zenon DEF EndOfPass
    <3>2. lib' \in Nat \ {0} /\ mod' \in Nat \ {0} /\ pc' \in {"scan", "load"}
      BY <1>7 DEF EndOfPass
    <3> QED
      BY <3>1, <3>2
  <2>2. UNCHANGED <<prog, next, ins, condes, ref, loaded, grouping, open>>
    BY <1>7 DEF EndOfPass, symbols
  <2> QED
    BY <1>1, <1>2, <2>1, <2>2 DEF IInv, TypeControl
<1>8. CASE LoadModule
  <2>1. open[lib][mod] \in Modules
    BY <1>4, <1>8 DEF LoadModule
  <2>2. loaded \in Seq(Modules) /\ loaded' \in {loaded, Append(loaded, open[lib][mod])}
    BY <1>1, <1>8 DEF LoadModule, TypeControl
  <2>3. loaded' \in Seq(Modules)
    BY <2>1, <2>2, AppendProperties
  <2>4. mod' \in Nat \ {0}
    BY <1>3, <1>8 DEF LoadModule
  <2>5. UNCHANGED <<prog, next, pc, ins, condes, ref, grouping, open, lib, additions>>
    BY <1>8 DEF LoadModule, symbols
  <2> QED
    BY <1>1, <1>2, <2>3, <2>4, <2>5 DEF IInv, TypeControl
<1>9. CASE LoadLib
  <2> DEFINE rest == SubSeq(open, 1, lib - 1) \o SubSeq(open, lib + 1, Len(open))
  <2>1. lib <= Len(open) /\ open' \in {open, rest}
    BY <1>9 DEF LoadLib
  <2>2. SubSeq(open, 1, lib - 1) \in Seq(Seq(Modules))
    BY <1>3, <2>1, SubSeqProperties
  <2>3. SubSeq(open, lib + 1, Len(open)) \in Seq(Seq(Modules))
    BY <1>3, <2>1, SubSeqProperties
  <2>4. rest \in Seq(Seq(Modules))
    BY <2>2, <2>3, ConcatProperties
  <2>5. open' \in Seq(Seq(Modules))
    BY <1>3, <2>1, <2>4
  <2>6. lib' \in Nat \ {0} /\ mod' \in Nat \ {0}
    BY <1>3, <1>9 DEF LoadLib
  <2>7. UNCHANGED <<prog, next, pc, ins, condes, ref, loaded, grouping, additions>>
    BY <1>9 DEF LoadLib, symbols
  <2> QED
    BY <1>1, <1>2, <2>5, <2>6, <2>7 DEF IInv, TypeControl
<1>10. CASE EndOfLoad
  <2>1. open' \in Seq(Seq(Modules))
    BY <1>10, EmptySeq DEF EndOfLoad
  <2>2. lib' \in Nat \ {0} /\ mod' \in Nat \ {0} /\ grouping' \in BOOLEAN /\ pc' = "input"
    <3>1. grouping' \in BOOLEAN
      BY <1>10, Zenon DEF EndOfLoad
    <3>2. lib' \in Nat \ {0} /\ mod' \in Nat \ {0} /\ pc' = "input"
      BY <1>10 DEF EndOfLoad
    <3> QED
      BY <3>1, <3>2
  <2>3. UNCHANGED <<prog, next, ins, condes, ref, loaded, additions>>
    BY <1>10 DEF EndOfLoad, symbols
  <2> QED
    BY <1>1, <1>2, <2>1, <2>2, <2>3 DEF IInv, TypeControl
<1> QED
  BY <1>5, <1>6, <1>7, <1>8, <1>9, <1>10 DEF LibResolve

\* The end of the input, with the condes table.
LEMMA FinishStep ==
    ASSUME IInv, Finish
    PROVE  IInv'
<1>1. SymInv /\ TypeControl
  BY DEF IInv
<1>2. Label \in Names /\ Count \in Names /\ Linker \in Definer
  BY LinkerAssumption DEF Definer
<1>3. SymInv'
  <2>1. CASE InputEnds
    BY <1>1, <2>1, SameStep DEF InputEnds, symbols
  <2>2. CASE ConDesCreate
    BY <1>1, <1>2, <2>2, EnterExportStep, SameStep DEF ConDesCreate
  <2>3. CASE ConDesCount
    BY <1>1, <1>2, <2>3, EnterExportStep, SameStep DEF ConDesCount
  <2>4. CASE CheckUnresolvedImports
    BY <1>1, <2>4, SameStep DEF CheckUnresolvedImports, symbols
  <2> QED
    BY <2>1, <2>2, <2>3, <2>4 DEF Finish
<1>4. pc' \in {"condes", "count", "check", "error", "linked", "unresolved"}
  BY DEF Finish, InputEnds, ConDesCreate, ConDesCount, CheckUnresolvedImports
<1>5. UNCHANGED <<prog, next, ins, condes, ref, loaded, grouping, open, lib, mod, additions>>
  BY DEF Finish, InputEnds, ConDesCreate, ConDesCount, CheckUnresolvedImports, symbols, libs
<1> QED
  BY <1>1, <1>3, <1>4, <1>5 DEF IInv, TypeControl

\* The inductive invariant holds always: the table is exact and everything
\* has its type.
THEOREM Inductive == Spec => []IInv
<1>1. IInv /\ [Next]_vars => IInv'
  <2> SUFFICES ASSUME IInv, [Next]_vars PROVE IInv'
    OBVIOUS
  <2>1. CASE UNCHANGED vars
    <3>1. SymInv'
      BY <2>1, SameStep DEF IInv, vars, symbols
    <3> QED
      BY <2>1, <3>1 DEF IInv, TypeControl, vars, symbols, libs
  <2> QED
    BY <2>1, CommandLineStep, InsertGlobalsStep, LibResolveStep, FinishStep DEF Next
<1> QED
  BY <1>1, InitIInv, PTL DEF Spec

\* Every variable of the linker keeps its type; no index leaves its list.
THEOREM TypeCorrect == Spec => []TypeOK
<1>1. IInv => TypeOK
  BY DEF IInv, SymInv, TypeOK
<1> QED
  BY <1>1, Inductive, PTL

\* The counters of exports and open imports are exact for every input, so the
\* link fails if and only if an import is open, and the array of exports has
\* room for all of them.
THEOREM CountersExact == Spec => []Counted
<1>1. IInv => Counted
  BY DEF IInv, SymInv
<1> QED
  BY <1>1, Inductive, PTL

\* No import is ever left pointing to a freed dummy export.
THEOREM PointersCurrent == Spec => []ExpCurrent
<1>1. IInv => ExpCurrent
  BY DEF IInv, SymInv
<1> QED
  BY <1>1, Inductive, PTL

-----------------------------------------------------------------------------
(* Nothing is linked that nobody needs.                                    *)

\* Somebody else's import is bound to module m.
Needed(m) == \E i \in DOMAIN imports : imports[i].exp = m /\ imports[i].owner # m

\* Somebody else waits for one of m's exports from number e on.
Awaited(m, e) ==
    \E k \in DOMAIN prog.exports[m] : \E i \in DOMAIN imports :
        /\ k >= e /\ imports[i].name = prog.exports[m][k]
        /\ imports[i].exp = Unresolved /\ imports[i].owner # m

Owners == \A i \in DOMAIN imports : imports[i].owner \in ref \cup {Linker}
Waiting == \A n \in Names : table[n] = Unresolved => \E i \in DOMAIN imports : imports[i].name = n

\* A module is being entered because the command line names it, or because
\* one of its exports that are entered already, or will be, was asked for.
Entering ==
    pc = "insert" => /\ ins.m \in ref
                     /\ ins.back = "input" => ins.m \in Objs
                     /\ ins.back = "scan" => Needed(ins.m) \/ Awaited(ins.m, ins.e)

NeedInv == Owners /\ Waiting /\ Entering /\ NeededOnly

\* What an entry into the table leaves of the imports.
Bound == \A i \in DOMAIN imports :
            /\ i \in DOMAIN imports'
            /\ imports'[i].name = imports[i].name /\ imports'[i].owner = imports[i].owner
            /\ imports'[i].exp = imports[i].exp \/ imports[i].exp = Unresolved

\* A bound import stays bound.
LEMMA NeededKept ==
    ASSUME Bound, NEW m \in Modules, Needed(m)
    PROVE  Needed(m)'
<1>1. PICK i \in DOMAIN imports : imports[i].exp = m /\ imports[i].owner # m
  BY DEF Needed
<1>2. m # Unresolved
  BY LinkerAssumption
<1>3. i \in DOMAIN imports' /\ imports'[i].exp = m /\ imports'[i].owner # m
  BY <1>1, <1>2 DEF Bound
<1> QED
  BY <1>3 DEF Needed

\* InsertImport adds one import and leaves the others alone.
LEMMA EnterImportNeed ==
    ASSUME SymInv, NEW n \in Names, NEW owner \in Definer, EnterImport(n, owner)
    PROVE  /\ Bound
           /\ \A i \in DOMAIN imports : i \in DOMAIN imports' /\ imports'[i] = imports[i]
           /\ \A i \in DOMAIN imports' : i \in DOMAIN imports \/ imports'[i].owner = owner
           /\ Waiting => Waiting'
<1> DEFINE exp == IF table[n] = Absent THEN Unresolved ELSE table[n]
           new == [name |-> n, owner |-> owner, exp |-> exp]
           k == Len(imports) + 1
<1>1. table' = [table EXCEPT ![n] = exp] /\ imports' = Append(imports, new)
  BY DEF EnterImport
<1>2. /\ DOMAIN imports = 1 .. Len(imports) /\ Len(imports) \in Nat
      /\ imports \in Seq(Import) /\ new \in Import
  BY Finite, Kinds DEF SymInv, TypeSymbols, Import, Definer
<1>3. /\ DOMAIN imports' = 1 .. k /\ imports'[k] = new
      /\ \A i \in DOMAIN imports : imports'[i] = imports[i]
  <2> HIDE DEF new
  <2>1. /\ Len(imports') = Len(imports) + 1 /\ imports' \in Seq(Import)
        /\ imports'[Len(imports) + 1] = new
        /\ \A i \in 1 .. Len(imports) : imports'[i] = imports[i]
    BY <1>1, <1>2, AppendProperties
  <2> QED
    BY <1>2, <2>1, LenProperties
<1>4. new.name = n /\ new.owner = owner
  OBVIOUS
<1>5. \A i \in DOMAIN imports' : i \in DOMAIN imports \/ i = k
  BY <1>2, <1>3
<1>6. k \in DOMAIN imports' /\ \A i \in DOMAIN imports : i \in DOMAIN imports'
  BY <1>2, <1>3
<1>7. ASSUME Waiting PROVE Waiting'
  <2> SUFFICES ASSUME NEW x \in Names, table'[x] = Unresolved
               PROVE  \E i \in DOMAIN imports' : imports'[i].name = x
    BY DEF Waiting
  <2>1. CASE x = n
    BY <2>1, <1>3, <1>4, <1>6
  <2>2. CASE x # n
    <3>1. table[x] = Unresolved
      BY <2>2, <1>1 DEF SymInv, TypeSymbols
    <3>2. PICK i \in DOMAIN imports : imports[i].name = x
      BY <3>1, <1>7 DEF Waiting
    <3> QED
      BY <3>2, <1>3, <1>6
  <2> QED
    BY <2>1, <2>2
<1> HIDE DEF new, k
<1> QED
  BY <1>3, <1>4, <1>5, <1>6, <1>7 DEF Bound

\* InsertExport binds the imports that waited for the name, if it binds any.
LEMMA EnterExportNeed ==
    ASSUME SymInv, NEW n \in Names, NEW definer \in Definer, EnterExport(n, definer)
    PROVE  /\ Bound /\ DOMAIN imports' = DOMAIN imports
           /\ \A i \in DOMAIN imports :
                 imports[i].exp = Unresolved =>
                    imports'[i].exp = IF imports[i].name = n THEN definer ELSE Unresolved
           /\ Waiting => Waiting'
<1>1. CASE Resolve(n, definer)
  <2>1. /\ table[n] = Unresolved /\ table' = [table EXCEPT ![n] = definer]
        /\ imports' = [i \in DOMAIN imports |->
                         IF imports[i].name # n THEN imports[i]
                         ELSE [name |-> n, owner |-> imports[i].owner, exp |-> definer]]
    BY <1>1 DEF Resolve, IsUnresolved
  <2>2. DOMAIN imports' = DOMAIN imports
    BY <2>1
  <2>3. \A i \in DOMAIN imports :
           /\ imports'[i].name = imports[i].name /\ imports'[i].owner = imports[i].owner
           /\ imports'[i].exp = IF imports[i].name = n THEN definer ELSE imports[i].exp
    BY <2>1
  <2>4. \A i \in DOMAIN imports : imports[i].name = n => imports[i].exp = Unresolved
    BY <2>1 DEF SymInv, ExpCurrent
  <2>5. ASSUME Waiting, NEW x \in Names, table'[x] = Unresolved
        PROVE  \E i \in DOMAIN imports' : imports'[i].name = x
    <3>1. table[x] = Unresolved
      BY <2>1, <2>5 DEF SymInv, TypeSymbols
    <3> QED
      BY <2>2, <2>3, <2>5, <3>1 DEF Waiting
  <2> QED
    BY <2>2, <2>3, <2>4, <2>5 DEF Bound, Waiting
<1>2. CASE NewName(n, definer) \/ Duplicate(n)
  <2>1. imports' = imports
    BY <1>2 DEF NewName, Duplicate
  <2>2. \A x \in Names : table'[x] = Unresolved => table[x] = Unresolved
    BY <1>2, Kinds DEF NewName, Duplicate, SymInv, TypeSymbols
  <2>3. \A i \in DOMAIN imports : imports[i].exp = Unresolved => imports[i].name # n
    <3>1. table[n] # Unresolved
      BY <1>2, Kinds DEF NewName, Duplicate
    <3> QED
      BY <3>1 DEF SymInv, ExpCurrent
  <2> QED
    BY <2>1, <2>2, <2>3 DEF Bound, Waiting
<1> QED
  BY <1>1, <1>2 DEF EnterExport

\* Outside of the entering of a module NeededOnly stands by the imports alone.
LEMMA NeededOnlyKept ==
    ASSUME TypeControl, NeedInv, Bound, pc # "insert", pc # "error",
           ref' = ref, prog' = prog
    PROVE  NeededOnly'
<1> SUFFICES ASSUME NEW m \in ref \ Objs PROVE Needed(m)'
  BY DEF NeededOnly, Objs, Needed
<1>1. Needed(m) /\ m \in Modules
  BY DEF NeedInv, NeededOnly, Needed, TypeControl
<1> QED
  BY <1>1, NeededKept

\* A step that touches neither the table nor ref, nor enters a module.
LEMMA NeedSame ==
    ASSUME TypeControl, NeedInv, pc \notin {"insert", "error"}, pc' # "insert",
           UNCHANGED <<prog, table, imports, ref>>
    PROVE  NeedInv'
<1>1. Bound
  BY DEF Bound
<1>2. NeededOnly'
  BY <1>1, NeededOnlyKept
<1> QED
  BY <1>2 DEF NeedInv, Owners, Waiting, Entering

\* The command line's items.
LEMMA CommandLineNeed ==
    ASSUME IInv, NeedInv, CommandLine
    PROVE  NeedInv'
<1>1. SymInv /\ TypeControl /\ Owners /\ Waiting
  BY DEF IInv, NeedInv
<1>2. ASSUME NEW kind, Take(kind)
      PROVE  /\ Item1.name \in Names /\ next \in DOMAIN prog.items /\ Item1.kind = kind
             /\ pc = "input"
             /\ Item1.kind = "obj" => Item1.mods[1] \in Modules
  BY <1>1, <1>2, ProgramFacts DEF Take, Item1, TypeControl
<1>3. Linker \in Definer
  BY DEF Definer
<1>4. CASE ForceImport
  <2>1. /\ EnterImport(Item1.name, Linker) /\ Take("import")
        /\ ref' = ref /\ prog' = prog /\ pc' = pc
    BY <1>4 DEF ForceImport
  <2>2. Item1.name \in Names /\ pc = "input"
    BY <1>2, <2>1
  <2>3. /\ Bound /\ Waiting'
        /\ \A i \in DOMAIN imports : imports'[i] = imports[i]
        /\ \A i \in DOMAIN imports' : i \in DOMAIN imports \/ imports'[i].owner = Linker
    BY <1>1, <1>3, <2>1, <2>2, EnterImportNeed
  <2>4. NeededOnly'
    BY <1>1, <2>1, <2>2, <2>3, NeededOnlyKept
  <2>5. Owners'
    BY <1>1, <2>1, <2>3 DEF Owners
  <2> QED
    BY <2>1, <2>2, <2>3, <2>4, <2>5 DEF NeedInv, Entering
<1>5. CASE DefineSymbol
  <2>1. /\ EnterExport(Item1.name, Linker) /\ Take("define")
        /\ ref' = ref /\ prog' = prog /\ pc' = pc
    BY <1>5 DEF DefineSymbol
  <2>2. Item1.name \in Names /\ pc = "input"
    BY <1>2, <2>1
  <2>3. Bound /\ Waiting' /\ DOMAIN imports' = DOMAIN imports
    BY <1>1, <1>3, <2>1, <2>2, EnterExportNeed
  <2>4. NeededOnly'
    BY <1>1, <2>1, <2>2, <2>3, NeededOnlyKept
  <2>5. Owners'
    BY <1>1, <2>1, <2>3 DEF Owners, Bound
  <2> QED
    BY <2>1, <2>2, <2>3, <2>4, <2>5 DEF NeedInv, Entering
<1>6. CASE ObjAdd
  <2> DEFINE m == Item1.mods[1]
  <2>1. /\ Take("obj") /\ Insert(m, "input") /\ UNCHANGED <<prog, table, imports>>
    BY <1>6 DEF ObjAdd, symbols
  <2>2. /\ ref' = ref \cup {m} /\ pc' = "insert" /\ ins'.m = m /\ ins'.back = "input"
    BY <2>1 DEF Insert
  <2>3. m \in Objs /\ pc = "input"
    <3>1. next \in DOMAIN prog.items /\ prog.items[next].kind = "obj" /\ pc = "input"
      BY <1>2, <2>1 DEF Item1
    <3> QED
      BY <3>1 DEF Objs, Item1
  <2>4. Objs' = Objs
    BY <2>1 DEF Objs
  <2>5. NeededOnly'
    <3> HIDE DEF m
    <3> SUFFICES ASSUME NEW x \in ref' \ Objs' PROVE Needed(x)'
      BY DEF NeededOnly, Needed
    <3>1. x \in ref \ Objs
      BY <2>2, <2>3, <2>4
    <3>2. Needed(x)
      BY <2>3, <3>1 DEF NeedInv, NeededOnly, Needed
    <3> QED
      BY <3>2, <2>1 DEF Needed
  <2> HIDE DEF m
  <2>6. Entering'
    BY <2>2, <2>3, <2>4 DEF Entering
  <2> QED
    BY <1>1, <2>1, <2>2, <2>5, <2>6 DEF NeedInv, Owners, Waiting
<1>7. CASE LibAdd \/ LibStartGroup \/ LibEndGroup \/ UsageError
  <2>1. pc = "input"
    BY <1>7 DEF LibAdd, LibStartGroup, LibEndGroup, UsageError, Take
  <2>2. pc' # "insert"
    BY <1>7, <2>1 DEF LibAdd, LibStartGroup, LibEndGroup, UsageError, StartScan
  <2>3. UNCHANGED <<prog, table, imports, ref>>
    BY <1>7 DEF LibAdd, LibStartGroup, LibEndGroup, UsageError, symbols
  <2> QED
    BY <1>1, <2>1, <2>2, <2>3, NeedSame
<1> QED
  BY <1>4, <1>5, <1>6, <1>7 DEF CommandLine

\* The entering of a module's exports and imports.
LEMMA InsertGlobalsNeed ==
    ASSUME IInv, NeedInv, InsertGlobals
    PROVE  NeedInv'
<1>1. SymInv /\ TypeControl /\ Owners /\ Waiting /\ Entering /\ NeededOnly
  BY DEF IInv, NeedInv
<1>2. /\ ins.m \in Modules /\ ins.e \in Nat \ {0} /\ ins.i \in Nat \ {0}
      /\ ins.back \in {"input", "scan"} /\ ins.m \in Definer /\ ref \subseteq Modules
  BY <1>1, ProgramFacts DEF TypeControl
<1>3. pc = "insert"
  BY DEF InsertGlobals, InsertExport, InsertDuplicate, InsertImport, Inserted
<1>4. /\ ins.m \in ref
      /\ ins.back = "input" => ins.m \in Objs
      /\ ins.back = "scan" => Needed(ins.m) \/ Awaited(ins.m, ins.e)
  BY <1>1, <1>3 DEF Entering
<1>5. ASSUME Bound, UNCHANGED <<prog, pc, ref>>, ins'.m = ins.m
      PROVE  NeededOnly'
  <2> SUFFICES ASSUME NEW m \in ref \ Objs, m # ins.m PROVE Needed(m)'
    BY <1>3, <1>5 DEF NeededOnly, Objs, Needed
  <2>1. Needed(m) /\ m \in Modules
    BY <1>1, <1>2, <1>3 DEF NeededOnly, Needed
  <2> QED
    BY <1>5, <2>1, NeededKept
<1>6. CASE InsertExport
  <2> DEFINE n == prog.exports[ins.m][ins.e]
  <2>1. /\ ins.e <= Len(prog.exports[ins.m]) /\ Len(prog.exports[ins.m]) \in Nat
        /\ DOMAIN prog.exports[ins.m] = 1 .. Len(prog.exports[ins.m])
    BY <1>1, <1>2, <1>6, LinkerAssumption, LenProperties DEF InsertExport, TypeControl
  <2>2. n \in Names
    BY <1>1, <1>2, <2>1, ProgramFacts
  <2>3. /\ EnterExport(n, ins.m) /\ UNCHANGED <<prog, pc, ref>>
        /\ ins'.m = ins.m /\ ins'.e = ins.e + 1 /\ ins'.back = ins.back
    BY <1>6 DEF InsertExport
  <2>4. /\ Bound /\ DOMAIN imports' = DOMAIN imports /\ Waiting'
        /\ \A i \in DOMAIN imports :
              imports[i].exp = Unresolved =>
                 imports'[i].exp = IF imports[i].name = n THEN ins.m ELSE Unresolved
    BY <1>1, <1>2, <2>2, <2>3, EnterExportNeed
  <2>5. NeededOnly'
    BY <1>5, <2>3, <2>4
  <2>6. Owners'
    BY <1>1, <2>3, <2>4 DEF Owners, Bound
  <2>7. ASSUME ins.back = "scan"
        PROVE  Needed(ins.m)' \/ Awaited(ins.m, ins.e)'
    <3>1. CASE Needed(ins.m)
      <4>1. PICK i \in DOMAIN imports : imports[i].exp = ins.m /\ imports[i].owner # ins.m
        BY <3>1 DEF Needed
      <4>2. ins.m # Unresolved
        BY <1>2, LinkerAssumption
      <4>3. i \in DOMAIN imports' /\ imports'[i].exp = ins'.m /\ imports'[i].owner # ins'.m
        BY <4>1, <4>2, <2>3, <2>4 DEF Bound
      <4> QED
        BY <4>3 DEF Needed
    <3>2. CASE Awaited(ins.m, ins.e)
      <4>1. PICK k \in DOMAIN prog.exports[ins.m], i \in DOMAIN imports :
                /\ k >= ins.e /\ imports[i].name = prog.exports[ins.m][k]
                /\ imports[i].exp = Unresolved /\ imports[i].owner # ins.m
        BY <3>2 DEF Awaited
      <4>2. /\ i \in DOMAIN imports' /\ imports'[i].owner # ins'.m
            /\ imports'[i].name = imports[i].name
        BY <4>1, <2>3, <2>4 DEF Bound
      <4>3. CASE imports[i].name = n
        <5>1. imports'[i].exp = ins'.m
          BY <4>1, <4>3, <2>3, <2>4
        <5> QED
          BY <4>2, <5>1 DEF Needed
      <4>4. CASE imports[i].name # n
        <5>1. imports'[i].exp = Unresolved
          BY <4>1, <4>4, <2>4
        <5>2. k # ins.e
          BY <4>1, <4>4
        <5>3. k >= ins'.e
          BY <4>1, <5>2, <1>2, <2>1, <2>3
        <5>4. k \in DOMAIN prog'.exports[ins'.m] /\ imports'[i].name = prog'.exports[ins'.m][k]
          BY <4>1, <4>2, <2>3
        <5> QED
          BY <4>2, <5>1, <5>3, <5>4 DEF Awaited
      <4> QED
        BY <4>3, <4>4
    <3> QED
      BY <3>1, <3>2, <2>7, <1>4
  <2> HIDE DEF n
  <2>8. Entering'
    BY <1>3, <1>4, <2>3, <2>7 DEF Entering, Objs
  <2> QED
    BY <2>4, <2>5, <2>6, <2>8 DEF NeedInv
<1>7. CASE InsertDuplicate
  <2>1. pc' = "error" /\ UNCHANGED <<prog, table, imports, ref>>
    BY <1>7 DEF InsertDuplicate, symbols
  <2> QED
    BY <1>1, <2>1 DEF NeedInv, Owners, Waiting, Entering, NeededOnly
<1>8. CASE InsertImport
  <2> DEFINE n == Imports(ins.m)[ins.i]
  <2>1. n \in Names
    BY <1>1, <1>2, <1>8, ImportNames DEF InsertImport
  <2>2. /\ EnterImport(n, ins.m) /\ UNCHANGED <<prog, pc, ref>>
        /\ ins'.m = ins.m /\ ins'.e = ins.e /\ ins'.back = ins.back
    BY <1>8 DEF InsertImport
  <2> HIDE DEF n
  <2>3. /\ Bound /\ Waiting'
        /\ \A i \in DOMAIN imports : i \in DOMAIN imports' /\ imports'[i] = imports[i]
        /\ \A i \in DOMAIN imports' : i \in DOMAIN imports \/ imports'[i].owner = ins.m
    BY <1>1, <1>2, <2>1, <2>2, EnterImportNeed
  <2>4. NeededOnly'
    BY <1>5, <2>2, <2>3
  <2>5. Owners'
    BY <1>1, <1>4, <2>2, <2>3 DEF Owners
  <2>6. /\ Needed(ins.m) => Needed(ins.m)'
        /\ Awaited(ins.m, ins.e) => Awaited(ins.m, ins.e)'
    <3>1. Needed(ins.m) => Needed(ins.m)'
      BY <2>2, <2>3 DEF Needed
    <3>2. Awaited(ins.m, ins.e) => Awaited(ins.m, ins.e)'
      BY <2>2, <2>3 DEF Awaited
    <3> QED
      BY <3>1, <3>2
  <2>7. Entering'
    BY <1>3, <1>4, <2>2, <2>6 DEF Entering, Objs
  <2> QED
    BY <2>3, <2>4, <2>5, <2>7 DEF NeedInv
<1>9. CASE Inserted
  <2>1. /\ ins.e > Len(prog.exports[ins.m]) /\ pc' = ins.back
        /\ UNCHANGED <<prog, ins, table, imports, ref>>
    BY <1>9 DEF Inserted, symbols
  <2>2. ~Awaited(ins.m, ins.e)
    <3>1. /\ Len(prog.exports[ins.m]) \in Nat
          /\ DOMAIN prog.exports[ins.m] = 1 .. Len(prog.exports[ins.m])
      BY <1>1, <1>2, LinkerAssumption, LenProperties DEF TypeControl
    <3> QED
      BY <2>1, <3>1, <1>2 DEF Awaited
  <2>3. NeededOnly'
    <3> SUFFICES ASSUME NEW m \in ref \ Objs PROVE Needed(m)
      BY <2>1 DEF NeededOnly, Objs, Needed
    <3>1. CASE m = ins.m
      BY <3>1, <1>2, <1>4, <2>2
    <3>2. CASE m # ins.m
      BY <3>2, <1>1, <1>3 DEF NeededOnly, Needed
    <3> QED
      BY <3>1, <3>2
  <2> QED
    BY <1>1, <1>2, <2>1, <2>3 DEF NeedInv, Owners, Waiting, Entering
<1> QED
  BY <1>6, <1>7, <1>8, <1>9 DEF InsertGlobals

\* The search of the libraries: what makes a module needed is an import that
\* waits for one of its exports, and since none of its own are entered yet it
\* is another's.
LEMMA LibResolveNeed ==
    ASSUME IInv, NeedInv, LibResolve
    PROVE  NeedInv'
<1>1. SymInv /\ TypeControl /\ Owners /\ Waiting
  BY DEF IInv, NeedInv
<1>2. CASE LibCheckExports
  <2> DEFINE m == open[lib][mod]
  <2>1. /\ pc = "scan" /\ UNCHANGED <<prog, table, imports>>
        /\ lib <= Len(open) /\ mod <= Len(open[lib])
    BY <1>2 DEF LibCheckExports, symbols
  <2>2. \/ /\ Insert(m, "scan") /\ m \notin ref
           /\ \E k \in DOMAIN prog.exports[m] : IsUnresolved(prog.exports[m][k])
        \/ UNCHANGED <<ref, ins, pc, additions>>
    BY <1>2 DEF LibCheckExports
  <2>3. m \in Modules
    <3>1. /\ open \in Seq(Seq(Modules)) /\ Len(open) \in Nat
          /\ lib \in Nat \ {0} /\ mod \in Nat \ {0}
      BY <1>1, LenProperties DEF TypeControl
    <3>2. open[lib] \in Seq(Modules)
      BY <2>1, <3>1, ElementOfSeq
    <3>3. Len(open[lib]) \in Nat
      BY <3>2, LenProperties
    <3>4. mod \in 1 .. Len(open[lib])
      BY <2>1, <3>1, <3>3
    <3> QED
      BY <3>2, <3>4, ElementOfSeq
  <2> HIDE DEF m
  <2>4. CASE UNCHANGED <<ref, ins, pc, additions>>
    BY <1>1, <2>1, <2>4, NeedSame
  <2>5. CASE /\ Insert(m, "scan") /\ m \notin ref
             /\ \E k \in DOMAIN prog.exports[m] : IsUnresolved(prog.exports[m][k])
    <3>1. /\ ref' = ref \cup {m} /\ pc' = "insert" /\ ins'.m = m /\ ins'.e = 1 /\ ins'.back = "scan"
      BY <2>5 DEF Insert
    <3>2. PICK k \in DOMAIN prog.exports[m] : table[prog.exports[m][k]] = Unresolved
      BY <2>5 DEF IsUnresolved
    <3>3. /\ prog.exports[m] \in Seq(Names) /\ DOMAIN prog.exports[m] = 1 .. Len(prog.exports[m])
          /\ Len(prog.exports[m]) \in Nat
      BY <1>1, <2>3, LinkerAssumption, LenProperties DEF TypeControl
    <3>4. prog.exports[m][k] \in Names /\ k >= 1
      BY <3>2, <3>3, ElementOfSeq
    <3>5. PICK i \in DOMAIN imports : imports[i].name = prog.exports[m][k]
      BY <1>1, <3>2, <3>4 DEF Waiting
    <3>6. imports[i].exp = Unresolved /\ imports[i].owner # m
      <4>1. imports[i].exp = Unresolved
        BY <1>1, <3>2, <3>5 DEF SymInv, ExpCurrent
      <4>2. m # Linker
        BY <2>3, LinkerAssumption
      <4> QED
        BY <4>1, <4>2, <1>1, <2>5 DEF Owners
    <3>7. Entering'
      <4>1. Awaited(ins.m, ins.e)'
        BY <2>1, <3>1, <3>2, <3>4, <3>5, <3>6 DEF Awaited
      <4> QED
        BY <3>1, <4>1 DEF Entering
    <3>8. NeededOnly'
      <4> SUFFICES ASSUME NEW x \in ref \ Objs PROVE Needed(x)
        BY <2>1, <3>1 DEF NeededOnly, Objs, Needed
      <4> QED
        BY <2>1 DEF NeedInv, NeededOnly, Needed
    <3> QED
      BY <1>1, <2>1, <3>1, <3>7, <3>8 DEF NeedInv, Owners, Waiting
  <2> QED
    BY <2>2, <2>4, <2>5
<1>3. CASE NextLib \/ EndOfPass \/ LoadModule \/ LoadLib \/ EndOfLoad
  <2>1. pc \in {"scan", "load"} /\ UNCHANGED <<prog, table, imports, ref>>
    BY <1>3 DEF NextLib, EndOfPass, LoadModule, LoadLib, EndOfLoad, symbols
  <2>2. pc' # "insert"
    BY <1>3, <2>1 DEF NextLib, EndOfPass, LoadModule, LoadLib, EndOfLoad
  <2> QED
    BY <1>1, <2>1, <2>2, NeedSame
<1> QED
  BY <1>2, <1>3 DEF LibResolve

\* The end of the input, where only the Linker defines symbols.
LEMMA FinishNeed ==
    ASSUME IInv, NeedInv, Finish
    PROVE  NeedInv'
<1>1. SymInv /\ TypeControl /\ Owners /\ Waiting
  BY DEF IInv, NeedInv
<1>2. Label \in Names /\ Count \in Names /\ Linker \in Definer
  BY LinkerAssumption DEF Definer
<1>3. pc \in {"input", "condes", "count", "check"} /\ pc' # "insert" /\ UNCHANGED <<prog, ref>>
  BY DEF Finish, InputEnds, ConDesCreate, ConDesCount, CheckUnresolvedImports
<1>4. CASE UNCHANGED <<table, imports>>
  BY <1>1, <1>3, <1>4, NeedSame
<1>5. ASSUME NEW n \in Names, EnterExport(n, Linker)
      PROVE  NeedInv'
  <2>1. Bound /\ Waiting' /\ DOMAIN imports' = DOMAIN imports
    BY <1>1, <1>2, <1>5, EnterExportNeed
  <2>2. NeededOnly'
    BY <1>1, <1>3, <2>1, NeededOnlyKept
  <2>3. Owners'
    BY <1>1, <1>3, <2>1 DEF Owners, Bound
  <2> QED
    BY <1>3, <2>1, <2>2, <2>3 DEF NeedInv, Entering
<1>6. UNCHANGED <<table, imports>> \/ \E n \in Names : EnterExport(n, Linker)
  BY <1>2 DEF Finish, InputEnds, ConDesCreate, ConDesCount, CheckUnresolvedImports, symbols
<1> QED
  BY <1>4, <1>5, <1>6

\* What is linked is needed, in the sense of NeedInv.
LEMMA NeedInductive == Spec => []NeedInv
<1>1. Init => NeedInv
  <2> SUFFICES ASSUME Init PROVE NeedInv
    OBVIOUS
  <2>1. imports = <<>> /\ DOMAIN imports = {} /\ ref = {} /\ pc = "input"
    BY DEF Init
  <2>2. \A n \in Names : table[n] # Unresolved
    BY Kinds DEF Init
  <2> QED
    BY <2>1, <2>2 DEF NeedInv, Owners, Waiting, Entering, NeededOnly
<1>2. IInv /\ NeedInv /\ [Next]_vars => NeedInv'
  <2> SUFFICES ASSUME IInv, NeedInv, [Next]_vars PROVE NeedInv'
    OBVIOUS
  <2>1. CASE UNCHANGED vars
    BY <2>1 DEF NeedInv, Owners, Waiting, Entering, NeededOnly, Needed, Awaited, Objs, vars, symbols
  <2> QED
    BY <2>1, CommandLineNeed, InsertGlobalsNeed, LibResolveNeed, FinishNeed DEF Next
<1> QED
  BY <1>1, <1>2, Inductive, PTL DEF Spec

\* For every command line, no module of a library is linked unless another
\* module or the command line imports something that it defines
\* (LibCheckExports).
THEOREM NothingUnneeded == Spec => []NeededOnly
<1>1. NeedInv => NeededOnly
  BY DEF NeedInv
<1> QED
  BY <1>1, NeedInductive, PTL

-----------------------------------------------------------------------------
(* No needed module is overlooked.                                         *)

\* Module m is linked, or nobody waits for any of its exports.
Settled(m) == m \in ref \/ \A e \in DOMAIN prog.exports[m] : ~IsUnresolved(prog.exports[m][e])

\* The search has passed module k of library l.
Passed(l, k) == l < lib \/ (l = lib /\ k < mod)

Searched == \A l \in DOMAIN open : \A k \in DOMAIN open[l] : Passed(l, k) => Settled(open[l][k])

\* As long as a pass has added nothing the modules behind it are settled: what
\* unsettles one is the entering of another.
GroupInv ==
    /\ pc = "insert" /\ ins.back = "scan" => additions
    /\ pc = "scan" /\ ~additions => Searched
    /\ GroupComplete

\* A pass begins with everything before it.
LEMMA NothingPassed ==
    ASSUME open' \in Seq(Seq(Modules)), lib' = 1, mod' = 1
    PROVE  Searched'
<1> SUFFICES ASSUME NEW l \in DOMAIN open', NEW k \in DOMAIN open'[l] PROVE ~Passed(l, k)'
  BY DEF Searched
<1>1. DOMAIN open' = 1 .. Len(open') /\ Len(open') \in Nat
  BY LenProperties
<1>2. open'[l] \in Seq(Modules)
  BY <1>1, ElementOfSeq
<1>3. DOMAIN open'[l] = 1 .. Len(open'[l]) /\ Len(open'[l]) \in Nat
  BY <1>2, LenProperties
<1> QED
  BY <1>1, <1>3 DEF Passed

\* The pass goes on with a settled module behind it.
LEMMA CheckedStep ==
    ASSUME TypeControl, Searched, lib \in DOMAIN open, Settled(open[lib][mod]),
           mod' = mod + 1, UNCHANGED <<prog, table, ref, open, lib>>
    PROVE  Searched'
<1>1. \A m \in Modules : Settled(m) => Settled(m)'
  BY DEF Settled, IsUnresolved
<1> SUFFICES ASSUME NEW l \in DOMAIN open, NEW k \in DOMAIN open[l], Passed(l, k)'
             PROVE  Settled(open[l][k])
  BY DEF Searched, Settled, IsUnresolved
<1>2. /\ open \in Seq(Seq(Modules)) /\ DOMAIN open = 1 .. Len(open) /\ Len(open) \in Nat
      /\ mod \in Nat \ {0} /\ lib \in Nat \ {0}
  BY LenProperties DEF TypeControl
<1>3. DOMAIN open[l] = 1 .. Len(open[l]) /\ Len(open[l]) \in Nat
  <2>1. open[l] \in Seq(Modules)
    BY <1>2, ElementOfSeq
  <2> QED
    BY <2>1, LenProperties
<1>4. Passed(l, k) \/ (l = lib /\ k = mod)
  BY <1>2, <1>3 DEF Passed
<1> QED
  BY <1>4 DEF Searched

\* The next library: all of the last one is behind the pass.
LEMMA NextLibStep ==
    ASSUME TypeControl, Searched, lib <= Len(open), mod > Len(open[lib]),
           lib' = lib + 1, mod' = 1, UNCHANGED <<prog, table, ref, open>>
    PROVE  Searched'
<1> SUFFICES ASSUME NEW l \in DOMAIN open, NEW k \in DOMAIN open[l], Passed(l, k)'
             PROVE  Passed(l, k)
  BY DEF Searched, Settled, IsUnresolved
<1>1. /\ open \in Seq(Seq(Modules)) /\ DOMAIN open = 1 .. Len(open) /\ Len(open) \in Nat
      /\ mod \in Nat \ {0} /\ lib \in Nat \ {0}
  BY LenProperties DEF TypeControl
<1>2. DOMAIN open[l] = 1 .. Len(open[l]) /\ Len(open[l]) \in Nat
  <2>1. open[l] \in Seq(Modules)
    BY <1>1, ElementOfSeq
  <2> QED
    BY <2>1, LenProperties
<1> QED
  BY <1>1, <1>2 DEF Passed

\* At the end of a pass every module is behind it.
LEMMA AllPassed ==
    ASSUME TypeControl, Searched, lib > Len(open)
    PROVE  \A l \in DOMAIN open : \A k \in DOMAIN open[l] : Settled(open[l][k])
<1>1. DOMAIN open = 1 .. Len(open) /\ Len(open) \in Nat /\ lib \in Nat \ {0}
  BY LenProperties DEF TypeControl
<1>2. \A l \in DOMAIN open : l < lib
  BY <1>1
<1> QED
  BY <1>2 DEF Searched, Passed

\* LoadLib takes the library it has come to out of the list, or none.
LEMMA LibTaken ==
    ASSUME TypeControl, LoadLib
    PROVE  \/ open' = open
           \/ /\ Len(open') = Len(open) - 1 /\ DOMAIN open' = 1 .. Len(open) - 1
              /\ \A l \in 1 .. Len(open) - 1 : open'[l] = IF l < lib THEN open[l] ELSE open[l + 1]
              /\ ~\E k \in DOMAIN open[lib] : open[lib][k] \in ref
<1> DEFINE a == SubSeq(open, 1, lib - 1)
           b == SubSeq(open, lib + 1, Len(open))
<1>1. /\ open \in Seq(Seq(Modules)) /\ DOMAIN open = 1 .. Len(open) /\ Len(open) \in Nat
      /\ lib \in Nat \ {0} /\ lib <= Len(open) /\ open' \in {open, a \o b}
      /\ open' # open => ~\E k \in DOMAIN open[lib] : open[lib][k] \in ref
  BY LenProperties DEF TypeControl, LoadLib
<1>2. CASE open' = open
  BY <1>2
<1>3. CASE open' = a \o b /\ open' # open
  <2>1. /\ a \in Seq(Seq(Modules)) /\ Len(a) = lib - 1
        /\ \A i \in 1 .. lib - 1 : a[i] = open[i]
    BY <1>1, SubSeqProperties
  <2>2. /\ b \in Seq(Seq(Modules)) /\ Len(b) = Len(open) - lib
        /\ \A i \in 1 .. Len(open) - lib : b[i] = open[lib + i]
    <3>1. lib + 1 \in Int /\ Len(open) \in Int
          /\ \A i \in lib + 1 .. Len(open) : open[i] \in Seq(Modules)
      <4>1. \A i \in lib + 1 .. Len(open) : i \in 1 .. Len(open)
        BY <1>1
      <4> QED
        BY <1>1, <4>1, ElementOfSeq
    <3>2. /\ b \in Seq(Seq(Modules))
          /\ Len(b) = IF lib + 1 <= Len(open) THEN Len(open) - (lib + 1) + 1 ELSE 0
          /\ \A i \in 1 .. Len(open) - (lib + 1) + 1 : b[i] = open[(lib + 1) + i - 1]
      BY <3>1, SubSeqProperties
    <3> HIDE DEF a, b
    <3>3. ASSUME NEW i \in 1 .. Len(open) - lib PROVE b[i] = open[lib + i]
      <4>1. i \in 1 .. Len(open) - (lib + 1) + 1 /\ (lib + 1) + i - 1 = lib + i
        BY <1>1
      <4> QED
        BY <3>2, <4>1
    <3>4. Len(b) = Len(open) - lib
      <4>1. lib \in Int /\ Len(open) \in Int /\ lib <= Len(open)
        BY <1>1
      <4>2. CASE lib + 1 <= Len(open)
        BY <3>2, <4>1, <4>2
      <4>3. CASE lib = Len(open)
        BY <3>2, <4>1, <4>3
      <4> QED
        BY <4>1, <4>2, <4>3
    <3> QED
      BY <3>2, <3>3, <3>4
  <2> HIDE DEF a, b
  <2>3. /\ a \o b \in Seq(Seq(Modules)) /\ Len(a \o b) = Len(open) - 1
        /\ \A i \in 1 .. Len(open) - 1 :
              (a \o b)[i] = IF i <= lib - 1 THEN a[i] ELSE b[i - (lib - 1)]
    <3>1. Len(a) + Len(b) = Len(open) - 1
      BY <1>1, <2>1, <2>2
    <3>2. /\ a \o b \in Seq(Seq(Modules)) /\ Len(a \o b) = Len(a) + Len(b)
          /\ \A i \in 1 .. Len(a) + Len(b) :
                (a \o b)[i] = IF i <= Len(a) THEN a[i] ELSE b[i - Len(a)]
      BY <2>1, <2>2, ConcatProperties
    <3> QED
      BY <2>1, <3>1, <3>2
  <2>4. DOMAIN open' = 1 .. Len(open) - 1 /\ Len(open') = Len(open) - 1
    BY <1>3, <2>3, LenProperties
  <2>5. ASSUME NEW l \in 1 .. Len(open) - 1
        PROVE  open'[l] = IF l < lib THEN open[l] ELSE open[l + 1]
    <3>0. /\ lib \in Nat \ {0} /\ Len(open) \in Nat
          /\ open'[l] = IF l <= lib - 1 THEN a[l] ELSE b[l - (lib - 1)]
      BY <1>1, <1>3, <2>3
    <3>1. CASE l < lib
      <4>1. l \in 1 .. lib - 1
        BY <3>0, <3>1
      <4> QED
        BY <2>1, <3>0, <3>1, <4>1
    <3>2. CASE ~(l < lib)
      <4>1. l - (lib - 1) \in 1 .. Len(open) - lib /\ ~(l <= lib - 1)
        BY <1>1, <3>2
      <4>2. open'[l] = b[l - (lib - 1)]
        BY <3>0, <4>1
      <4>3. b[l - (lib - 1)] = open[lib + (l - (lib - 1))]
        BY <2>2, <4>1
      <4>4. lib + (l - (lib - 1)) = l + 1
        BY <1>1
      <4> QED
        BY <3>2, <4>2, <4>3, <4>4
    <3> QED
      BY <3>1, <3>2
  <2> QED
    BY <1>1, <1>3, <2>4, <2>5
<1> QED
  BY <1>1, <1>2, <1>3

\* It adds none.
LEMMA OpenShrinks ==
    ASSUME TypeControl, LoadLib
    PROVE  \A l \in DOMAIN open' : \E j \in DOMAIN open : open'[l] = open[j]
<1>1. DOMAIN open = 1 .. Len(open) /\ Len(open) \in Nat
  BY LenProperties DEF TypeControl
<1>2. CASE open' = open
  BY <1>2
<1>3. CASE open' # open
  <2>1. /\ DOMAIN open' = 1 .. Len(open) - 1
        /\ \A l \in 1 .. Len(open) - 1 : open'[l] = IF l < lib THEN open[l] ELSE open[l + 1]
    BY <1>3, LibTaken
  <2>2. \A l \in 1 .. Len(open) - 1 : l \in DOMAIN open /\ l + 1 \in DOMAIN open
    BY <1>1
  <2> QED
    BY <2>1, <2>2
<1> QED
  BY <1>2, <1>3

\* The search and the loading.
LEMMA LibResolveGroup ==
    ASSUME IInv, GroupInv, LibResolve
    PROVE  GroupInv'
<1>1. TypeControl /\ open \in Seq(Seq(Modules)) /\ DOMAIN open = 1 .. Len(open)
      /\ Len(open) \in Nat /\ lib \in Nat \ {0} /\ additions \in BOOLEAN
  BY LenProperties DEF IInv, TypeControl
<1>2. CASE LibCheckExports
  <2>1. /\ pc = "scan" /\ lib <= Len(open) /\ mod' = mod + 1
        /\ UNCHANGED <<prog, table, open, lib>>
    BY <1>2 DEF LibCheckExports, symbols
  <2>2. \/ pc' = "insert" /\ additions' = TRUE
        \/ Settled(open[lib][mod]) /\ UNCHANGED <<ref, ins, pc, additions>>
    BY <1>2 DEF LibCheckExports, Settled, Insert
  <2>3. CASE pc' = "insert" /\ additions' = TRUE
    BY <2>3 DEF GroupInv, GroupComplete
  <2>4. CASE Settled(open[lib][mod]) /\ UNCHANGED <<ref, ins, pc, additions>>
    <3>1. lib \in DOMAIN open
      BY <1>1, <2>1
    <3>2. Searched => Searched'
      BY <1>1, <2>1, <2>4, <3>1, CheckedStep
    <3> QED
      BY <2>1, <2>4, <3>2 DEF GroupInv, GroupComplete
  <2> QED
    BY <2>2, <2>3, <2>4
<1>3. CASE NextLib
  <2>1. /\ pc = "scan" /\ lib <= Len(open) /\ mod > Len(open[lib]) /\ lib' = lib + 1 /\ mod' = 1
        /\ UNCHANGED <<prog, pc, ins, table, ref, open, additions>>
    BY <1>3 DEF NextLib, symbols
  <2>2. Searched => Searched'
    BY <1>1, <2>1, NextLibStep
  <2> QED
    BY <2>1, <2>2 DEF GroupInv, GroupComplete
<1>4. CASE EndOfPass
  <2>1. /\ pc = "scan" /\ lib > Len(open) /\ pc' = (IF additions THEN "scan" ELSE "load")
        /\ lib' = 1 /\ mod' = 1 /\ UNCHANGED <<prog, ins, table, ref, open>>
    BY <1>4 DEF EndOfPass, symbols
  <2>2. Searched'
    <3>1. open' \in Seq(Seq(Modules)) /\ lib' = 1 /\ mod' = 1
      BY <1>1, <2>1
    <3> QED
      BY <3>1, NothingPassed
  <2>3. ~additions => \A l \in DOMAIN open : \A k \in DOMAIN open[l] : Settled(open[l][k])
    BY <1>1, <2>1, AllPassed DEF GroupInv
  <2>4. GroupComplete'
    <3> SUFFICES ASSUME pc' = "load"
                 PROVE  \A l \in DOMAIN open : \A k \in DOMAIN open[l] : Settled(open[l][k])
      BY <2>1 DEF GroupComplete, Settled, IsUnresolved
    <3>1. ~additions
      BY <2>1
    <3> QED
      BY <3>1, <2>3
  <2>5. pc' # "insert"
    BY <2>1
  <2> QED
    BY <2>2, <2>4, <2>5 DEF GroupInv
<1>5. CASE LoadModule
  BY <1>5 DEF LoadModule, symbols, GroupInv, GroupComplete, IsUnresolved
<1>6. CASE LoadLib
  <2>1. pc = "load" /\ UNCHANGED <<prog, pc, table, ref>>
    BY <1>6 DEF LoadLib, symbols
  <2>2. \A l \in DOMAIN open : \A k \in DOMAIN open[l] : Settled(open[l][k])
    BY <2>1 DEF GroupInv, GroupComplete, Settled
  <2>3. \A l \in DOMAIN open' : \A k \in DOMAIN open'[l] : Settled(open'[l][k])
    BY <1>1, <1>6, <2>2, OpenShrinks
  <2>4. GroupComplete'
    BY <2>1, <2>3 DEF GroupComplete, Settled, IsUnresolved
  <2> QED
    BY <2>1, <2>4 DEF GroupInv
<1>7. CASE EndOfLoad
  BY <1>7 DEF EndOfLoad, GroupInv, GroupComplete
<1> QED
  BY <1>2, <1>3, <1>4, <1>5, <1>6, <1>7 DEF LibResolve

\* The command line and the end of the input are not within a search, but
\* they may start one.
LEMMA OtherGroup ==
    ASSUME IInv, GroupInv, CommandLine \/ InsertGlobals \/ Finish
    PROVE  GroupInv'
<1>1. open \in Seq(Seq(Modules)) /\ TypeControl
  BY DEF IInv, TypeControl
<1>2. CASE LibAdd \/ LibEndGroup
  <2>1. open' \in Seq(Seq(Modules)) /\ pc = "input"
    <3>1. CASE LibAdd
      <4>1. Item1.mods \in Seq(Modules)
        BY <1>1, <3>1, ProgramFacts DEF LibAdd, Take, Item1, TypeControl
      <4> QED
        BY <1>1, <3>1, <4>1, AppendProperties DEF LibAdd, Take
    <3>2. CASE LibEndGroup
      BY <1>1, <3>2 DEF LibEndGroup, Take
    <3> QED
      BY <1>2, <3>1, <3>2
  <2>2. pc' = "input" \/ (pc' = "scan" /\ lib' = 1 /\ mod' = 1)
    BY <1>2, <2>1 DEF LibAdd, LibEndGroup, StartScan
  <2>3. lib' = 1 /\ mod' = 1 => Searched'
    BY <2>1, NothingPassed
  <2> QED
    BY <2>2, <2>3 DEF GroupInv, GroupComplete
<1>3. CASE InsertGlobals
  <2>1. pc = "insert" /\ additions' = additions
    BY <1>3 DEF InsertGlobals, InsertExport, InsertDuplicate, InsertImport, Inserted, libs
  <2>2. \/ pc' \in {"insert", "error"} /\ ins'.back = ins.back
        \/ pc' = ins.back /\ ins.back \in {"input", "scan"}
    BY <1>1, <1>3, <2>1 DEF InsertGlobals, InsertExport, InsertDuplicate, InsertImport, Inserted,
                            TypeControl
  <2> QED
    BY <2>1, <2>2 DEF GroupInv, GroupComplete
<1>4. CASE ObjAdd
  <2>1. pc' = "insert" /\ ins'.back = "input"
    BY <1>4 DEF ObjAdd, Insert
  <2> QED
    BY <2>1 DEF GroupInv, GroupComplete
<1>5. CASE ForceImport \/ DefineSymbol \/ LibStartGroup \/ UsageError \/ Finish
  <2>1. pc' \notin {"insert", "scan", "load"}
    BY <1>5 DEF ForceImport, DefineSymbol, LibStartGroup, UsageError, Take, Finish, InputEnds,
                ConDesCreate, ConDesCount, CheckUnresolvedImports
  <2> QED
    BY <2>1 DEF GroupInv, GroupComplete
<1> QED
  BY <1>2, <1>3, <1>4, <1>5 DEF CommandLine

\* For every command line and all libraries: when the search ends, no module
\* of the group that would define an open import is left out, whatever the
\* order of the libraries (LibResolve, EndOfPass).
THEOREM NothingOverlooked == Spec => []GroupComplete
<1>1. Init => GroupInv
  BY DEF Init, GroupInv, GroupComplete
<1>2. IInv /\ GroupInv /\ [Next]_vars => GroupInv'
  <2> SUFFICES ASSUME IInv, GroupInv, [Next]_vars PROVE GroupInv'
    OBVIOUS
  <2>1. CASE UNCHANGED vars
    BY <2>1 DEF GroupInv, GroupComplete, Searched, Passed, Settled, IsUnresolved, vars, symbols, libs
  <2> QED
    BY <2>1, LibResolveGroup, OtherGroup DEF Next
<1>3. GroupInv => GroupComplete
  BY DEF GroupInv
<1> QED
  BY <1>1, <1>2, <1>3, Inductive, PTL DEF Spec

-----------------------------------------------------------------------------
(* What is needed is loaded, unless it is skipped.                         *)

ModsOf(i) == prog.items[i].mods
InFile(m, i) == \E k \in DOMAIN ModsOf(i) : ModsOf(i)[k] = m

\* A file the linker has come to names module m.
Read(m) == \E i \in DOMAIN prog.items : i < next /\ InFile(m, i)

\* The command line is read, or an object file of it.
Collecting == pc = "input" \/ (pc = "insert" /\ ins.back = "input")

\* The open libraries stand at the items at, in that order, in one group, with
\* nothing but object files between those the linker has yet to load.
Stand(at) ==
    /\ at \in [DOMAIN open -> DOMAIN prog.items]
    /\ \A l \in DOMAIN open : /\ at[l] < next /\ prog.items[at[l]].kind = "lib"
                              /\ open[l] = ModsOf(at[l])
                              /\ grouping => InGroup(at[l])
    /\ \A l, k \in DOMAIN open : l < k => at[l] < at[k]
    /\ \A l \in DOMAIN open : l + 1 \in DOMAIN open /\ (pc = "load" => lib <= l) =>
          \A r \in at[l] + 1 .. at[l + 1] - 1 : prog.items[r].kind = "obj"
    /\ \A l \in DOMAIN open : l = Len(open) /\ Collecting =>
          \A r \in at[l] + 1 .. next - 1 : prog.items[r].kind = "obj"

\* The last bracket the linker has come to opens a group.
GroupOpen == \E s \in 1 .. next - 1 : /\ prog.items[s].kind = "start"
                                      /\ \A r \in s .. next - 1 : prog.items[r].kind # "end"

OpenInv ==
    pc # "error" =>
        /\ \E at : Stand(at)
        /\ ~grouping => Len(open) <= 1 /\ (Collecting => open = <<>>)
        /\ Collecting /\ grouping => GroupOpen
        /\ pc \in {"condes", "count", "check", "linked", "unresolved"} => open = <<>>

\* The types of what the walk over the libraries goes by.
LEMMA OpenTypes ==
    ASSUME TypeControl
    PROVE  /\ open \in Seq(Seq(Modules)) /\ DOMAIN open = 1 .. Len(open) /\ Len(open) \in Nat
           /\ \A l \in DOMAIN open : /\ open[l] \in Seq(Modules) /\ Len(open[l]) \in Nat
                                     /\ DOMAIN open[l] = 1 .. Len(open[l])
                                     /\ \A k \in DOMAIN open[l] : open[l][k] \in Modules
           /\ DOMAIN prog.items = 1 .. Len(prog.items) /\ Len(prog.items) \in Nat
           /\ next \in Nat \ {0} /\ lib \in Nat \ {0} /\ mod \in Nat \ {0}
           /\ grouping \in BOOLEAN /\ additions \in BOOLEAN
<1>1. open \in Seq(Seq(Modules)) /\ DOMAIN open = 1 .. Len(open) /\ Len(open) \in Nat
  BY LenProperties DEF TypeControl
<1>2. ASSUME NEW l \in DOMAIN open
      PROVE  /\ open[l] \in Seq(Modules) /\ Len(open[l]) \in Nat
             /\ DOMAIN open[l] = 1 .. Len(open[l])
             /\ \A k \in DOMAIN open[l] : open[l][k] \in Modules
  <2>1. open[l] \in Seq(Modules)
    BY <1>1, ElementOfSeq
  <2>2. Len(open[l]) \in Nat /\ DOMAIN open[l] = 1 .. Len(open[l])
    BY <2>1, LenProperties
  <2> QED
    BY <2>1, <2>2, ElementOfSeq
<1>3. prog.items \in Seq(Item)
  BY LinkerAssumption DEF TypeControl
<1>4. DOMAIN prog.items = 1 .. Len(prog.items) /\ Len(prog.items) \in Nat
  BY <1>3, LenProperties
<1> QED
  BY <1>1, <1>2, <1>4 DEF TypeControl

\* A module is in one file, at one place.
LEMMA OneFile ==
    ASSUME TypeControl, NEW i \in DOMAIN prog.items, NEW j \in DOMAIN prog.items,
           NEW k \in DOMAIN ModsOf(i), NEW l \in DOMAIN ModsOf(j), ModsOf(i)[k] = ModsOf(j)[l]
    PROVE  i = j /\ k = l
<1>1. prog \in Programs
  BY DEF TypeControl
<1> QED
  BY <1>1, ReadingAssumption DEF ModsOf

\* A file behind another one is not an option.
LEMMA FilesLast ==
    ASSUME TypeControl, NEW i \in DOMAIN prog.items, NEW j \in DOMAIN prog.items, i < j,
           prog.items[j].kind \in {"import", "define"}
    PROVE  prog.items[i].kind \in {"import", "define"}
<1>1. prog \in Programs
  BY DEF TypeControl
<1> QED
  BY <1>1, ReadingAssumption

\* A step that leaves the open libraries alone.
LEMMA OpenSame ==
    ASSUME OpenInv, pc # "error", UNCHANGED <<prog, next, open, grouping>>,
           TypeControl, lib' \in Nat,
           Collecting' => Collecting, pc = "load" => pc' = "load" /\ lib <= lib',
           pc' \in {"condes", "count", "check", "linked", "unresolved"} => open = <<>>
    PROVE  OpenInv'
<1> PICK at : Stand(at)
  BY DEF OpenInv
<1>1. /\ DOMAIN open = 1 .. Len(open) /\ Len(open) \in Nat /\ lib \in Nat
  BY OpenTypes
<1>2. \A i : ModsOf(i)' = ModsOf(i)
  BY DEF ModsOf
<1>3. \A i : InGroup(i)' = InGroup(i)
  BY DEF InGroup
<1>4. ASSUME NEW l \in DOMAIN open, l + 1 \in DOMAIN open, pc' = "load" => lib' <= l
      PROVE  \A r \in at[l] + 1 .. at[l + 1] - 1 : prog.items[r].kind = "obj"
  <2>1. pc = "load" => lib <= l
    BY <1>1, <1>4
  <2> QED
    BY <1>4, <2>1 DEF Stand
<1>5. Stand(at)'
  BY <1>2, <1>3, <1>4 DEF Stand
<1>6. GroupOpen' = GroupOpen
  BY DEF GroupOpen
<1> QED
  BY <1>5, <1>6 DEF OpenInv

\* The next item is an object file.
LEMMA OpenNext ==
    ASSUME OpenInv, TypeControl, Collecting, UNCHANGED <<prog, open, grouping>>,
           pc' \in {"input", "insert"}, next \in DOMAIN prog.items, next' = next + 1,
           prog.items[next].kind \notin {"lib", "start", "end"}
    PROVE  OpenInv'
<1>0. pc # "error" /\ pc # "load" /\ pc' # "load"
  BY DEF Collecting
<1> PICK at : Stand(at)
  BY <1>0 DEF OpenInv
<1>1. /\ DOMAIN open = 1 .. Len(open) /\ Len(open) \in Nat /\ next \in Nat \ {0}
      /\ DOMAIN prog.items = 1 .. Len(prog.items) /\ Len(prog.items) \in Nat
  BY OpenTypes
<1>2. /\ \A i : ModsOf(i)' = ModsOf(i)
      /\ \A i : InGroup(i)' = InGroup(i)
  BY DEF ModsOf, InGroup
<1>3. \A l \in DOMAIN open : at[l] \in 1 .. Len(prog.items)
  BY <1>1 DEF Stand
<1>4. ASSUME NEW l \in DOMAIN open, l = Len(open),
             NEW r \in at[l] + 1 .. next
      PROVE  prog.items[r].kind = "obj"
  <2>1. CASE r = next
    <3>1. at[l] \in DOMAIN prog.items /\ at[l] < next /\ prog.items[at[l]].kind = "lib"
      BY <1>1, <1>3 DEF Stand
    <3>2. prog.items[next].kind \notin {"import", "define"}
      BY <3>1, FilesLast
    <3>3. prog.items[next].kind \in {"obj", "lib", "start", "end", "import", "define"}
      BY ProgramFacts DEF Item
    <3> QED
      BY <2>1, <3>2, <3>3
  <2>2. CASE r # next
    <3>1. r \in at[l] + 1 .. next - 1
      BY <1>1, <1>3, <1>4, <2>2
    <3> QED
      BY <1>4, <3>1 DEF Stand
  <2> QED
    BY <2>1, <2>2
<1>5. ASSUME NEW l \in DOMAIN open, l + 1 \in DOMAIN open
      PROVE  \A r \in at[l] + 1 .. at[l + 1] - 1 : prog.items[r].kind = "obj"
  BY <1>0, <1>5 DEF Stand
<1>6. next' - 1 = next
  BY <1>1
<1>7. Stand(at)'
  <2>1. \A l \in DOMAIN open : at[l] < next'
    BY <1>1, <1>3 DEF Stand
  <2>2. \A l \in DOMAIN open : l = Len(open) => \A r \in at[l] + 1 .. next' - 1 : prog.items[r].kind = "obj"
    BY <1>4, <1>6
  <2> QED
    BY <1>2, <1>5, <2>1, <2>2 DEF Stand
<1>8. GroupOpen => GroupOpen'
  <2> SUFFICES ASSUME GroupOpen PROVE GroupOpen'
    OBVIOUS
  <2>1. PICK s \in 1 .. next - 1 : /\ prog.items[s].kind = "start"
                                   /\ \A r \in s .. next - 1 : prog.items[r].kind # "end"
    BY DEF GroupOpen
  <2>2. s \in 1 .. next' - 1 /\ \A r \in s .. next' - 1 : r = next \/ r \in s .. next - 1
    BY <1>1
  <2>3. \A r \in s .. next' - 1 : prog.items[r].kind # "end"
    BY <2>1, <2>2
  <2> QED
    BY <2>1, <2>2, <2>3 DEF GroupOpen
<1> QED
  BY <1>0, <1>7, <1>8 DEF OpenInv

\* A library is opened.
LEMMA OpenLib ==
    ASSUME OpenInv, TypeControl, LibAdd
    PROVE  OpenInv'
<1>1. /\ pc = "input" /\ next \in DOMAIN prog.items /\ next' = next + 1
      /\ prog.items[next].kind = "lib" /\ open' = Append(open, ModsOf(next))
      /\ UNCHANGED <<prog, ins, grouping>>
      /\ pc' = (IF grouping THEN "input" ELSE "scan")
  BY OpenTypes DEF LibAdd, Take, Item1, ModsOf, StartScan
<1>2. Collecting
  BY <1>1 DEF Collecting
<1> PICK at : Stand(at)
  BY <1>1 DEF OpenInv
<1> PICK n : n = Len(open) + 1
  OBVIOUS
<1> PICK bt : bt = [l \in 1 .. n |-> IF l = n THEN next ELSE at[l]]
  OBVIOUS
<1>3. /\ open \in Seq(Seq(Modules)) /\ DOMAIN open = 1 .. Len(open) /\ Len(open) \in Nat
      /\ next \in Nat \ {0} /\ grouping \in BOOLEAN
      /\ DOMAIN prog.items = 1 .. Len(prog.items) /\ Len(prog.items) \in Nat
  BY OpenTypes
<1>4. ModsOf(next) \in Seq(Modules)
  BY <1>1, ProgramFacts DEF ModsOf
<1>5. /\ DOMAIN open' = 1 .. n /\ Len(open') = n /\ open'[n] = ModsOf(next)
      /\ \A l \in DOMAIN open : open'[l] = open[l]
  BY <1>1, <1>3, <1>4, AppendProperties, LenProperties
<1>6. /\ \A i : ModsOf(i)' = ModsOf(i)
      /\ \A i : InGroup(i)' = InGroup(i)
  BY <1>1 DEF ModsOf, InGroup
<1>7. \A l \in DOMAIN open : at[l] \in DOMAIN prog.items /\ at[l] < next /\ bt[l] = at[l]
  BY <1>3 DEF Stand
<1>8. bt[n] = next /\ bt \in [1 .. n -> DOMAIN prog.items] /\ n \in Nat
  <2>1. \A l \in 1 .. n : l = n \/ l \in DOMAIN open
    BY <1>3
  <2>2. \A l \in 1 .. n : bt[l] \in DOMAIN prog.items
    BY <1>1, <1>7, <2>1
  <2>3. n \in Nat /\ n \in 1 .. n
    BY <1>3
  <2> QED
    BY <2>2, <2>3
<1>9. ~grouping => open = <<>>
  BY <1>1, <1>2 DEF OpenInv
<1>10. grouping => InGroup(next)
  <2> SUFFICES ASSUME grouping PROVE InGroup(next)
    OBVIOUS
  <2>1. PICK s \in 1 .. next - 1 : /\ prog.items[s].kind = "start"
                                   /\ \A r \in s .. next - 1 : prog.items[r].kind # "end"
    BY <1>1, <1>2 DEF OpenInv, GroupOpen
  <2>2. s \in 1 .. next /\ \A r \in s .. next : r = next \/ r \in s .. next - 1
    BY <1>3
  <2> QED
    BY <1>1, <2>1, <2>2 DEF InGroup
<1>11. \A l \in 1 .. n : /\ bt[l] < next + 1 /\ prog.items[bt[l]].kind = "lib"
                         /\ open'[l] = ModsOf(bt[l]) /\ (grouping => InGroup(bt[l]))
  <2> SUFFICES ASSUME NEW l \in 1 .. n
               PROVE  /\ bt[l] < next + 1 /\ prog.items[bt[l]].kind = "lib"
                      /\ open'[l] = ModsOf(bt[l]) /\ (grouping => InGroup(bt[l]))
    OBVIOUS
  <2>1. CASE l = n
    BY <1>1, <1>3, <1>5, <1>8, <1>10, <2>1
  <2>2. CASE l # n
    <3>1. l \in DOMAIN open
      BY <1>3, <2>2
    <3> QED
      BY <1>3, <1>5, <1>7, <3>1 DEF Stand
  <2> QED
    BY <2>1, <2>2
<1>12. \A l, k \in 1 .. n : l < k => bt[l] < bt[k]
  <2> SUFFICES ASSUME NEW l \in 1 .. n, NEW k \in 1 .. n, l < k PROVE bt[l] < bt[k]
    OBVIOUS
  <2>1. l \in DOMAIN open
    BY <1>3
  <2>2. CASE k = n
    BY <1>7, <1>8, <2>1, <2>2
  <2>3. CASE k # n
    <3>1. k \in DOMAIN open
      BY <1>3, <2>3
    <3> QED
      BY <1>7, <2>1, <3>1 DEF Stand
  <2> QED
    BY <2>2, <2>3
<1>13. ASSUME NEW l \in 1 .. n, l + 1 \in 1 .. n, NEW r \in bt[l] + 1 .. bt[l + 1] - 1
       PROVE  prog.items[r].kind = "obj"
  <2>1. l \in DOMAIN open /\ bt[l] = at[l]
    BY <1>3, <1>7, <1>13
  <2>2. CASE l + 1 = n
    <3>1. l = Len(open) /\ bt[l + 1] = next
      BY <1>3, <1>8, <2>2
    <3> QED
      BY <1>2, <1>13, <2>1, <3>1 DEF Stand
  <2>3. CASE l + 1 # n
    <3>1. l + 1 \in DOMAIN open
      BY <1>3, <1>13, <2>3
    <3> QED
      BY <1>1, <1>7, <1>13, <2>1, <3>1 DEF Stand
  <2> QED
    BY <2>2, <2>3
<1>14. \A r \in next + 1 .. next' - 1 : prog.items[r].kind = "obj"
  BY <1>1, <1>3
<1>15. Stand(bt)'
  <2>1. \A l \in 1 .. n : l = n => \A r \in bt[l] + 1 .. next' - 1 : prog.items[r].kind = "obj"
    BY <1>8, <1>14
  <2>2. bt \in [DOMAIN open' -> DOMAIN prog'.items]
    BY <1>1, <1>5, <1>8
  <2>3. ASSUME NEW l \in 1 .. n
        PROVE  /\ bt[l] < next' /\ prog'.items[bt[l]].kind = "lib"
               /\ open'[l] = ModsOf(bt[l])' /\ (grouping' => InGroup(bt[l])')
    BY <1>1, <1>6, <1>11
  <2>4. ASSUME NEW l \in 1 .. n, l + 1 \in 1 .. n
        PROVE  \A r \in bt[l] + 1 .. bt[l + 1] - 1 : prog'.items[r].kind = "obj"
    <3>1. \A r \in bt[l] + 1 .. bt[l + 1] - 1 : prog.items[r].kind = "obj"
      BY <1>13, <2>4
    <3> QED
      BY <1>1, <3>1
  <2>5. DOMAIN open' = 1 .. n /\ Len(open') = n
    BY <1>5
  <2>6. \A l \in 1 .. n : l = n => \A r \in bt[l] + 1 .. next' - 1 : prog'.items[r].kind = "obj"
    BY <1>1, <2>1
  <2> QED
    BY <1>12, <2>2, <2>3, <2>4, <2>5, <2>6 DEF Stand
<1>16. grouping => GroupOpen'
  <2> SUFFICES ASSUME grouping PROVE GroupOpen'
    OBVIOUS
  <2>1. PICK s \in 1 .. next - 1 : /\ prog.items[s].kind = "start"
                                   /\ \A r \in s .. next - 1 : prog.items[r].kind # "end"
    BY <1>1, <1>2 DEF OpenInv, GroupOpen
  <2>2. s \in 1 .. next' - 1 /\ \A r \in s .. next' - 1 : r = next \/ r \in s .. next - 1
    BY <1>1, <1>3
  <2> QED
    BY <1>1, <2>1, <2>2 DEF GroupOpen
<1>17. ~grouping => Len(open') <= 1 /\ ~Collecting'
  <2>1. ~grouping => n = 1
    BY <1>9, <1>3
  <2> QED
    BY <1>1, <1>5, <2>1 DEF Collecting
<1> QED
  BY <1>1, <1>15, <1>16, <1>17 DEF OpenInv

\* It does not matter which library LoadLib takes out.
LEMMA OpenLoadLib ==
    ASSUME OpenInv, TypeControl, LoadLib
    PROVE  OpenInv'
<1>1. /\ pc = "load" /\ pc' = "load" /\ lib <= Len(open) /\ lib' = lib + 1
      /\ UNCHANGED <<prog, next, ins, grouping>>
  BY DEF LoadLib
<1>2. ~Collecting /\ ~Collecting'
  BY <1>1 DEF Collecting
<1>3. /\ DOMAIN open = 1 .. Len(open) /\ Len(open) \in Nat /\ lib \in Nat \ {0}
      /\ lib' \in Nat
  BY <1>1, OpenTypes
<1>4. CASE open' = open
  BY <1>1, <1>2, <1>3, <1>4, OpenSame
<1>5. CASE open' # open
  <2> PICK at : Stand(at)
    BY <1>1 DEF OpenInv
  <2> PICK n : n = Len(open) - 1
    OBVIOUS
  <2> PICK bt : bt = [l \in 1 .. n |-> IF l < lib THEN at[l] ELSE at[l + 1]]
    OBVIOUS
  <2>1. /\ Len(open') = n /\ DOMAIN open' = 1 .. n
        /\ \A l \in 1 .. n : open'[l] = IF l < lib THEN open[l] ELSE open[l + 1]
    BY <1>5, LibTaken
  <2>2. /\ n \in Nat /\ \A l \in 1 .. n : l \in DOMAIN open /\ l + 1 \in DOMAIN open
    BY <1>1, <1>3
  <2>3. /\ \A i : ModsOf(i)' = ModsOf(i)
        /\ \A i : InGroup(i)' = InGroup(i)
    BY <1>1 DEF ModsOf, InGroup
  <2>4. bt \in [1 .. n -> DOMAIN prog.items]
    BY <2>2 DEF Stand
  <2>5. ASSUME NEW l \in 1 .. n
        PROVE  /\ bt[l] < next /\ prog.items[bt[l]].kind = "lib"
               /\ open'[l] = ModsOf(bt[l]) /\ (grouping => InGroup(bt[l]))
    BY <2>1, <2>2 DEF Stand
  <2>6. ASSUME NEW l \in 1 .. n, NEW k \in 1 .. n, l < k
        PROVE  bt[l] < bt[k]
    <3> PICK i : i = IF l < lib THEN l ELSE l + 1
      OBVIOUS
    <3> PICK j : j = IF k < lib THEN k ELSE k + 1
      OBVIOUS
    <3>1. i \in DOMAIN open /\ j \in DOMAIN open /\ i < j /\ bt[l] = at[i] /\ bt[k] = at[j]
      BY <1>3, <2>2, <2>6
    <3> QED
      BY <3>1 DEF Stand
  <2>7. ASSUME NEW l \in 1 .. n, l + 1 \in 1 .. n, lib + 1 <= l
        PROVE  \A r \in bt[l] + 1 .. bt[l + 1] - 1 : prog.items[r].kind = "obj"
    <3>1. l + 1 \in DOMAIN open /\ (l + 1) + 1 \in DOMAIN open /\ lib <= l + 1
      BY <1>3, <2>2, <2>7
    <3>2. bt[l] = at[l + 1] /\ bt[l + 1] = at[(l + 1) + 1]
      BY <1>3, <2>7
    <3> QED
      BY <3>1, <3>2 DEF Stand
  <2>8. Stand(bt)'
    <3>1. ASSUME NEW l \in 1 .. n
          PROVE  /\ bt[l] < next' /\ prog'.items[bt[l]].kind = "lib"
                 /\ open'[l] = ModsOf(bt[l])' /\ (grouping' => InGroup(bt[l])')
      BY <1>1, <2>3, <2>5
    <3>2. ASSUME NEW l \in 1 .. n, l + 1 \in 1 .. n, lib' <= l
          PROVE  \A r \in bt[l] + 1 .. bt[l + 1] - 1 : prog'.items[r].kind = "obj"
      <4>1. \A r \in bt[l] + 1 .. bt[l + 1] - 1 : prog.items[r].kind = "obj"
        BY <1>1, <2>7, <3>2
      <4> QED
        BY <1>1, <4>1
    <3>3. bt \in [DOMAIN open' -> DOMAIN prog'.items]
      BY <1>1, <2>1, <2>4
    <3> QED
      BY <1>1, <1>2, <2>1, <2>6, <3>1, <3>2, <3>3 DEF Stand
  <2>9. ~grouping => Len(open') <= 1
    <3>1. ~grouping => Len(open) <= 1
      BY <1>1 DEF OpenInv
    <3> QED
      BY <1>3, <2>1, <2>2, <3>1
  <2> QED
    BY <1>1, <1>2, <2>8, <2>9 DEF OpenInv
<1> QED
  BY <1>4, <1>5

\* No library is open.
LEMMA NoneOpen ==
    ASSUME open' = <<>>, ~grouping'
    PROVE  OpenInv'
<1>1. DOMAIN open' = {} /\ Len(open') = 0
  BY EmptySeq
<1> PICK at : at = [l \in {} |-> 0]
  OBVIOUS
<1>2. at \in [DOMAIN open' -> DOMAIN prog'.items]
  BY <1>1
<1>3. Stand(at)'
  BY <1>1, <1>2 DEF Stand
<1> QED
  BY <1>1, <1>3 DEF OpenInv

\* The items that open no library and end no group.
LEMMA OpenItems ==
    ASSUME OpenInv, TypeControl, ForceImport \/ DefineSymbol \/ ObjAdd \/ LibStartGroup
    PROVE  OpenInv'
<1>1. pc = "input" /\ next \in DOMAIN prog.items /\ next' = next + 1 /\ Collecting
  BY OpenTypes DEF ForceImport, DefineSymbol, ObjAdd, LibStartGroup, Take, Collecting
<1>2. CASE ForceImport \/ DefineSymbol \/ ObjAdd
  <2>1. /\ UNCHANGED <<prog, open, grouping>> /\ pc' \in {"input", "insert"}
        /\ prog.items[next].kind \notin {"lib", "start", "end"}
    BY <1>1, <1>2 DEF ForceImport, DefineSymbol, ObjAdd, Insert, Take, Item1, libs
  <2> QED
    BY <1>1, <2>1, OpenNext
<1>3. CASE LibStartGroup
  <2>1. /\ ~grouping /\ grouping' /\ prog.items[next].kind = "start"
        /\ UNCHANGED <<prog, pc, ins, open>>
    BY <1>3 DEF LibStartGroup, Take, Item1
  <2>2. open = <<>> /\ DOMAIN open' = {}
    BY <1>1, <2>1 DEF OpenInv
  <2> PICK at : Stand(at)
    BY <1>1 DEF OpenInv
  <2>3. Stand(at)'
    BY <2>1, <2>2 DEF Stand
  <2>4. GroupOpen'
    <3>1. next \in Nat \ {0} /\ next' - 1 = next
      BY <1>1, OpenTypes
    <3>2. next \in 1 .. next' - 1 /\ \A r \in next .. next' - 1 : r = next
      BY <3>1
    <3> QED
      BY <2>1, <3>2 DEF GroupOpen
  <2> QED
    BY <1>1, <2>1, <2>3, <2>4 DEF OpenInv
<1> QED
  BY <1>2, <1>3

\* A group ends, and its libraries are searched.
LEMMA OpenGroupEnd ==
    ASSUME OpenInv, TypeControl, LibEndGroup
    PROVE  OpenInv'
<1>1. /\ pc = "input" /\ pc' = "scan" /\ next' = next + 1 /\ grouping
      /\ UNCHANGED <<prog, ins, grouping, open>>
  BY DEF LibEndGroup, Take, StartScan
<1> PICK at : Stand(at)
  BY <1>1 DEF OpenInv
<1>2. next \in Nat /\ next' \in Nat /\ \A l \in DOMAIN open : at[l] \in Nat
  BY <1>1, OpenTypes DEF Stand
<1>3. /\ \A i : ModsOf(i)' = ModsOf(i)
      /\ \A i : InGroup(i)' = InGroup(i)
      /\ ~Collecting'
  BY <1>1 DEF ModsOf, InGroup, Collecting
<1>4. \A l \in DOMAIN open : at[l] < next'
  BY <1>1, <1>2 DEF Stand
<1>5. Stand(at)'
  BY <1>1, <1>3, <1>4 DEF Stand
<1> QED
  BY <1>1, <1>3, <1>5 DEF OpenInv

\* Every step keeps the open libraries where the command line has them.
LEMMA OpenStep == IInv /\ IInv' /\ OpenInv /\ [Next]_vars => OpenInv'
<1> SUFFICES ASSUME IInv, IInv', OpenInv, [Next]_vars, pc' # "error" PROVE OpenInv'
  BY DEF OpenInv
<1>1. TypeControl /\ TypeControl'
  BY DEF IInv
<1>2. /\ lib \in Nat \ {0} /\ lib' \in Nat \ {0}
      /\ ins.back \in {"input", "scan"} /\ grouping \in BOOLEAN
  BY <1>1 DEF TypeControl
<1>3. CASE CommandLine
  <2>1. ~UsageError
    BY DEF UsageError
  <2> QED
    BY <1>1, <1>3, <2>1, OpenItems, OpenLib, OpenGroupEnd DEF CommandLine
<1>4. CASE InsertGlobals
  <2>1. /\ pc = "insert" /\ pc' \in {"insert", ins.back} /\ (pc' = "insert" => ins'.back = ins.back)
        /\ UNCHANGED <<prog, next, open, grouping>>
    BY <1>4 DEF InsertGlobals, InsertExport, InsertDuplicate, InsertImport, Inserted, libs
  <2>2. Collecting' => Collecting
    BY <1>2, <2>1 DEF Collecting
  <2> QED
    BY <1>1, <1>2, <2>1, <2>2, OpenSame
<1>5. CASE LibCheckExports \/ NextLib \/ EndOfPass \/ LoadModule
  <2>1. /\ pc \in {"scan", "load"} /\ pc' \in {"scan", "insert", "load"}
        /\ (pc' = "insert" => ins'.back = "scan")
        /\ (pc = "load" => pc' = "load" /\ lib' = lib)
        /\ UNCHANGED <<prog, next, open, grouping>>
    BY <1>5 DEF LibCheckExports, NextLib, EndOfPass, LoadModule, Insert
  <2>2. ~Collecting'
    BY <2>1 DEF Collecting
  <2> QED
    BY <1>1, <1>2, <2>1, <2>2, OpenSame
<1>6. CASE LoadLib
  BY <1>1, <1>6, OpenLoadLib
<1>7. CASE EndOfLoad
  BY <1>7, NoneOpen DEF EndOfLoad
<1>8. CASE Finish
  <2>1. /\ pc \in {"input", "condes", "count", "check"}
        /\ pc' \in {"condes", "count", "check", "linked", "unresolved"}
        /\ (pc = "input" => ~grouping)
        /\ UNCHANGED <<prog, next, open, grouping>>
    BY <1>8 DEF Finish, InputEnds, ConDesCreate, ConDesCount, CheckUnresolvedImports, libs
  <2>2. open = <<>>
    BY <2>1 DEF OpenInv, Collecting
  <2>3. ~Collecting'
    BY <2>1 DEF Collecting
  <2> QED
    BY <1>1, <1>2, <2>1, <2>2, <2>3, OpenSame
<1>9. CASE UNCHANGED vars
  <2>1. UNCHANGED <<prog, next, open, grouping, pc, ins, lib>>
    BY <1>9 DEF vars, libs
  <2> QED
    BY <2>1 DEF OpenInv, Stand, ModsOf, InGroup, Collecting, GroupOpen
<1> QED
  BY <1>3, <1>4, <1>5, <1>6, <1>7, <1>8, <1>9 DEF Next, LibResolve

\* Module m is in an open library, and still to be loaded.
InOpen(m) == \E l \in DOMAIN open : \E k \in DOMAIN open[l] : open[l][k] = m
Ahead(l, k) == pc = "load" => l > lib \/ (l = lib /\ k >= mod)
Pending(m) == \E l \in DOMAIN open : \E k \in DOMAIN open[l] : open[l][k] = m /\ Ahead(l, k)

\* Module m is the object file that is read, or loaded, or skipped: it is in
\* the library behind one without a module in use, which can get none any more.
Loading(m) == pc = "insert" /\ ins.back = "input" /\ ins.m = m
IsLoaded(m) == \E i \in DOMAIN loaded : loaded[i] = m
Over(p) == \A m \in Modules : InFile(m, p) => m \notin ref /\ ~InOpen(m)
Skipped(m) == \E p, q \in DOMAIN prog.items :
                  Behind(p, q) /\ prog.items[q].kind = "lib" /\ q < next /\ InFile(m, q) /\ Over(p)

LoadInv ==
    pc # "error" =>
        /\ \A m \in ref : Read(m) /\ (IsLoaded(m) \/ Pending(m) \/ Skipped(m) \/ Loading(m))
        /\ \A i, j \in DOMAIN loaded : loaded[i] = loaded[j] => i = j
        /\ \A m \in Modules : IsLoaded(m) => Read(m) /\ ~Pending(m) /\ ~Loading(m)
        /\ \A m \in Modules : Loading(m) => Read(m) /\ ~InOpen(m)

\* The open libraries have been read.
LEMMA OpenRead ==
    ASSUME OpenInv, TypeControl, pc # "error", NEW m, InOpen(m)
    PROVE  Read(m)
<1> PICK at : Stand(at)
  BY DEF OpenInv
<1>1. PICK l \in DOMAIN open : \E k \in DOMAIN open[l] : open[l][k] = m
  BY DEF InOpen
<1>2. at[l] \in DOMAIN prog.items /\ at[l] < next /\ open[l] = ModsOf(at[l])
  BY <1>1 DEF Stand
<1> QED
  BY <1>1, <1>2 DEF Read, InFile

\* What comes next has not been read.
LEMMA NewFile ==
    ASSUME TypeControl, next \in DOMAIN prog.items, NEW m, InFile(m, next)
    PROVE  ~Read(m)
<1> SUFFICES ASSUME NEW i \in DOMAIN prog.items, i < next, InFile(m, i) PROVE FALSE
  BY DEF Read
<1>1. i = next
  BY OneFile DEF InFile
<1> QED
  BY <1>1, OpenTypes

\* A module is in one open library, at one place.
LEMMA OnePlace ==
    ASSUME OpenInv, TypeControl, pc # "error",
           NEW l \in DOMAIN open, NEW k \in DOMAIN open[l],
           NEW j \in DOMAIN open, NEW i \in DOMAIN open[j], open[l][k] = open[j][i]
    PROVE  l = j /\ k = i
<1> PICK at : Stand(at)
  BY DEF OpenInv
<1>1. /\ at[l] \in DOMAIN prog.items /\ open[l] = ModsOf(at[l])
      /\ at[j] \in DOMAIN prog.items /\ open[j] = ModsOf(at[j])
  BY DEF Stand
<1>2. at[l] = at[j] /\ k = i
  BY <1>1, OneFile
<1>3. l \in Nat /\ j \in Nat /\ at[l] \in Nat
  <2>1. /\ DOMAIN open = 1 .. Len(open) /\ Len(open) \in Nat
        /\ DOMAIN prog.items = 1 .. Len(prog.items) /\ Len(prog.items) \in Nat
    BY OpenTypes
  <2> QED
    BY <1>1, <2>1
<1>4. ~(l < j) /\ ~(j < l)
  BY <1>2, <1>3 DEF Stand
<1> QED
  BY <1>2, <1>3, <1>4

\* A step that neither links nor loads.
LEMMA LoadSame ==
    ASSUME LoadInv, TypeControl, pc # "error", UNCHANGED <<prog, open, ref, loaded>>,
           next' \in {next, next + 1},
           \A m \in Modules : /\ Pending(m)' <=> Pending(m)
                              /\ Loading(m)' <=> Loading(m)
    PROVE  LoadInv'
<1>1. next \in Nat /\ next <= next' /\ \A i \in DOMAIN prog.items : i \in Nat
  BY OpenTypes
<1>2. \A m : Read(m) => Read(m)'
  BY <1>1 DEF Read, InFile, ModsOf
<1>3. \A m : InOpen(m)' = InOpen(m) /\ IsLoaded(m)' = IsLoaded(m)
  BY DEF InOpen, IsLoaded
<1>4. ASSUME NEW m, Skipped(m) PROVE Skipped(m)'
  <2>1. PICK p, q \in DOMAIN prog.items :
           Behind(p, q) /\ prog.items[q].kind = "lib" /\ q < next /\ InFile(m, q) /\ Over(p)
    BY <1>4 DEF Skipped
  <2>2. q < next'
    BY <1>1, <2>1
  <2>3. Behind(p, q)' /\ InFile(m, q)' /\ Over(p)'
    BY <2>1 DEF Behind, InGroup, InFile, Over, InOpen, ModsOf
  <2> QED
    BY <2>1, <2>2, <2>3 DEF Skipped
<1>5. ref \subseteq Modules
  BY DEF TypeControl
<1> QED
  BY <1>2, <1>3, <1>4, <1>5 DEF LoadInv

\* An object file is linked.
LEMMA LoadObjAdd ==
    ASSUME LoadInv, OpenInv, TypeControl, ObjAdd
    PROVE  LoadInv'
<1> PICK m : m = ModsOf(next)[1]
  OBVIOUS
<1>1. /\ pc = "input" /\ pc' = "insert" /\ next \in DOMAIN prog.items /\ next' = next + 1
      /\ ref' = ref \cup {m} /\ ins'.m = m /\ ins'.back = "input"
      /\ UNCHANGED <<prog, open, loaded>>
      /\ prog.items[next].kind = "obj"
  BY OpenTypes DEF ObjAdd, Take, Insert, Item1, libs, ModsOf
<1>2. next \in Nat /\ \A i \in DOMAIN prog.items : i \in Nat
  BY OpenTypes
<1>3. InFile(m, next) /\ m \in Modules
  <2>1. prog \in Programs /\ prog.items[next].mods \in Seq(Modules)
    BY <1>1, ProgramFacts DEF TypeControl
  <2>2. prog.items[next].mods # <<>>
    BY <1>1, <2>1, LinkerAssumption
  <2>3. 1 \in DOMAIN prog.items[next].mods
    BY <2>1, <2>2, LenProperties, EmptySeq
  <2> QED
    BY <1>1, <2>1, <2>3, ElementOfSeq, LenProperties DEF InFile, ModsOf
<1>4. ~Read(m)
  BY <1>1, <1>3, NewFile
<1>5. ~InOpen(m) /\ ~Pending(m)
  BY <1>1, <1>4, OpenRead DEF Pending, InOpen
<1>6. \A x : Read(x) => Read(x)'
  BY <1>1, <1>2 DEF Read, InFile, ModsOf
<1>7. Read(m)'
  BY <1>1, <1>2, <1>3 DEF Read, InFile, ModsOf
<1>8. \A x : /\ InOpen(x)' = InOpen(x) /\ IsLoaded(x)' = IsLoaded(x)
             /\ Pending(x)' = Pending(x)
             /\ ~Loading(x) /\ (Loading(x)' <=> x = m)
  BY <1>1 DEF InOpen, IsLoaded, Pending, Ahead, Loading
<1>9. ASSUME NEW x, Skipped(x) PROVE Skipped(x)'
  <2>1. PICK p, q \in DOMAIN prog.items :
           Behind(p, q) /\ prog.items[q].kind = "lib" /\ q < next /\ InFile(x, q) /\ Over(p)
    BY <1>9 DEF Skipped
  <2>2. q < next' /\ p < next
    BY <1>1, <1>2, <2>1 DEF Behind
  <2>3. Behind(p, q)' /\ InFile(x, q)'
    BY <1>1, <2>1 DEF Behind, InGroup, InFile, ModsOf
  <2>4. ~InFile(m, p)
    BY <1>4, <2>2 DEF Read
  <2>5. \A y : InFile(y, p)' = InFile(y, p)
    BY <1>1 DEF InFile, ModsOf
  <2>6. Over(p)'
    BY <1>1, <1>8, <2>1, <2>4, <2>5 DEF Over
  <2> QED
    BY <1>1, <2>1, <2>2, <2>3, <2>6 DEF Skipped
<1> QED
  BY <1>1, <1>4, <1>5, <1>6, <1>7, <1>8, <1>9 DEF LoadInv

\* An object file is loaded.
LEMMA LoadInserted ==
    ASSUME LoadInv, OpenInv, TypeControl, Inserted
    PROVE  LoadInv'
<1>1. /\ pc = "insert" /\ pc' = ins.back /\ ins.back \in {"input", "scan"} /\ ins.m \in Modules
      /\ loaded' = IF ins.back = "input" THEN Append(loaded, ins.m) ELSE loaded
      /\ UNCHANGED <<prog, next, ref, open, lib, mod>>
  BY DEF Inserted, libs, TypeControl
<1>2. \A m : Pending(m)' = Pending(m) /\ ~Loading(m)'
  BY <1>1 DEF Pending, Ahead, Loading
<1>3. CASE ins.back = "scan"
  <2>1. \A m : ~Loading(m)
    BY <1>3 DEF Loading
  <2> QED
    BY <1>1, <1>2, <1>3, <2>1, LoadSame
<1>4. CASE ins.back = "input"
  <2> PICK m : m = ins.m
    OBVIOUS
  <2> PICK n : n = Len(loaded) + 1
    OBVIOUS
  <2>1. /\ loaded \in Seq(Modules) /\ DOMAIN loaded = 1 .. Len(loaded) /\ Len(loaded) \in Nat
    BY LenProperties DEF TypeControl
  <2>2. /\ DOMAIN loaded' = 1 .. n /\ loaded'[n] = m
        /\ \A i \in DOMAIN loaded : loaded'[i] = loaded[i]
        /\ \A i \in 1 .. n : i = n \/ i \in DOMAIN loaded
        /\ n \in 1 .. n /\ DOMAIN loaded \subseteq 1 .. n
    BY <1>1, <1>4, <2>1, AppendProperties, LenProperties
  <2>3. Loading(m) /\ \A x : Loading(x) => x = m
    BY <1>1, <1>4 DEF Loading
  <2>4. m \in Modules /\ Read(m) /\ ~Pending(m) /\ ~IsLoaded(m)
    BY <1>1, <2>3 DEF LoadInv, Pending, InOpen
  <2>5. /\ \A x : Read(x)' = Read(x)
        /\ \A x : InOpen(x)' = InOpen(x)
        /\ \A x : Skipped(x)' = Skipped(x)
    BY <1>1 DEF Read, InFile, ModsOf, InOpen, Skipped, Behind, InGroup, Over
  <2>6. \A x : IsLoaded(x)' <=> IsLoaded(x) \/ x = m
    BY <2>2 DEF IsLoaded
  <2>7. \A i \in DOMAIN loaded : loaded[i] # m
    BY <2>4 DEF IsLoaded
  <2>8. \A i, j \in DOMAIN loaded' : loaded'[i] = loaded'[j] => i = j
    BY <1>1, <2>2, <2>7 DEF LoadInv
  <2> QED
    BY <1>1, <1>2, <2>3, <2>4, <2>5, <2>6, <2>8 DEF LoadInv
<1> QED
  BY <1>1, <1>3, <1>4

\* A library is opened.
LEMMA LoadLibAdd ==
    ASSUME LoadInv, OpenInv, TypeControl, LibAdd
    PROVE  LoadInv'
<1>1. /\ pc = "input" /\ next \in DOMAIN prog.items /\ next' = next + 1
      /\ open' = Append(open, ModsOf(next))
      /\ UNCHANGED <<prog, ref, loaded>>
      /\ pc' \in {"input", "scan"}
  BY OpenTypes DEF LibAdd, Take, Item1, ModsOf, StartScan
<1>2. /\ next \in Nat /\ \A i \in DOMAIN prog.items : i \in Nat
      /\ open \in Seq(Seq(Modules)) /\ DOMAIN open = 1 .. Len(open) /\ Len(open) \in Nat
  BY OpenTypes
<1>3. ModsOf(next) \in Seq(Modules)
  BY <1>1, ProgramFacts DEF ModsOf
<1> PICK n : n = Len(open) + 1
  OBVIOUS
<1>4. /\ DOMAIN open' = 1 .. n /\ open'[n] = ModsOf(next)
      /\ \A l \in DOMAIN open : open'[l] = open[l]
      /\ \A l \in 1 .. n : l = n \/ l \in DOMAIN open
      /\ DOMAIN open \subseteq 1 .. n
  BY <1>1, <1>2, <1>3, AppendProperties, LenProperties
<1>5. ASSUME NEW m, InOpen(m)' PROVE InOpen(m) \/ InFile(m, next)
  BY <1>4, <1>5 DEF InOpen, InFile
<1>6. ASSUME NEW m, Read(m), InOpen(m)' PROVE InOpen(m)
  BY <1>1, <1>5, <1>6, NewFile
<1>7. \A m : InOpen(m) => InOpen(m)'
  BY <1>4 DEF InOpen
<1>8. \A m : (Pending(m) <=> InOpen(m)) /\ (Pending(m)' <=> InOpen(m)') /\ ~Loading(m) /\ ~Loading(m)'
  BY <1>1 DEF Pending, InOpen, Ahead, Loading
<1>9. ASSUME NEW m, Read(m) PROVE Read(m)'
  <2>1. PICK i \in DOMAIN prog.items : i < next /\ InFile(m, i)
    BY <1>9 DEF Read
  <2>2. i < next' /\ InFile(m, i)'
    BY <1>1, <1>2, <2>1 DEF InFile, ModsOf
  <2> QED
    BY <1>1, <2>2 DEF Read
<1>10. ASSUME NEW m, Skipped(m) PROVE Skipped(m)'
  <2>1. PICK p, q \in DOMAIN prog.items :
           Behind(p, q) /\ prog.items[q].kind = "lib" /\ q < next /\ InFile(m, q) /\ Over(p)
    BY <1>10 DEF Skipped
  <2>2. q < next' /\ p < next
    BY <1>1, <1>2, <2>1 DEF Behind
  <2>3. Behind(p, q)' /\ InFile(m, q)'
    BY <1>1, <2>1 DEF Behind, InGroup, InFile, ModsOf
  <2>4. \A y : InFile(y, p) => Read(y)
    BY <2>2 DEF Read
  <2>5. \A y : InFile(y, p)' = InFile(y, p)
    BY <1>1 DEF InFile, ModsOf
  <2>6. Over(p)'
    BY <1>1, <1>6, <2>1, <2>4, <2>5 DEF Over
  <2> QED
    BY <1>1, <2>1, <2>2, <2>3, <2>6 DEF Skipped
<1>11. \A m : IsLoaded(m)' = IsLoaded(m)
  BY <1>1 DEF IsLoaded
<1> QED
  BY <1>1, <1>6, <1>7, <1>8, <1>9, <1>10, <1>11 DEF LoadInv

\* A module of an open library is linked, or not.
LEMMA LoadCheck ==
    ASSUME LoadInv, OpenInv, TypeControl, LibCheckExports
    PROVE  LoadInv'
<1> PICK m : m = open[lib][mod]
  OBVIOUS
<1>1. /\ pc = "scan" /\ lib <= Len(open) /\ mod <= Len(open[lib])
      /\ UNCHANGED <<prog, next, loaded, open, lib>>
      /\ \/ UNCHANGED <<ref, ins, pc>>
         \/ ref' = ref \cup {m} /\ ins'.back = "scan" /\ pc' = "insert"
  BY DEF LibCheckExports, Insert
<1>2. InOpen(m)
  <2>1. lib \in DOMAIN open
    BY <1>1, OpenTypes
  <2>2. mod \in DOMAIN open[lib]
    BY <1>1, <2>1, OpenTypes
  <2> QED
    BY <2>1, <2>2 DEF InOpen
<1>3. \A x : (Pending(x) <=> InOpen(x)) /\ (Pending(x)' <=> InOpen(x)) /\ ~Loading(x) /\ ~Loading(x)'
  BY <1>1 DEF Pending, InOpen, Ahead, Loading
<1>4. CASE UNCHANGED <<ref, ins, pc>>
  BY <1>1, <1>3, <1>4, LoadSame
<1>5. CASE ref' = ref \cup {m}
  <2>1. Read(m)
    BY <1>1, <1>2, OpenRead
  <2>2. \A x : Read(x)' = Read(x) /\ IsLoaded(x)' = IsLoaded(x) /\ InOpen(x)' = InOpen(x)
    BY <1>1 DEF Read, InFile, ModsOf, IsLoaded, InOpen
  <2>3. ASSUME NEW x, Skipped(x) PROVE Skipped(x)'
    <3>1. PICK p, q \in DOMAIN prog.items :
             Behind(p, q) /\ prog.items[q].kind = "lib" /\ q < next /\ InFile(x, q) /\ Over(p)
      BY <2>3 DEF Skipped
    <3>2. Behind(p, q)' /\ InFile(x, q)' /\ q < next'
      BY <1>1, <3>1 DEF Behind, InGroup, InFile, ModsOf
    <3>3. \A y : InFile(y, p)' = InFile(y, p)
      BY <1>1 DEF InFile, ModsOf
    <3>4. Over(p)'
      BY <1>2, <1>5, <2>2, <3>1, <3>3 DEF Over
    <3> QED
      BY <1>1, <3>1, <3>2, <3>4 DEF Skipped
  <2> QED
    BY <1>1, <1>2, <1>3, <1>5, <2>1, <2>2, <2>3 DEF LoadInv
<1> QED
  BY <1>1, <1>4, <1>5

\* A module of an open library is loaded, or freed.
LEMMA LoadModuleStep ==
    ASSUME LoadInv, OpenInv, TypeControl, LoadModule
    PROVE  LoadInv'
<1> PICK m : m = open[lib][mod]
  OBVIOUS
<1>1. /\ pc = "load" /\ pc' = "load" /\ mod' = mod + 1
      /\ lib <= Len(open) /\ mod <= Len(open[lib])
      /\ loaded' = IF m \in ref THEN Append(loaded, m) ELSE loaded
      /\ UNCHANGED <<prog, next, ref, open, lib>>
  BY DEF LoadModule
<1>2. /\ lib \in DOMAIN open /\ mod \in DOMAIN open[lib] /\ mod \in Nat /\ m \in Modules
      /\ \A l \in DOMAIN open : \A k \in DOMAIN open[l] : k \in Nat
  <2>1. lib \in DOMAIN open
    BY <1>1, OpenTypes
  <2>2. mod \in DOMAIN open[lib]
    BY <1>1, <2>1, OpenTypes
  <2> QED
    BY <2>1, <2>2, OpenTypes
<1>3. Pending(m) /\ InOpen(m)
  BY <1>1, <1>2 DEF Pending, InOpen, Ahead
<1>4. ASSUME NEW x, Pending(x)' PROVE Pending(x) /\ x # m
  <2>1. PICK l \in DOMAIN open : \E k \in DOMAIN open[l] :
                 open[l][k] = x /\ (l > lib \/ (l = lib /\ k >= mod + 1))
    BY <1>1, <1>4 DEF Pending, Ahead
  <2>2. PICK k \in DOMAIN open[l] : open[l][k] = x /\ (l > lib \/ (l = lib /\ k >= mod + 1))
    BY <2>1
  <2>3. l > lib \/ (l = lib /\ k >= mod)
    BY <1>2, <2>2
  <2>4. ~(l = lib /\ k = mod)
    <3>1. lib \in Nat /\ mod \in Nat
      BY <1>2, OpenTypes
    <3> QED
      BY <2>2, <3>1
  <2>5. x # m
    BY <1>1, <1>2, <2>2, <2>4, OnePlace
  <2> QED
    BY <1>1, <2>2, <2>3, <2>5 DEF Pending, Ahead
<1>5. ASSUME NEW x, Pending(x), x # m PROVE Pending(x)'
  <2>1. PICK l \in DOMAIN open : \E k \in DOMAIN open[l] :
                 open[l][k] = x /\ (l > lib \/ (l = lib /\ k >= mod))
    BY <1>1, <1>5 DEF Pending, Ahead
  <2>2. PICK k \in DOMAIN open[l] : open[l][k] = x /\ (l > lib \/ (l = lib /\ k >= mod))
    BY <2>1
  <2>3. ~(l = lib /\ k = mod)
    BY <1>5, <2>2
  <2>4. l > lib \/ (l = lib /\ k >= mod + 1)
    BY <1>2, <2>2, <2>3
  <2> QED
    BY <1>1, <2>2, <2>4 DEF Pending, Ahead
<1>6. \A x : ~Loading(x) /\ ~Loading(x)'
  BY <1>1 DEF Loading
<1>7. /\ \A x : Read(x)' = Read(x)
      /\ \A x : InOpen(x)' = InOpen(x)
      /\ \A x : Skipped(x)' = Skipped(x)
  BY <1>1 DEF Read, InFile, ModsOf, InOpen, Skipped, Behind, InGroup, Over
<1>8. CASE m \in ref
  <2> PICK n : n = Len(loaded) + 1
    OBVIOUS
  <2>1. loaded \in Seq(Modules) /\ DOMAIN loaded = 1 .. Len(loaded) /\ Len(loaded) \in Nat
    BY LenProperties DEF TypeControl
  <2>2. /\ DOMAIN loaded' = 1 .. n /\ loaded'[n] = m
        /\ \A i \in DOMAIN loaded : loaded'[i] = loaded[i]
        /\ \A i \in 1 .. n : i = n \/ i \in DOMAIN loaded
        /\ n \in 1 .. n /\ DOMAIN loaded \subseteq 1 .. n
    BY <1>1, <1>2, <1>8, <2>1, AppendProperties, LenProperties
  <2>3. \A x : IsLoaded(x)' <=> IsLoaded(x) \/ x = m
    BY <2>2 DEF IsLoaded
  <2>4. Read(m) /\ ~IsLoaded(m)
    BY <1>1, <1>2, <1>3, <1>8 DEF LoadInv
  <2>5. \A i \in DOMAIN loaded : loaded[i] # m
    BY <2>4 DEF IsLoaded
  <2>6. \A i, j \in DOMAIN loaded' : loaded'[i] = loaded'[j] => i = j
    BY <1>1, <2>2, <2>5 DEF LoadInv
  <2> QED
    BY <1>1, <1>4, <1>5, <1>6, <1>7, <2>3, <2>4, <2>6 DEF LoadInv
<1>9. CASE m \notin ref
  <2>1. loaded' = loaded /\ \A x : IsLoaded(x)' = IsLoaded(x)
    BY <1>1, <1>9 DEF IsLoaded
  <2> QED
    BY <1>1, <1>4, <1>5, <1>6, <1>7, <1>9, <2>1 DEF LoadInv
<1> QED
  BY <1>8, <1>9

\* The next library: if this one was taken out of the list it is the one
\* behind, and the one between them is skipped.
LEMMA LoadLibStep ==
    ASSUME LoadInv, OpenInv, TypeControl, LoadLib
    PROVE  LoadInv'
<1>1. /\ pc = "load" /\ pc' = "load" /\ lib <= Len(open) /\ mod > Len(open[lib])
      /\ lib' = lib + 1 /\ mod' = 1
      /\ UNCHANGED <<prog, next, ins, ref, loaded, grouping>>
  BY DEF LoadLib, symbols
<1>2. /\ DOMAIN open = 1 .. Len(open) /\ Len(open) \in Nat /\ lib \in Nat \ {0} /\ mod \in Nat
      /\ lib \in DOMAIN open
      /\ \A l \in DOMAIN open : \A k \in DOMAIN open[l] : k \in Nat \ {0} /\ k <= Len(open[l])
  <2>1. /\ DOMAIN open = 1 .. Len(open) /\ Len(open) \in Nat /\ lib \in Nat \ {0} /\ mod \in Nat
    BY OpenTypes
  <2>2. ASSUME NEW l \in DOMAIN open, NEW k \in DOMAIN open[l]
        PROVE  k \in Nat \ {0} /\ k <= Len(open[l])
    <3>1. DOMAIN open[l] = 1 .. Len(open[l]) /\ Len(open[l]) \in Nat
      BY OpenTypes
    <3> QED
      BY <3>1
  <2>3. lib \in DOMAIN open
    BY <1>1, <2>1
  <2> QED
    BY <2>1, <2>2, <2>3
<1>3. Len(open[lib]) \in Nat
  BY <1>2, OpenTypes
<1>4. ASSUME NEW m, Pending(m)
      PROVE  \E l \in DOMAIN open : l > lib /\ \E k \in DOMAIN open[l] : open[l][k] = m
  <2>1. PICK l \in DOMAIN open : \E k \in DOMAIN open[l] :
                 open[l][k] = m /\ (l > lib \/ (l = lib /\ k >= mod))
    BY <1>1, <1>4 DEF Pending, Ahead
  <2>2. PICK k \in DOMAIN open[l] : open[l][k] = m /\ (l > lib \/ (l = lib /\ k >= mod))
    BY <2>1
  <2>3. ~(l = lib /\ k >= mod)
    BY <1>1, <1>2, <1>3
  <2> QED
    BY <2>2, <2>3
<1>5. \A m : ~Loading(m) /\ ~Loading(m)'
  BY <1>1 DEF Loading
<1>6. \A m : Read(m)' = Read(m) /\ IsLoaded(m)' = IsLoaded(m)
  BY <1>1 DEF Read, InFile, ModsOf, IsLoaded
<1>7. CASE open' = open
  <2>1. ASSUME NEW m, Pending(m) PROVE Pending(m)'
    <3>1. PICK l \in DOMAIN open : l > lib /\ \E k \in DOMAIN open[l] : open[l][k] = m
      BY <1>4, <2>1
    <3>2. PICK k \in DOMAIN open[l] : open[l][k] = m
      BY <3>1
    <3>3. l > lib' \/ (l = lib' /\ k >= mod')
      BY <1>1, <1>2, <3>1, <3>2
    <3> QED
      BY <1>7, <3>2, <3>3 DEF Pending, Ahead
  <2>2. ASSUME NEW m, Pending(m)' PROVE Pending(m)
    <3>1. PICK l \in DOMAIN open : \E k \in DOMAIN open[l] :
                   open[l][k] = m /\ (l > lib' \/ (l = lib' /\ k >= mod'))
      BY <1>1, <1>7, <2>2 DEF Pending, Ahead
    <3>2. l > lib
      BY <1>1, <1>2, <3>1
    <3> QED
      BY <3>1, <3>2 DEF Pending, Ahead
  <2> QED
    BY <1>1, <1>5, <1>7, <2>1, <2>2, LoadSame
<1>8. CASE open' # open
  <2>1. /\ DOMAIN open' = 1 .. Len(open) - 1
        /\ \A l \in 1 .. Len(open) - 1 : open'[l] = IF l < lib THEN open[l] ELSE open[l + 1]
        /\ ~\E k \in DOMAIN open[lib] : open[lib][k] \in ref
    BY <1>8, LibTaken
  <2>2. ASSUME NEW m, InOpen(m)'
        PROVE  \E l \in DOMAIN open \ {lib} : \E k \in DOMAIN open[l] : open[l][k] = m
    <3>1. PICK l \in 1 .. Len(open) - 1 : \E k \in DOMAIN open'[l] : open'[l][k] = m
      BY <2>1, <2>2 DEF InOpen
    <3>2. CASE l < lib
      BY <1>2, <2>1, <3>1, <3>2
    <3>3. CASE ~(l < lib)
      <4>1. l + 1 \in DOMAIN open \ {lib}
        BY <1>2, <3>1, <3>3
      <4> QED
        BY <2>1, <3>1, <3>3, <4>1
    <3> QED
      BY <3>2, <3>3
  <2>3. \A m : InOpen(m)' => InOpen(m)
    BY <2>2 DEF InOpen
  <2>4. ASSUME NEW m, Pending(m)' PROVE Pending(m)
    <3>1. PICK l \in 1 .. Len(open) - 1 : \E k \in DOMAIN open'[l] :
                   open'[l][k] = m /\ (l > lib' \/ (l = lib' /\ k >= mod'))
      BY <1>1, <2>1, <2>4 DEF Pending, Ahead
    <3>2. l + 1 > lib /\ l + 1 \in DOMAIN open /\ ~(l < lib)
      BY <1>1, <1>2, <3>1
    <3>3. \E k \in DOMAIN open[l + 1] : open[l + 1][k] = m
      BY <2>1, <3>1, <3>2
    <3> QED
      BY <1>1, <3>2, <3>3 DEF Pending, Ahead
  <2>5. ASSUME NEW m, Skipped(m) PROVE Skipped(m)'
    <3>1. PICK p, q \in DOMAIN prog.items :
             Behind(p, q) /\ prog.items[q].kind = "lib" /\ q < next /\ InFile(m, q) /\ Over(p)
      BY <2>5 DEF Skipped
    <3>2. Behind(p, q)' /\ InFile(m, q)' /\ q < next'
      BY <1>1, <3>1 DEF Behind, InGroup, InFile, ModsOf
    <3>3. \A y : InFile(y, p)' = InFile(y, p)
      BY <1>1 DEF InFile, ModsOf
    <3>4. Over(p)'
      BY <1>1, <2>3, <3>1, <3>3 DEF Over
    <3> QED
      BY <1>1, <3>1, <3>2, <3>4 DEF Skipped
  <2>6. ASSUME NEW m, Pending(m), ~Pending(m)' PROVE Skipped(m)'
    <3>1. PICK l \in DOMAIN open : l > lib /\ \E k \in DOMAIN open[l] : open[l][k] = m
      BY <1>4, <2>6
    <3>2. PICK k \in DOMAIN open[l] : open[l][k] = m
      BY <3>1
    <3>3. l = lib + 1
      <4> SUFFICES ASSUME l # lib + 1 PROVE FALSE
        OBVIOUS
      <4> PICK j : j = l - 1
        OBVIOUS
      <4>1. j \in 1 .. Len(open) - 1 /\ ~(j < lib) /\ j + 1 = l /\ (j > lib + 1 \/ j = lib + 1)
        BY <1>2, <3>1
      <4>2. open'[j] = open[l]
        BY <2>1, <4>1
      <4>3. j > lib' \/ (j = lib' /\ k >= mod')
        BY <1>1, <1>2, <3>2, <4>1
      <4>4. Pending(m)'
        BY <2>1, <3>2, <4>1, <4>2, <4>3 DEF Pending, Ahead
      <4> QED
        BY <2>6, <4>4
    <3> PICK at : Stand(at)
      BY <1>1 DEF OpenInv
    <3> PICK p : p = at[lib]
      OBVIOUS
    <3> PICK q : q = at[lib + 1]
      OBVIOUS
    <3>4. /\ p \in DOMAIN prog.items /\ q \in DOMAIN prog.items /\ p < q /\ q < next
          /\ prog.items[p].kind = "lib" /\ prog.items[q].kind = "lib"
          /\ open[lib] = ModsOf(p) /\ open[lib + 1] = ModsOf(q)
          /\ grouping => InGroup(p)
      <4>1. lib \in DOMAIN open /\ lib + 1 \in DOMAIN open /\ lib < lib + 1
        BY <1>2, <3>1, <3>3
      <4> QED
        BY <4>1 DEF Stand
    <3>5. \A r \in p + 1 .. q - 1 : prog.items[r].kind = "obj"
      <4>1. lib \in DOMAIN open /\ lib + 1 \in DOMAIN open /\ lib <= lib
        BY <1>2, <3>1, <3>3
      <4> QED
        BY <4>1 DEF Stand
    <3>6. grouping
      <4>1. ~(Len(open) <= 1)
        BY <1>2, <3>1, <3>3
      <4> QED
        BY <1>1, <4>1 DEF OpenInv
    <3>7. Behind(p, q)
      BY <3>4, <3>5, <3>6 DEF Behind
    <3>8. InFile(m, q)
      BY <3>2, <3>3, <3>4 DEF InFile
    <3>9. ASSUME NEW y \in Modules, InFile(y, p)
          PROVE  y \notin ref /\ ~InOpen(y)'
      <4>1. PICK i \in DOMAIN open[lib] : open[lib][i] = y
        BY <3>4, <3>9 DEF InFile
      <4>2. y \notin ref
        BY <2>1, <4>1
      <4>3. ASSUME InOpen(y)' PROVE FALSE
        <5>1. PICK j \in DOMAIN open \ {lib} : \E h \in DOMAIN open[j] : open[j][h] = y
          BY <2>2, <4>3
        <5>2. PICK h \in DOMAIN open[j] : open[j][h] = y
          BY <5>1
        <5>3. j = lib
          BY <1>1, <1>2, <4>1, <5>1, <5>2, OnePlace
        <5> QED
          BY <5>1, <5>3
      <4> QED
        BY <4>2, <4>3
    <3>10. \A y : InFile(y, p)' = InFile(y, p)
      BY <1>1 DEF InFile, ModsOf
    <3>11. Over(p)'
      BY <1>1, <3>9, <3>10 DEF Over
    <3>12. Behind(p, q)' /\ InFile(m, q)' /\ q < next'
      BY <1>1, <3>4, <3>7, <3>8 DEF Behind, InGroup, InFile, ModsOf
    <3> QED
      BY <1>1, <3>4, <3>11, <3>12 DEF Skipped
  <2> QED
    BY <1>1, <1>5, <1>6, <2>4, <2>5, <2>6 DEF LoadInv
<1> QED
  BY <1>7, <1>8

\* The libraries are closed when everything is loaded.
LEMMA LoadEnd ==
    ASSUME LoadInv, TypeControl, EndOfLoad
    PROVE  LoadInv'
<1>1. /\ pc = "load" /\ pc' = "input" /\ lib > Len(open) /\ open' = <<>>
      /\ UNCHANGED <<prog, next, ref, loaded>>
  BY DEF EndOfLoad, symbols
<1>2. /\ DOMAIN open = 1 .. Len(open) /\ Len(open) \in Nat /\ lib \in Nat /\ DOMAIN open' = {}
  BY <1>1, OpenTypes
<1>3. \A l \in DOMAIN open : ~(l > lib) /\ l # lib
  BY <1>1, <1>2
<1>4. \A m : ~Pending(m) /\ ~Pending(m)' /\ ~InOpen(m)' /\ ~Loading(m) /\ ~Loading(m)'
  BY <1>1, <1>2, <1>3 DEF Pending, Ahead, InOpen, Loading
<1>5. \A m : Read(m)' = Read(m) /\ IsLoaded(m)' = IsLoaded(m)
  BY <1>1 DEF Read, InFile, ModsOf, IsLoaded
<1>6. ASSUME NEW m, Skipped(m) PROVE Skipped(m)'
  BY <1>1, <1>4, <1>6 DEF Skipped, Behind, InGroup, InFile, Over, ModsOf
<1> QED
  BY <1>1, <1>4, <1>5, <1>6 DEF LoadInv

\* Every step keeps count of what is loaded.
LEMMA LoadStep == IInv /\ OpenInv /\ LoadInv /\ [Next]_vars => LoadInv'
<1> SUFFICES ASSUME IInv, OpenInv, LoadInv, [Next]_vars, pc' # "error" PROVE LoadInv'
  BY DEF LoadInv
<1>1. TypeControl
  BY DEF IInv
<1>2. CASE ObjAdd \/ Inserted \/ LibAdd \/ LibCheckExports \/ LoadModule \/ LoadLib \/ EndOfLoad
  BY <1>1, <1>2, LoadObjAdd, LoadInserted, LoadLibAdd, LoadCheck, LoadModuleStep, LoadLibStep, LoadEnd
<1>3. CASE \/ ForceImport \/ DefineSymbol \/ LibStartGroup \/ LibEndGroup \/ InsertExport
           \/ InsertImport \/ NextLib \/ Finish
  <2>1. /\ pc \notin {"error", "load"} /\ pc' # "load"
        /\ (pc' = "insert" <=> pc = "insert")
        /\ (pc = "insert" => ins'.back = ins.back /\ ins'.m = ins.m)
        /\ next' \in {next, next + 1}
        /\ UNCHANGED <<prog, open, ref, loaded>>
    BY <1>3 DEF ForceImport, DefineSymbol, LibStartGroup, LibEndGroup, Take, StartScan, InsertExport,
                InsertImport, NextLib, Finish, InputEnds, ConDesCreate, ConDesCount,
                CheckUnresolvedImports, libs
  <2>2. \A m : Pending(m)' = Pending(m) /\ Loading(m)' = Loading(m)
    BY <2>1 DEF Pending, Ahead, Loading
  <2> QED
    BY <1>1, <2>1, <2>2, LoadSame
<1>4. CASE EndOfPass
  <2>1. /\ pc = "scan" /\ pc' \in {"scan", "load"} /\ lib' = 1 /\ mod' = 1
        /\ UNCHANGED <<prog, next, open, ref, loaded>>
    BY <1>4 DEF EndOfPass, symbols
  <2>2. \A l \in DOMAIN open : l \in Nat \ {0} /\ \A k \in DOMAIN open[l] : k \in Nat \ {0}
    <3>1. DOMAIN open = 1 .. Len(open) /\ Len(open) \in Nat
      BY <1>1, OpenTypes
    <3>2. \A l \in DOMAIN open : DOMAIN open[l] = 1 .. Len(open[l]) /\ Len(open[l]) \in Nat
      BY <1>1, OpenTypes
    <3> QED
      BY <3>1, <3>2
  <2>3. \A l \in DOMAIN open : \A k \in DOMAIN open[l] : Ahead(l, k) /\ Ahead(l, k)'
    BY <2>1, <2>2 DEF Ahead
  <2>4. \A m : Pending(m)' <=> Pending(m)
    BY <2>1, <2>3 DEF Pending
  <2>5. \A m : ~Loading(m) /\ ~Loading(m)'
    BY <2>1 DEF Loading
  <2> QED
    BY <1>1, <2>1, <2>4, <2>5, LoadSame
<1>5. CASE UsageError \/ InsertDuplicate
  BY <1>5 DEF UsageError, InsertDuplicate
<1>6. CASE UNCHANGED vars
  <2>1. UNCHANGED <<prog, next, pc, ins, ref, loaded, open, lib, mod>>
    BY <1>6 DEF vars, libs
  <2>2. CASE pc = "error"
    BY <2>1, <2>2 DEF LoadInv
  <2>3. CASE pc # "error"
    <3>1. \A m : Pending(m)' = Pending(m) /\ Loading(m)' = Loading(m)
      BY <2>1 DEF Pending, Ahead, Loading
    <3> QED
      BY <1>1, <2>1, <2>3, <3>1, LoadSame
  <2> QED
    BY <2>2, <2>3
<1> QED
  BY <1>2, <1>3, <1>4, <1>5, <1>6 DEF Next, CommandLine, InsertGlobals, LibResolve

\* The libraries stand where the command line has them, and every needed
\* module is loaded, about to be, or skipped.
LEMMA LoadedInductive == Spec => [](OpenInv /\ LoadInv)
<1>1. Init => OpenInv /\ LoadInv
  <2> SUFFICES ASSUME Init PROVE OpenInv /\ LoadInv
    OBVIOUS
  <2>1. /\ open = <<>> /\ loaded = <<>> /\ ref = {} /\ pc = "input" /\ ~grouping
        /\ DOMAIN open = {} /\ DOMAIN loaded = {} /\ Len(open) = 0
    BY EmptySeq DEF Init
  <2> PICK at : at = [l \in {} |-> 0]
    OBVIOUS
  <2>2. Stand(at)
    BY <2>1 DEF Stand
  <2>3. LoadInv
    BY <2>1 DEF LoadInv, IsLoaded, Loading
  <2> QED
    BY <2>1, <2>2, <2>3 DEF OpenInv
<1>2. IInv /\ IInv' /\ OpenInv /\ LoadInv /\ [Next]_vars => OpenInv' /\ LoadInv'
  BY OpenStep, LoadStep
<1> QED
  BY <1>1, <1>2, Inductive, PTL DEF Spec

\* A module that is linked is loaded, once, unless the library in front of its
\* own in the group has no module in use (LibResolve).
THEOREM LoadedOnce == Spec => []LoadedOrSkipped
<1>1. IInv /\ OpenInv /\ LoadInv => LoadedOrSkipped
  <2> SUFFICES ASSUME IInv, OpenInv, LoadInv, pc = "linked" PROVE LoadedOrSkipped
    BY DEF LoadedOrSkipped
  <2>1. DOMAIN open = {} /\ TypeControl
    BY EmptySeq DEF OpenInv, IInv
  <2>2. ASSUME NEW m \in ref, ~IsLoaded(m)
        PROVE  \E p, q \in DOMAIN prog.items :
                  /\ Behind(p, q) /\ prog.items[q].kind = "lib" /\ ~InUse(p)
                  /\ \E k \in DOMAIN prog.items[q].mods : prog.items[q].mods[k] = m
    <3>1. Skipped(m)
      BY <2>1, <2>2 DEF LoadInv, Pending, Loading
    <3>2. PICK p, q \in DOMAIN prog.items :
             Behind(p, q) /\ prog.items[q].kind = "lib" /\ q < next /\ InFile(m, q) /\ Over(p)
      BY <3>1 DEF Skipped
    <3>3. ~InUse(p)
      <4>1. \A k \in DOMAIN prog.items[p].mods : prog.items[p].mods[k] \in Modules
        BY <2>1, ProgramFacts
      <4> QED
        BY <3>2, <4>1 DEF Over, InFile, ModsOf, InUse
    <3> QED
      BY <3>2, <3>3 DEF InFile, ModsOf
  <2> QED
    BY <2>2 DEF LoadedOrSkipped, LoadInv, IsLoaded
<1> QED
  BY <1>1, Inductive, LoadedInductive, PTL

-----------------------------------------------------------------------------
(* The table of interruptors.                                              *)

\* Who defines a name in the table is linked and exports it, or it is a symbol
\* of the linker or the command line.
Justified(n, d) ==
    /\ d \in Modules => d \in ref /\ \E k \in 1 .. Len(prog.exports[d]) : prog.exports[d][k] = n
    /\ d = Linker => \/ n \in {Label, Count}
                     \/ \E i \in DOMAIN prog.items : prog.items[i].kind = "define" /\ prog.items[i].name = n

\* All globals of module m are in the table.
Entered(m) == m \in ref /\ ~(pc = "insert" /\ ins.m = m)

Known == \A n \in Names : \A d \in Definer : table[n] = d => Justified(n, d)

\* The exports and imports of the module that is entered are in the table as
\* far as it has come.
Begun ==
    /\ ins.m \in ref
    /\ \A e \in 1 .. ins.e - 1 : /\ e <= Len(prog.exports[ins.m])
                                 /\ table[prog.exports[ins.m][e]] \in Definer
    /\ \A k \in 1 .. ins.i - 1 : k <= Len(Imports(ins.m)) /\ table[Imports(ins.m)[k]] # Absent

Asked(m) == \A k \in 1 .. Len(Imports(m)) : table[Imports(m)[k]] # Absent

TableInv ==
    pc # "error" => /\ Known
                    /\ pc = "insert" => Begun
                    /\ \A m \in Modules : Entered(m) => Asked(m)
                    /\ pc = "linked" => impOpen = 0

\* The table only grows.
Grows == \A n \in Names : /\ table[n] # Absent => table'[n] # Absent
                          /\ table[n] \in Definer => table'[n] = table[n]

\* An import adds no definer.
LEMMA ImportGrows ==
    ASSUME IInv, NEW n \in Names, NEW owner, EnterImport(n, owner)
    PROVE  /\ Grows /\ table'[n] # Absent
           /\ \A x \in Names : table'[x] = table[x] \/ table'[x] = Unresolved
<1>1. /\ table \in [Names -> Definer \cup {Absent, Unresolved}]
      /\ table' = [table EXCEPT ![n] = IF table[n] = Absent THEN Unresolved ELSE table[n]]
  BY DEF EnterImport, IInv, SymInv, TypeSymbols
<1> QED
  BY <1>1, Kinds DEF Grows

\* An export adds one.
LEMMA ExportGrows ==
    ASSUME IInv, NEW n \in Names, NEW definer \in Definer, EnterExport(n, definer)
    PROVE  /\ Grows /\ table'[n] \in Definer
           /\ \A x \in Names : table'[x] = table[x] \/ (x = n /\ table'[x] = definer)
<1>1. table \in [Names -> Definer \cup {Absent, Unresolved}]
  BY DEF IInv, SymInv, TypeSymbols
<1>2. \/ table[n] \notin Definer /\ table' = [table EXCEPT ![n] = definer]
      \/ table[n] \in Definer /\ table' = table
  BY Kinds DEF EnterExport, NewName, Resolve, Duplicate, IsUnresolved
<1> QED
  BY <1>1, <1>2, Kinds DEF Grows

\* What a module imports: its own list, and the dispatcher if it exports an
\* interruptor.
LEMMA ImportsAre ==
    ASSUME TypeControl, NEW m \in Modules
    PROVE  /\ Len(Imports(m)) \in Nat
           /\ \A j \in 1 .. Len(prog.imports[m]) :
                 \E k \in 1 .. Len(Imports(m)) : Imports(m)[k] = prog.imports[m][j]
           /\ (\E c \in prog.condes : c[1] = m) =>
                 \E k \in 1 .. Len(Imports(m)) : Imports(m)[k] = Dispatcher
<1> PICK C : C = {x \in prog.condes : x[1] = m}
  OBVIOUS
<1> PICK c : c = Cardinality(C)
  OBVIOUS
<1> PICK forced : forced = [j \in 1 .. c |-> Dispatcher]
  OBVIOUS
<1>1. /\ prog.imports[m] \in Seq(Names) /\ Dispatcher \in Names
      /\ IsFiniteSet(prog.condes)
  BY LinkerAssumption DEF TypeControl
<1>2. IsFiniteSet(C) /\ c \in Nat
  <2>1. C \in SUBSET prog.condes
    OBVIOUS
  <2>2. IsFiniteSet(C)
    BY <1>1, <2>1, FS_Subset
  <2> QED
    BY <2>2, FS_CardinalityType
<1>3. forced \in Seq(Names) /\ Len(forced) = c
  BY <1>1, <1>2, IsASeq, LenProperties
<1>4. Imports(m) = prog.imports[m] \o forced
  BY DEF Imports
<1> PICK a : a = Len(prog.imports[m])
  OBVIOUS
<1>5. /\ a \in Nat /\ Len(Imports(m)) = a + c
      /\ \A i \in 1 .. a + c :
            Imports(m)[i] = IF i <= a THEN prog.imports[m][i] ELSE forced[i - a]
  <2> PICK own : own = prog.imports[m]
    OBVIOUS
  <2>1. own \in Seq(Names) /\ forced \in Seq(Names) /\ Len(own) = a /\ a \in Nat
    BY <1>1, <1>3, LenProperties
  <2>2. /\ Len(own \o forced) = Len(own) + Len(forced)
        /\ \A i \in 1 .. Len(own) + Len(forced) :
              (own \o forced)[i] = IF i <= Len(own) THEN own[i] ELSE forced[i - Len(own)]
    BY ONLY <2>1, ConcatProperties
  <2> QED
    BY <1>3, <1>4, <2>1, <2>2
<1>6. ASSUME NEW j \in 1 .. a
      PROVE  \E k \in 1 .. Len(Imports(m)) : Imports(m)[k] = prog.imports[m][j]
  <2>1. j \in 1 .. a + c /\ j <= a
    BY <1>2, <1>5
  <2> QED
    BY <1>5, <2>1
<1>7. ASSUME NEW x \in prog.condes, x[1] = m
      PROVE  \E k \in 1 .. Len(Imports(m)) : Imports(m)[k] = Dispatcher
  <2>1. x \in C
    BY <1>7
  <2>2. c # 0
    BY <1>2, <2>1, FS_EmptySet
  <2>3. a + 1 \in 1 .. a + c /\ ~(a + 1 <= a) /\ (a + 1) - a = 1 /\ 1 \in 1 .. c
    BY <1>2, <1>5, <2>2
  <2>4. Imports(m)[a + 1] = forced[1]
    BY <1>5, <2>3
  <2> QED
    BY <1>5, <2>3, <2>4
<1>8. Len(Imports(m)) \in Nat
  BY <1>2, <1>5
<1> QED
  BY <1>6, <1>7, <1>8

\* The parts of the invariant that the growth of the table leaves alone.
LEMMA GrowsKeeps ==
    ASSUME IInv, TableInv, pc # "error", Grows, prog' = prog,
           NEW m \in Modules
    PROVE  /\ pc = "insert" /\ m = ins.m =>
                 /\ \A e \in 1 .. ins.e - 1 : /\ e <= Len(prog.exports[m])
                                              /\ table'[prog.exports[m][e]] \in Definer
                 /\ \A k \in 1 .. ins.i - 1 : k <= Len(Imports(m)) /\ table'[Imports(m)[k]] # Absent
           /\ Entered(m) => Asked(m)'
<1>1. TypeControl /\ ins.e \in Nat \ {0} /\ ins.i \in Nat \ {0} /\ Len(Imports(m)) \in Nat
  BY ImportsAre DEF IInv, TypeControl
<1>2. \A k \in 1 .. Len(Imports(m)) : Imports(m)[k] \in Names
  BY <1>1, ImportNames
<1>3. ASSUME pc = "insert", m = ins.m
      PROVE  /\ \A e \in 1 .. ins.e - 1 : /\ e <= Len(prog.exports[m])
                                           /\ table'[prog.exports[m][e]] \in Definer
             /\ \A k \in 1 .. ins.i - 1 : k <= Len(Imports(m)) /\ table'[Imports(m)[k]] # Absent
  <2>1. ASSUME NEW e \in 1 .. ins.e - 1
        PROVE  e <= Len(prog.exports[m]) /\ table'[prog.exports[m][e]] \in Definer
    <3>1. e <= Len(prog.exports[m]) /\ table[prog.exports[m][e]] \in Definer
      BY <1>3, <2>1 DEF TableInv, Begun
    <3>2. prog.exports[m][e] \in Names
      <4>1. prog.exports[m] \in Seq(Names)
        BY <1>1, LinkerAssumption DEF TypeControl
      <4>2. e \in 1 .. Len(prog.exports[m])
        BY <1>1, <3>1, <4>1, LenProperties
      <4> QED
        BY <1>1, <4>2, ProgramFacts
    <3> QED
      BY <3>1, <3>2 DEF Grows
  <2>2. ASSUME NEW k \in 1 .. ins.i - 1
        PROVE  k <= Len(Imports(m)) /\ table'[Imports(m)[k]] # Absent
    <3>1. k <= Len(Imports(m)) /\ table[Imports(m)[k]] # Absent
      BY <1>3, <2>2 DEF TableInv, Begun
    <3>2. Imports(m)[k] \in Names
      BY <1>1, <1>2, <3>1
    <3> QED
      BY <3>1, <3>2 DEF Grows
  <2> QED
    BY <2>1, <2>2
<1>4. ASSUME Entered(m) PROVE Asked(m)'
  <2>1. Imports(m)' = Imports(m)
    BY DEF Imports
  <2>2. \A k \in 1 .. Len(Imports(m)) : table'[Imports(m)[k]] # Absent
    BY <1>2, <1>4 DEF TableInv, Grows, Asked
  <2> QED
    BY <2>1, <2>2 DEF Asked
<1> QED
  BY <1>3, <1>4

\* A new definer d of name n is justified.
LEMMA KnownKept ==
    ASSUME Known, prog' = prog, ref' = ref, NEW n, NEW d, Justified(n, d),
           \A x \in Names : table'[x] = table[x] \/ (x = n /\ table'[x] = d)
    PROVE  Known'
<1>1. ASSUME NEW x \in Names, NEW c \in Definer, table'[x] = c
      PROVE  Justified(x, c)
  BY <1>1 DEF Known
<1>2. \A x \in Names : \A c \in Definer : Justified(x, c) => Justified(x, c)'
  BY DEF Justified
<1> QED
  BY <1>1, <1>2 DEF Known, Definer

\* No new definer.
LEMMA KnownSame ==
    ASSUME Known, prog' = prog, ref \subseteq ref', 
           \A n \in Names : table'[n] = table[n] \/ table'[n] \notin Definer
    PROVE  Known'
<1>1. \A n \in Names : \A c \in Definer : Justified(n, c) => Justified(n, c)'
  BY DEF Justified
<1> QED
  BY <1>1 DEF Known, Definer

\* A step that enters at most a symbol of the linker or of an option.
LEMMA TableGrows ==
    ASSUME IInv, TableInv, pc \notin {"insert", "error"}, UNCHANGED <<prog, ref>>, Grows,
           Known', pc' # "insert", pc' = "linked" => impOpen' = 0
    PROVE  TableInv'
<1>1. ASSUME NEW m \in Modules, Entered(m)' PROVE Asked(m)'
  <2>1. Entered(m)
    BY <1>1 DEF Entered
  <2> QED
    BY <2>1, GrowsKeeps
<1> QED
  BY <1>1 DEF TableInv

\* A step that does not touch the table.
LEMMA TableSame ==
    ASSUME IInv, TableInv, pc \notin {"insert", "error"}, UNCHANGED <<prog, table, ref>>,
           pc' # "insert", pc' = "linked" => impOpen' = 0
    PROVE  TableInv'
<1>1. Grows /\ Known'
  BY KnownSame DEF Grows, TableInv
<1> QED
  BY <1>1, TableGrows

\* A module is linked: none of its globals is in the table yet.
LEMMA TableInsert ==
    ASSUME IInv, TableInv, NEW m \in Modules, NEW back, pc \notin {"insert", "error"},
           Insert(m, back), UNCHANGED <<prog, table>>
    PROVE  TableInv'
<1>1. /\ ref' = ref \cup {m} /\ pc' = "insert" /\ ins' = [m |-> m, e |-> 1, i |-> 1, back |-> back]
  BY DEF Insert
<1>2. ins'.m = m /\ ins'.e = 1 /\ ins'.i = 1
  BY <1>1
<1>3. Grows /\ Known'
  BY <1>1, KnownSame DEF Grows, TableInv
<1>4. ASSUME NEW x \in Modules, Entered(x)' PROVE Asked(x)'
  <2>1. Entered(x)
    BY <1>1, <1>2, <1>4 DEF Entered
  <2> QED
    BY <1>3, <2>1, GrowsKeeps
<1>5. Begun'
  <2>1. 1 .. 1 - 1 = {}
    OBVIOUS
  <2> QED
    BY <1>1, <1>2, <2>1 DEF Begun
<1> QED
  BY <1>1, <1>3, <1>4, <1>5 DEF TableInv

Holds(list, n) == \E k \in DOMAIN list : list[k] = n

\* The dispatcher's module, and no option, defines it, and asks for the table,
\* which only the linker defines (callirq.s, lynx.cfg).  An object file exports
\* a name once.
DispatcherAsks ==
    /\ Dispatcher # Count
    /\ \A p \in Programs :
          /\ \A m \in Modules :
                /\ ~Holds(p.exports[m], Label)
                /\ Holds(p.exports[m], Dispatcher) => Holds(p.imports[m], Label)
                /\ p.multdef => \A j, k \in DOMAIN p.exports[m] :
                                   p.exports[m][j] = p.exports[m][k] => j = k
          /\ \A i \in DOMAIN p.items : p.items[i].kind = "define" => p.items[i].name # Dispatcher

\* The export of pair c is entered.
Put(c) == \/ Entered(c[1])
          \/ /\ pc = "insert" /\ ins.m = c[1]
             /\ \E e \in 1 .. ins.e - 1 : prog.exports[ins.m][e] = c[2]

CondesInv ==
    pc # "error" =>
        /\ \A i \in DOMAIN condes : condes[i] \in prog.condes
        /\ \A c \in prog.condes : (\E i \in DOMAIN condes : condes[i] = c) <=> Put(c)
        /\ \A i, j \in DOMAIN condes : condes[i] = condes[j] => i = j

\* What a pair of a program is.
LEMMA PairFacts ==
    ASSUME TypeControl, NEW c \in prog.condes
    PROVE  /\ c \in Modules \X Names /\ c[1] \in Modules /\ c[2] \in Names /\ c = <<c[1], c[2]>>
           /\ \E k \in 1 .. Len(prog.exports[c[1]]) : prog.exports[c[1]][k] = c[2]
<1>1. prog \in Programs /\ prog.exports \in [Modules -> Seq(Names)]
  BY LinkerAssumption DEF TypeControl
<1>2. c \in {x \in Modules \X Names : \E k \in DOMAIN prog.exports[x[1]] : prog.exports[x[1]][k] = x[2]}
  BY <1>1, LinkerAssumption
<1>3. c \in Modules \X Names /\ \E k \in DOMAIN prog.exports[c[1]] : prog.exports[c[1]][k] = c[2]
  BY <1>2
<1>4. prog.exports[c[1]] \in Seq(Names)
  BY <1>1, <1>3
<1> QED
  BY <1>3, <1>4, LenProperties

\* A step that leaves the list of interruptors alone.
LEMMA CondesSame ==
    ASSUME TypeControl, CondesInv, pc # "error", UNCHANGED <<prog, condes>>,
           \A c \in prog.condes : Put(c)' <=> Put(c)
    PROVE  CondesInv'
BY DEF CondesInv

\* An interruptor's export is entered.
LEMMA CondesExport ==
    ASSUME IInv, TableInv, CondesInv, DispatcherAsks, InsertExport
    PROVE  CondesInv'
<1> PICK m \in Modules : m = ins.m
  BY DEF IInv, TypeControl
<1> PICK n : n = prog.exports[m][ins.e]
  OBVIOUS
<1> PICK new : new = <<m, n>>
  OBVIOUS
<1>1. /\ pc = "insert" /\ ins.e <= Len(prog.exports[m]) /\ EnterExport(n, m)
      /\ condes' = IF new \in prog.condes THEN Append(condes, new) ELSE condes
      /\ ins' = [m |-> m, e |-> ins.e + 1, i |-> ins.i, back |-> ins.back]
      /\ UNCHANGED <<prog, pc, ref>>
  BY DEF InsertExport
<1>2. ins'.m = m /\ ins'.e = ins.e + 1
  BY <1>1
<1>3. /\ ins.e \in Nat \ {0} /\ TypeControl /\ prog \in Programs
      /\ prog.exports[m] \in Seq(Names) /\ DOMAIN prog.exports[m] = 1 .. Len(prog.exports[m])
      /\ Len(prog.exports[m]) \in Nat
  BY LinkerAssumption, LenProperties DEF IInv, TypeControl
<1>4. ASSUME NEW c \in prog.condes
      PROVE  Put(c)' <=> Put(c) \/ c = new
  <2>1. c[1] \in Modules /\ c = <<c[1], c[2]>>
    BY <1>3, PairFacts
  <2>2. Entered(c[1])' <=> Entered(c[1])
    BY <1>1, <1>2 DEF Entered
  <2>3. 1 .. (ins.e + 1) - 1 = (1 .. ins.e - 1) \cup {ins.e}
    BY <1>3
  <2>4. (\E e \in 1 .. (ins.e + 1) - 1 : prog.exports[m][e] = c[2])
           <=> (\E e \in 1 .. ins.e - 1 : prog.exports[m][e] = c[2]) \/ c[2] = n
    BY <2>3
  <2>5. Put(c)' <=> \/ Entered(c[1])
                    \/ m = c[1] /\ \E e \in 1 .. (ins.e + 1) - 1 : prog.exports[m][e] = c[2]
    BY <1>1, <1>2, <2>2 DEF Put
  <2>6. Put(c) <=> \/ Entered(c[1])
                   \/ m = c[1] /\ \E e \in 1 .. ins.e - 1 : prog.exports[m][e] = c[2]
    BY <1>1 DEF Put
  <2>7. c = new <=> c[1] = m /\ c[2] = n
    BY <2>1
  <2> QED
    BY <2>4, <2>5, <2>6, <2>7
<1>5. ASSUME new \in prog.condes PROVE ~Put(new)
  <2>1. ~Entered(m)
    BY <1>1 DEF Entered
  <2>2. ASSUME NEW e \in 1 .. ins.e - 1, prog.exports[m][e] = n PROVE FALSE
    <3>1. table[n] \in Definer /\ e <= Len(prog.exports[m])
      BY <1>1, <2>2 DEF TableInv, Begun
    <3>2. prog.multdef
      BY <1>1, <3>1, Kinds DEF EnterExport, NewName, Resolve, IsUnresolved, Duplicate
    <3>3. e \in DOMAIN prog.exports[m] /\ ins.e \in DOMAIN prog.exports[m] /\ e # ins.e
      BY <1>1, <1>3, <3>1
    <3> QED
      BY <1>3, <2>2, <3>2, <3>3 DEF DispatcherAsks
  <2>3. new[1] = m /\ new[2] = n
    OBVIOUS
  <2> QED
    BY <2>1, <2>2, <2>3 DEF Put
<1>6. CASE new \in prog.condes
  <2>1. condes \in Seq(Modules \X Names) /\ new \in Modules \X Names
    BY <1>3, <1>6, PairFacts DEF TypeControl
  <2> PICK l \in Nat : l = Len(condes)
    BY <2>1, LenProperties
  <2>2. condes' = Append(condes, new)
    BY <1>1, <1>6
  <2>3. /\ DOMAIN condes = 1 .. l /\ DOMAIN condes' = 1 .. l + 1 /\ condes'[l + 1] = new
        /\ \A i \in 1 .. l : condes'[i] = condes[i]
    BY <2>1, <2>2, AppendProperties, LenProperties
  <2>4. \A i \in 1 .. l : condes[i] # new
    BY <1>1, <1>5, <1>6, <2>3 DEF CondesInv
  <2>5. \A i \in 1 .. l + 1 : i \in 1 .. l \/ i = l + 1
    OBVIOUS
  <2>6. \A i \in 1 .. l + 1 : condes'[i] \in prog.condes
    BY <1>1, <1>6, <2>3, <2>5 DEF CondesInv
  <2>7. ASSUME NEW i \in 1 .. l + 1, NEW j \in 1 .. l + 1, condes'[i] = condes'[j]
        PROVE  i = j
    <3>1. CASE i \in 1 .. l /\ j \in 1 .. l
      <4>1. condes[i] = condes[j] /\ i \in DOMAIN condes /\ j \in DOMAIN condes
        BY <2>3, <2>7, <3>1
      <4> QED
        BY ONLY <1>1, <4>1, CondesInv DEF CondesInv
    <3>2. CASE i = l + 1 \/ j = l + 1
      BY <2>3, <2>4, <2>5, <2>7, <3>2
    <3> QED
      BY <2>5, <3>1, <3>2
  <2>8. ASSUME NEW c \in prog.condes
        PROVE  (\E i \in 1 .. l + 1 : condes'[i] = c) <=> Put(c)'
    <3>1. (\E i \in 1 .. l + 1 : condes'[i] = c) <=> (\E i \in 1 .. l : condes[i] = c) \/ c = new
      <4>1. \A i \in 1 .. l : i \in 1 .. l + 1
        OBVIOUS
      <4>2. l + 1 \in 1 .. l + 1
        OBVIOUS
      <4> QED
        BY <2>3, <2>5, <4>1, <4>2
    <3>2. (\E i \in 1 .. l : condes[i] = c) <=> Put(c)
      BY <1>1, <2>3 DEF CondesInv
    <3> QED
      BY <1>4, <3>1, <3>2
  <2>9. /\ \A i \in DOMAIN condes' : condes'[i] \in prog'.condes
        /\ \A c \in prog'.condes : (\E i \in DOMAIN condes' : condes'[i] = c) <=> Put(c)'
    BY <1>1, <2>3, <2>6, <2>8
  <2>10. \A i, j \in DOMAIN condes' : condes'[i] = condes'[j] => i = j
    BY <2>3, <2>7
  <2> QED
    BY <2>9, <2>10 DEF CondesInv
<1>7. CASE new \notin prog.condes
  <2>1. \A c \in prog.condes : Put(c)' <=> Put(c)
    BY <1>4, <1>7
  <2> QED
    BY <1>1, <1>3, <1>7, <2>1, CondesSame
<1> QED
  BY <1>6, <1>7

\* A module's globals are all entered.
LEMMA CondesInserted ==
    ASSUME IInv, TableInv, CondesInv, Inserted
    PROVE  CondesInv'
<1> PICK m \in Modules : m = ins.m
  BY DEF IInv, TypeControl
<1>1. /\ pc = "insert" /\ ins.e > Len(prog.exports[m]) /\ pc' = ins.back
      /\ UNCHANGED <<prog, ins, condes, ref>>
  BY DEF Inserted, symbols
<1>2. /\ ins.e \in Nat \ {0} /\ TypeControl /\ ins.back \in {"input", "scan"}
      /\ Len(prog.exports[m]) \in Nat /\ m \in ref
  <2>1. prog.exports[m] \in Seq(Names) /\ ins.e \in Nat \ {0} /\ ins.back \in {"input", "scan"}
    BY LinkerAssumption DEF IInv, TypeControl
  <2> QED
    BY <1>1, <2>1, LenProperties DEF TableInv, Begun, IInv
<1>3. ASSUME NEW c \in prog.condes PROVE Put(c)' <=> Put(c)
  <2>1. Put(c)' <=> c[1] \in ref
    BY <1>1, <1>2 DEF Put, Entered
  <2>2. CASE c[1] = m
    <3>1. PICK k \in 1 .. Len(prog.exports[m]) : prog.exports[m][k] = c[2]
      BY <1>2, <2>2, PairFacts
    <3>2. k \in 1 .. ins.e - 1
      BY <1>1, <1>2
    <3> QED
      BY <1>1, <1>2, <2>1, <2>2, <3>1, <3>2 DEF Put
  <2>3. CASE c[1] # m
    BY <1>1, <2>1, <2>3 DEF Put, Entered
  <2> QED
    BY <2>2, <2>3
<1> QED
  BY <1>1, <1>2, <1>3, CondesSame

\* Any other step.
LEMMA CondesOther ==
    ASSUME IInv, CondesInv, pc \notin {"insert", "error"}, UNCHANGED <<prog, condes>>,
           \/ pc' # "insert" /\ ref' = ref
           \/ \E m \in Modules, back \in {"input", "scan"} : m \notin ref /\ Insert(m, back)
    PROVE  CondesInv'
<1>1. TypeControl
  BY DEF IInv
<1>2. CASE pc' # "insert" /\ ref' = ref
  <2>1. \A c \in prog.condes : Put(c)' <=> Put(c)
    BY <1>2 DEF Put, Entered
  <2> QED
    BY <1>1, <2>1, CondesSame
<1>3. ASSUME NEW m \in Modules, NEW back \in {"input", "scan"}, m \notin ref, Insert(m, back)
      PROVE  CondesInv'
  <2>1. ref' = ref \cup {m} /\ pc' = "insert" /\ ins'.m = m /\ ins'.e = 1
    BY <1>3 DEF Insert
  <2>2. 1 .. 1 - 1 = {}
    OBVIOUS
  <2>3. \A c \in prog.condes : Put(c)' <=> Put(c)
    BY <1>3, <2>1, <2>2 DEF Put, Entered
  <2> QED
    BY <1>1, <2>3, CondesSame
<1> QED
  BY <1>2, <1>3

\* The items of the command line.
LEMMA TableCommandLine ==
    ASSUME IInv, LoadInv, TableInv, CondesInv, CommandLine
    PROVE  TableInv' /\ CondesInv'
<1>1. TypeControl /\ SymInv
  BY DEF IInv
<1>2. ASSUME NEW kind, Take(kind)
      PROVE  /\ Item1.name \in Names /\ next \in DOMAIN prog.items /\ Item1.kind = kind
             /\ pc = "input" /\ Item1 = prog.items[next]
             /\ Item1.kind = "obj" => Item1.mods[1] \in Modules /\ 1 \in DOMAIN Item1.mods
  <2>1. next \in DOMAIN prog.items /\ Item1.kind = kind /\ pc = "input" /\ Item1 = prog.items[next]
    BY <1>1, <1>2, ProgramFacts DEF Take, Item1, TypeControl
  <2>2. Item1.mods \in Seq(Modules) /\ (Item1.kind = "obj" => Item1.mods # <<>>)
    BY <1>1, <2>1, ProgramFacts, LinkerAssumption DEF TypeControl
  <2>3. Item1.kind = "obj" => 1 \in DOMAIN Item1.mods
    BY <2>2, EmptySeq, LenProperties
  <2> QED
    BY <1>1, <2>1, <2>3, ProgramFacts
<1>3. CASE ForceImport
  <2> PICK n : n = Item1.name
    OBVIOUS
  <2>1. EnterImport(n, Linker) /\ UNCHANGED <<prog, pc, condes, ref>> /\ n \in Names /\ pc = "input"
    BY <1>2, <1>3 DEF ForceImport
  <2>2. Grows /\ \A x \in Names : table'[x] = table[x] \/ table'[x] = Unresolved
    BY <2>1, ImportGrows
  <2>3. Known'
    BY <2>1, <2>2, Kinds, KnownSame DEF TableInv
  <2>4. TableInv'
    BY <2>1, <2>2, <2>3, TableGrows
  <2> QED
    BY <2>1, <2>4, CondesOther
<1>4. CASE DefineSymbol
  <2> PICK n : n = Item1.name
    OBVIOUS
  <2>1. /\ EnterExport(n, Linker) /\ UNCHANGED <<prog, pc, condes, ref>> /\ n \in Names /\ pc = "input"
        /\ next \in DOMAIN prog.items /\ prog.items[next].kind = "define" /\ prog.items[next].name = n
    BY <1>2, <1>4 DEF DefineSymbol
  <2>2. Linker \in Definer /\ Linker \notin Modules
    BY LinkerAssumption DEF Definer
  <2>3. Grows /\ \A x \in Names : table'[x] = table[x] \/ (x = n /\ table'[x] = Linker)
    BY <2>1, <2>2, ExportGrows
  <2>4. Justified(n, Linker)
    BY <2>1, <2>2 DEF Justified
  <2>5. Known'
    <3>1. Known
      BY <2>1 DEF TableInv
    <3> QED
      BY <2>1, <2>3, <2>4, <3>1, KnownKept
  <2>6. TableInv'
    BY <2>1, <2>3, <2>5, TableGrows
  <2> QED
    BY <2>1, <2>6, CondesOther
<1>5. CASE ObjAdd
  <2> PICK m : m = Item1.mods[1]
    OBVIOUS
  <2>1. /\ Insert(m, "input") /\ UNCHANGED <<prog, table, condes>> /\ pc = "input" /\ m \in Modules
        /\ next \in DOMAIN prog.items /\ InFile(m, next)
    BY <1>2, <1>5 DEF ObjAdd, symbols, InFile, ModsOf
  <2>2. m \notin ref
    BY <1>1, <2>1, NewFile DEF LoadInv
  <2> QED
    BY <2>1, <2>2, TableInsert, CondesOther
<1>6. CASE LibAdd \/ LibStartGroup \/ LibEndGroup \/ UsageError
  <2>1. pc = "input" /\ UNCHANGED <<prog, table, condes, ref>>
    BY <1>6 DEF LibAdd, LibStartGroup, LibEndGroup, UsageError, Take, symbols
  <2>2. pc' \in {"input", "scan", "error"}
    BY <1>6, <2>1 DEF LibAdd, LibStartGroup, LibEndGroup, UsageError, StartScan
  <2> QED
    BY <2>1, <2>2, TableSame, CondesOther
<1> QED
  BY <1>3, <1>4, <1>5, <1>6 DEF CommandLine

\* The globals of a module.
LEMMA TableGlobals ==
    ASSUME IInv, TableInv, CondesInv, DispatcherAsks, InsertGlobals
    PROVE  TableInv' /\ CondesInv'
<1> PICK m \in Modules : m = ins.m
  BY DEF IInv, TypeControl
<1>1. /\ TypeControl /\ SymInv /\ m \in Definer
      /\ ins.e \in Nat \ {0} /\ ins.i \in Nat \ {0} /\ ins.back \in {"input", "scan"}
      /\ prog.exports[m] \in Seq(Names) /\ DOMAIN prog.exports[m] = 1 .. Len(prog.exports[m])
      /\ Len(prog.exports[m]) \in Nat
  BY LinkerAssumption, LenProperties DEF IInv, TypeControl, Definer
<1>2. Len(Imports(m)) \in Nat
  BY <1>1, ImportsAre
<1>3. pc = "insert"
  BY DEF InsertGlobals, InsertExport, InsertDuplicate, InsertImport, Inserted
<1>4. m \in ref
  BY <1>3 DEF TableInv, Begun
<1>5. ASSUME UNCHANGED <<prog, ref, pc>>, ins'.m = m, Grows
      PROVE  \A x \in Modules : Entered(x)' => Asked(x)'
  <2>1. \A x \in Modules : Entered(x)' => Entered(x)
    BY <1>5 DEF Entered
  <2> QED
    BY <1>3, <1>5, <2>1, GrowsKeeps
<1>6. CASE InsertExport
  <2> PICK n : n = prog.exports[m][ins.e]
    OBVIOUS
  <2>1. /\ ins.e <= Len(prog.exports[m]) /\ EnterExport(n, m)
        /\ ins' = [m |-> m, e |-> ins.e + 1, i |-> ins.i, back |-> ins.back]
        /\ UNCHANGED <<prog, pc, ref>>
    BY <1>6 DEF InsertExport
  <2>2. ins'.m = m /\ ins'.e = ins.e + 1 /\ ins'.i = ins.i
    BY <2>1
  <2>3. ins.e \in 1 .. Len(prog.exports[m]) /\ n \in Names
    BY <1>1, <2>1, ProgramFacts
  <2>4. /\ Grows /\ table'[n] \in Definer
        /\ \A x \in Names : table'[x] = table[x] \/ (x = n /\ table'[x] = m)
    BY <1>1, <2>1, <2>3, ExportGrows
  <2>5. Justified(n, m)
    BY <1>4, <2>3, LinkerAssumption DEF Justified
  <2>6. Known'
    <3>1. Known
      BY <1>3 DEF TableInv
    <3> QED
      BY <2>1, <2>4, <2>5, <3>1, KnownKept
  <2>7. Begun'
    <3>1. /\ \A e \in 1 .. ins.e - 1 : e <= Len(prog.exports[m]) /\ table'[prog.exports[m][e]] \in Definer
          /\ \A k \in 1 .. ins.i - 1 : k <= Len(Imports(m)) /\ table'[Imports(m)[k]] # Absent
      BY <1>3, <2>1, <2>4, GrowsKeeps
    <3>2. \A e \in 1 .. (ins.e + 1) - 1 : e \in 1 .. ins.e - 1 \/ e = ins.e
      BY <1>1
    <3>3. \A e \in 1 .. (ins.e + 1) - 1 : e <= Len(prog.exports[m]) /\ table'[prog.exports[m][e]] \in Definer
      BY <2>1, <2>4, <3>1, <3>2
    <3>4. Imports(m)' = Imports(m) /\ Len(prog.exports[m])' = Len(prog.exports[m])
      BY <2>1 DEF Imports
    <3> QED
      BY <1>4, <2>1, <2>2, <3>1, <3>3, <3>4 DEF Begun
  <2>8. TableInv'
    BY <1>3, <1>5, <2>1, <2>2, <2>4, <2>6, <2>7 DEF TableInv
  <2> QED
    BY <1>6, <2>8, CondesExport
<1>7. CASE InsertDuplicate
  BY <1>7 DEF InsertDuplicate, TableInv, CondesInv
<1>8. CASE InsertImport
  <2> PICK n : n = Imports(m)[ins.i]
    OBVIOUS
  <2>1. /\ ins.i <= Len(Imports(m)) /\ EnterImport(n, m)
        /\ ins' = [m |-> m, e |-> ins.e, i |-> ins.i + 1, back |-> ins.back]
        /\ UNCHANGED <<prog, pc, ref, condes>>
    BY <1>8 DEF InsertImport
  <2>2. ins'.m = m /\ ins'.e = ins.e /\ ins'.i = ins.i + 1
    BY <2>1
  <2>3. n \in Names
    BY <1>1, <1>2, <2>1, ImportNames
  <2>4. /\ Grows /\ table'[n] # Absent
        /\ \A x \in Names : table'[x] = table[x] \/ table'[x] = Unresolved
    BY <1>1, <2>1, <2>3, ImportGrows
  <2>5. Known'
    BY <1>3, <2>1, <2>4, Kinds, KnownSame DEF TableInv
  <2>6. Begun'
    <3>1. /\ \A e \in 1 .. ins.e - 1 : e <= Len(prog.exports[m]) /\ table'[prog.exports[m][e]] \in Definer
          /\ \A k \in 1 .. ins.i - 1 : k <= Len(Imports(m)) /\ table'[Imports(m)[k]] # Absent
      BY <1>3, <2>1, <2>4, GrowsKeeps
    <3>2. \A k \in 1 .. (ins.i + 1) - 1 : k \in 1 .. ins.i - 1 \/ k = ins.i
      BY <1>1
    <3>3. \A k \in 1 .. (ins.i + 1) - 1 : k <= Len(Imports(m)) /\ table'[Imports(m)[k]] # Absent
      BY <2>1, <2>4, <3>1, <3>2
    <3>4. Imports(m)' = Imports(m)
      BY <2>1 DEF Imports
    <3> QED
      BY <1>4, <2>1, <2>2, <3>1, <3>3, <3>4 DEF Begun
  <2>7. TableInv'
    BY <1>3, <1>5, <2>1, <2>2, <2>4, <2>5, <2>6 DEF TableInv
  <2>8. \A c \in prog.condes : Put(c)' <=> Put(c)
    BY <2>1, <2>2 DEF Put, Entered
  <2> QED
    BY <1>1, <1>3, <2>1, <2>7, <2>8, CondesSame
<1>9. CASE Inserted
  <2>1. /\ ins.i > Len(Imports(m)) /\ pc' = ins.back
        /\ UNCHANGED <<prog, ins, table, condes, ref>>
    BY <1>9 DEF Inserted, symbols
  <2>2. Known'
    BY <1>3, <2>1, KnownSame DEF TableInv
  <2>3. ASSUME NEW x \in Modules, Entered(x)' PROVE Asked(x)'
    <3>1. Asked(x)' <=> Asked(x)
      BY <2>1 DEF Asked, Imports
    <3>2. CASE x = m
      <4>1. \A k \in 1 .. Len(Imports(m)) : k \in 1 .. ins.i - 1
        BY <1>1, <1>2, <2>1
      <4>2. \A k \in 1 .. ins.i - 1 : table[Imports(m)[k]] # Absent
        BY <1>3 DEF TableInv, Begun
      <4> QED
        BY <3>1, <3>2, <4>1, <4>2 DEF Asked
    <3>3. CASE x # m
      <4>1. Entered(x)
        BY <2>1, <2>3, <3>3 DEF Entered
      <4> QED
        BY <1>3, <3>1, <4>1 DEF TableInv
    <3> QED
      BY <3>2, <3>3
  <2>4. TableInv'
    BY <1>1, <2>1, <2>2, <2>3 DEF TableInv
  <2> QED
    BY <1>9, <2>4, CondesInserted
<1> QED
  BY <1>6, <1>7, <1>8, <1>9 DEF InsertGlobals

\* The search of the libraries.
LEMMA TableLibs ==
    ASSUME IInv, TableInv, CondesInv, LibResolve
    PROVE  TableInv' /\ CondesInv'
<1>1. TypeControl
  BY DEF IInv
<1>2. CASE LibCheckExports
  <2> PICK m : m = open[lib][mod]
    OBVIOUS
  <2>1. /\ pc = "scan" /\ UNCHANGED <<prog, table, condes>>
        /\ \/ m \notin ref /\ Insert(m, "scan")
           \/ UNCHANGED <<ref, pc>>
    BY <1>2 DEF LibCheckExports, symbols
  <2>2. m \in Modules
    BY <1>1, <1>2, OpenTypes DEF LibCheckExports
  <2> QED
    BY <2>1, <2>2, TableInsert, TableSame, CondesOther
<1>3. CASE NextLib \/ EndOfPass \/ LoadModule \/ LoadLib \/ EndOfLoad
  <2>1. pc \in {"scan", "load"} /\ UNCHANGED <<prog, table, condes, ref>>
    BY <1>3 DEF NextLib, EndOfPass, LoadModule, LoadLib, EndOfLoad, symbols
  <2>2. pc' \in {"scan", "load", "input"}
    BY <1>3, <2>1 DEF NextLib, EndOfPass, LoadModule, LoadLib, EndOfLoad
  <2> QED
    BY <2>1, <2>2, TableSame, CondesOther
<1> QED
  BY <1>2, <1>3 DEF LibResolve

\* The end of the input.
LEMMA TableFinish ==
    ASSUME IInv, TableInv, CondesInv, Finish
    PROVE  TableInv' /\ CondesInv'
<1>1. TypeControl /\ {Label, Count} \subseteq Names /\ Linker \in Definer /\ Linker \notin Modules
  BY LinkerAssumption DEF IInv, Definer
<1>2. UNCHANGED <<prog, condes, ref>> /\ pc \notin {"insert", "error"} /\ pc' # "insert"
  BY DEF Finish, InputEnds, ConDesCreate, ConDesCount, CheckUnresolvedImports, symbols
<1>3. CondesInv'
  BY <1>2, CondesOther
<1>4. ASSUME NEW n \in {Label, Count}, EnterExport(n, Linker), pc' # "linked"
      PROVE  TableInv'
  <2>1. Grows /\ \A x \in Names : table'[x] = table[x] \/ (x = n /\ table'[x] = Linker)
    BY <1>1, <1>4, ExportGrows
  <2>2. Justified(n, Linker)
    BY <1>1 DEF Justified
  <2>3. Known
    BY <1>2 DEF TableInv
  <2>4. Known'
    BY <1>2, <2>1, <2>2, <2>3, KnownKept
  <2> QED
    BY <1>2, <1>4, <2>1, <2>4, TableGrows
<1>5. ASSUME table' = table, pc' = "linked" => impOpen' = 0 PROVE TableInv'
  BY <1>2, <1>5, TableSame
<1>6. CASE InputEnds
  BY <1>3, <1>5, <1>6 DEF InputEnds, symbols
<1>7. CASE ConDesCreate
  BY <1>3, <1>4, <1>5, <1>7 DEF ConDesCreate
<1>8. CASE ConDesCount
  BY <1>3, <1>4, <1>5, <1>8 DEF ConDesCount
<1>9. CASE CheckUnresolvedImports
  BY <1>3, <1>5, <1>9 DEF CheckUnresolvedImports, symbols
<1> QED
  BY <1>6, <1>7, <1>8, <1>9 DEF Finish

\* Every interruptor of every linked module is listed once, and if there is
\* one the dispatcher is linked and has got the table (ConDesAddExport,
\* ConDesCreateOne), whatever else is linked.
THEOREM AllDispatched == ASSUME DispatcherAsks PROVE Spec => []InterruptorsDispatched
<1>1. Init => TableInv /\ CondesInv
  <2> SUFFICES ASSUME Init PROVE TableInv /\ CondesInv
    OBVIOUS
  <2>1. /\ condes = <<>> /\ DOMAIN condes = {} /\ ref = {} /\ pc = "input"
        /\ \A n \in Names : table[n] = Absent
    BY DEF Init
  <2> QED
    BY <2>1, Kinds DEF TableInv, CondesInv, Known, Entered, Put
<1>2. IInv /\ LoadInv /\ TableInv /\ CondesInv /\ [Next]_vars => TableInv' /\ CondesInv'
  <2> SUFFICES ASSUME IInv, LoadInv, TableInv, CondesInv, [Next]_vars PROVE TableInv' /\ CondesInv'
    OBVIOUS
  <2>1. CASE UNCHANGED vars
    <3>1. /\ UNCHANGED <<prog, ins, pc, table, impOpen, condes, ref>>
      BY <2>1 DEF vars, symbols
    <3>2. TableInv'
      BY <3>1 DEF TableInv, Known, Justified, Begun, Entered, Asked, Imports
    <3>3. \A c \in prog.condes : Put(c)' <=> Put(c)
      BY <3>1 DEF Put, Entered
    <3>4. CondesInv'
      BY <3>1, <3>3 DEF CondesInv
    <3> QED
      BY <3>2, <3>4
  <2> QED
    BY <2>1, TableCommandLine, TableGlobals, TableLibs, TableFinish DEF Next
<1>3. IInv /\ NeedInv /\ TableInv /\ CondesInv => InterruptorsDispatched
  <2> SUFFICES ASSUME IInv, NeedInv, TableInv, CondesInv, pc = "linked" PROVE InterruptorsDispatched
    BY DEF InterruptorsDispatched
  <2>1. SymInv /\ TypeControl /\ prog \in Programs /\ {Label, Dispatcher} \subseteq Names
    BY LinkerAssumption DEF IInv, TypeControl
  <2>2. \A m : Entered(m) <=> m \in ref
    BY DEF Entered
  <2>3. \A c \in prog.condes : Put(c) <=> c[1] \in ref
    BY <2>2 DEF Put
  <2>4. \A i, j \in DOMAIN condes : condes[i] = condes[j] => i = j
    BY DEF CondesInv
  <2>5. {condes[i] : i \in DOMAIN condes} = {c \in prog.condes : c[1] \in ref}
    BY <2>3 DEF CondesInv
  <2>6. \A n \in Names : table[n] # Unresolved
    <3>1. OpenImports = {}
      <4>1. IsFiniteSet(OpenImports) /\ Cardinality(OpenImports) = 0
        BY <2>1, Finite DEF SymInv, Counted, TableInv
      <4> QED
        BY <4>1, FS_EmptySet
    <3> QED
      BY <3>1 DEF OpenImports, NeedInv, Waiting
  <2>7. \A n \in Names : table[n] # Absent => table[n] \in Definer
    BY <2>1, <2>6 DEF SymInv, TypeSymbols
  <2>8. ASSUME condes # <<>> PROVE table[Dispatcher] \in Definer /\ table[Label] = Linker
    <3>1. PICK c \in prog.condes : c[1] \in ref
      <4>1. condes \in Seq(Modules \X Names)
        BY <2>1 DEF TypeControl
      <4>2. 1 \in DOMAIN condes
        BY <2>8, <4>1, EmptySeq, LenProperties
      <4> QED
        BY <2>5, <4>2
    <3>2. c[1] \in Modules
      BY <2>1, PairFacts
    <3>3. PICK k \in 1 .. Len(Imports(c[1])) : Imports(c[1])[k] = Dispatcher
      BY <2>1, <3>2, ImportsAre
    <3>4. table[Dispatcher] \in Definer
      BY <2>1, <2>2, <2>7, <3>1, <3>2, <3>3 DEF TableInv, Asked
    <3> PICK d \in Definer : d = table[Dispatcher]
      BY <3>4
    <3>5. Justified(Dispatcher, d)
      BY <2>1 DEF TableInv, Known
    <3>6. CASE d = Linker
      <4>1. Dispatcher = Label
        BY <2>1, <3>5, <3>6 DEF Justified, DispatcherAsks
      <4> QED
        BY <3>4, <3>6, <4>1
    <3>7. CASE d \in Modules
      <4>1. d \in ref /\ \E j \in 1 .. Len(prog.exports[d]) : prog.exports[d][j] = Dispatcher
        BY <3>5, <3>7 DEF Justified
      <4>2. /\ prog.exports[d] \in Seq(Names) /\ DOMAIN prog.exports[d] = 1 .. Len(prog.exports[d])
            /\ prog.imports[d] \in Seq(Names) /\ DOMAIN prog.imports[d] = 1 .. Len(prog.imports[d])
        BY <2>1, <3>7, LinkerAssumption, LenProperties
      <4>3. \E j \in 1 .. Len(prog.imports[d]) : prog.imports[d][j] = Label
        BY <2>1, <3>7, <4>1, <4>2 DEF DispatcherAsks, Holds
      <4>4. PICK j \in 1 .. Len(Imports(d)) : Imports(d)[j] = Label
        BY <2>1, <3>7, <4>3, ImportsAre
      <4>5. table[Label] \in Definer
        BY <2>1, <2>2, <2>7, <3>7, <4>1, <4>4 DEF TableInv, Asked
      <4> PICK f \in Definer : f = table[Label]
        BY <4>5
      <4>6. Justified(Label, f)
        BY <2>1 DEF TableInv, Known
      <4>7. f \notin Modules
        <5> SUFFICES ASSUME f \in Modules PROVE FALSE
          OBVIOUS
        <5>1. \E j2 \in 1 .. Len(prog.exports[f]) : prog.exports[f][j2] = Label
          BY <4>6 DEF Justified
        <5>2. prog.exports[f] \in Seq(Names) /\ DOMAIN prog.exports[f] = 1 .. Len(prog.exports[f])
          BY <2>1, LinkerAssumption, LenProperties
        <5> QED
          BY <2>1, <5>1, <5>2 DEF DispatcherAsks, Holds
      <4> QED
        BY <3>4, <4>7 DEF Definer
    <3> QED
      BY <3>6, <3>7 DEF Definer
  <2> QED
    BY <2>4, <2>5, <2>8 DEF InterruptorsDispatched
<1> QED
  BY <1>1, <1>2, <1>3, Inductive, LoadedInductive, NeedInductive, PTL DEF Spec
=============================================================================
