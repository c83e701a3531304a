--------------------------------- MODULE Linker ---------------------------------
(***************************************************************************)
(* The linker's symbol resolution: main.c and objfile.c process the input  *)
(* files in order, exports.c keeps the table of exports with the imports   *)
(* that wait for them, library.c decides which modules of the libraries    *)
(* are needed and loads them, and condes.c turns the exports declared as   *)
(* constructor, destructor or interruptor into tables.                     *)
(*                                                                         *)
(* A step is one item of the command line, one export or import entered    *)
(* into the table, one module of a library checked, or one library loaded. *)
(* What is linked is prog: one of Programs, chosen at the start.           *)
(***************************************************************************)
EXTENDS Integers, Sequences, FiniteSets

CONSTANTS Modules,     \* object files and library modules
          Names,       \* names of symbols
          Programs,    \* what the command line names and the files hold
          Label,       \* the label of the condes table (LABEL of a CONDES)
          Count,       \* its entry count (COUNT)
          Dispatcher,  \* the forced import of the condes type (IMPORT)
          Absent, Unresolved, Linker   \* see table

\* An item of the command line and config file: an object, a library, a group
\* bracket, a symbol to import (-u, type = import) or to define (-D, type = export).
Item == [kind : {"obj", "lib", "start", "end", "import", "define"},
         mods : Seq(Modules), name : Names]

ASSUME LinkerAssumption ==
    /\ IsFiniteSet(Names)
    /\ {Label, Count, Dispatcher} \subseteq Names /\ Label # Count
    /\ Absent # Unresolved /\ Linker \notin {Absent, Unresolved}
    /\ Modules # {} /\ {Absent, Unresolved, Linker} \cap Modules = {}
    /\ \A p \in Programs :
          /\ p.items \in Seq(Item)
          /\ p.exports \in [Modules -> Seq(Names)]
          /\ p.imports \in [Modules -> Seq(Names)]
          /\ p.condes \subseteq {c \in Modules \X Names :
                            \E k \in DOMAIN p.exports[c[1]] : p.exports[c[1]][k] = c[2]}
          /\ IsFiniteSet(p.condes)
          /\ p.multdef \in BOOLEAN
          /\ \A i \in DOMAIN p.items :
                p.items[i].kind = "obj" => p.items[i].mods # <<>>

\* main acts on the options while it parses the command line, and on the files
\* when it has parsed it.  Each object file and library module that is read is
\* an ObjData of its own (NewObjData).
ASSUME ReadingAssumption ==
    \A p \in Programs : \A i, j \in DOMAIN p.items :
        /\ i < j /\ p.items[j].kind \in {"import", "define"}
           => p.items[i].kind \in {"import", "define"}
        /\ \A k \in DOMAIN p.items[i].mods, l \in DOMAIN p.items[j].mods :
              p.items[i].mods[k] = p.items[j].mods[l] => i = j /\ k = l

VARIABLES prog,       \* the program that is linked
          next,       \* the command-line item that comes next
          pc,         \* what the linker is doing
          ins,        \* the module whose globals are entered, how far, and why
          table,      \* HashTab: by name Absent, Unresolved (a dummy export,
                      \* Expr = 0), or who defines it: a module or the Linker
          impCount,   \* by name, ImpCount of the export in the table
          imports,    \* the imports entered: their Name, owner and Exp
          impOpen,    \* ImpOpen
          expCount,   \* ExpCount
          condes,     \* ExpList of the condes type
          ref,        \* modules with OBJ_REF set
          loaded,     \* ObjDataList
          grouping,   \* Grouping
          open,       \* OpenLibs: the modules of each open library
          lib, mod,   \* I and J of the loops over them
          additions   \* whether Additions > 0

symbols == <<table, impCount, imports, impOpen, expCount, condes>>
libs    == <<grouping, open, lib, mod, additions>>
vars == <<prog, next, pc, ins, symbols, ref, loaded, libs>>

Definer == Modules \cup {Linker}
Import == [name : Names, owner : Definer, exp : Definer \cup {Unresolved}]

TypeSymbols ==
    /\ table \in [Names -> Definer \cup {Absent, Unresolved}]
    /\ impCount \in [Names -> Nat]
    /\ imports \in Seq(Import)
    /\ impOpen \in Nat /\ expCount \in Nat

TypeControl ==
    /\ prog \in Programs
    /\ next \in Nat \ {0}
    /\ pc \in {"input", "insert", "scan", "load", "condes", "count", "check",
              "linked", "unresolved", "error"}
    /\ ins \in [m : Modules, e : Nat \ {0}, i : Nat \ {0}, back : {"input", "scan"}]
    /\ condes \in Seq(Modules \X Names)
    /\ ref \subseteq Modules
    /\ loaded \in Seq(Modules)
    /\ grouping \in BOOLEAN /\ additions \in BOOLEAN
    /\ open \in Seq(Seq(Modules))
    /\ lib \in Nat \ {0} /\ mod \in Nat \ {0}

TypeOK == TypeSymbols /\ TypeControl

Init ==
    /\ prog \in Programs
    /\ next = 1 /\ pc = "input"
    /\ ins = [m |-> CHOOSE m \in Modules : TRUE, e |-> 1, i |-> 1, back |-> "input"]
    /\ table = [n \in Names |-> Absent]
    /\ impCount = [n \in Names |-> 0]
    /\ imports = <<>> /\ impOpen = 0 /\ expCount = 0
    /\ condes = <<>>
    /\ ref = {} /\ loaded = <<>>
    /\ grouping = FALSE /\ open = <<>> /\ lib = 1 /\ mod = 1 /\ additions = FALSE

-----------------------------------------------------------------------------
(* The table of exports.                                                   *)

IsUnresolved(n) == table[n] = Unresolved

\* ReadExport gives a module one more import for each export that is declared
\* as a condes of a type with a forced import.
Imports(m) ==
    prog.imports[m] \o [k \in 1 .. Cardinality({c \in prog.condes : c[1] = m}) |-> Dispatcher]

\* Mutant: an import that finds a dummy export is not counted as open.
EnterImportUncounted(n, owner) ==
    LET exp == IF table[n] = Absent THEN Unresolved ELSE table[n]
    IN  /\ table' = [table EXCEPT ![n] = exp]
        /\ expCount' = IF table[n] = Absent THEN expCount + 1 ELSE expCount
        /\ imports' = Append(imports, [name |-> n, owner |-> owner, exp |-> exp])
        /\ impCount' = [impCount EXCEPT ![n] = @ + 1]
        /\ impOpen' = IF table[n] = Absent THEN impOpen + 1 ELSE impOpen

\* InsertImport: the import points to the export of its name, for which a
\* dummy is made if there is none.
EnterImport(n, owner) ==
    LET exp == IF table[n] = Absent THEN Unresolved ELSE table[n]
    IN  /\ table' = [table EXCEPT ![n] = exp]
        /\ expCount' = IF table[n] = Absent THEN expCount + 1 ELSE expCount
        /\ imports' = Append(imports, [name |-> n, owner |-> owner, exp |-> exp])
        /\ impCount' = [impCount EXCEPT ![n] = @ + 1]
        /\ impOpen' = IF exp = Unresolved THEN impOpen + 1 ELSE impOpen

NewName(n, definer) ==
    /\ table[n] = Absent
    /\ table' = [table EXCEPT ![n] = definer]
    /\ expCount' = expCount + 1
    /\ UNCHANGED <<impCount, imports, impOpen>>

\* Mutant: the imports still point to the dummy, which is freed.
ResolveLateBound(n, definer) ==
    /\ IsUnresolved(n)
    /\ table' = [table EXCEPT ![n] = definer]
    /\ impOpen' = impOpen - impCount[n]
    /\ UNCHANGED <<impCount, expCount, imports>>

\* The export takes the place of the dummy, and the dummy's imports.
Resolve(n, definer) ==
    /\ IsUnresolved(n)
    /\ table' = [table EXCEPT ![n] = definer]
    /\ impOpen' = impOpen - impCount[n]
    /\ imports' = [i \in DOMAIN imports |->
                      IF imports[i].name # n THEN imports[i]
                      ELSE [name |-> n, owner |-> imports[i].owner, exp |-> definer]]
    /\ UNCHANGED <<impCount, expCount>>

\* A second definition is dropped if --allow-multiple-definition is given.
Duplicate(n) ==
    /\ table[n] \in Definer /\ prog.multdef
    /\ UNCHANGED <<table, impCount, imports, impOpen, expCount>>

\* InsertExport, of a symbol that is not fatal.
EnterExport(n, definer) == NewName(n, definer) \/ Resolve(n, definer) \/ Duplicate(n)

\* Error: the program ends.
Fatal(n) == table[n] \in Definer /\ ~prog.multdef

\* Mutant: the export is declared as a condes at the end, which is not
\* reached when it resolves a dummy.
InsertExportLate ==
    /\ pc = "insert" /\ ins.e <= Len(prog.exports[ins.m])
    /\ LET n == prog.exports[ins.m][ins.e]
       IN  /\ ~Fatal(n)
           /\ EnterExport(n, ins.m)
           /\ condes' = IF <<ins.m, n>> \in prog.condes /\ table[n] = Absent
                        THEN Append(condes, <<ins.m, n>>) ELSE condes
    /\ ins' = [m |-> ins.m, e |-> ins.e + 1, i |-> ins.i, back |-> ins.back]
    /\ UNCHANGED <<prog, next, pc, ref, loaded, libs>>

\* InsertObjGlobals enters a module's exports, and then its imports.
InsertExport ==
    /\ pc = "insert" /\ ins.e <= Len(prog.exports[ins.m])
    /\ LET n == prog.exports[ins.m][ins.e]
       IN  /\ ~Fatal(n)
           /\ EnterExport(n, ins.m)
           /\ condes' = IF <<ins.m, n>> \in prog.condes
                        THEN Append(condes, <<ins.m, n>>) ELSE condes
    /\ ins' = [m |-> ins.m, e |-> ins.e + 1, i |-> ins.i, back |-> ins.back]
    /\ UNCHANGED <<prog, next, pc, ref, loaded, libs>>

InsertDuplicate ==
    /\ pc = "insert" /\ ins.e <= Len(prog.exports[ins.m])
    /\ Fatal(prog.exports[ins.m][ins.e])
    /\ pc' = "error"
    /\ UNCHANGED <<prog, next, ins, symbols, ref, loaded, libs>>

InsertImport ==
    /\ pc = "insert" /\ ins.e > Len(prog.exports[ins.m])
    /\ ins.i <= Len(Imports(ins.m))
    /\ EnterImport(Imports(ins.m)[ins.i], ins.m)
    /\ ins' = [m |-> ins.m, e |-> ins.e, i |-> ins.i + 1, back |-> ins.back]
    /\ UNCHANGED <<prog, next, pc, condes, ref, loaded, libs>>

\* ObjAdd loads the object file then; LibCheckExports goes on with the next module.
Inserted ==
    /\ pc = "insert"
    /\ ins.e > Len(prog.exports[ins.m]) /\ ins.i > Len(Imports(ins.m))
    /\ pc' = ins.back
    /\ loaded' = IF ins.back = "input" THEN Append(loaded, ins.m) ELSE loaded
    /\ UNCHANGED <<prog, next, ins, symbols, ref, libs>>

\* A module is needed: it is marked and its globals follow.
Insert(m, back) ==
    /\ ref' = ref \cup {m}
    /\ ins' = [m |-> m, e |-> 1, i |-> 1, back |-> back]
    /\ pc' = "insert"

-----------------------------------------------------------------------------
(* The items of the command line.                                          *)

Item1 == prog.items[next]
Take(kind) == /\ pc = "input" /\ next <= Len(prog.items) /\ Item1.kind = kind
              /\ next' = next + 1

ForceImport == /\ Take("import")
               /\ EnterImport(Item1.name, Linker)
               /\ UNCHANGED <<prog, pc, ins, condes, ref, loaded, libs>>

DefineSymbol == /\ Take("define") /\ ~Fatal(Item1.name)
                /\ EnterExport(Item1.name, Linker)
                /\ UNCHANGED <<prog, pc, ins, condes, ref, loaded, libs>>

ObjAdd == /\ Take("obj")
          /\ Insert(Item1.mods[1], "input")
          /\ UNCHANGED <<prog, symbols, loaded, libs>>

\* LibResolve starts to walk over the open libraries.
StartScan == pc' = "scan" /\ lib' = 1 /\ mod' = 1 /\ additions' = FALSE

LibAdd == /\ Take("lib")
          /\ open' = Append(open, Item1.mods)
          /\ IF grouping THEN UNCHANGED <<pc, lib, mod, additions>> ELSE StartScan
          /\ UNCHANGED <<prog, ins, symbols, ref, loaded, grouping>>

LibStartGroup == /\ Take("start") /\ ~grouping
                 /\ grouping' = TRUE
                 /\ UNCHANGED <<prog, pc, ins, symbols, ref, loaded, open, lib, mod, additions>>

LibEndGroup == /\ Take("end") /\ grouping
               /\ StartScan
               /\ UNCHANGED <<prog, ins, symbols, ref, loaded, grouping, open>>

\* The errors in the use of the command line, each of which ends the program.
UsageError ==
    /\ \/ Take("define") /\ Fatal(Item1.name)
       \/ Take("start") /\ grouping
       \/ Take("end") /\ ~grouping
       \/ /\ pc = "input" /\ next > Len(prog.items) /\ UNCHANGED next
          /\ grouping \/ \A i \in DOMAIN prog.items : prog.items[i].kind # "obj"
    /\ pc' = "error"
    /\ UNCHANGED <<prog, ins, symbols, ref, loaded, libs>>

-----------------------------------------------------------------------------
(* LibResolve.                                                             *)

\* Mutant: an export nobody has asked for counts as unresolved.
LibCheckExportsAny ==
    /\ pc = "scan" /\ lib <= Len(open) /\ mod <= Len(open[lib])
    /\ LET m == open[lib][mod]
       IN  IF m \notin ref /\ \E k \in DOMAIN prog.exports[m] : table[prog.exports[m][k]] \notin Definer
           THEN Insert(m, "scan") /\ additions' = TRUE
           ELSE UNCHANGED <<ref, ins, pc, additions>>
    /\ mod' = mod + 1
    /\ UNCHANGED <<prog, next, symbols, loaded, grouping, open, lib>>

LibCheckExports ==
    /\ pc = "scan" /\ lib <= Len(open) /\ mod <= Len(open[lib])
    /\ LET m == open[lib][mod]
       IN  IF m \notin ref /\ \E k \in DOMAIN prog.exports[m] : IsUnresolved(prog.exports[m][k])
           THEN Insert(m, "scan") /\ additions' = TRUE
           ELSE UNCHANGED <<ref, ins, pc, additions>>
    /\ mod' = mod + 1
    /\ UNCHANGED <<prog, next, symbols, loaded, grouping, open, lib>>

NextLib ==
    /\ pc = "scan" /\ lib <= Len(open) /\ mod > Len(open[lib])
    /\ lib' = lib + 1 /\ mod' = 1
    /\ UNCHANGED <<prog, next, pc, ins, symbols, ref, loaded, grouping, open, additions>>

\* Mutant: the libraries are searched once.
EndOfPassOnce ==
    /\ pc = "scan" /\ lib > Len(open)
    /\ pc' = "load"
    /\ lib' = 1 /\ mod' = 1 /\ additions' = FALSE
    /\ UNCHANGED <<prog, next, ins, symbols, ref, loaded, grouping, open>>

\* As long as a pass has added a module there is another one.
EndOfPass ==
    /\ pc = "scan" /\ lib > Len(open)
    /\ pc' = IF additions THEN "scan" ELSE "load"
    /\ lib' = 1 /\ mod' = 1 /\ additions' = FALSE
    /\ UNCHANGED <<prog, next, ins, symbols, ref, loaded, grouping, open>>

\* A module in use is loaded, another one is freed.
LoadModule ==
    /\ pc = "load" /\ lib <= Len(open) /\ mod <= Len(open[lib])
    /\ loaded' = IF open[lib][mod] \in ref THEN Append(loaded, open[lib][mod]) ELSE loaded
    /\ mod' = mod + 1
    /\ UNCHANGED <<prog, next, pc, ins, symbols, ref, grouping, open, lib, additions>>

\* Mutant: every library is taken out of the list when it is done.
LoadLibDeletes ==
    /\ pc = "load" /\ lib <= Len(open) /\ mod > Len(open[lib])
    /\ open' = SubSeq(open, 1, lib - 1) \o SubSeq(open, lib + 1, Len(open))
    /\ lib' = lib + 1 /\ mod' = 1
    /\ UNCHANGED <<prog, next, pc, ins, symbols, ref, loaded, grouping, additions>>

\* A library without a module in use is taken out of the list, and lib, the
\* index of the for loop, is incremented all the same.
LoadLib ==
    /\ pc = "load" /\ lib <= Len(open) /\ mod > Len(open[lib])
    /\ open' = IF \E k \in DOMAIN open[lib] : open[lib][k] \in ref THEN open
               ELSE SubSeq(open, 1, lib - 1) \o SubSeq(open, lib + 1, Len(open))
    /\ lib' = lib + 1 /\ mod' = 1
    /\ UNCHANGED <<prog, next, pc, ins, symbols, ref, loaded, grouping, additions>>

\* The libraries are closed, and a group is ended.
EndOfLoad ==
    /\ pc = "load" /\ lib > Len(open)
    /\ open' = <<>> /\ grouping' = FALSE
    /\ pc' = "input" /\ lib' = 1 /\ mod' = 1
    /\ UNCHANGED <<prog, next, ins, symbols, ref, loaded, additions>>

-----------------------------------------------------------------------------
(* The end of the input.                                                   *)

InputEnds ==
    /\ pc = "input" /\ next > Len(prog.items) /\ ~grouping
    /\ \E i \in DOMAIN prog.items : prog.items[i].kind = "obj"
    /\ pc' = "condes"
    /\ UNCHANGED <<prog, next, ins, symbols, ref, loaded, libs>>

\* ConDesCreateOne makes the table if something imports its label.
ConDesCreate ==
    /\ pc = "condes"
    /\ IF IsUnresolved(Label) THEN EnterExport(Label, Linker) /\ pc' = "count"
       ELSE UNCHANGED <<table, impCount, imports, impOpen, expCount>> /\ pc' = "check"
    /\ UNCHANGED <<prog, next, ins, condes, ref, loaded, libs>>

ConDesCount ==
    /\ pc = "count"
    /\ IF Fatal(Count) THEN UNCHANGED <<table, impCount, imports, impOpen, expCount>> /\ pc' = "error"
       ELSE EnterExport(Count, Linker) /\ pc' = "check"
    /\ UNCHANGED <<prog, next, ins, condes, ref, loaded, libs>>

CheckUnresolvedImports ==
    /\ pc = "check"
    /\ pc' = IF impOpen # 0 THEN "unresolved" ELSE "linked"
    /\ UNCHANGED <<prog, next, ins, symbols, ref, loaded, libs>>

CommandLine == \/ ForceImport \/ DefineSymbol \/ ObjAdd \/ LibAdd
               \/ LibStartGroup \/ LibEndGroup \/ UsageError
InsertGlobals == InsertExport \/ InsertDuplicate \/ InsertImport \/ Inserted
LibResolve == LibCheckExports \/ NextLib \/ EndOfPass
              \/ LoadModule \/ LoadLib \/ EndOfLoad
Finish == InputEnds \/ ConDesCreate \/ ConDesCount \/ CheckUnresolvedImports

Next == CommandLine \/ InsertGlobals \/ LibResolve \/ Finish

Spec == Init /\ [][Next]_vars

-----------------------------------------------------------------------------
(* Properties.                                                             *)

Entries == {n \in Names : table[n] # Absent}
ImpList(n) == {i \in DOMAIN imports : imports[i].name = n}
OpenImports == {i \in DOMAIN imports : table[imports[i].name] = Unresolved}

\* The counters say what the table holds at any time: ExpCount its entries,
\* for which CreateExportPool makes room, ImpCount the imports that wait at
\* one, and ImpOpen, which alone decides whether the link fails, the imports
\* of symbols nobody has defined.
Counted ==
    /\ expCount = Cardinality(Entries)
    /\ \A n \in Names : impCount[n] = Cardinality(ImpList(n))
    /\ impOpen = Cardinality(OpenImports)

\* Every import points to the export that is in the table now, never to a
\* dummy that InsertExport has freed.
ExpCurrent == \A i \in DOMAIN imports : imports[i].exp = table[imports[i].name]

Objs == {prog.items[i].mods[1] : i \in {k \in DOMAIN prog.items : prog.items[k].kind = "obj"}}

\* Nothing is linked that nobody needs: a library module is there because it
\* defines what another module, or the command line, imports.
NeededOnly ==
    \A m \in ref \ Objs :
        \/ pc = "insert" /\ ins.m = m
        \/ pc = "error"
        \/ \E i \in DOMAIN imports : imports[i].exp = m /\ imports[i].owner # m

\* When the libraries of a group have been searched no module is left in any
\* of them that would define an open import, of whichever member, in
\* whatever order they stand.
GroupComplete ==
    pc = "load" =>
        \A l \in DOMAIN open : \A k \in DOMAIN open[l] :
            open[l][k] \in ref
            \/ \A e \in DOMAIN prog.exports[open[l][k]] : ~IsUnresolved(prog.exports[open[l][k]][e])

InGroup(p) == \E s \in 1 .. p : /\ prog.items[s].kind = "start"
                                /\ \A r \in s .. p : prog.items[r].kind # "end"

\* Item q is the library behind library p in one group.
Behind(p, q) == /\ p < q /\ prog.items[p].kind = "lib" /\ InGroup(p)
                /\ \A r \in p + 1 .. q - 1 : prog.items[r].kind = "obj"

InUse(p) == \E k \in DOMAIN prog.items[p].mods : prog.items[p].mods[k] \in ref

\* Every module is loaded once.  The only needed ones that are not loaded are
\* in a library that stands behind an unused one of its group.
LoadedOrSkipped ==
    pc = "linked" =>
        /\ \A i, j \in DOMAIN loaded : loaded[i] = loaded[j] => i = j
        /\ \A m \in ref :
              \/ \E i \in DOMAIN loaded : loaded[i] = m
              \/ \E p, q \in DOMAIN prog.items :
                    /\ Behind(p, q) /\ prog.items[q].kind = "lib" /\ ~InUse(p)
                    /\ \E k \in DOMAIN prog.items[q].mods : prog.items[q].mods[k] = m

\* The table of interruptors lists each one of each linked module once, and
\* when there is one, the dispatcher was linked by its forced import, asked
\* for the table, and got it.
InterruptorsDispatched ==
    pc = "linked" =>
        /\ \A i, j \in DOMAIN condes : condes[i] = condes[j] => i = j
        /\ {condes[i] : i \in DOMAIN condes} = {c \in prog.condes : c[1] \in ref}
        /\ condes # <<>> => table[Dispatcher] \in Definer /\ table[Label] = Linker

\* library.c says before it loads them that the modules which must be added
\* are known now, so that their data can be loaded: a linked module is loaded.
EveryNeededLoaded ==
    pc = "linked" => \A m \in ref : \E i \in DOMAIN loaded : loaded[i] = m
=============================================================================
