-------------------------------- MODULE Startup --------------------------------
(***************************************************************************)
(* A linked program starts on the console.  The loader of the cartridge    *)
(* (bootldr.s) copies the image of the main memory area verbatim to where  *)
(* the area starts, as the directory (defdir.s) tells it.  The relocator   *)
(* in crt0.s copies the one-shot code, the segment ONCE, from where it is  *)
(* in the image to where it was linked to run, above the BSS; that code    *)
(* clears the BSS and calls main, whose heap then grows over it.           *)
(***************************************************************************)
EXTENDS Layout

CONSTANTS Top,   \* the highest address
          Page   \* values of an index register, $100

\* boot names the main area, its segments BSS and ONCE, whether the config file
\* says that ONCE is in the image where it runs, or where the BSS does
\* (__ONCE_PHYS__), and how many bytes of the file are in front of the main
\* area (off0 of the directory, and the header).  main = 0: not started.
ASSUME StartupAssumption ==
    /\ Top \in Nat /\ Page \in Nat \ {0}
    /\ \A c \in Configs :
          /\ c.boot \in [main : Nat, bss : Nat, once : Nat, inPlace : BOOLEAN, offs : Nat]
          /\ c.boot.main # 0 =>
                /\ c.boot.main \in DOMAIN c.areas /\ c.areas[c.boot.main].file # 0
                /\ {c.boot.bss, c.boot.once} \subseteq DOMAIN c.segs /\ c.boot.bss < c.boot.once
                /\ \A s \in {c.boot.bss, c.boot.once} :
                      /\ c.segs[s].run = c.boot.main /\ ~c.segs[s].overwrite
                      /\ \E k \in DOMAIN c.sections : c.sections[k].seg = s

\* What the config files of the library have in common, from lynx.cfg to
\* lynx-512k.cfg: main fits into memory, nothing overwrites in its file, and its
\* segments load where they run; the BSS is the only one without bytes, and ONCE
\* is next to it, both where the one in front ends; ONCE is in the image where it
\* runs if the config file has main filled.
Cartridge(c) ==
    LET b == c.boot
        m == c.areas[b.main]
        InMain(s) == b.main \in {c.segs[s].load, c.segs[s].run}
    IN  /\ m.start + m.size <= Top + 1
        /\ b.inPlace <=> m.fill
        /\ \A s \in {b.bss, b.once} : c.segs[s].align = 0 /\ c.segs[s].at = "next"
        /\ \A s \in DOMAIN c.segs :
              /\ InMain(s) => c.segs[s].load = c.segs[s].run /\ (c.segs[s].bss <=> s = b.bss)
              /\ b.bss < s /\ s < b.once => ~InMain(s)
              /\ \A a \in {c.segs[s].load, c.segs[s].run} \ {0} :
                    c.areas[a].file = m.file => ~c.segs[s].overwrite

ASSUME CartridgeAssumption == \A c \in Configs : c.boot.main # 0 => Cartridge(c)

VARIABLES boot,   \* how far the startup is
          mem,    \* the memory
          image,  \* the memory as the loader has left it
          x       \* the index register of the relocator

vars == <<layoutVars, boot, mem, image, x>>

\* Bytes that come from no segment: what was there before, what zerobss
\* writes, and what the program writes into its heap.
Junk == [seg |-> 0, offs |-> 1]
Zero == [seg |-> 0, offs |-> 2]
Heap == [seg |-> 0, offs |-> 3]

B == cfg.boot
MainStart == M(B.main).start
BssRun    == segPC[B.bss]
BssSize   == segSize[B.bss]
OnceRun   == segPC[B.once]
OnceSize  == segSize[B.once]

OncePhys  == IF B.inPlace THEN OnceRun ELSE BssRun

StartupInit ==
    /\ Init
    /\ boot = "off" /\ x = 0
    /\ mem = [a \in 0 .. Top |-> Junk] /\ image = mem

Link == LayoutNext /\ UNCHANGED <<boot, mem, image, x>>

\* Mutant: the directory's offset forgets what is in front of main.
LoadFromStart ==
    /\ pc = "linked" /\ boot = "off" /\ B.main # 0
    /\ OnceSize < Page
    /\ LET file == out[M(B.main).file]
           len0 == OncePhys + OnceSize - MainStart
       IN  mem' = [a \in 0 .. Top |->
                      IF a \notin MainStart .. MainStart + len0 - 1 THEN mem[a]
                      ELSE IF a - MainStart + 1 \in DOMAIN file THEN file[a - MainStart + 1] ELSE Junk]
    /\ image' = mem'
    /\ x' = OnceSize % Page
    /\ boot' = IF x' = 0 THEN "once" ELSE "copy"
    /\ UNCHANGED layoutVars

\* The loader copies the len0 bytes that begin at off0.
Load ==
    /\ pc = "linked" /\ boot = "off" /\ B.main # 0
    /\ OnceSize < Page   \* the .assert of crt0.s, which the linker checks
    /\ LET file == out[M(B.main).file]
           len0 == OncePhys + OnceSize - MainStart
       IN  mem' = [a \in 0 .. Top |->
                      IF a \notin MainStart .. MainStart + len0 - 1 THEN mem[a]
                      ELSE IF B.offs + a - MainStart + 1 \in DOMAIN file
                           THEN file[B.offs + a - MainStart + 1] ELSE Junk]
    /\ image' = mem'
    /\ x' = OnceSize % Page
    /\ boot' = IF x' = 0 THEN "once" ELSE "copy"
    /\ UNCHANGED layoutVars

\* Mutant: the copy begins at the low end.
CopyUp ==
    /\ boot = "copy" /\ x > 0
    /\ mem' = [mem EXCEPT ![OnceRun + OnceSize - x] = mem[OncePhys + OnceSize - x]]
    /\ x' = x - 1
    /\ boot' = IF x' = 0 THEN "once" ELSE "copy"
    /\ UNCHANGED <<layoutVars, image>>

\* The relocator copies from the high end down to the low end.
Copy ==
    /\ boot = "copy" /\ x > 0
    /\ x' = x - 1
    /\ mem' = [mem EXCEPT ![OnceRun + x - 1] = mem[OncePhys + x - 1]]
    /\ boot' = IF x' = 0 THEN "once" ELSE "copy"
    /\ UNCHANGED <<layoutVars, image>>

\* The one-shot code calls zerobss, the constructors and then main.
ZeroBss ==
    /\ boot = "once"
    /\ mem' = [a \in 0 .. Top |-> IF a \in BssRun .. BssRun + BssSize - 1 THEN Zero ELSE mem[a]]
    /\ boot' = "cleared"
    /\ UNCHANGED <<layoutVars, image, x>>

CallMain ==
    /\ boot = "cleared" /\ boot' = "main"
    /\ UNCHANGED <<layoutVars, mem, image, x>>

\* The heap begins at __ONCE_RUN__, and the program writes to what it is given.
HeapGrows ==
    /\ boot = "main"
    /\ \E a \in OnceRun .. Top : mem' = [mem EXCEPT ![a] = Heap]
    /\ UNCHANGED <<layoutVars, boot, image, x>>

Next == Link \/ Load \/ Copy \/ ZeroBss \/ CallMain \/ HeapGrows

Spec == StartupInit /\ [][Next]_vars

-----------------------------------------------------------------------------
(* Properties.                                                             *)

\* Segment s is in memory where it was linked to run.
InMemory(s) ==
    \A k \in DOMAIN sections :
        sections[k].seg = s =>
            \A b \in sections[k].offs .. sections[k].offs + sections[k].size - 1 :
                mem[segPC[s] + b] = [seg |-> s, offs |-> b]

\* Code and data, with the reset entry and the landing pad of main, are in
\* memory where they were linked to run, from the first instruction on and
\* under any use of the heap.
CodeResident ==
    boot # "off" =>
        \A s \in Segs :
            InList(s, B.main) /\ S(s).run = B.main /\ S(s).load = B.main /\ ~S(s).bss /\ s < B.bss
            => InMemory(s)

\* The one-shot code is where it was linked to run as long as it runs, and
\* the BSS is clear when it calls the constructors.
OnceInMemory ==
    /\ boot \in {"once", "cleared"} => InMemory(B.once)
    /\ boot = "cleared" => \A a \in BssRun .. BssRun + BssSize - 1 : mem[a] = Zero

\* Whatever runs is in memory as it was linked, while it runs.
Resident == CodeResident /\ OnceInMemory

\* The relocator copies, whatever the sizes: what it enters at the run address
\* is what the loader has put at the load address, and no other byte changed.
Relocated ==
    boot = "once" =>
        \A a \in 0 .. Top :
            mem[a] = IF a \in OnceRun .. OnceRun + OnceSize - 1
                     THEN image[OncePhys + a - OnceRun] ELSE image[a]
=============================================================================
