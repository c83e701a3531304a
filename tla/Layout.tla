--------------------------------- MODULE Layout ---------------------------------
(***************************************************************************)
(* The linker's memory layout: segments.c collects the sections of the     *)
(* object files into segments, CfgProcess (config.c) gives every segment   *)
(* its address in the memory areas and adds up the size of each output     *)
(* file, and CfgWriteTarget with BinWriteMem (bin.c) walks the same lists  *)
(* a second time and writes the file, where it must arrive at the offsets  *)
(* CfgProcess has predicted.                                               *)
(*                                                                         *)
(* A step is one section read, one segment placed or written, or one       *)
(* memory area begun or ended.  What is linked is cfg, one of Configs: the *)
(* config file and the sections of the linked modules, in their order.     *)
(***************************************************************************)
EXTENDS Integers, Sequences, FiniteSets

CONSTANTS Configs,       \* what may be linked
          MaxAlignment,  \* MAX_ALIGNMENT
          Primes         \* the primes Factorize tries

\* A memory area; file 0 is the empty file name.
Area == [file : Nat, start : Nat, size : Nat, fill : BOOLEAN]

\* A segment descriptor: load and run are indices of areas, alignments 0 if not
\* given, and at tells whether addr is an OFFSET, a START or not given.  A segment
\* of the object files that the config file does not name has load = run = 0.
SegDesc == [load : Nat, run : Nat, bss : BOOLEAN, overwrite : BOOLEAN,
            align : Nat, alignLoad : Nat,
            at : {"next", "offset", "start"}, addr : Nat]

Section == [seg : Nat, size : Nat, align : Nat \ {0}]

ASSUME LayoutAssumption ==
    /\ MaxAlignment \in Nat \ {0} /\ Primes \subseteq Nat \ {0, 1}
    /\ \A p \in Primes : \A d \in 2 .. p - 1 : p % d # 0
    /\ \A c \in Configs :
          /\ c.areas \in Seq(Area) /\ c.segs \in Seq(SegDesc)
          /\ c.sections \in Seq(Section)
          /\ \A s \in DOMAIN c.segs :
                /\ {c.segs[s].load, c.segs[s].run} \subseteq DOMAIN c.areas \cup {0}
                /\ c.segs[s].align = 0 \/ c.segs[s].at = "next"   \* ParseSegments wants no two
          /\ \A k \in DOMAIN c.sections :
                c.sections[k].seg \in DOMAIN c.segs /\ c.sections[k].align <= MaxAlignment

VARIABLES cfg,         \* what is linked
          pc,          \* what the linker is doing
          next,        \* the section that is read next
          sections,    \* the sections read: their segment, Offs, Size and Alignment
          segSize, segAlign,  \* Size and Alignment of each segment
          area, seg,   \* I and J of the loops over areas and their segments
          addr,        \* Addr of these loops
          overwrites,  \* whether Overwrites > 0
          segPC,       \* PC of each segment
          fillLevel, overflow, fileOffs,   \* FillLevel, MF_OVERFLOW and FileOffs of each area
          fileSize,    \* Size of each file, as CfgProcess counts it
          overflows,   \* Overflows
          misaligned,  \* the segments that were warned of
          out, pos,    \* the files' contents, and the position in the one written
          outputOffs, dumped   \* OutputOffs and Dumped of the segments

segments  == <<next, sections, segSize, segAlign>>
placement == <<overwrites, segPC, fillLevel, overflow, fileOffs, fileSize, overflows, misaligned>>
writing   == <<out, pos, outputOffs, dumped>>
layoutVars == <<cfg, pc, segments, area, seg, addr, placement, writing>>

Segs  == DOMAIN cfg.segs
Areas == DOMAIN cfg.areas
S(s)  == cfg.segs[s]
M(a)  == cfg.areas[a]
Files == {M(a).file : a \in Areas} \ {0}

\* A byte of an output file: byte offs of a segment, or a fill byte.
Byte == [seg : Nat, offs : Nat]
Fill == [seg |-> 0, offs |-> 0]

Init ==
    /\ cfg \in Configs
    /\ pc = "read" /\ next = 1 /\ sections = <<>>
    /\ segSize = [s \in Segs |-> 0] /\ segAlign = [s \in Segs |-> 1]
    /\ area = 1 /\ seg = 0 /\ addr = 0 /\ overwrites = FALSE
    /\ segPC = [s \in Segs |-> 0] /\ outputOffs = [s \in Segs |-> 0]
    /\ fillLevel = [a \in Areas |-> 0] /\ overflow = [a \in Areas |-> FALSE]
    /\ fileOffs = [a \in Areas |-> 0] /\ fileSize = [f \in Files \cup {0} |-> 0]
    /\ overflows = 0 /\ misaligned = {}
    /\ out = [f \in Files |-> <<>>] /\ pos = 0 /\ dumped = {}

-----------------------------------------------------------------------------
(* Reading sections into segments.                                         *)

AlignAddr(a, n) == ((a + n - 1) \div n) * n

\* What is left of n when every power of a prime of the table is divided out.
Remainder(n) ==
    CHOOSE r \in 1 .. n : /\ n % r = 0 /\ \A p \in Primes : r % p # 0
                          /\ \A q \in 1 .. n : n % q = 0 /\ (\A p \in Primes : q % p # 0) => q <= r

\* The least common multiple of the two parts the primes of the table make up.
TablePart(m, n) ==
    CHOOSE l \in 1 .. m * n :
        /\ l % m = 0 /\ l % n = 0
        /\ \A k \in 1 .. l - 1 : k % m # 0 \/ k % n # 0

\* Mutant: the larger alignment is taken for both.
LargerAlignment(m, n) == IF m > n THEN m ELSE n

\* Two remainders are multiplied, equal ones too.
LeastCommonMultiple(m, n) ==
    LET r == Remainder(m)  q == Remainder(n)
    IN  r * q * TablePart(m \div r, n \div q)

Combined(s, n) == IF n > 1 THEN LeastCommonMultiple(segAlign[s], n) ELSE segAlign[s]

\* NewSection pads the segment to the section's alignment.
ReadSection ==
    /\ pc = "read" /\ next <= Len(cfg.sections)
    /\ LET sec == cfg.sections[next]
           s == sec.seg
           offs == AlignAddr(segSize[s], sec.align)
       IN  /\ Combined(s, sec.align) <= MaxAlignment
           /\ segAlign' = [segAlign EXCEPT ![s] = Combined(s, sec.align)]
           /\ segSize' = [segSize EXCEPT ![s] = offs + sec.size]
           /\ sections' = Append(sections, [seg |-> s, offs |-> offs, size |-> sec.size,
                                            align |-> sec.align])
    /\ next' = next + 1
    /\ UNCHANGED <<cfg, pc, area, seg, addr, placement, writing>>

\* Error: the combined alignment is too large.
ReadTooAligned ==
    /\ pc = "read" /\ next <= Len(cfg.sections)
    /\ Combined(cfg.sections[next].seg, cfg.sections[next].align) > MaxAlignment
    /\ pc' = "error"
    /\ UNCHANGED <<cfg, segments, area, seg, addr, placement, writing>>

EndOfInput ==
    /\ pc = "read" /\ next > Len(cfg.sections)
    /\ pc' = "area" /\ area' = 1
    /\ UNCHANGED <<cfg, segments, seg, addr, placement, writing>>

-----------------------------------------------------------------------------
(* CfgProcess.                                                             *)

\* ProcessSegments drops the descriptors no section was read for, and puts
\* the others into the lists of their areas.
InList(s, a) == /\ a \in {S(s).load, S(s).run}
                /\ \E k \in DOMAIN sections : sections[k].seg = s

\* The loops over M->SegList: s is the one behind seg, or there is none.
NextSeg(s) == /\ s > seg /\ InList(s, area)
              /\ \A t \in Segs : t > seg /\ InList(t, area) => s <= t
ListDone == \A s \in Segs : s > seg => ~InList(s, area)

Runs(s)   == S(s).run = area
Loads(s)  == S(s).load = area
Fixed(s)  == S(s).align = 0 /\ S(s).at # "next"
Target(s) == IF S(s).at = "offset" THEN S(s).addr + M(area).start ELSE S(s).addr

\* An alignment CfgProcess and BinWriteMem both apply.
Aligned(s, a) ==
    LET n == IF Runs(s) THEN S(s).align ELSE S(s).alignLoad
    IN  IF n = 0 THEN a ELSE AlignAddr(a, n)

\* A fixed address is not looked at any more when the area has overflowed.
Placed(s) == Runs(s) /\ Fixed(s) /\ ~overflow[area]

\* Mutant: the segment is moved down to the address it asks for.
TooLowNever(s) == FALSE

TooLow(s) == Placed(s) /\ ~S(s).overwrite /\ Target(s) < addr

\* The address the segment gets in this area.
NewAddr(s) ==
    IF Placed(s) THEN IF TooLow(s) THEN addr ELSE Target(s) ELSE Aligned(s, addr)

\* Mutant: what is skipped for alignment does not count.
LevelOfSegments(s) == fillLevel[area] + segSize[s]

\* FillLevel with this segment.
Level(s) == NewAddr(s) + segSize[s] - M(area).start

Overflows(s) == Level(s) > M(area).size /\ ~overflow[area]

\* What the segment's address will be a multiple of.
AlignedBy(s) == IF S(s).at # "next" THEN Target(s)
                ELSE IF S(s).align # 0 THEN S(s).align ELSE 1

\* The errors in the use of overwrite segments, each of which ends the program.
BadOverwrite(s) ==
    \/ S(s).overwrite /\ S(s).at = "next"
    \/ ~S(s).overwrite /\ overwrites
    \/ S(s).overwrite /\ Placed(s) /\ Target(s) < M(area).start

\* Mutant: the bytes that fill up to an alignment or offset are not counted.
CountedUnpadded(s) ==
    IF Loads(s) /\ (~S(s).bss \/ M(area).fill) /\ ~S(s).overwrite THEN segSize[s] ELSE 0

\* What goes to the output file for this segment.
Counted(s) ==
    IF Loads(s) /\ (~S(s).bss \/ M(area).fill) /\ ~S(s).overwrite
    THEN NewAddr(s) + segSize[s] - addr ELSE 0

BeginArea ==
    /\ pc = "area" /\ area <= Len(cfg.areas)
    /\ fileOffs' = [fileOffs EXCEPT ![area] = fileSize[M(area).file]]
    /\ addr' = M(area).start /\ seg' = 0 /\ overwrites' = FALSE
    /\ pc' = "place"
    /\ UNCHANGED <<cfg, segments, area, segPC, fillLevel, overflow, fileSize, overflows,
                   misaligned, writing>>

PlaceSegment ==
    /\ pc = "place"
    /\ \E s \in Segs :
          /\ NextSeg(s) /\ ~BadOverwrite(s)
          /\ seg' = s
          /\ overwrites' = (overwrites \/ S(s).overwrite)
          /\ misaligned' = IF Runs(s) /\ AlignedBy(s) % segAlign[s] # 0
                           THEN misaligned \cup {s} ELSE misaligned
          /\ segPC' = IF Runs(s) THEN [segPC EXCEPT ![s] = NewAddr(s)] ELSE segPC
          /\ addr' = NewAddr(s) + segSize[s]
          /\ fillLevel' = [fillLevel EXCEPT ![area] = Level(s)]
          /\ overflow' = [overflow EXCEPT ![area] = @ \/ Overflows(s)]
          /\ overflows' = overflows + (IF TooLow(s) THEN 1 ELSE 0) + (IF Overflows(s) THEN 1 ELSE 0)
          /\ fileSize' = [fileSize EXCEPT ![M(area).file] = @ + Counted(s)]
    /\ UNCHANGED <<cfg, pc, segments, area, fileOffs, writing>>

PlaceError ==
    /\ pc = "place" /\ \E s \in Segs : NextSeg(s) /\ BadOverwrite(s)
    /\ pc' = "error"
    /\ UNCHANGED <<cfg, segments, area, seg, addr, placement, writing>>

EndArea ==
    /\ pc = "place" /\ ListDone
    /\ fileSize' = IF ~overflow[area] /\ M(area).fill
                   THEN [fileSize EXCEPT ![M(area).file] = @ + M(area).size - fillLevel[area]]
                   ELSE fileSize
    /\ area' = area + 1 /\ pc' = "area"
    /\ UNCHANGED <<cfg, segments, seg, addr, overwrites, segPC, fillLevel, overflow, fileOffs,
                   overflows, misaligned, writing>>

\* The files are written unless an area overflows.
EndOfPlacing ==
    /\ pc = "area" /\ area > Len(cfg.areas)
    /\ pc' = IF overflows # 0 THEN "overflow" ELSE "file"
    /\ area' = 0
    /\ UNCHANGED <<cfg, segments, seg, addr, placement, writing>>

-----------------------------------------------------------------------------
(* CfgWriteTarget.  It takes the files in the order of their first areas   *)
(* and the areas of each file in theirs; a file is written from its start. *)

Before(a, b) ==
    LET First(f) == CHOOSE x \in Areas : /\ M(x).file = f
                                         /\ \A y \in Areas : M(y).file = f => x <= y
    IN  \/ First(M(a).file) < First(M(b).file)
        \/ M(a).file = M(b).file /\ a < b

\* area is 0 before the first one.
NextArea(a) ==
    /\ area # 0 => Before(area, a)
    /\ \A b \in Areas : (area # 0 => Before(area, b)) => a = b \/ Before(a, b)

\* The segments that load into an area without a file count as written.
SkipArea ==
    /\ pc = "file"
    /\ \E a \in Areas : /\ NextArea(a) /\ M(a).file = 0
                        /\ area' = a
                        /\ dumped' = dumped \cup {s \in Segs : InList(s, a) /\ S(s).load = a}
    /\ UNCHANGED <<cfg, pc, segments, seg, addr, placement, out, pos, outputOffs>>

\* Internal error if the position is not the one CfgProcess has predicted.
BeginWriteMem ==
    /\ pc = "file"
    /\ \E a \in Areas :
          /\ NextArea(a) /\ M(a).file # 0
          /\ area' = a /\ addr' = M(a).start /\ seg' = 0
          /\ pos' = IF area # 0 /\ M(area).file = M(a).file THEN pos ELSE 0
          /\ pc' = IF pos' # fileOffs[a] THEN "misfit" ELSE "write"
    /\ UNCHANGED <<cfg, segments, placement, out, outputOffs, dumped>>

\* fwrite at the position p.
Put(f, p, bytes) ==
    LET end == p + Len(bytes)
    IN  [k \in 1 .. IF Len(f) > end THEN Len(f) ELSE end |->
            IF k \in p + 1 .. end THEN bytes[k - p] ELSE IF k <= Len(f) THEN f[k] ELSE Fill]

\* SegWrite writes each section behind the fill bytes in front of it.
SegBytes(s) ==
    [k \in 1 .. segSize[s] |->
        IF \E n \in DOMAIN sections : /\ sections[n].seg = s
                                      /\ k - 1 \in sections[n].offs .. sections[n].offs + sections[n].size - 1
        THEN [seg |-> s, offs |-> k - 1] ELSE Fill]

FillBytes(n) == [k \in 1 .. n |-> Fill]

DoWrite(s) == ~S(s).bss /\ Loads(s) /\ s \notin dumped

WriteAddr(s) == IF Runs(s) /\ Fixed(s) THEN Target(s) ELSE Aligned(s, addr)

\* fseek to the place of an overwrite segment.
SeekPos(s) == WriteAddr(s) - M(area).start + fileOffs[area]

WriteSegment ==
    /\ pc = "write"
    /\ \E s \in Segs :
          LET f     == M(area).file
              goes  == DoWrite(s) \/ M(area).fill
              seeks == goes /\ S(s).overwrite /\ Runs(s) /\ Fixed(s)
              padded == IF goes /\ ~seeks THEN Put(out[f], pos, FillBytes(WriteAddr(s) - addr)) ELSE out[f]
              at == IF seeks THEN SeekPos(s)
                    ELSE IF goes THEN pos + WriteAddr(s) - addr ELSE pos
              bytes == IF DoWrite(s) THEN SegBytes(s)
                       ELSE IF M(area).fill THEN FillBytes(segSize[s]) ELSE <<>>
              written == Put(padded, at, bytes)
          IN  /\ NextSeg(s)
              /\ seg' = s
              /\ out' = [out EXCEPT ![f] = written]
              /\ pos' = IF DoWrite(s) /\ S(s).overwrite THEN Len(written) ELSE at + Len(bytes)
              /\ outputOffs' = IF DoWrite(s) THEN [outputOffs EXCEPT ![s] = at] ELSE outputOffs
              /\ dumped' = IF Loads(s) THEN dumped \cup {s} ELSE dumped
              /\ addr' = WriteAddr(s) + segSize[s]
    /\ UNCHANGED <<cfg, pc, segments, area, placement>>

EndWriteMem ==
    /\ pc = "write" /\ ListDone
    /\ LET n == IF M(area).fill /\ fillLevel[area] < M(area).size
                THEN M(area).size - fillLevel[area] ELSE 0
       IN  /\ out' = [out EXCEPT ![M(area).file] = Put(out[M(area).file], pos, FillBytes(n))]
           /\ pos' = pos + n
           /\ fillLevel' = [fillLevel EXCEPT ![area] = @ + n]
    /\ pc' = "file"
    /\ UNCHANGED <<cfg, segments, area, seg, addr, overwrites, segPC, overflow, fileOffs,
                   fileSize, overflows, misaligned, outputOffs, dumped>>

EndOfWriting ==
    /\ pc = "file" /\ ~\E a \in Areas : NextArea(a)
    /\ pc' = "check"
    /\ UNCHANGED <<cfg, segments, area, seg, addr, placement, writing>>

\* CheckSegments: an error if a segment that is not empty was not written.
\* These are the ones without a descriptor.
CheckSegments ==
    /\ pc = "check"
    /\ pc' = IF \E s \in Segs : segSize[s] > 0 /\ s \notin dumped THEN "missing" ELSE "linked"
    /\ UNCHANGED <<cfg, segments, area, seg, addr, placement, writing>>

LayoutNext ==
    \/ ReadSection \/ ReadTooAligned \/ EndOfInput
    \/ BeginArea \/ PlaceSegment \/ PlaceError \/ EndArea \/ EndOfPlacing
    \/ SkipArea \/ BeginWriteMem \/ WriteSegment \/ EndWriteMem \/ EndOfWriting
    \/ CheckSegments

LayoutSpec == Init /\ [][LayoutNext]_layoutVars

-----------------------------------------------------------------------------
(* Properties.                                                             *)

\* The descriptors whose run address CfgProcess has set.
Stands(s) ==
    /\ \E k \in DOMAIN sections : sections[k].seg = s
    /\ S(s).run # 0
    /\ CASE pc \in {"read", "error"} -> FALSE
         [] pc = "place" -> S(s).run < area \/ (S(s).run = area /\ s <= seg)
         [] pc = "area"  -> S(s).run < area
         [] OTHER -> TRUE

\* Segments that run in one area never share an address, even in a layout
\* that is given up, except for the overwrite segments.
SegmentsApart ==
    \A s, t \in Segs :
        Stands(s) /\ Stands(t) /\ s < t /\ S(s).run = S(t).run /\ ~S(s).overwrite /\ ~S(t).overwrite
        => segPC[s] + segSize[s] <= segPC[t]

\* A layout for which no overflow is reported keeps every segment within the
\* bounds of its area.
SegmentsInside ==
    overflows = 0 =>
        \A s \in Segs : Stands(s) =>
            /\ M(S(s).run).start <= segPC[s]
            /\ segPC[s] + segSize[s] <= M(S(s).run).start + M(S(s).run).size

\* No number but 1 divides what two sections' alignments have beyond the table.
SharesNothing(m, n) ==
    \A d \in 2 .. Remainder(m) : Remainder(m) % d # 0 \/ Remainder(n) % d # 0

SectionsOf(s) == {k \in DOMAIN sections : sections[k].seg = s}
Suits(s, l)   == \A k \in SectionsOf(s) : l % sections[k].align = 0

\* The alignment of a segment suits each of its sections, and it is the least
\* one, unless two sections share a prime that is not in the table of primes.
AlignmentCombined ==
    \A s \in Segs :
        /\ Suits(s, segAlign[s])
        /\ (\A k, n \in SectionsOf(s) : k # n => SharesNothing(sections[k].align, sections[n].align))
           => \A l \in 1 .. segAlign[s] - 1 : ~Suits(s, l)

\* A segment nobody was warned of has each of its sections at an address that
\* suits the section: the padding inside the segment, its combined alignment
\* and the check of the config file's align, start or offset fit together.
SectionsAligned ==
    overflows = 0 =>
        \A k \in DOMAIN sections :
            LET s == sections[k].seg
            IN  Stands(s) /\ s \notin misaligned => (segPC[s] + sections[k].offs) % sections[k].align = 0

\* Sections stand where their alignment asks for, and no segment is aligned
\* to more than its sections need (ReadSection, CfgProcess).
AlignmentsKept == AlignmentCombined /\ SectionsAligned

\* An area of which BinWriteMem writes something else than CfgProcess counts:
\* it fills the place of a segment that only runs there, or overwrites.
Unpredicted(a) ==
    \E s \in Segs : InList(s, a) /\ (S(s).overwrite \/ (M(a).fill /\ S(s).load # a))

\* The two walks agree: every area begins where CfgProcess has said, and the
\* file has the size it has counted, after any areas that are not Unpredicted.
FileOffsetsAgree ==
    /\ pc = "misfit" => \E a \in Areas : M(a).file = M(area).file /\ a < area /\ Unpredicted(a)
    /\ pc = "linked" =>
          \A f \in Files :
              (\A a \in Areas : M(a).file = f => ~Unpredicted(a)) => Len(out[f]) = fileSize[f]

\* A filled area takes its whole size in the file, for the cartridge images of
\* fixed size: the fill accounts for every segment in front of it.
FilledToSize ==
    pc = "linked" =>
        \A a \in Areas : M(a).fill /\ M(a).file # 0 /\ ~Unpredicted(a) =>
            LET before == {b \in Areas : M(b).file = M(a).file /\ b < a}
                after  == {b \in Areas : M(b).file = M(a).file /\ b > a}
            IN  IF after # {}
                THEN fileOffs[CHOOSE b \in after : \A c \in after : b <= c] - fileOffs[a] = M(a).size
                ELSE (\A b \in before : ~Unpredicted(b)) => Len(out[M(a).file]) - fileOffs[a] = M(a).size

\* An area in whose place in the file a segment is written over others.
Overwritten(a) == \E s \in Segs : InList(s, a) /\ S(s).overwrite

\* The bytes of every segment with initialized data are in the file of its
\* load area, in their order and once, unless a segment overwrites there.
EveryByteWritten ==
    pc = "linked" =>
        \A f \in Files :
            (\A a \in Areas : M(a).file = f => ~Overwritten(a)) =>
            /\ \A i, j \in DOMAIN out[f] : out[f][i] = out[f][j] /\ out[f][i] # Fill => i = j
            /\ \A k \in DOMAIN sections :
                  LET s == sections[k].seg
                  IN  ~S(s).bss /\ S(s).load # 0 /\ M(S(s).load).file = f =>
                      \A b \in sections[k].offs .. sections[k].offs + sections[k].size - 1 :
                          out[f][outputOffs[s] + b + 1] = [seg |-> s, offs |-> b]

\* A segment that loads where it runs stands in the file as far behind the
\* begin of its area as it stands in memory, if everything in front of it is
\* in the file or it seeks its place itself.
ImageInPlace ==
    pc = "linked" =>
        \A s \in Segs :
            LET a == S(s).run
            IN  (/\ Stands(s) /\ a = S(s).load /\ M(a).file # 0 /\ ~S(s).bss
                 /\ \/ S(s).overwrite \/ M(a).fill
                    \/ \A t \in 1 .. s - 1 : InList(t, a) => ~S(t).bss /\ S(t).load = a)
                => outputOffs[s] - fileOffs[a] = segPC[s] - M(a).start

\* The output file is what the addresses assigned before promise: every area
\* begins at its offset and has its size, and every byte stands where its
\* segment was placed, once.  Two pieces of code, CfgProcess and BinWriteMem,
\* walk over the same segments for it.
FileAsLinked == FileOffsetsAgree /\ FilledToSize /\ EveryByteWritten /\ ImageInPlace

\* BinWriteMem calls it an internal error when the position in the file is
\* not the one CfgProcess has predicted for the area.
FileOffsetCorrect == pc # "misfit"
=============================================================================
