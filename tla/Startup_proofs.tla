----------------------------- MODULE Startup_proofs -----------------------------
(***************************************************************************)
(* Proofs about the memory layout and the startup, for any config file,    *)
(* any sections and any size of the memory: segments never overlap, they   *)
(* stay within their areas unless an overflow is reported, their sections  *)
(* are aligned unless a warning says they are not, the output files are    *)
(* what the addresses promise, the relocator enters an exact copy of the   *)
(* one-shot code, and what runs is in memory as it was linked.             *)
(***************************************************************************)
EXTENDS Startup, WellFoundedInduction, TLAPS

\* Aligning never lowers an address.
LEMMA AlignUp ==
    ASSUME NEW a \in Nat, NEW n \in Nat \ {0}
    PROVE  AlignAddr(a, n) \in Nat /\ AlignAddr(a, n) >= a
<1> DEFINE y == a + n - 1
           q == y \div n
           r == y % n
<1>1. y \in Nat /\ n > 0
  OBVIOUS
<1>2. q \in Int /\ r \in 0 .. n - 1 /\ y = n * q + r
  BY <1>1
<1>3. q * n = n * q
  BY <1>2
<1>4. q * n = y - r
  BY <1>2, <1>3
<1> HIDE DEF q, r
<1>5. q * n >= a /\ q * n \in Int
  BY <1>1, <1>2, <1>4
<1> QED
  BY <1>5 DEF AlignAddr, q

-----------------------------------------------------------------------------
(* The inductive invariant of the layout.                                  *)

LType ==
    /\ cfg \in Configs
    /\ pc \in {"read", "area", "place", "file", "write", "check", "linked",
              "misfit", "error", "overflow", "missing"}
    /\ next \in Nat \ {0} /\ area \in Nat
    /\ segSize \in [Segs -> Nat] /\ segPC \in [Segs -> Nat]
    /\ overwrites \in BOOLEAN /\ overflows \in Nat
    /\ overflow \in [Areas -> BOOLEAN]

\* The sections read so far are the first ones of the input, and all of them
\* when the reading has ended.
Reading ==
    /\ sections \in Seq([seg : Nat, offs : Nat, size : Nat, align : Nat])
    /\ Len(sections) = next - 1
    /\ \A k \in 1 .. next - 1 : k \in DOMAIN cfg.sections /\ sections[k].seg = cfg.sections[k].seg
    /\ pc \notin {"read", "error"} => next > Len(cfg.sections)

\* The walk over an area is past every segment that stands in it, until an
\* overwrite segment takes it back.
Walk ==
    /\ pc = "area" => area # 0
    /\ pc = "place" =>
          /\ area \in Areas /\ seg \in Nat /\ addr \in Nat /\ M(area).start <= addr
          /\ ~overwrites =>
                \A s \in Segs : Stands(s) /\ S(s).run = area
                                => ~S(s).overwrite /\ segPC[s] + segSize[s] <= addr

\* An area that overflows is counted.
Flagged == overflows = 0 => \A a \in Areas : ~overflow[a]

Apart(s, t) ==
    Stands(s) /\ Stands(t) /\ s < t /\ S(s).run = S(t).run /\ ~S(s).overwrite /\ ~S(t).overwrite
    => segPC[s] + segSize[s] <= segPC[t]

Inside(s) ==
    Stands(s) => /\ M(S(s).run).start <= segPC[s]
                 /\ segPC[s] + segSize[s] <= M(S(s).run).start + M(S(s).run).size

LInv == /\ LType /\ Reading /\ Walk /\ Flagged
        /\ \A s, t \in Segs : Apart(s, t)
        /\ overflows = 0 => \A s \in Segs : Inside(s)

\* What the assumption on the config files says of the one that is linked.
LEMMA CfgTypes ==
    ASSUME cfg \in Configs
    PROVE  /\ \A a \in Areas : /\ a \in Nat \ {0} /\ M(a).start \in Nat /\ M(a).size \in Nat
                               /\ M(a).file \in Nat /\ M(a).fill \in BOOLEAN
           /\ \A s \in Segs : /\ s \in Nat \ {0} /\ S(s).align \in Nat /\ S(s).alignLoad \in Nat
                              /\ S(s).addr \in Nat /\ S(s).overwrite \in BOOLEAN /\ S(s).bss \in BOOLEAN
                              /\ S(s).run \in Areas \cup {0} /\ S(s).load \in Areas \cup {0}
                              /\ S(s).at \in {"next", "offset", "start"}
           /\ cfg.sections \in Seq(Section) /\ cfg.areas \in Seq(Area) /\ Len(cfg.areas) \in Nat
           /\ Areas = 1 .. Len(cfg.areas)
           /\ \A k \in DOMAIN cfg.sections :
                 /\ cfg.sections[k].seg \in Segs /\ cfg.sections[k].size \in Nat
                 /\ cfg.sections[k].align \in Nat \ {0}
<1>1. /\ cfg.areas \in Seq(Area) /\ cfg.segs \in Seq(SegDesc) /\ cfg.sections \in Seq(Section)
      /\ \A s \in DOMAIN cfg.segs : {cfg.segs[s].load, cfg.segs[s].run} \subseteq DOMAIN cfg.areas \cup {0}
      /\ \A k \in DOMAIN cfg.sections : cfg.sections[k].seg \in DOMAIN cfg.segs
  BY LayoutAssumption
<1>2. \A a \in Areas : a \in Nat \ {0} /\ cfg.areas[a] \in Area
  BY <1>1 DEF Areas
<1>3. \A s \in Segs : s \in Nat \ {0} /\ cfg.segs[s] \in SegDesc
  BY <1>1 DEF Segs
<1>4. \A k \in DOMAIN cfg.sections : cfg.sections[k] \in Section
  BY <1>1
<1>5. ASSUME NEW s \in Segs
      PROVE  S(s).run \in Areas \cup {0} /\ S(s).load \in Areas \cup {0}
  BY <1>1 DEF Segs, Areas, S
<1>6. Areas = 1 .. Len(cfg.areas) /\ Len(cfg.areas) \in Nat
  BY <1>1 DEF Areas
<1>7. \A a \in Areas : /\ a \in Nat \ {0} /\ M(a).start \in Nat /\ M(a).size \in Nat
                       /\ M(a).file \in Nat /\ M(a).fill \in BOOLEAN
  BY <1>2 DEF M, Area
<1>8. \A s \in Segs : /\ s \in Nat \ {0} /\ S(s).align \in Nat /\ S(s).alignLoad \in Nat
                      /\ S(s).addr \in Nat /\ S(s).overwrite \in BOOLEAN /\ S(s).bss \in BOOLEAN
                      /\ S(s).at \in {"next", "offset", "start"}
  BY <1>3 DEF S, SegDesc
<1>9. \A k \in DOMAIN cfg.sections :
         /\ cfg.sections[k].seg \in Segs /\ cfg.sections[k].size \in Nat
         /\ cfg.sections[k].align \in Nat \ {0}
  BY <1>1, <1>4 DEF Section, Segs
<1> QED
  BY <1>1, <1>5, <1>6, <1>7, <1>8, <1>9

\* A segment is not placed below the walk, unless it overwrites, and never
\* below its area.
LEMMA NewAddrBounds ==
    ASSUME LType, area \in Areas, addr \in Nat, M(area).start <= addr, NEW s \in Segs, ~BadOverwrite(s)
    PROVE  /\ NewAddr(s) \in Nat /\ M(area).start <= NewAddr(s)
           /\ ~S(s).overwrite => addr <= NewAddr(s)
<1>0. /\ S(s).align \in Nat /\ S(s).alignLoad \in Nat /\ S(s).addr \in Nat
      /\ M(area).start \in Nat /\ addr \in Nat
      /\ S(s).overwrite \in BOOLEAN
  BY CfgTypes DEF LType
<1>1. Aligned(s, addr) \in Nat /\ addr <= Aligned(s, addr)
  <2> DEFINE n == IF Runs(s) THEN S(s).align ELSE S(s).alignLoad
  <2>1. n \in Nat
    BY <1>0
  <2>2. Aligned(s, addr) = IF n = 0 THEN addr ELSE AlignAddr(addr, n)
    BY DEF Aligned
  <2> HIDE DEF n
  <2>3. n # 0 => AlignAddr(addr, n) \in Nat /\ AlignAddr(addr, n) >= addr
    BY <1>0, <2>1, AlignUp
  <2> QED
    BY <1>0, <2>1, <2>2, <2>3 DEF AlignAddr
<1>2. Target(s) \in Nat
  BY <1>0 DEF Target
<1>3. CASE ~Placed(s)
  BY <1>0, <1>1, <1>3 DEF NewAddr
<1>4. CASE Placed(s) /\ TooLow(s)
  BY <1>0, <1>4 DEF NewAddr
<1>5. CASE Placed(s) /\ ~TooLow(s)
  <2>1. NewAddr(s) = Target(s)
    BY <1>5 DEF NewAddr
  <2>2. CASE S(s).overwrite
    BY <1>0, <2>1, <2>2, <1>2, <1>5 DEF BadOverwrite
  <2>3. CASE ~S(s).overwrite
    BY <1>0, <2>1, <2>3, <1>2, <1>5 DEF TooLow
  <2> QED
    BY <2>2, <2>3
<1> QED
  BY <1>3, <1>4, <1>5

LEMMA LInvInit == Init => LInv
<1> SUFFICES ASSUME Init PROVE LInv
  OBVIOUS
<1>0. /\ cfg \in Configs /\ pc = "read" /\ next = 1 /\ area = 1 /\ seg = 0 /\ addr = 0
      /\ segSize = [s \in Segs |-> 0] /\ segPC = [s \in Segs |-> 0]
      /\ overwrites = FALSE /\ overflows = 0 /\ overflow = [a \in Areas |-> FALSE]
  BY DEF Init
<1>1. LType
  <2>1. overwrites \in BOOLEAN /\ overflow \in [Areas -> BOOLEAN]
    BY <1>0, Zenon
  <2> QED
    BY <1>0, <2>1 DEF LType
<1>2. Reading
  BY DEF Init, Reading
<1>3. Walk /\ Flagged
  BY DEF Init, Walk, Flagged
<1>4. \A s \in Segs : ~Stands(s)
  BY DEF Init, Stands
<1> QED
  BY <1>1, <1>2, <1>3, <1>4 DEF LInv, Apart, Inside

\* A step that moves no segment, and after which no further segment stands,
\* preserves the invariant.
LEMMA StandsStill ==
    ASSUME LInv,
           UNCHANGED <<cfg, segments, overwrites, segPC, overflow, overflows>>,
           pc' \in {"area", "file", "write", "check", "linked", "misfit", "error", "overflow", "missing"},
           pc \in {"read", "error"} => pc' = "error" \/ next > Len(cfg.sections),
           area' \in Nat, pc' = "area" => area' # 0,
           \A s \in Segs : Stands(s)' => Stands(s)
    PROVE  LInv'
<1>1. LType'
  BY DEF LInv, LType, segments, Segs, Areas
<1>2. Reading'
  BY DEF LInv, Reading, segments
<1>3. Walk' /\ Flagged'
  BY DEF LInv, Walk, Flagged, Areas
<1>4. ASSUME NEW s \in Segs, NEW t \in Segs
      PROVE  Apart(s, t)'
  BY <1>4 DEF LInv, Apart, segments, S, Segs
<1>5. ASSUME overflows = 0, NEW s \in Segs
      PROVE  Inside(s)'
  BY <1>5 DEF LInv, Inside, segments, S, M, Segs
<1> QED
  BY <1>1, <1>2, <1>3, <1>4, <1>5 DEF LInv, Segs, segments

LEMMA ReadSectionStep == LInv /\ ReadSection => LInv'
<1> SUFFICES ASSUME LInv, ReadSection PROVE LInv'
  OBVIOUS
<1> DEFINE sec == cfg.sections[next]
           offs == AlignAddr(segSize[sec.seg], sec.align)
<1>1. /\ pc = "read" /\ pc' = "read" /\ cfg' = cfg /\ next <= Len(cfg.sections) /\ next' = next + 1
      /\ segSize' = [segSize EXCEPT ![sec.seg] = offs + sec.size]
      /\ sections' = Append(sections,
                            [seg |-> sec.seg, offs |-> offs, size |-> sec.size, align |-> sec.align])
      /\ UNCHANGED <<area, seg, addr, overwrites, segPC, overflow, overflows>>
  BY DEF ReadSection, placement
<1>2. /\ next \in DOMAIN cfg.sections
      /\ sec.seg \in Segs /\ sec.size \in Nat /\ sec.align \in Nat \ {0}
  BY <1>1, CfgTypes DEF LInv, LType
<1>3. segSize[sec.seg] \in Nat /\ offs \in Nat
  BY <1>2, AlignUp DEF LInv, LType
<1>4. LType'
  BY <1>1, <1>2, <1>3 DEF LInv, LType, Segs, Areas
<1>5. Reading'
  <2> HIDE DEF sec, offs
  <2> DEFINE r == [seg |-> sec.seg, offs |-> offs, size |-> sec.size, align |-> sec.align]
             R == [seg : Nat, offs : Nat, size : Nat, align : Nat]
  <2>1. r \in R /\ r.seg = cfg.sections[next].seg
    BY <1>2, <1>3, CfgTypes DEF sec, LInv, LType
  <2>2. sections \in Seq(R) /\ Len(sections) = next - 1 /\ next \in Nat \ {0}
    BY DEF LInv, LType, Reading
  <2> HIDE DEF r, R
  <2>3. /\ sections' = Append(sections, r)
    BY <1>1 DEF r
  <2>4. /\ sections' \in Seq(R) /\ Len(sections') = next' - 1
        /\ sections'[next] = r /\ \A k \in 1 .. next - 1 : sections'[k] = sections[k]
    BY <1>1, <2>1, <2>2, <2>3
  <2>5. \A k \in 1 .. next' - 1 : k \in DOMAIN cfg'.sections /\ sections'[k].seg = cfg'.sections[k].seg
    <3> TAKE k \in 1 .. next' - 1
    <3>1. k = next \/ k \in 1 .. next - 1
      BY <1>1, <2>2
    <3>2. CASE k = next
      BY <1>1, <1>2, <2>1, <2>4, <3>2
    <3>3. CASE k \in 1 .. next - 1
      <4>1. k \in DOMAIN cfg.sections /\ sections[k].seg = cfg.sections[k].seg
        BY <3>3 DEF LInv, Reading
      <4>2. sections'[k] = sections[k]
        BY <2>4, <3>3
      <4> QED
        BY <1>1, <4>1, <4>2
    <3> QED
      BY <3>1, <3>2, <3>3
  <2>6. sections' \in Seq([seg : Nat, offs : Nat, size : Nat, align : Nat])
    BY <2>4 DEF R
  <2> QED
    BY <1>1, <2>4, <2>5, <2>6 DEF Reading
<1>6. Walk' /\ Flagged'
  BY <1>1 DEF LInv, Walk, Flagged, Areas
<1>7. \A s \in Segs : ~Stands(s)'
  BY <1>1 DEF Stands
<1> QED
  BY <1>1, <1>4, <1>5, <1>6, <1>7 DEF LInv, Apart, Inside, Segs

\* No other step makes a segment stand: the walk has passed all the segments
\* of an area when it leaves it.
LEMMA StandsStays ==
    ASSUME LInv, [LayoutNext]_layoutVars, ~PlaceSegment, NEW s \in Segs, Stands(s)'
    PROVE  Stands(s)
<1>1. area \in Nat /\ (pc = "place" => area \in Areas /\ seg \in Nat) /\ cfg \in Configs
  BY DEF LInv, LType, Walk
<1>2. /\ s \in Nat \ {0} /\ S(s).run \in Areas \cup {0}
      /\ Areas = 1 .. Len(cfg.areas) /\ Len(cfg.areas) \in Nat
  BY <1>1, CfgTypes
<1>3. CASE ReadSection \/ ReadTooAligned
  BY <1>3 DEF ReadSection, ReadTooAligned, Stands
<1>4. CASE EndOfInput
  BY <1>2, <1>4 DEF EndOfInput, Stands, S, segments
<1>5. CASE BeginArea
  <2>1. /\ pc = "area" /\ pc' = "place" /\ area' = area /\ seg' = 0
        /\ UNCHANGED <<cfg, sections>>
    BY <1>5 DEF BeginArea, segments
  <2>2. /\ \E k \in DOMAIN sections : sections[k].seg = s
        /\ S(s).run # 0
        /\ S(s).run < area \/ (S(s).run = area /\ s <= 0)
    BY <2>1 DEF Stands, S
  <2> QED
    BY <1>2, <2>1, <2>2 DEF Stands
<1>6. CASE PlaceError
  BY <1>6 DEF PlaceError, Stands
<1>7. CASE EndArea
  <2>1. /\ pc = "place" /\ pc' = "area" /\ area' = area + 1 /\ ListDone
        /\ UNCHANGED <<cfg, sections>>
    BY <1>7 DEF EndArea, segments
  <2>2. /\ \E k \in DOMAIN sections : sections[k].seg = s
        /\ S(s).run # 0 /\ S(s).run < area + 1
    BY <2>1 DEF Stands, S
  <2>3. S(s).run < area \/ S(s).run = area
    BY <1>1, <1>2, <2>2
  <2>4. S(s).run = area => s <= seg
    <3>1. S(s).run = area => InList(s, area)
      BY <2>2 DEF InList
    <3> QED
      BY <1>1, <1>2, <2>1, <3>1 DEF ListDone
  <2> QED
    BY <2>1, <2>2, <2>3, <2>4 DEF Stands
<1>8. CASE EndOfPlacing
  <2>1. pc = "area" /\ area > Len(cfg.areas) /\ UNCHANGED <<cfg, sections>>
    BY <1>8 DEF EndOfPlacing, segments
  <2>2. /\ \E k \in DOMAIN sections : sections[k].seg = s
        /\ S(s).run # 0
    BY <2>1 DEF Stands, S
  <2>3. S(s).run < area
    BY <1>1, <1>2, <2>1, <2>2
  <2> QED
    BY <2>1, <2>2, <2>3 DEF Stands
<1>9. CASE SkipArea \/ BeginWriteMem \/ WriteSegment \/ EndWriteMem \/ EndOfWriting \/ CheckSegments
  <2>1. pc \in {"file", "write", "check"} /\ UNCHANGED <<cfg, sections>>
    BY <1>9 DEF SkipArea, BeginWriteMem, WriteSegment, EndWriteMem, EndOfWriting, CheckSegments, segments
  <2> QED
    BY <2>1 DEF Stands, S
<1>10. CASE UNCHANGED layoutVars
  BY <1>10 DEF layoutVars, segments, Stands, S
<1> QED
  BY <1>3, <1>4, <1>5, <1>6, <1>7, <1>8, <1>9, <1>10 DEF LayoutNext

LEMMA BeginAreaStep == LInv /\ BeginArea => LInv'
<1> SUFFICES ASSUME LInv, BeginArea PROVE LInv'
  OBVIOUS
<1>1. /\ pc = "area" /\ pc' = "place" /\ area <= Len(cfg.areas) /\ area' = area /\ cfg' = cfg
      /\ addr' = M(area).start /\ seg' = 0 /\ overwrites' = FALSE
      /\ UNCHANGED <<next, sections, segSize, segPC, overflow, overflows>>
  BY DEF BeginArea, segments
<1>2. area \in Nat \ {0} /\ cfg \in Configs
  BY <1>1 DEF LInv, LType, Walk
<1>3. /\ area \in Areas /\ M(area).start \in Nat
      /\ \A s \in Segs : s \in Nat \ {0} /\ S(s).run \in Areas \cup {0}
  BY <1>1, <1>2, CfgTypes
<1>4. Segs' = Segs /\ Areas' = Areas /\ (\A s \in Segs : S(s)' = S(s)) /\ \A a \in Areas : M(a)' = M(a)
  BY <1>1 DEF Segs, Areas, S, M
<1>5. ASSUME NEW s \in Segs, Stands(s)'
      PROVE  Stands(s) /\ S(s).run < area
  <2>1. /\ \E k \in DOMAIN sections : sections[k].seg = s
        /\ S(s).run # 0
        /\ S(s).run < area \/ (S(s).run = area /\ s <= 0)
    BY <1>1, <1>4, <1>5 DEF Stands
  <2>2. S(s).run < area
    BY <1>3, <2>1
  <2> QED
    BY <1>1, <2>1, <2>2 DEF Stands
<1>6. LType'
  <2>1. overwrites' \in BOOLEAN
    BY <1>1, Zenon
  <2> QED
    BY <1>1, <1>3, <1>4, <2>1 DEF LInv, LType
<1>7. Reading'
  BY <1>1 DEF LInv, Reading
<1>8. Walk'
  <2>1. \A s \in Segs : Stands(s)' => S(s).run # area
    BY <1>2, <1>3, <1>5, CfgTypes
  <2> QED
    BY <1>1, <1>3, <1>4, <2>1 DEF Walk, S, M
<1>9. Flagged'
  BY <1>1, <1>4 DEF LInv, Flagged
<1>10. ASSUME NEW s \in Segs, NEW t \in Segs
       PROVE  Apart(s, t)'
  BY <1>1, <1>4, <1>5 DEF LInv, Apart
<1>11. ASSUME overflows = 0, NEW s \in Segs
       PROVE  Inside(s)'
  BY <1>1, <1>4, <1>5, <1>11 DEF LInv, Inside, M, S
<1> QED
  BY <1>1, <1>4, <1>6, <1>7, <1>8, <1>9, <1>10, <1>11 DEF LInv

\* Of the segments only the one that is placed begins to stand.
LEMMA PlacedStands ==
    ASSUME LInv, pc = "place", NEW s \in Segs, NextSeg(s), seg' = s,
           UNCHANGED <<cfg, pc, sections, area>>, NEW t \in Segs
    PROVE  /\ Runs(s) => ~Stands(s)
           /\ Stands(t)' => /\ Stands(t) \/ (t = s /\ Runs(s))
                            /\ S(t).run = area => t <= s
<1>1. /\ area \in Areas /\ cfg \in Configs /\ seg \in Nat
  BY DEF LInv, LType, Walk
<1>2. /\ area \in Nat
      /\ \A u \in Segs : u \in Nat \ {0} /\ S(u).run \in Areas \cup {0} /\ S(u)' = S(u)
      /\ \A a \in Areas : a \in Nat
  BY <1>1, CfgTypes DEF S
<1>3. s > seg /\ \A u \in Segs : u > seg /\ InList(u, area) => s <= u
  BY DEF NextSeg
<1>4. Runs(s) => ~Stands(s)
  BY <1>1, <1>2, <1>3 DEF Stands, Runs
<1>5. ASSUME Stands(t)'
      PROVE  /\ Stands(t) \/ (t = s /\ Runs(s))
             /\ S(t).run = area => t <= s
  <2>1. /\ \E k \in DOMAIN sections : sections[k].seg = t
        /\ S(t).run # 0
        /\ S(t).run < area \/ (S(t).run = area /\ t <= s)
    BY <1>2, <1>5 DEF Stands
  <2>2. t # s /\ S(t).run = area => t <= seg
    <3> SUFFICES ASSUME t # s, S(t).run = area PROVE t <= seg
      OBVIOUS
    <3>1. InList(t, area)
      BY <2>1 DEF InList
    <3>2. t > seg => s <= t
      BY <1>3, <3>1
    <3>3. t <= s /\ t \in Nat /\ s \in Nat
      BY <1>2, <2>1
    <3> QED
      BY <1>1, <3>2, <3>3
  <2>3. S(t).run < area => S(t).run # area
    BY <1>2
  <2>4. Stands(t) \/ (t = s /\ Runs(s))
    BY <2>1, <2>2 DEF Stands, Runs
  <2> QED
    BY <2>1, <2>3, <2>4
<1> QED
  BY <1>4, <1>5

LEMMA PlaceSegmentStep == LInv /\ PlaceSegment => LInv'
<1> SUFFICES ASSUME LInv, PlaceSegment PROVE LInv'
  OBVIOUS
<1> PICK s \in Segs :
       /\ NextSeg(s) /\ ~BadOverwrite(s) /\ seg' = s
       /\ overwrites' = (overwrites \/ S(s).overwrite)
       /\ segPC' = IF Runs(s) THEN [segPC EXCEPT ![s] = NewAddr(s)] ELSE segPC
       /\ addr' = NewAddr(s) + segSize[s]
       /\ overflow' = [overflow EXCEPT ![area] = @ \/ Overflows(s)]
       /\ overflows' = overflows + (IF TooLow(s) THEN 1 ELSE 0) + (IF Overflows(s) THEN 1 ELSE 0)
  BY DEF PlaceSegment
<1>1. pc = "place" /\ UNCHANGED <<cfg, pc, next, sections, segSize, area>>
  BY DEF PlaceSegment, segments
<1>2. /\ area \in Areas /\ M(area).start <= addr /\ cfg \in Configs
      /\ overflows \in Nat /\ addr \in Nat /\ overflow \in [Areas -> BOOLEAN]
      /\ segPC \in [Segs -> Nat] /\ segSize \in [Segs -> Nat] /\ overwrites \in BOOLEAN
  BY <1>1 DEF LInv, LType, Walk
<1>3. /\ \A a \in Areas : a \in Nat \ {0} /\ M(a).start \in Nat /\ M(a).size \in Nat
      /\ \A t \in Segs : t \in Nat \ {0} /\ S(t).run \in Areas \cup {0} /\ S(t).overwrite \in BOOLEAN
  BY <1>2, CfgTypes
<1>4. Segs' = Segs /\ Areas' = Areas /\ (\A t \in Segs : S(t)' = S(t)) /\ \A a \in Areas : M(a)' = M(a)
  BY <1>1 DEF Segs, Areas, S, M
<1>5. /\ NewAddr(s) \in Nat /\ M(area).start <= NewAddr(s)
      /\ ~S(s).overwrite => addr <= NewAddr(s)
  BY <1>2, NewAddrBounds DEF LInv
<1>8. Runs(s) => ~Stands(s)
  BY <1>1, PlacedStands
<1>9. ASSUME NEW t \in Segs, Stands(t)'
      PROVE  /\ Stands(t) \/ (t = s /\ Runs(s))
             /\ S(t).run = area => t <= s
  BY <1>1, <1>9, PlacedStands
<1>10. ASSUME NEW t \in Segs
       PROVE  segPC'[t] = IF t = s /\ Runs(s) THEN NewAddr(s) ELSE segPC[t]
  BY <1>2
<1>11. overflows' = 0 => overflows = 0 /\ ~TooLow(s) /\ ~Overflows(s)
  BY <1>2
<1>12. overflows' \in Nat
  BY <1>2
<1>13. LType'
  <2>1. overwrites' \in BOOLEAN
    BY <1>2, <1>3, Zenon
  <2>2. (overflow[area] \/ Overflows(s)) \in BOOLEAN
    BY Zenon
  <2>3. overflow' \in [Areas -> BOOLEAN]
    BY <1>2, <2>2
  <2>4. segPC' \in [Segs -> Nat]
    BY <1>2, <1>5
  <2> QED
    BY <1>1, <1>4, <1>12, <2>1, <2>3, <2>4 DEF LInv, LType
<1>14. Reading'
  BY <1>1 DEF LInv, Reading
<1>15. Walk'
  <2>1. M(area).start <= addr' /\ addr' \in Nat /\ seg' \in Nat
    BY <1>2, <1>3, <1>5
  <2>2. ASSUME ~overwrites', NEW t \in Segs, Stands(t)', S(t).run = area
        PROVE  ~S(t).overwrite /\ segPC'[t] + segSize[t] <= addr'
    <3>1. ~overwrites /\ ~S(s).overwrite
      BY <2>2
    <3>2. CASE t = s /\ Runs(s)
      BY <1>2, <1>5, <1>10, <3>1, <3>2
    <3>3. CASE ~(t = s /\ Runs(s))
      <4>1. Stands(t)
        BY <1>9, <2>2, <3>3
      <4>2. ~S(t).overwrite /\ segPC[t] + segSize[t] <= addr
        BY <1>1, <2>2, <3>1, <4>1 DEF LInv, Walk
      <4> QED
        BY <1>2, <1>5, <1>10, <3>1, <3>3, <4>2
    <3> QED
      BY <3>2, <3>3
  <2> QED
    BY <1>1, <1>2, <1>4, <2>1, <2>2 DEF Walk
<1>16. Flagged'
  <2> SUFFICES ASSUME overflows' = 0, NEW a \in Areas PROVE ~overflow'[a]
    BY <1>4 DEF Flagged
  <2>1. ~overflow[a] /\ ~Overflows(s)
    BY <1>11 DEF LInv, Flagged
  <2> QED
    BY <1>2, <2>1
<1>17. ASSUME NEW t \in Segs, NEW u \in Segs
       PROVE  Apart(t, u)'
  <2> SUFFICES ASSUME Stands(t)', Stands(u)', t < u, S(t).run = S(u).run,
                      ~S(t).overwrite, ~S(u).overwrite
               PROVE  segPC'[t] + segSize[t] <= segPC'[u]
    BY <1>1, <1>4 DEF Apart
  <2>1. CASE u = s /\ Runs(s)
    <3>1. Stands(t) /\ t # s /\ S(t).run = area
      BY <1>3, <1>9, <2>1 DEF Runs
    <3>2. ~overwrites
      BY <2>1 DEF BadOverwrite
    <3>3. segPC[t] + segSize[t] <= addr
      BY <1>1, <3>1, <3>2 DEF LInv, Walk
    <3> QED
      BY <1>2, <1>5, <1>10, <2>1, <3>1, <3>3
  <2>2. CASE t = s /\ Runs(s)
    BY <1>3, <1>9, <2>2 DEF Runs
  <2>3. CASE ~(u = s /\ Runs(s)) /\ ~(t = s /\ Runs(s))
    BY <1>9, <1>10, <2>3 DEF LInv, Apart
  <2> QED
    BY <2>1, <2>2, <2>3
<1>18. ASSUME overflows' = 0, NEW t \in Segs
       PROVE  Inside(t)'
  <2> SUFFICES ASSUME Stands(t)'
               PROVE  /\ M(S(t).run).start <= segPC'[t]
                      /\ segPC'[t] + segSize[t] <= M(S(t).run).start + M(S(t).run).size
    BY <1>1, <1>4 DEF Inside, M, S
  <2>1. overflows = 0 /\ ~Overflows(s)
    BY <1>11, <1>18
  <2>2. CASE t = s /\ Runs(s)
    <3>1. S(t).run = area /\ segPC'[t] = NewAddr(s)
      BY <1>10, <2>2 DEF Runs
    <3>2. ~overflow[area]
      BY <1>2, <2>1 DEF LInv, Flagged
    <3>3. segSize[s] \in Nat /\ M(area).size \in Nat /\ M(area).start \in Nat
      BY <1>2, <1>3
    <3>4. NewAddr(s) + segSize[s] - M(area).start <= M(area).size
      BY <1>5, <2>1, <3>2, <3>3 DEF Overflows, Level
    <3> QED
      BY <1>5, <2>2, <3>1, <3>3, <3>4
  <2>3. CASE ~(t = s /\ Runs(s))
    BY <1>9, <1>10, <2>1, <2>3 DEF LInv, Inside
  <2> QED
    BY <2>2, <2>3
<1> QED
  BY <1>4, <1>13, <1>14, <1>15, <1>16, <1>17, <1>18 DEF LInv

\* Every other step leaves the segments where they are.
LEMMA LInvStep == LInv /\ [LayoutNext]_layoutVars => LInv'
<1> SUFFICES ASSUME LInv, [LayoutNext]_layoutVars PROVE LInv'
  OBVIOUS
<1>1. area \in Nat /\ (pc = "place" => area \in Areas) /\ cfg \in Configs
  BY DEF LInv, LType, Walk
<1>2. \A a \in Areas : a \in Nat
  BY <1>1, CfgTypes
<1>3. CASE ReadSection
  BY <1>3, ReadSectionStep
<1>4. CASE BeginArea
  BY <1>4, BeginAreaStep
<1>5. CASE PlaceSegment
  BY <1>5, PlaceSegmentStep
<1>6. CASE UNCHANGED layoutVars
  <2>1. UNCHANGED <<cfg, pc, segments, area, seg, addr, overwrites, segPC, overflow, overflows>>
    BY <1>6 DEF layoutVars, placement
  <2>2. \A s \in Segs : Stands(s)' = Stands(s)
    BY <2>1 DEF Stands, S, segments
  <2> QED
    BY <2>1, <2>2 DEF LInv, LType, Reading, Walk, Flagged, Apart, Inside, Segs, Areas, S, M, segments
<1>7. CASE /\ \/ ReadTooAligned \/ EndOfInput \/ PlaceError \/ EndArea \/ EndOfPlacing
              \/ SkipArea \/ BeginWriteMem \/ WriteSegment \/ EndWriteMem \/ EndOfWriting \/ CheckSegments
           /\ ~PlaceSegment
  <2>1. /\ UNCHANGED <<cfg, segments, overwrites, segPC, overflow, overflows>>
        /\ pc' \in {"area", "file", "write", "check", "linked", "misfit", "error", "overflow", "missing"}
        /\ pc \in {"read", "error"} => pc' = "error" \/ next > Len(cfg.sections)
    BY <1>7 DEF ReadTooAligned, EndOfInput, PlaceError, EndArea, EndOfPlacing, SkipArea, BeginWriteMem,
                WriteSegment, EndWriteMem, EndOfWriting, CheckSegments, placement
  <2>2. area' \in Nat /\ (pc' = "area" => area' # 0)
    BY <1>1, <1>2, <1>7 DEF ReadTooAligned, EndOfInput, PlaceError, EndArea, EndOfPlacing, SkipArea,
                BeginWriteMem, WriteSegment, EndWriteMem, EndOfWriting, CheckSegments
  <2>3. \A s \in Segs : Stands(s)' => Stands(s)
    BY <1>7, StandsStays
  <2> QED
    BY <2>1, <2>2, <2>3, StandsStill
<1> QED
  BY <1>3, <1>4, <1>5, <1>6, <1>7 DEF LayoutNext

-----------------------------------------------------------------------------
(* The layout of every linked program.                                     *)

LEMMA LayoutStep == Next => LayoutNext \/ UNCHANGED layoutVars
  BY DEF Next, Link, Load, Copy, ZeroBss, CallMain, HeapGrows

LEMMA LayoutInductive == Spec => []LInv
<1>1. StartupInit => LInv
  BY LInvInit DEF StartupInit
<1>2. LInv /\ [Next]_vars => LInv'
  BY LInvStep, LayoutStep DEF vars
<1> QED
  BY <1>1, <1>2, PTL DEF Spec

\* No two segments that run in one area share an address, whatever the config
\* file asks for and whatever the sections are (CfgProcess).
THEOREM SegmentsNeverOverlap == Spec => []SegmentsApart
<1>1. LInv => SegmentsApart
  BY DEF LInv, Apart, SegmentsApart
<1> QED
  BY <1>1, LayoutInductive, PTL

\* A layout without a reported overflow keeps every segment in its area
\* (CfgProcess).
THEOREM SegmentsFit == Spec => []SegmentsInside
<1>1. LInv => SegmentsInside
  BY DEF LInv, Inside, SegmentsInside
<1> QED
  BY <1>1, LayoutInductive, PTL

-----------------------------------------------------------------------------
(* Multiples and primes.  What is needed to say that the combination of     *)
(* two alignments is their least common multiple, and when.                 *)

\* a is a multiple of d.
Divides(d, a) == \E k \in Nat : a = k * d

\* Multiplication on the naturals, which the provers do not know together.
LEMMA Products ==
    ASSUME NEW a \in Nat, NEW b \in Nat, NEW c \in Nat
    PROVE  /\ a * b \in Nat /\ a * b = b * a /\ (a * b) * c = a * (b * c)
           /\ (a + b) * c = a * c + b * c
           /\ a # 0 /\ b # 0 => a * b # 0
<1>1. a * b \in Nat /\ a * b = b * a
  BY Z3
<1>2. (a * b) * c = a * (b * c)
  BY Z3
<1>3. (a + b) * c = a * c + b * c
  BY Z3
<1>4. a # 0 /\ b # 0 => a * b # 0
  BY Z3
<1> QED
  BY <1>1, <1>2, <1>3, <1>4

\* A number is a multiple when its remainder is 0.
LEMMA DividesMod ==
    ASSUME NEW a \in Nat, NEW d \in Nat \ {0}
    PROVE  Divides(d, a) <=> a % d = 0
<1> DEFINE q == a \div d
           r == a % d
<1>1. q \in Int /\ r \in 0 .. d - 1 /\ a = d * q + r
  OBVIOUS
<1>2. q \in Nat
  BY <1>1, Z3
<1> HIDE DEF q, r
<1>3. ASSUME r = 0 PROVE Divides(d, a)
  <2>1. a = q * d
    BY <1>1, <1>2, <1>3, Products
  <2> QED
    BY <1>2, <2>1 DEF Divides
<1>4. ASSUME NEW k \in Nat, a = k * d PROVE r = 0
  <2>1. k * d = q * d + r
    BY <1>1, <1>2, <1>4, Products
  <2>2. CASE k > q
    <3>1. (k - q) * d = r /\ k - q >= 1
      BY <1>1, <1>2, <2>1, <2>2, Z3
    <3>2. (k - q) * d >= d
      BY <1>2, <3>1, Z3
    <3> QED
      BY <1>1, <3>1, <3>2
  <2>3. CASE k < q
    <3>1. q - k \in Nat /\ q - k >= 1 /\ (q - k) * d = 0 - r
      BY <1>1, <1>2, <2>1, <2>3, Z3
    <3>2. (q - k) * d >= d
      BY <1>2, <3>1, Z3
    <3> QED
      BY <1>1, <3>1, <3>2
  <2>4. CASE k = q
    BY <1>1, <1>2, <2>1, <2>4, Products
  <2> QED
    BY <1>2, <2>2, <2>3, <2>4
<1>5. Divides(d, a) => r = 0
  BY <1>4 DEF Divides
<1>6. r = a % d
  BY DEF r
<1> QED
  BY <1>3, <1>5, <1>6

\* Multiples of multiples, of sums and of products.
LEMMA DividesFacts ==
    ASSUME NEW a \in Nat, NEW b \in Nat, NEW d \in Nat
    PROVE  /\ Divides(d, d) /\ Divides(d, 0) /\ Divides(1, a)
           /\ Divides(d, a) /\ Divides(a, b) => Divides(d, b)
           /\ Divides(d, a) /\ Divides(d, b) => Divides(d, a + b)
           /\ Divides(d, a) => Divides(d, b * a) /\ Divides(d, a * b)
<1>1. Divides(d, d) /\ Divides(d, 0) /\ Divides(1, a)
  <2>1. d = 1 * d /\ 0 = 0 * d /\ a = a * 1
    OBVIOUS
  <2> QED
    BY <2>1 DEF Divides
<1>2. ASSUME NEW k \in Nat, a = k * d, NEW j \in Nat, b = j * a
      PROVE  j * k \in Nat /\ b = (j * k) * d
  BY <1>2, Products
<1>3. ASSUME NEW k \in Nat, a = k * d, NEW j \in Nat, b = j * d
      PROVE  k + j \in Nat /\ a + b = (k + j) * d
  BY <1>3, Products
<1>4. ASSUME NEW k \in Nat, a = k * d
      PROVE  b * k \in Nat /\ b * a = (b * k) * d /\ a * b = b * a
  BY <1>4, Products
<1>5. Divides(d, a) /\ Divides(a, b) => Divides(d, b)
  BY <1>2 DEF Divides
<1>6. Divides(d, a) /\ Divides(d, b) => Divides(d, a + b)
  BY <1>3 DEF Divides
<1>7. Divides(d, a) => Divides(d, b * a) /\ Divides(d, a * b)
  BY <1>4 DEF Divides
<1> QED
  BY <1>1, <1>5, <1>6, <1>7

LEMMA DividesTrans ==
    ASSUME NEW d \in Nat, NEW a \in Nat, NEW b \in Nat, Divides(d, a), Divides(a, b)
    PROVE  Divides(d, b)
  BY DividesFacts

LEMMA DividesSum ==
    ASSUME NEW d \in Nat, NEW a \in Nat, NEW b \in Nat, Divides(d, a), Divides(d, b)
    PROVE  Divides(d, a + b)
  BY DividesFacts

\* Rounding up ends at a multiple.
LEMMA AlignDivides ==
    ASSUME NEW a \in Nat, NEW n \in Nat \ {0}
    PROVE  Divides(n, AlignAddr(a, n))
<1> DEFINE q == (a + n - 1) \div n
<1>1. q \in Nat
  BY Z3
<1>2. AlignAddr(a, n) = q * n
  BY DEF AlignAddr
<1> HIDE DEF q
<1> QED
  BY <1>1, <1>2 DEF Divides

\* A set of numbers that is not empty has a least one.
LEMMA LeastExists ==
    ASSUME NEW P \in SUBSET Nat, P # {}
    PROVE  \E m \in P : \A k \in P : m <= k
<1> PICK R : R = OpToRel(<, Nat)
  OBVIOUS
<1>1. R = {ss \in Nat \X Nat : ss[1] < ss[2]}
  BY DEF OpToRel
<1>2. IsWellFoundedOn(R, Nat)
  BY NatLessThanWellFounded
<1>3. PICK m \in P : \A k \in P : ~ (<<k, m>> \in R)
  BY <1>2, WFMin
<1>4. \A k \in P : k \in Nat /\ m \in Nat /\ ~(k < m)
  BY <1>1, <1>3
<1>5. \A k \in P : m <= k
  BY ONLY <1>4
<1> QED
  BY <1>5

\* A set of numbers up to n that is not empty has a largest one.
LEMMA LargestExists ==
    ASSUME NEW n \in Nat, NEW P \in SUBSET (0 .. n), P # {}
    PROVE  \E m \in P : \A k \in P : k <= m
<1> PICK R : R = {n - k : k \in P}
  OBVIOUS
<1>1. R \in SUBSET Nat /\ R # {}
  <2>1. \A k \in P : n - k \in Nat
    OBVIOUS
  <2> QED
    BY <2>1
<1>2. PICK m \in R : \A k \in R : m <= k
  BY <1>1, LeastExists
<1>3. PICK k \in P : m = n - k
  OBVIOUS
<1>4. ASSUME NEW j \in P PROVE j <= k
  <2>1. m <= n - j
    BY <1>2
  <2> QED
    BY <1>3, <2>1
<1> QED
  BY <1>4

\* There is a largest divisor without a prime of the table.
LEMMA RemainderIs ==
    ASSUME NEW n \in Nat \ {0}
    PROVE  LET Fits(q) == n % q = 0 /\ \A p \in Primes : q % p # 0
               r == Remainder(n)
           IN  r \in 1 .. n /\ Fits(r) /\ \A q \in 1 .. n : Fits(q) => q <= r
<1> DEFINE Fits(r) == n % r = 0 /\ \A p \in Primes : r % p # 0
           P == {r \in 1 .. n : Fits(r)}
<1>1. 1 \in P
  <2>1. n % 1 = 0
    BY DividesFacts, DividesMod
  <2>2. ASSUME NEW p \in Primes PROVE 1 % p # 0
    BY LayoutAssumption
  <2> QED
    BY <2>1, <2>2
<1>2. P \in SUBSET (0 .. n) /\ P # {}
  BY <1>1
<1> HIDE DEF P, Fits
<1>3. PICK r \in P : \A q \in P : q <= r
  BY <1>2, LargestExists
<1>4. r \in 1 .. n /\ Fits(r) /\ \A q \in 1 .. n : Fits(q) => q <= r
  BY <1>3 DEF P
<1> QED
  BY <1>4 DEF Remainder, Fits

LEMMA RemainderDivides ==
    ASSUME NEW n \in Nat \ {0}
    PROVE  Remainder(n) \in 1 .. n /\ n % Remainder(n) = 0
  BY RemainderIs

\* There is a least common multiple of the table parts.
LEMMA TablePartIs ==
    ASSUME NEW m \in Nat \ {0}, NEW n \in Nat \ {0}
    PROVE  /\ TablePart(m, n) \in Nat \ {0} /\ TablePart(m, n) % m = 0 /\ TablePart(m, n) % n = 0
           /\ \A k \in 1 .. TablePart(m, n) - 1 : k % m # 0 \/ k % n # 0
<1> DEFINE Fits(l) == l % m = 0 /\ l % n = 0
           P == {l \in 1 .. m * n : Fits(l)}
<1>1. m * n \in Nat /\ m * n # 0
  BY Products
<1>2. m * n \in P
  <2>1. Divides(m, m * n) /\ Divides(n, m * n)
    BY DividesFacts
  <2>2. (m * n) % m = 0 /\ (m * n) % n = 0
    BY <1>1, <2>1, DividesMod
  <2>3. m * n \in 1 .. m * n
    BY <1>1
  <2> QED
    BY <2>2, <2>3
<1>3. P \in SUBSET Nat
  OBVIOUS
<1> PICK c : c = m * n
  OBVIOUS
<1>4. c \in Nat /\ P = {l \in 1 .. c : Fits(l)}
  BY <1>1
<1> HIDE DEF P
<1>5. PICK l \in P : \A k \in P : l <= k
  BY <1>2, <1>3, LeastExists
<1>6. l \in 1 .. c /\ Fits(l) /\ \A k \in 1 .. l - 1 : k % m # 0 \/ k % n # 0
  <2>1. l \in 1 .. c /\ Fits(l)
    BY <1>4, <1>5
  <2>2. ASSUME NEW k \in 1 .. l - 1 PROVE ~Fits(k)
    <3>1. k \in 1 .. c /\ ~(l <= k)
      BY <1>4, <2>1
    <3>2. k \notin P
      BY <1>5, <3>1
    <3> QED
      BY <1>4, <3>1, <3>2
  <2> QED
    BY <2>1, <2>2
<1>7. l \in 1 .. m * n
  BY <1>6
<1>8. \E h \in 1 .. m * n : /\ h % m = 0 /\ h % n = 0
                            /\ \A k \in 1 .. h - 1 : k % m # 0 \/ k % n # 0
  BY <1>6, <1>7
<1>9. /\ TablePart(m, n) \in 1 .. m * n
      /\ TablePart(m, n) % m = 0 /\ TablePart(m, n) % n = 0
      /\ \A k \in 1 .. TablePart(m, n) - 1 : k % m # 0 \/ k % n # 0
  BY <1>8 DEF TablePart
<1> QED
  BY <1>1, <1>9

LEMMA TablePartDivides ==
    ASSUME NEW m \in Nat \ {0}, NEW n \in Nat \ {0}
    PROVE  TablePart(m, n) \in Nat \ {0} /\ TablePart(m, n) % m = 0 /\ TablePart(m, n) % n = 0
  BY TablePartIs

LEMMA DivRemainder ==
    ASSUME NEW n \in Nat \ {0}, NEW r \in Nat \ {0}, n % r = 0
    PROVE  n \div r \in Nat \ {0} /\ n = r * (n \div r)
<1>1. n \div r \in Int /\ n = r * (n \div r)
  OBVIOUS
<1> DEFINE q == n \div r
<1> HIDE DEF q
<1>2. q \in Int /\ n = r * q
  BY <1>1 DEF q
<1>3. q \in Nat \ {0}
  BY <1>2, Z3
<1> QED
  BY <1>2, <1>3 DEF q

\* The combined alignment is a multiple of both.
LEMMA CombinedDivides ==
    ASSUME NEW m \in Nat \ {0}, NEW n \in Nat \ {0}
    PROVE  /\ LeastCommonMultiple(m, n) \in Nat \ {0}
           /\ Divides(m, LeastCommonMultiple(m, n)) /\ Divides(n, LeastCommonMultiple(m, n))
<1> PICK r, q : r = Remainder(m) /\ q = Remainder(n)
  OBVIOUS
<1>1. r \in Nat \ {0} /\ q \in Nat \ {0} /\ m % r = 0 /\ n % q = 0
  BY RemainderDivides
<1> PICK a, b : a = m \div r /\ b = n \div q
  OBVIOUS
<1>2. a \in Nat \ {0} /\ b \in Nat \ {0} /\ m = r * a /\ n = q * b
  BY <1>1, DivRemainder
<1> PICK t : t = TablePart(a, b)
  OBVIOUS
<1>3. t \in Nat \ {0} /\ Divides(a, t) /\ Divides(b, t)
  BY <1>2, TablePartDivides, DividesMod
<1>4. LeastCommonMultiple(m, n) = r * q * t
  BY DEF LeastCommonMultiple
<1>5. r * q * t \in Nat \ {0}
  BY <1>1, <1>3, Products
<1>6. PICK i \in Nat : t = i * a
  BY <1>3 DEF Divides
<1>7. PICK j \in Nat : t = j * b
  BY <1>3 DEF Divides
<1>8. r * q * t = (q * i) * m /\ r * q * t = (r * j) * n
  <2>1. (r * q) * t = (q * i) * (r * a)
    BY <1>1, <1>2, <1>6, Z3
  <2>2. (r * q) * t = (r * j) * (q * b)
    BY <1>1, <1>2, <1>7, Z3
  <2> QED
    BY <1>2, <2>1, <2>2
<1>9. q * i \in Nat /\ r * j \in Nat
  BY <1>1, <1>6, <1>7, Products
<1> QED
  BY <1>4, <1>5, <1>8, <1>9 DEF Divides

\* The rest of a multiple without a multiple is one.
LEMMA DividesDiff ==
    ASSUME NEW d \in Nat, NEW a \in Nat, NEW b \in Nat, Divides(d, a), Divides(d, a + b)
    PROVE  Divides(d, b)
<1>1. PICK j \in Nat : a = j * d
  BY DEF Divides
<1>2. PICK k \in Nat : a + b = k * d
  BY DEF Divides
<1>3. CASE k >= j
  <2>1. k - j \in Nat /\ b = (k - j) * d
    BY <1>1, <1>2, <1>3, Z3
  <2> QED
    BY <2>1 DEF Divides
<1>4. CASE k < j
  <2>1. b = 0
    <3>1. PICK i \in Nat : j = k + i
      <4>1. j - k \in Nat /\ j = k + (j - k)
        BY <1>4
      <4> QED
        BY <4>1
    <3>2. j * d = k * d + i * d /\ i * d \in Nat /\ k * d \in Nat
      BY <3>1, Products
    <3> QED
      BY <1>1, <1>2, <3>2
  <2> QED
    BY <2>1, DividesFacts
<1> QED
  BY <1>3, <1>4

\* Divisors are no larger.
LEMMA DividesLess ==
    ASSUME NEW d \in Nat, NEW a \in Nat \ {0}, Divides(d, a)
    PROVE  d # 0 /\ d <= a
<1>1. PICK k \in Nat : a = k * d
  BY DEF Divides
<1>2. d # 0 /\ k # 0
  BY <1>1
<1>3. d <= k * d
  BY <1>2, Z3
<1> QED
  BY <1>1, <1>2, <1>3

LEMMA DividesProduct ==
    ASSUME NEW d \in Nat, NEW a \in Nat, NEW b \in Nat, Divides(d, a)
    PROVE  Divides(d, a * b) /\ Divides(d, b * a) /\ a * b \in Nat /\ b * a \in Nat
  BY DividesFacts, Products

\* A set of positive numbers with the remainders by its least member consists
\* of the least member's multiples.
LEMMA LeastDivides ==
    ASSUME NEW Y \in SUBSET (Nat \ {0}), NEW m \in Y, \A y \in Y : m <= y,
           \A y \in Y, k \in Nat, e \in Nat \ {0} : y = k * m + e => e \in Y
    PROVE  \A y \in Y : Divides(m, y)
<1> SUFFICES ASSUME NEW y \in Y PROVE Divides(m, y)
  OBVIOUS
<1> DEFINE q == y \div m
           e == y % m
<1>1. q \in Int /\ e \in 0 .. m - 1 /\ y = m * q + e /\ m \in Nat \ {0} /\ y \in Nat \ {0}
  OBVIOUS
<1> HIDE DEF q, e
<1>2. q \in Nat
  BY <1>1, Z3
<1>3. y = q * m + e
  BY <1>1, <1>2, Products
<1>4. e = 0
  <2> SUFFICES ASSUME e # 0 PROVE FALSE
    OBVIOUS
  <2>1. e \in Y
    BY <1>1, <1>2, <1>3
  <2> QED
    BY <1>1, <2>1
<1>5. y = q * m
  BY <1>1, <1>2, <1>3, <1>4, Products
<1> QED
  BY <1>2, <1>5 DEF Divides

\* Numbers without a common divisor but 1.
Coprime(a, b) == \A d \in Nat : Divides(d, a) /\ Divides(d, b) => d = 1

\* Euclid's lemma: what divides a product, and has nothing of one factor, divides
\* the other.
LEMMA Euclid ==
    ASSUME NEW r \in Nat \ {0}, NEW q \in Nat \ {0}, NEW c \in Nat \ {0}, Coprime(r, q), Divides(q, r * c)
    PROVE  Divides(q, c)
<1> PICK Y : Y = {y \in Nat \ {0} : Divides(q, r * y)}
  OBVIOUS
<1>1. c \in Y /\ q \in Y
  <2>1. Divides(q, r * q)
    BY DividesFacts
  <2> QED
    BY <2>1
<1>2. Y \in SUBSET Nat /\ Y # {} /\ Y \in SUBSET (Nat \ {0})
  BY <1>1
<1>3. PICK m \in Y : \A y \in Y : m <= y
  BY <1>2, LeastExists
<1>4. ASSUME NEW y \in Y, NEW k \in Nat, NEW e \in Nat \ {0}, y = k * m + e
      PROVE  e \in Y
  <2>1. y \in Nat /\ m \in Nat /\ Divides(q, r * y) /\ Divides(q, r * m)
    OBVIOUS
  <2>2. r * m \in Nat /\ k * (r * m) \in Nat /\ r * e \in Nat /\ r * y \in Nat
    BY <2>1, Products
  <2>3. Divides(q, k * (r * m))
    BY <2>1, <2>2, DividesProduct
  <2>4. r * y = k * (r * m) + r * e
    BY <1>4, <2>1, Z3
  <2>5. Divides(q, r * e)
    BY <2>1, <2>2, <2>3, <2>4, DividesDiff
  <2> QED
    BY <2>5
<1>5. \A y \in Y : Divides(m, y)
  BY <1>2, <1>3, <1>4, LeastDivides
<1>6. m \in Nat \ {0} /\ Divides(m, q) /\ Divides(m, c) /\ Divides(q, r * m)
  BY <1>1, <1>5
<1>7. PICK z \in Nat : q = z * m
  BY <1>6 DEF Divides
<1>8. PICK w \in Nat : r * m = w * q
  BY <1>6 DEF Divides
<1>9. r = w * z
  <2>1. r * m = (w * z) * m /\ w * z \in Nat
    BY <1>6, <1>7, <1>8, Products
  <2> PICK v \in Nat : v = w * z
    BY <2>1
  <2>2. r * m = v * m
    BY <2>1
  <2>3. r = v
    BY <1>6, <2>2, Z3
  <2> QED
    BY <2>3
<1>10. Divides(z, r) /\ Divides(z, q)
  <2>1. q = m * z
    BY <1>6, <1>7, Products
  <2> QED
    BY <1>6, <1>9, <2>1 DEF Divides
<1>11. z = 1
  BY <1>10 DEF Coprime
<1>12. q = m
  BY <1>6, <1>7, <1>11
<1> QED
  BY <1>6, <1>12

\* A multiple of two coprime numbers is one of their product.
LEMMA CoprimeProduct ==
    ASSUME NEW a \in Nat \ {0}, NEW b \in Nat \ {0}, NEW l \in Nat \ {0}, Coprime(a, b),
           Divides(a, l), Divides(b, l)
    PROVE  Divides(a * b, l)
<1>1. PICK c \in Nat : l = c * a
  BY DEF Divides
<1>2. c # 0 /\ l = a * c
  BY <1>1, Products
<1>3. Divides(b, c)
  BY <1>2, Euclid
<1>4. PICK z \in Nat : c = z * b
  BY <1>3 DEF Divides
<1>5. l = z * (a * b)
  BY <1>1, <1>4, Products
<1> QED
  BY <1>5 DEF Divides

Prime(p) == p \in Nat /\ p >= 2 /\ \A d \in Nat : Divides(d, p) => d = 1 \/ d = p

\* Every number from 2 on has a prime divisor.
LEMMA HasPrime ==
    ASSUME NEW n \in Nat, n >= 2
    PROVE  \E p \in Nat : Prime(p) /\ Divides(p, n)
<1> PICK Y : Y = {d \in Nat : d >= 2 /\ Divides(d, n)}
  OBVIOUS
<1>1. n \in Y
  BY DividesFacts
<1>2. PICK p \in Y : \A d \in Y : p <= d
  BY <1>1, LeastExists
<1>3. p \in Nat /\ p >= 2 /\ Divides(p, n)
  OBVIOUS
<1>4. ASSUME NEW d \in Nat, Divides(d, p) PROVE d = 1 \/ d = p
  <2>1. d # 0 /\ d <= p /\ Divides(d, n)
    BY <1>3, <1>4, DividesLess, DividesTrans
  <2>2. d >= 2 => p <= d
    BY <1>2, <2>1
  <2> QED
    BY <1>3, <2>1, <2>2
<1> QED
  BY <1>3, <1>4 DEF Prime

\* A prime that divides a product divides a factor.
LEMMA PrimeDivides ==
    ASSUME NEW p, Prime(p), NEW a \in Nat \ {0}, NEW b \in Nat \ {0}, Divides(p, a * b)
    PROVE  Divides(p, a) \/ Divides(p, b)
<1> SUFFICES ASSUME ~Divides(p, a) PROVE Divides(p, b)
  OBVIOUS
<1>1. p \in Nat \ {0}
  BY DEF Prime
<1>2. Coprime(a, p)
  BY DEF Coprime, Prime
<1> QED
  BY <1>1, <1>2, Euclid

LEMMA CoprimeByPrimes ==
    ASSUME NEW a \in Nat \ {0}, NEW b \in Nat \ {0},
           \A p \in Nat : Prime(p) => ~Divides(p, a) \/ ~Divides(p, b)
    PROVE  Coprime(a, b)
<1> SUFFICES ASSUME NEW d \in Nat, Divides(d, a), Divides(d, b), d # 1 PROVE FALSE
  BY DEF Coprime
<1>1. d >= 2
  BY DividesLess
<1>2. PICK p \in Nat : Prime(p) /\ Divides(p, d)
  BY <1>1, HasPrime
<1>3. Divides(p, a) /\ Divides(p, b)
  BY <1>2, DividesTrans
<1> QED
  BY <1>2, <1>3

\* What the assumption says of the table of primes.
LEMMA TablePrimes == \A p \in Primes : Prime(p)
<1> SUFFICES ASSUME NEW p \in Primes, NEW d \in Nat, Divides(d, p), d # 1, d # p
             PROVE  FALSE
  BY LayoutAssumption DEF Prime
<1>1. p \in Nat /\ p >= 2
  BY LayoutAssumption
<1>2. d # 0 /\ d <= p
  BY <1>1, DividesLess
<1>3. d \in 2 .. p - 1
  BY <1>1, <1>2
<1>4. p % d # 0
  BY <1>3, LayoutAssumption
<1> QED
  BY <1>1, <1>2, <1>4, DividesMod

\* The remainder has no prime of the table, and what is divided out no other.
LEMMA RemainderPrimes ==
    ASSUME NEW n \in Nat \ {0}
    PROVE  \E r, a \in Nat \ {0} :
              /\ r = Remainder(n) /\ a = n \div r /\ n = r * a
              /\ \A p \in Nat : Prime(p) /\ Divides(p, r) => p \notin Primes
              /\ \A p \in Nat : Prime(p) /\ Divides(p, a) => p \in Primes
<1> PICK r : r = Remainder(n)
  OBVIOUS
<1> DEFINE Fits(q) == n % q = 0 /\ \A p \in Primes : q % p # 0
<1>1. r \in 1 .. n /\ Fits(r) /\ \A q \in 1 .. n : Fits(q) => q <= r
  BY RemainderIs
<1>2. r \in Nat \ {0} /\ n % r = 0
  BY <1>1
<1> PICK a : a = n \div r
  OBVIOUS
<1>3. a \in Nat \ {0} /\ n = r * a
  BY <1>2, DivRemainder
<1>4. ASSUME NEW p \in Nat, Prime(p), Divides(p, r) PROVE p \notin Primes
  BY <1>1, <1>2, <1>4, DividesMod DEF Prime
<1>5. ASSUME NEW p \in Nat, Prime(p), Divides(p, a), p \notin Primes PROVE FALSE
  <2>1. p >= 2
    BY <1>5 DEF Prime
  <2>2. PICK b \in Nat : a = b * p
    BY <1>5 DEF Divides
  <2> PICK q : q = r * p
    OBVIOUS
  <2>3. q \in Nat \ {0} /\ b # 0 /\ n = b * q
    <3>1. q \in Nat \ {0} /\ b # 0
      BY <1>2, <1>3, <2>1, <2>2, Products
    <3>2. r * (b * p) = b * (r * p)
      BY <1>2, <2>1, <2>2, Z3
    <3> QED
      BY <1>3, <2>2, <3>1, <3>2
  <2>4. Divides(q, n)
    BY <2>2, <2>3 DEF Divides
  <2>5. q \in 1 .. n /\ n % q = 0
    BY <2>3, <2>4, DividesLess, DividesMod
  <2>6. ASSUME NEW s \in Primes, q % s = 0 PROVE FALSE
    <3>1. Prime(s) /\ s \in Nat \ {0}
      BY TablePrimes DEF Prime
    <3>2. Divides(s, r * p)
      BY <2>3, <2>6, <3>1, DividesMod
    <3>3. Divides(s, r) \/ Divides(s, p)
      BY <1>2, <2>1, <3>1, <3>2, PrimeDivides
    <3>4. ~Divides(s, r)
      BY <1>1, <1>2, <3>1, DividesMod
    <3>5. s = 1 \/ s = p
      BY <1>5, <3>1, <3>3, <3>4 DEF Prime
    <3> QED
      BY <1>5, <3>1, <3>5 DEF Prime
  <2>7. q <= r
    BY <1>1, <2>5, <2>6
  <2>8. q >= 2 * r
    BY <1>2, <2>1, Z3
  <2> QED
    BY <1>2, <2>3, <2>7, <2>8
<1> QED
  BY <1>2, <1>3, <1>4, <1>5

\* The table parts' least common multiple divides every common multiple.
LEMMA TablePartLeast ==
    ASSUME NEW m \in Nat \ {0}, NEW n \in Nat \ {0}, NEW l \in Nat \ {0}, Divides(m, l), Divides(n, l)
    PROVE  Divides(TablePart(m, n), l)
<1> PICK t : t = TablePart(m, n)
  OBVIOUS
<1>1. t \in Nat \ {0} /\ t % m = 0 /\ t % n = 0
  BY TablePartDivides
<1>2. \A k \in 1 .. t - 1 : k % m # 0 \/ k % n # 0
  BY TablePartIs
<1> PICK Y : Y = {y \in Nat \ {0} : Divides(m, y) /\ Divides(n, y)}
  OBVIOUS
<1>3. t \in Y /\ l \in Y
  BY <1>1, DividesMod
<1>4. ASSUME NEW y \in Y PROVE t <= y
  <2>1. y \in Nat \ {0} /\ Divides(m, y) /\ Divides(n, y)
    OBVIOUS
  <2>2. y % m = 0 /\ y % n = 0
    BY <2>1, DividesMod
  <2>3. y \notin 1 .. t - 1
    BY <1>2, <2>2
  <2> QED
    BY <1>1, <2>1, <2>3
<1>5. ASSUME NEW y \in Y, NEW k \in Nat, NEW e \in Nat \ {0}, y = k * t + e
      PROVE  e \in Y
  <2>1. /\ y \in Nat /\ Divides(m, y) /\ Divides(n, y) /\ Divides(m, t) /\ Divides(n, t)
    BY <1>1, <1>3
  <2>2. k * t \in Nat /\ Divides(m, k * t) /\ Divides(n, k * t)
    BY <1>1, <2>1, DividesProduct
  <2>3. Divides(m, k * t + e) /\ Divides(n, k * t + e)
    BY <1>5, <2>1
  <2>4. Divides(m, e) /\ Divides(n, e)
    BY <2>2, <2>3, DividesDiff
  <2> QED
    BY <2>4
<1>6. \A y \in Y : Divides(t, y)
  <2>1. Y \in SUBSET (Nat \ {0})
    OBVIOUS
  <2> QED
    BY <1>3, <1>4, <1>5, <2>1, LeastDivides
<1> QED
  BY <1>3, <1>6

\* The combined alignment has no prime of neither, and divides every number
\* both divide if they share no prime beyond the table.
LEMMA CombinedLeast ==
    ASSUME NEW m \in Nat \ {0}, NEW n \in Nat \ {0}
    PROVE  /\ \A p \in Nat : Prime(p) /\ Divides(p, LeastCommonMultiple(m, n))
                             => Divides(p, m) \/ Divides(p, n)
           /\ (\A p \in Nat : Prime(p) => ~Divides(p, Remainder(m)) \/ ~Divides(p, Remainder(n)))
              => \A l \in Nat \ {0} : Divides(m, l) /\ Divides(n, l) => Divides(LeastCommonMultiple(m, n), l)
<1>1. PICK r, a \in Nat \ {0} :
         /\ r = Remainder(m) /\ a = m \div r /\ m = r * a
         /\ \A p \in Nat : Prime(p) /\ Divides(p, r) => p \notin Primes
         /\ \A p \in Nat : Prime(p) /\ Divides(p, a) => p \in Primes
  BY RemainderPrimes
<1>2. PICK q, b \in Nat \ {0} :
         /\ q = Remainder(n) /\ b = n \div q /\ n = q * b
         /\ \A p \in Nat : Prime(p) /\ Divides(p, q) => p \notin Primes
         /\ \A p \in Nat : Prime(p) /\ Divides(p, b) => p \in Primes
  BY RemainderPrimes
<1> PICK t : t = TablePart(a, b)
  OBVIOUS
<1>3. LeastCommonMultiple(m, n) = (r * q) * t
  BY <1>1, <1>2 DEF LeastCommonMultiple
<1>4. t \in Nat \ {0} /\ r * q \in Nat \ {0} /\ a * b \in Nat \ {0} /\ Divides(t, a * b)
  <2>1. a * b \in Nat \ {0} /\ r * q \in Nat \ {0} /\ t \in Nat \ {0}
    BY Products, TablePartDivides
  <2>2. Divides(a, a * b) /\ Divides(b, a * b)
    BY DividesFacts
  <2> QED
    BY <2>1, <2>2, TablePartLeast
<1>5. Divides(r, m) /\ Divides(a, m) /\ Divides(q, n) /\ Divides(b, n)
  BY <1>1, <1>2, DividesFacts
<1>6. ASSUME NEW p \in Nat, Prime(p), Divides(p, t) PROVE Divides(p, a) \/ Divides(p, b)
  BY <1>4, <1>6, DividesTrans, PrimeDivides
<1>7. ASSUME NEW p \in Nat, Prime(p), Divides(p, (r * q) * t)
      PROVE  Divides(p, m) \/ Divides(p, n)
  <2>1. Divides(p, r) \/ Divides(p, q) \/ Divides(p, a) \/ Divides(p, b)
    BY <1>4, <1>6, <1>7, PrimeDivides
  <2> QED
    BY <1>5, <2>1, DividesTrans
<1>8. ASSUME \A p \in Nat : Prime(p) => ~Divides(p, r) \/ ~Divides(p, q),
             NEW l \in Nat \ {0}, Divides(m, l), Divides(n, l)
      PROVE  Divides((r * q) * t, l)
  <2>1. Divides(r, l) /\ Divides(a, l) /\ Divides(q, l) /\ Divides(b, l)
    BY <1>5, <1>8, DividesTrans
  <2>2. Coprime(r, q)
    BY <1>8, CoprimeByPrimes
  <2>3. Divides(r * q, l)
    BY <2>1, <2>2, CoprimeProduct
  <2>4. Divides(t, l)
    BY <2>1, TablePartLeast
  <2>5. ASSUME NEW p \in Nat, Prime(p), Divides(p, r * q), Divides(p, t) PROVE FALSE
    <3>1. p \in Primes
      BY <1>1, <1>2, <1>6, <2>5
    <3>2. Divides(p, r) \/ Divides(p, q)
      BY <2>5, PrimeDivides
    <3> QED
      BY <1>1, <1>2, <2>5, <3>1, <3>2
  <2>6. Coprime(r * q, t)
    BY <1>4, <2>5, CoprimeByPrimes
  <2> QED
    BY <1>4, <2>3, <2>4, <2>6, CoprimeProduct
<1> QED
  BY <1>1, <1>2, <1>3, <1>7, <1>8

-----------------------------------------------------------------------------
(* Alignment: every section stands where it asks for.                      *)

\* What the layout has combined and checked so far.
AlignInv ==
    /\ segAlign \in [Segs -> Nat \ {0}]
    /\ \A k \in DOMAIN sections :
          /\ Divides(sections[k].align, sections[k].offs)
          /\ Divides(sections[k].align, segAlign[sections[k].seg])
    /\ \A s \in Segs : overflows = 0 /\ Stands(s) /\ s \notin misaligned => Divides(segAlign[s], segPC[s])

\* What is known of the sections that are read.
LEMMA SectionTypes ==
    ASSUME LInv
    PROVE  \A k \in DOMAIN sections : /\ k \in 1 .. next - 1 /\ sections[k].seg \in Segs
                                      /\ sections[k].align \in Nat /\ sections[k].offs \in Nat
                                      /\ sections[k].size \in Nat
<1> DEFINE R == [seg : Nat, offs : Nat, size : Nat, align : Nat]
<1>1. /\ sections \in Seq(R) /\ Len(sections) = next - 1 /\ next \in Nat /\ cfg \in Configs
      /\ \A k \in 1 .. next - 1 : k \in DOMAIN cfg.sections /\ sections[k].seg = cfg.sections[k].seg
  BY DEF LInv, LType, Reading
<1> SUFFICES ASSUME NEW k \in DOMAIN sections
             PROVE  /\ k \in 1 .. next - 1 /\ sections[k].seg \in Segs
                    /\ sections[k].align \in Nat /\ sections[k].offs \in Nat /\ sections[k].size \in Nat
  OBVIOUS
<1>2. k \in 1 .. next - 1 /\ sections[k] \in R
  <2> HIDE DEF R
  <2> QED
    BY <1>1
<1>3. sections[k].seg \in Segs
  BY <1>1, <1>2, CfgTypes
<1> QED
  BY <1>2, <1>3

LEMMA AlignInit == Init => AlignInv
<1> SUFFICES ASSUME Init PROVE AlignInv
  OBVIOUS
<1>1. segAlign = [s \in Segs |-> 1] /\ sections = <<>> /\ pc = "read"
  BY DEF Init
<1>2. DOMAIN sections = {} /\ \A s \in Segs : ~Stands(s)
  BY <1>1 DEF Stands
<1> QED
  BY <1>1, <1>2 DEF AlignInv

\* A section is read: its offset and the alignment of its segment suit it, and the
\* alignment suits the ones before.
LEMMA AlignRead == LInv /\ AlignInv /\ ReadSection => AlignInv'
<1> SUFFICES ASSUME LInv, AlignInv, ReadSection PROVE AlignInv'
  OBVIOUS
<1> PICK sec : sec = cfg.sections[next]
  OBVIOUS
<1> PICK s : s = sec.seg
  OBVIOUS
<1> PICK offs : offs = AlignAddr(segSize[s], sec.align)
  OBVIOUS
<1>1. /\ next <= Len(cfg.sections) /\ pc' = "read" /\ cfg' = cfg
      /\ segAlign' = [segAlign EXCEPT ![s] = Combined(s, sec.align)]
      /\ sections' = Append(sections, [seg |-> s, offs |-> offs, size |-> sec.size, align |-> sec.align])
  BY DEF ReadSection, placement
<1>2. s \in Segs /\ sec.align \in Nat \ {0} /\ sec.size \in Nat /\ segSize[s] \in Nat
  <2>1. next \in DOMAIN cfg.sections /\ cfg \in Configs /\ segSize \in [Segs -> Nat]
    BY <1>1, CfgTypes DEF LInv, LType
  <2> QED
    BY <2>1, CfgTypes
<1>3. offs \in Nat /\ Divides(sec.align, offs)
  BY <1>2, AlignUp, AlignDivides
<1>4. segAlign[s] \in Nat \ {0}
  BY <1>2 DEF AlignInv
<1> PICK c : c = Combined(s, sec.align)
  OBVIOUS
<1>5. c \in Nat \ {0} /\ Divides(segAlign[s], c) /\ Divides(sec.align, c)
  <2>1. CASE sec.align > 1
    BY <1>2, <1>4, <2>1, CombinedDivides DEF Combined
  <2>2. CASE ~(sec.align > 1)
    <3>1. sec.align = 1 /\ c = segAlign[s]
      BY <1>2, <2>2 DEF Combined
    <3> QED
      BY <1>4, <3>1, DividesFacts
  <2> QED
    BY <2>1, <2>2
<1>6. segAlign' \in [Segs -> Nat \ {0}]
  BY <1>1, <1>5 DEF AlignInv
<1> PICK r : r = [seg |-> s, offs |-> offs, size |-> sec.size, align |-> sec.align]
  OBVIOUS
<1>7. /\ sections' = Append(sections, r) /\ next \in Nat
      /\ Len(sections) = next - 1 /\ DOMAIN sections = 1 .. next - 1
      /\ DOMAIN sections' = 1 .. next /\ sections'[next] = r
      /\ \A k \in 1 .. next - 1 : sections'[k] = sections[k]
  <2>1. /\ sections \in Seq([seg : Nat, offs : Nat, size : Nat, align : Nat])
        /\ Len(sections) = next - 1 /\ next \in Nat \ {0}
    BY DEF LInv, LType, Reading
  <2>2. sections' = Append(sections, r)
    BY <1>1
  <2> QED
    BY <2>1, <2>2
<1>8. ASSUME NEW k \in DOMAIN sections'
      PROVE  /\ Divides(sections'[k].align, sections'[k].offs)
             /\ Divides(sections'[k].align, segAlign'[sections'[k].seg])
  <2>1. CASE k = next
    <3>1. segAlign'[s] = c
      BY <1>1, <1>2 DEF AlignInv
    <3>2. sections'[k] = r
      BY <1>7, <2>1
    <3>3. r.align = sec.align /\ r.offs = offs /\ r.seg = s
      OBVIOUS
    <3>4. Divides(sec.align, offs) /\ Divides(sec.align, c)
      BY <1>3, <1>5
    <3> QED
      BY ONLY <3>1, <3>2, <3>3, <3>4
  <2>2. CASE k # next
    <3>1. k \in DOMAIN sections /\ sections'[k] = sections[k]
      BY <1>7, <2>2
    <3> PICK t, n : t = sections[k].seg /\ n = sections[k].align
      OBVIOUS
    <3>2. t \in Segs /\ n \in Nat /\ Divides(n, sections[k].offs) /\ Divides(n, segAlign[t])
      BY <3>1, SectionTypes DEF AlignInv
    <3>3. segAlign[t] \in Nat
      BY <3>2 DEF AlignInv
    <3>4. CASE t = s
      <4>1. segAlign'[t] = c
        BY <1>1, <1>2, <3>4 DEF AlignInv
      <4>2. Divides(n, c)
        BY <1>5, <3>2, <3>3, <3>4, DividesTrans
      <4> QED
        BY <3>1, <3>2, <4>1, <4>2
    <3>5. CASE t # s
      <4>1. segAlign'[t] = segAlign[t]
        BY <1>1, <3>2, <3>5 DEF AlignInv
      <4> QED
        BY <3>1, <3>2, <4>1
    <3> QED
      BY <3>4, <3>5
  <2> QED
    BY <2>1, <2>2
<1>9. \A t \in Segs : ~Stands(t)'
  BY <1>1 DEF Stands
<1> QED
  BY <1>1, <1>6, <1>8, <1>9 DEF AlignInv, Segs

\* What the config file's align, start or offset divides by, the address does.
LEMMA PlacedAligned ==
    ASSUME LInv, pc = "place", NEW s \in Segs, Runs(s), ~TooLow(s), ~overflow[area],
           NEW n \in Nat \ {0}, AlignedBy(s) % n = 0
    PROVE  Divides(n, NewAddr(s))
<1>1. cfg \in Configs /\ area \in Areas /\ addr \in Nat
  BY DEF LInv, LType, Walk
<1>2. /\ S(s).align \in Nat /\ S(s).addr \in Nat /\ M(area).start \in Nat
      /\ S(s).at \in {"next", "offset", "start"}
  BY <1>1, CfgTypes
<1>3. S(s).align = 0 \/ S(s).at = "next"
  BY <1>1, LayoutAssumption DEF S, Segs
<1>4. CASE S(s).at # "next"
  <2>1. NewAddr(s) = Target(s) /\ AlignedBy(s) = Target(s)
    BY <1>3, <1>4 DEF NewAddr, Placed, Fixed, AlignedBy
  <2>2. Target(s) \in Nat
    BY <1>2 DEF Target
  <2> QED
    BY <2>1, <2>2, DividesMod
<1>5. CASE S(s).at = "next" /\ S(s).align # 0
  <2>1. NewAddr(s) = AlignAddr(addr, S(s).align) /\ AlignedBy(s) = S(s).align
    BY <1>5 DEF NewAddr, Placed, Fixed, AlignedBy, Aligned
  <2>2. Divides(S(s).align, NewAddr(s)) /\ Divides(n, S(s).align) /\ NewAddr(s) \in Nat
    BY <1>1, <1>2, <1>5, <2>1, AlignUp, AlignDivides, DividesMod
  <2> QED
    BY <1>2, <2>2, DividesFacts
<1>6. CASE S(s).at = "next" /\ S(s).align = 0
  <2>1. NewAddr(s) = addr /\ AlignedBy(s) = 1
    BY <1>6 DEF NewAddr, Placed, Fixed, AlignedBy, Aligned
  <2>2. Divides(n, 1) /\ Divides(1, addr)
    BY <1>1, <2>1, DividesMod, DividesFacts
  <2> QED
    BY <1>1, <2>1, <2>2, DividesFacts
<1> QED
  BY <1>4, <1>5, <1>6

\* A segment is placed: it is aligned, or it is warned of.
LEMMA AlignPlace == LInv /\ AlignInv /\ PlaceSegment => AlignInv'
<1> SUFFICES ASSUME LInv, AlignInv, PlaceSegment PROVE AlignInv'
  OBVIOUS
<1>1. PICK s \in Segs :
         /\ NextSeg(s) /\ seg' = s
         /\ misaligned' = IF Runs(s) /\ AlignedBy(s) % segAlign[s] # 0
                          THEN misaligned \cup {s} ELSE misaligned
         /\ segPC' = IF Runs(s) THEN [segPC EXCEPT ![s] = NewAddr(s)] ELSE segPC
         /\ overflows' = overflows + (IF TooLow(s) THEN 1 ELSE 0) + (IF Overflows(s) THEN 1 ELSE 0)
  BY DEF PlaceSegment
<1>2. pc = "place" /\ UNCHANGED <<cfg, pc, sections, segAlign, area>>
  BY DEF PlaceSegment, segments
<1>3. /\ overflows \in Nat /\ segPC \in [Segs -> Nat] /\ segAlign \in [Segs -> Nat \ {0}]
      /\ area \in Areas
  BY <1>2 DEF LInv, LType, Walk, AlignInv
<1>4. overflows' = 0 => overflows = 0 /\ ~TooLow(s) /\ ~overflow[area]
  BY <1>1, <1>3 DEF LInv, Flagged
<1>5. ASSUME NEW t \in Segs, overflows' = 0, Stands(t)', t \notin misaligned'
      PROVE  Divides(segAlign[t], segPC'[t])
  <2>1. Stands(t) \/ (t = s /\ Runs(s))
    BY <1>1, <1>2, <1>5, PlacedStands
  <2>2. CASE t = s /\ Runs(s)
    <3>1. segPC'[t] = NewAddr(s) /\ AlignedBy(s) % segAlign[s] = 0
      BY <1>1, <1>3, <1>5, <2>2
    <3> QED
      BY <1>2, <1>3, <1>4, <1>5, <2>2, <3>1, PlacedAligned
  <2>3. CASE Stands(t) /\ ~(t = s /\ Runs(s))
    <3>1. segPC'[t] = segPC[t] /\ t \notin misaligned
      BY <1>1, <1>3, <1>5, <2>3
    <3> QED
      BY <1>4, <1>5, <2>3, <3>1 DEF AlignInv
  <2> QED
    BY <2>1, <2>2, <2>3
<1> QED
  BY <1>2, <1>5 DEF AlignInv, Segs

LEMMA AlignStep == LInv /\ AlignInv /\ [LayoutNext]_layoutVars => AlignInv'
<1> SUFFICES ASSUME LInv, AlignInv, [LayoutNext]_layoutVars PROVE AlignInv'
  OBVIOUS
<1>1. CASE ReadSection
  BY <1>1, AlignRead
<1>2. CASE PlaceSegment
  BY <1>2, AlignPlace
<1>3. CASE ~ReadSection /\ ~PlaceSegment
  <2>1. UNCHANGED <<cfg, sections, segAlign, segPC, overflows, misaligned>>
    BY <1>3 DEF LayoutNext, layoutVars, segments, placement, ReadTooAligned, EndOfInput, BeginArea,
                PlaceError, EndArea, EndOfPlacing, SkipArea, BeginWriteMem, WriteSegment, EndWriteMem,
                EndOfWriting, CheckSegments
  <2>2. ASSUME NEW s \in Segs, Stands(s)' PROVE Stands(s)
    BY <1>3, <2>2, StandsStays
  <2> QED
    BY <2>1, <2>2 DEF AlignInv, Segs
<1> QED
  BY <1>1, <1>2, <1>3

LEMMA AlignInductive == Spec => []AlignInv
<1>1. StartupInit => AlignInv
  BY AlignInit DEF StartupInit
<1>2. LInv /\ AlignInv /\ [Next]_vars => AlignInv'
  BY AlignStep, LayoutStep DEF vars
<1> QED
  BY <1>1, <1>2, LayoutInductive, PTL DEF Spec

LEMMA AlignTypes ==
    ASSUME LInv, AlignInv, NEW k \in DOMAIN sections
    PROVE  /\ sections[k].seg \in Segs /\ sections[k].align \in Nat \ {0} /\ sections[k].offs \in Nat
           /\ segAlign[sections[k].seg] \in Nat \ {0} /\ segPC[sections[k].seg] \in Nat
<1>1. /\ sections[k].seg \in Segs /\ sections[k].align \in Nat /\ sections[k].offs \in Nat
  BY SectionTypes
<1>2. segAlign[sections[k].seg] \in Nat \ {0} /\ segPC[sections[k].seg] \in Nat
  BY <1>1 DEF AlignInv, LInv, LType
<1>3. PICK j \in Nat : segAlign[sections[k].seg] = j * sections[k].align
  BY DEF AlignInv, Divides
<1>4. sections[k].align # 0
  BY <1>1, <1>2, <1>3, Products
<1> QED
  BY <1>1, <1>2, <1>4

LEMMA AlignSuits ==
    ASSUME LInv, AlignInv
    PROVE  (\A s \in Segs : Suits(s, segAlign[s])) /\ SectionsAligned
<1>1. \A k \in DOMAIN sections :
         /\ sections[k].seg \in Segs /\ sections[k].align \in Nat \ {0} /\ sections[k].offs \in Nat
         /\ segAlign[sections[k].seg] \in Nat \ {0} /\ segPC[sections[k].seg] \in Nat
  BY AlignTypes
<1>2. ASSUME NEW s \in Segs PROVE Suits(s, segAlign[s])
  <2>1. ASSUME NEW k \in DOMAIN sections, sections[k].seg = s
        PROVE  segAlign[s] % sections[k].align = 0
    BY <1>1, <2>1, DividesMod DEF AlignInv
  <2> QED
    BY <2>1 DEF Suits, SectionsOf
<1>3. ASSUME overflows = 0, NEW k \in DOMAIN sections, Stands(sections[k].seg),
             sections[k].seg \notin misaligned
      PROVE  (segPC[sections[k].seg] + sections[k].offs) % sections[k].align = 0
  <2> PICK s, n, d : s = sections[k].seg /\ n = sections[k].align /\ d = sections[k].offs
    OBVIOUS
  <2>1. s \in Segs /\ n \in Nat \ {0} /\ d \in Nat /\ segAlign[s] \in Nat /\ segPC[s] \in Nat
    BY <1>1
  <2>2. Divides(n, d) /\ Divides(n, segAlign[s]) /\ Divides(segAlign[s], segPC[s])
    BY <1>3, <2>1 DEF AlignInv
  <2>3. Divides(n, segPC[s])
    BY <2>1, <2>2, DividesTrans
  <2>4. segPC[s] + d \in Nat
    BY <2>1
  <2>5. Divides(n, segPC[s] + d)
    BY <2>1, <2>2, <2>3, DividesSum
  <2> QED
    BY <2>1, <2>4, <2>5, DividesMod
<1>4. SectionsAligned
  BY <1>3 DEF SectionsAligned
<1> QED
  BY <1>2, <1>4

\* No prime beyond the table is needed by two sections of s.
Unshared(s) ==
    \A k, n \in SectionsOf(s) : k # n => SharesNothing(sections[k].align, sections[n].align)

\* The combined alignment so far comes from the sections and is the least.
LeastInv ==
    \A s \in Segs :
        /\ \A p \in Nat : Prime(p) /\ Divides(p, segAlign[s])
                          => \E k \in SectionsOf(s) : Divides(p, sections[k].align)
        /\ Unshared(s) =>
              \A l \in Nat \ {0} :
                 (\A k \in SectionsOf(s) : Divides(sections[k].align, l)) => Divides(segAlign[s], l)

\* A prime both remainders have is shared.
LEMMA SharedPrime ==
    ASSUME NEW m \in Nat \ {0}, NEW n \in Nat \ {0}, SharesNothing(m, n), NEW p \in Nat, Prime(p),
           Divides(p, m), Divides(p, n), p \notin Primes
    PROVE  FALSE
<1>1. PICK r, a \in Nat \ {0} :
         /\ r = Remainder(m) /\ m = r * a
         /\ \A d \in Nat : Prime(d) /\ Divides(d, a) => d \in Primes
  BY RemainderPrimes
<1>2. PICK q, b \in Nat \ {0} :
         /\ q = Remainder(n) /\ n = q * b
         /\ \A d \in Nat : Prime(d) /\ Divides(d, b) => d \in Primes
  BY RemainderPrimes
<1>3. Divides(p, r) /\ Divides(p, q)
  <2>1. Divides(p, r) \/ Divides(p, a)
    BY <1>1, PrimeDivides
  <2>2. Divides(p, q) \/ Divides(p, b)
    BY <1>2, PrimeDivides
  <2> QED
    BY <1>1, <1>2, <2>1, <2>2
<1>4. p \in 2 .. r /\ p \in Nat \ {0}
  BY <1>3, DividesLess DEF Prime
<1>5. r % p = 0 /\ q % p = 0
  BY <1>3, <1>4, DividesMod
<1>6. r % p # 0 \/ q % p # 0
  BY <1>1, <1>2, <1>4 DEF SharesNothing
<1> QED
  BY <1>5, <1>6

LEMMA LeastInit == Init => LeastInv
<1> SUFFICES ASSUME Init, NEW s \in Segs
             PROVE  /\ \A p \in Nat : ~(Prime(p) /\ Divides(p, segAlign[s]))
                    /\ \A l \in Nat : Divides(segAlign[s], l)
  BY DEF LeastInv
<1>1. segAlign[s] = 1
  BY DEF Init
<1>2. ASSUME NEW p \in Nat, Prime(p), Divides(p, 1) PROVE FALSE
  <2>1. p >= 2
    BY <1>2 DEF Prime
  <2> QED
    BY <1>2, <2>1, DividesLess
<1> QED
  BY <1>1, <1>2, DividesFacts

\* A section is read: the alignment is still the least one.
LEMMA LeastRead == LInv /\ AlignInv /\ AlignInv' /\ LeastInv /\ ReadSection => LeastInv'
<1> SUFFICES ASSUME LInv, AlignInv, AlignInv', LeastInv, ReadSection PROVE LeastInv'
  OBVIOUS
<1> SUFFICES ASSUME NEW t \in Segs
             PROVE  /\ \A p \in Nat : Prime(p) /\ Divides(p, segAlign'[t])
                                      => \E k \in SectionsOf(t)' : Divides(p, sections'[k].align)
                    /\ Unshared(t)' =>
                          \A l \in Nat \ {0} :
                             (\A k \in SectionsOf(t)' : Divides(sections'[k].align, l))
                             => Divides(segAlign'[t], l)
  <2>1. Segs' = Segs
    BY DEF ReadSection, Segs
  <2> QED
    BY <2>1 DEF LeastInv
<1> PICK sec : sec = cfg.sections[next]
  OBVIOUS
<1> PICK s, n : s = sec.seg /\ n = sec.align
  OBVIOUS
<1> PICK offs : offs = AlignAddr(segSize[s], n)
  OBVIOUS
<1>1. /\ next <= Len(cfg.sections) /\ cfg' = cfg
      /\ segAlign' = [segAlign EXCEPT ![s] = Combined(s, n)]
      /\ sections' = Append(sections, [seg |-> s, offs |-> offs, size |-> sec.size, align |-> n])
  BY DEF ReadSection
<1>2. s \in Segs /\ n \in Nat \ {0}
  <2>1. next \in DOMAIN cfg.sections /\ cfg \in Configs
    BY <1>1, CfgTypes DEF LInv, LType
  <2> QED
    BY <2>1, CfgTypes
<1> PICK new : new = [seg |-> s, offs |-> offs, size |-> sec.size, align |-> n]
  OBVIOUS
<1>3. /\ next \in Nat \ {0} /\ DOMAIN sections = 1 .. next - 1
      /\ DOMAIN sections' = 1 .. next /\ sections'[next] = new
      /\ \A k \in 1 .. next - 1 : sections'[k] = sections[k]
  <2>1. /\ sections \in Seq([seg : Nat, offs : Nat, size : Nat, align : Nat])
        /\ Len(sections) = next - 1 /\ next \in Nat \ {0}
    BY DEF LInv, LType, Reading
  <2>2. sections' = Append(sections, new)
    BY <1>1
  <2> QED
    BY <2>1, <2>2
<1>4. /\ SectionsOf(t)' = SectionsOf(t) \cup (IF t = s THEN {next} ELSE {})
      /\ \A k \in SectionsOf(t) : k \in DOMAIN sections /\ k # next /\ sections'[k] = sections[k]
  <2>1. ASSUME NEW k \in DOMAIN sections
        PROVE  k # next /\ sections'[k] = sections[k] /\ k \in DOMAIN sections'
    BY <1>3
  <2>2. \A k \in DOMAIN sections' : k \in DOMAIN sections \/ k = next
    BY <1>3
  <2>3. next \in DOMAIN sections' /\ sections'[next].seg = s
    BY <1>3
  <2> QED
    BY <2>1, <2>2, <2>3 DEF SectionsOf
<1>5. \A k \in SectionsOf(t) : sections[k].align \in Nat \ {0}
  <2> SUFFICES ASSUME NEW k \in SectionsOf(t) PROVE sections[k].align \in Nat \ {0}
    OBVIOUS
  <2>1. k \in DOMAIN sections /\ sections[k].seg = t /\ sections[k].align \in Nat
    BY <1>4, SectionTypes DEF SectionsOf
  <2>2. segAlign[t] \in Nat \ {0} /\ Divides(sections[k].align, segAlign[t])
    BY <2>1 DEF AlignInv
  <2> QED
    BY <2>1, <2>2, DividesLess
<1>6. CASE t # s
  <2>1. segAlign'[t] = segAlign[t] /\ SectionsOf(t)' = SectionsOf(t)
    BY <1>1, <1>4, <1>6 DEF AlignInv
  <2>2. Unshared(t)' => Unshared(t)
    BY <1>4, <2>1 DEF Unshared
  <2> QED
    BY <1>4, <2>1, <2>2 DEF LeastInv
<1>7. CASE t = s
  <2> PICK m, c : m = segAlign[s] /\ c = Combined(s, n)
    OBVIOUS
  <2>1. m \in Nat \ {0} /\ segAlign'[t] = c
    BY <1>1, <1>2, <1>7 DEF AlignInv
  <2>2. /\ \A k \in SectionsOf(t) : k \in SectionsOf(t)'
        /\ next \in SectionsOf(t)' /\ sections'[next].align = n
    BY <1>3, <1>4, <1>7
  <2>3. ASSUME NEW p \in Nat, Prime(p), Divides(p, m)
        PROVE  \E k \in SectionsOf(t) : Divides(p, sections[k].align)
    BY <1>7, <2>3 DEF LeastInv
  <2>4. ASSUME NEW p \in Nat, Prime(p), Divides(p, c)
        PROVE  \E k \in SectionsOf(t)' : Divides(p, sections'[k].align)
    <3>1. Divides(p, m) \/ Divides(p, n)
      <4>1. CASE n > 1
        BY <1>2, <2>1, <2>4, <4>1, CombinedLeast DEF Combined
      <4>2. CASE ~(n > 1)
        BY <2>4, <4>2 DEF Combined
      <4> QED
        BY <4>1, <4>2
    <3>2. CASE Divides(p, n)
      BY <2>2, <3>2
    <3>3. CASE Divides(p, m)
      <4>1. PICK k \in SectionsOf(t) : Divides(p, sections[k].align)
        BY <2>3, <2>4, <3>3
      <4> QED
        BY <1>4, <2>2, <4>1
    <3> QED
      BY <3>1, <3>2, <3>3
  <2>5. ASSUME Unshared(t)', NEW l \in Nat \ {0}, \A k \in SectionsOf(t)' : Divides(sections'[k].align, l)
        PROVE  Divides(c, l)
    <3>1. Unshared(t)
      <4> SUFFICES ASSUME NEW j \in SectionsOf(t), NEW k \in SectionsOf(t), j # k
                   PROVE  SharesNothing(sections[j].align, sections[k].align)
        BY DEF Unshared
      <4>1. SharesNothing(sections'[j].align, sections'[k].align)
        BY <2>2, <2>5 DEF Unshared, SharesNothing
      <4> QED
        BY <1>4, <4>1
    <3>2. Divides(m, l)
      <4>1. \A k \in SectionsOf(t) : Divides(sections[k].align, l)
        BY <1>4, <2>2, <2>5
      <4> QED
        BY <1>7, <3>1, <4>1 DEF LeastInv
    <3>3. Divides(n, l)
      BY <2>2, <2>5
    <3>4. CASE ~(n > 1)
      BY <3>2, <3>4 DEF Combined
    <3>5. CASE n > 1
      <4>1. ASSUME NEW p \in Nat, Prime(p), Divides(p, Remainder(m)), Divides(p, Remainder(n)) PROVE FALSE
        <5>1. Divides(p, m) /\ Divides(p, n) /\ p \notin Primes
          <6>1. PICK r, a \in Nat \ {0} : /\ r = Remainder(m) /\ m = r * a
                                          /\ \A d \in Nat : Prime(d) /\ Divides(d, r) => d \notin Primes
            BY <2>1, RemainderPrimes
          <6>2. PICK q, b \in Nat \ {0} : q = Remainder(n) /\ n = q * b
            BY <1>2, RemainderPrimes
          <6> QED
            BY <4>1, <6>1, <6>2, DividesProduct
        <5>2. PICK k \in SectionsOf(t) : Divides(p, sections[k].align)
          BY <2>3, <4>1, <5>1
        <5>3. SharesNothing(sections[k].align, n)
          <6>1. SharesNothing(sections'[k].align, sections'[next].align)
            BY <1>4, <2>2, <2>5 DEF Unshared, SharesNothing
          <6> QED
            BY <1>4, <2>2, <6>1
        <5> QED
          BY <1>2, <1>5, <4>1, <5>1, <5>2, <5>3, SharedPrime
      <4> QED
        BY <1>2, <2>1, <3>2, <3>3, <3>5, <4>1, CombinedLeast DEF Combined
    <3> QED
      BY <3>4, <3>5
  <2> QED
    BY <2>1, <2>4, <2>5
<1> QED
  BY <1>6, <1>7

LEMMA LeastStep == LInv /\ AlignInv /\ AlignInv' /\ LeastInv /\ [LayoutNext]_layoutVars => LeastInv'
<1> SUFFICES ASSUME LInv, AlignInv, AlignInv', LeastInv, [LayoutNext]_layoutVars PROVE LeastInv'
  OBVIOUS
<1>1. CASE ReadSection
  BY <1>1, LeastRead
<1>2. CASE ~ReadSection
  <2>1. UNCHANGED <<cfg, sections, segAlign>>
    BY <1>2 DEF LayoutNext, layoutVars, segments, placement, ReadTooAligned, EndOfInput, BeginArea,
                PlaceError, PlaceSegment, EndArea, EndOfPlacing, SkipArea, BeginWriteMem, WriteSegment,
                EndWriteMem, EndOfWriting, CheckSegments
  <2> QED
    BY <2>1 DEF LeastInv, Unshared, SectionsOf, Segs
<1> QED
  BY <1>1, <1>2

\* Every section of a segment nobody was warned of stands at an address that suits
\* it, and no segment is aligned to more than its sections need, unless two of them
\* share a prime beyond the table (ReadSection, LeastCommonMultiple, CfgProcess).
THEOREM AlignedAsAsked == Spec => []AlignmentsKept
<1>1. StartupInit => LeastInv
  BY LeastInit DEF StartupInit
<1>2. LInv /\ AlignInv /\ AlignInv' /\ LeastInv /\ [Next]_vars => LeastInv'
  BY LeastStep, LayoutStep DEF vars
<1>3. ASSUME LInv, AlignInv, LeastInv PROVE AlignmentCombined
  <2> SUFFICES ASSUME NEW s \in Segs, Unshared(s), NEW l \in 1 .. segAlign[s] - 1, Suits(s, l) PROVE FALSE
    BY <1>3, AlignSuits DEF AlignmentCombined, Unshared
  <2>1. segAlign[s] \in Nat \ {0} /\ l \in Nat \ {0} /\ l < segAlign[s]
    BY <1>3 DEF AlignInv
  <2>2. ASSUME NEW k \in SectionsOf(s) PROVE Divides(sections[k].align, l)
    <3>1. /\ k \in DOMAIN sections /\ sections[k].align \in Nat \ {0} /\ l % sections[k].align = 0
      BY <1>3, AlignTypes DEF Suits, SectionsOf
    <3> QED
      BY <2>1, <3>1, DividesMod
  <2>3. Divides(segAlign[s], l)
    BY <1>3, <2>1, <2>2 DEF LeastInv
  <2> QED
    BY <2>1, <2>3, DividesLess
<1>4. LInv /\ AlignInv => SectionsAligned
  BY AlignSuits
<1> QED
  BY <1>1, <1>2, <1>3, <1>4, AlignInductive, LayoutInductive, PTL DEF AlignmentsKept, Spec

-----------------------------------------------------------------------------
(* The order in which the areas are written.                               *)

\* The files come in the order of their first areas, the areas of a file in theirs.
LEMMA FileOrder ==
    ASSUME cfg \in Configs
    PROVE  \E F \in [Areas -> Nat] : \A a, b \in Areas :
               /\ F[a] = F[b] <=> M(a).file = M(b).file
               /\ Before(a, b) <=> F[a] < F[b] \/ (M(a).file = M(b).file /\ a < b)
<1>1. Areas \subseteq Nat
  BY CfgTypes
<1> DEFINE Is(h, f)  == h \in Areas /\ M(h).file = f /\ \A y \in Areas : M(y).file = f => h <= y
           First(f) == CHOOSE h \in Areas : M(h).file = f /\ \A y \in Areas : M(y).file = f => h <= y
           F == [a \in Areas |-> First(M(a).file)]
<1>2. ASSUME NEW a \in Areas PROVE Is(First(M(a).file), M(a).file)
  <2> DEFINE P == {y \in Areas : M(y).file = M(a).file}
  <2>1. P \in SUBSET Nat /\ P # {}
    BY <1>1
  <2>2. \E m \in P : \A k \in P : m <= k
    BY <2>1, LeastExists
  <2>3. \E h \in Areas : M(h).file = M(a).file /\ \A y \in Areas : M(y).file = M(a).file => h <= y
    BY <2>2
  <2> QED
    BY <2>3
<1>3. ASSUME NEW a \in Areas, NEW b \in Areas
      PROVE  Before(a, b) <=> First(M(a).file) < First(M(b).file) \/ (M(a).file = M(b).file /\ a < b)
  BY DEF Before
<1> HIDE DEF First
<1>4. F \in [Areas -> Nat]
  BY <1>1, <1>2
<1>5. \A a, b \in Areas :
          /\ F[a] = F[b] <=> M(a).file = M(b).file
          /\ Before(a, b) <=> F[a] < F[b] \/ (M(a).file = M(b).file /\ a < b)
  BY <1>2, <1>3
<1> QED
  BY <1>4, <1>5

\* It is a strict total order in which the areas of a file are together.
LEMMA BeforeOrders ==
    ASSUME cfg \in Configs, NEW a \in Areas, NEW b \in Areas, NEW c \in Areas
    PROVE  /\ ~(Before(a, b) /\ Before(b, a)) /\ ~Before(a, a)
           /\ Before(a, b) /\ Before(b, c) => Before(a, c)
           /\ a = b \/ Before(a, b) \/ Before(b, a)
           /\ M(a).file = M(b).file => (Before(a, b) <=> a < b)
           /\ Before(a, b) /\ M(a).file # M(b).file /\ M(c).file = M(b).file => Before(a, c)
           /\ Before(a, b) /\ M(a).file # M(b).file /\ M(c).file = M(a).file => Before(c, b)
<1>1. a \in Nat /\ b \in Nat /\ c \in Nat
  BY CfgTypes
<1>2. PICK F \in [Areas -> Nat] : \A h, y \in Areas :
               /\ F[h] = F[y] <=> M(h).file = M(y).file
               /\ Before(h, y) <=> F[h] < F[y] \/ (M(h).file = M(y).file /\ h < y)
  BY FileOrder
<1>3. F[a] \in Nat /\ F[b] \in Nat /\ F[c] \in Nat
  OBVIOUS
<1> QED
  BY <1>1, <1>2, <1>3

\* An area that is left has a next one in front of it.
LEMMA NextExists ==
    ASSUME cfg \in Configs, NEW b \in Areas, area # 0 => Before(area, b)
    PROVE  \E a \in Areas : NextArea(a)
<1>1. Areas \subseteq Nat
  BY CfgTypes
<1>2. PICK F \in [Areas -> Nat] : \A h, y \in Areas :
               /\ F[h] = F[y] <=> M(h).file = M(y).file
               /\ Before(h, y) <=> F[h] < F[y] \/ (M(h).file = M(y).file /\ h < y)
  BY FileOrder
<1> DEFINE Left == {h \in Areas : area # 0 => Before(area, h)}
           Ranks == {F[h] : h \in Left}
<1>3. Ranks \in SUBSET Nat /\ Ranks # {}
  OBVIOUS
<1>4. PICK r \in Ranks : \A k \in Ranks : r <= k
  BY <1>3, LeastExists
<1> DEFINE Best == {h \in Left : F[h] = r}
<1>5. Best \in SUBSET Nat /\ Best # {}
  BY <1>1
<1>6. PICK a \in Best : \A k \in Best : a <= k
  BY <1>5, LeastExists
<1>7. a \in Left /\ a \in Nat /\ F[a] = r
  BY <1>1
<1>8. ASSUME NEW h \in Left PROVE a = h \/ Before(a, h)
  <2>1. r <= F[h] /\ F[h] \in Nat /\ r \in Nat /\ h \in Nat
    BY <1>1, <1>3, <1>4
  <2>2. F[h] = r => a <= h
    BY <1>6
  <2> QED
    BY <1>2, <1>7, <2>1, <2>2
<1> QED
  BY <1>7, <1>8 DEF NextArea

-----------------------------------------------------------------------------
(* Bytes.                                                                  *)

\* Fill bytes are bytes of a file.
LEMMA FillIsByte == Fill \in Byte
  BY DEF Fill, Byte

\* What is written is a file, and not shorter than before.
LEMMA PutType ==
    ASSUME NEW f \in Seq(Byte), NEW p \in Nat, NEW bytes \in Seq(Byte)
    PROVE  Put(f, p, bytes) \in Seq(Byte)
<1> DEFINE end == p + Len(bytes)
           n == IF Len(f) > end THEN Len(f) ELSE end
<1>1. end \in Nat /\ n \in Nat
  OBVIOUS
<1>2. \A k \in 1 .. n :
         (IF k \in p + 1 .. end THEN bytes[k - p] ELSE IF k <= Len(f) THEN f[k] ELSE Fill) \in Byte
  <2> TAKE k \in 1 .. n
  <2>1. k \in p + 1 .. end => bytes[k - p] \in Byte
    <3> HAVE k \in p + 1 .. end
    <3>1. k - p \in 1 .. Len(bytes)
      OBVIOUS
    <3> QED
      BY <3>1
  <2>2. k <= Len(f) => f[k] \in Byte
    OBVIOUS
  <2> QED
    BY <2>1, <2>2, FillIsByte
<1>3. Put(f, p, bytes) =
        [k \in 1 .. n |-> IF k \in p + 1 .. end THEN bytes[k - p] ELSE IF k <= Len(f) THEN f[k] ELSE Fill]
  BY DEF Put
<1> HIDE DEF n, end
<1>4. Put(f, p, bytes) \in [1 .. n -> Byte]
  BY <1>2, <1>3
<1> QED
  BY <1>1, <1>4

\* Writing at the end of a file appends.
LEMMA PutAtEnd ==
    ASSUME NEW f \in Seq(Byte), NEW bytes \in Seq(Byte)
    PROVE  /\ Put(f, Len(f), bytes) \in Seq(Byte)
           /\ Len(Put(f, Len(f), bytes)) = Len(f) + Len(bytes)
           /\ \A k \in 1 .. Len(f) : Put(f, Len(f), bytes)[k] = f[k]
           /\ \A k \in 1 .. Len(bytes) : Put(f, Len(f), bytes)[Len(f) + k] = bytes[k]
<1> DEFINE p == Len(f)
           end == p + Len(bytes)
           q == Put(f, p, bytes)
<1>1. p \in Nat /\ Len(bytes) \in Nat /\ end \in Nat /\ ~(p > end)
  OBVIOUS
<1>2. q \in Seq(Byte)
  BY <1>1, PutType
<1>3. q = [k \in 1 .. end |-> IF k \in p + 1 .. end THEN bytes[k - p] ELSE IF k <= p THEN f[k] ELSE Fill]
  BY <1>1 DEF Put
<1> HIDE DEF q
<1>4. Len(q) = end
  BY <1>1, <1>2, <1>3
<1>5. \A k \in 1 .. p : q[k] = f[k]
  BY <1>1, <1>3
<1>6. \A k \in 1 .. Len(bytes) : q[p + k] = bytes[k]
  <2> TAKE k \in 1 .. Len(bytes)
  <2>1. p + k \in 1 .. end /\ p + k \in p + 1 .. end /\ (p + k) - p = k
    BY <1>1
  <2> QED
    BY <1>3, <2>1
<1> QED
  BY <1>2, <1>4, <1>5, <1>6 DEF q

\* FillBytes(n) is n fill bytes.
LEMMA FillBytesType ==
    ASSUME NEW n \in Nat
    PROVE  FillBytes(n) \in Seq(Byte) /\ Len(FillBytes(n)) = n /\ \A k \in 1 .. n : FillBytes(n)[k] = Fill
<1>1. FillBytes(n) \in [1 .. n -> Byte] /\ \A k \in 1 .. n : FillBytes(n)[k] = Fill
  BY FillIsByte DEF FillBytes
<1> QED
  BY <1>1

\* SegWrite writes as many bytes as the segment has, its own or fill bytes.
LEMMA SegBytesType ==
    ASSUME NEW s \in Segs, LInv
    PROVE  /\ SegBytes(s) \in Seq(Byte) /\ Len(SegBytes(s)) = segSize[s]
           /\ \A k \in 1 .. segSize[s] : SegBytes(s)[k] = Fill \/ SegBytes(s)[k] = [seg |-> s, offs |-> k - 1]
<1>1. segSize[s] \in Nat /\ s \in Nat
  BY CfgTypes DEF LInv, LType
<1>2. \A k \in 1 .. segSize[s] : SegBytes(s)[k] = Fill \/ SegBytes(s)[k] = [seg |-> s, offs |-> k - 1]
  BY DEF SegBytes
<1>3. \A k \in 1 .. segSize[s] : [seg |-> s, offs |-> k - 1] \in Byte
  BY <1>1 DEF Byte
<1>4. DOMAIN SegBytes(s) = 1 .. segSize[s] /\ SegBytes(s) = [k \in 1 .. segSize[s] |-> SegBytes(s)[k]]
  BY DEF SegBytes
<1>5. SegBytes(s) \in [1 .. segSize[s] -> Byte]
  BY <1>2, <1>3, <1>4, FillIsByte
<1> QED
  BY <1>1, <1>2, <1>5

-----------------------------------------------------------------------------
(* The walk over an area.                                                  *)

\* The segments of a list, and what is in front of the first one.
Marks == Segs \cup {0}
Listed(t, a) == t = 0 \/ InList(t, a)

\* Segment t is in front of s in the list of a, and the last one of it.
Prev(a, t, s) == /\ InList(s, a) /\ t < s /\ Listed(t, a)
                 /\ \A u \in Segs : InList(u, a) => u <= t \/ s <= u
LastIn(a, t)  == Listed(t, a) /\ \A u \in Segs : InList(u, a) => u <= t

\* The address both walks give to s behind the address p.
NewIn(a, s, p) ==
    LET n == IF S(s).run = a THEN S(s).align ELSE S(s).alignLoad
    IN  IF S(s).run = a /\ Fixed(s)
        THEN IF S(s).at = "offset" THEN S(s).addr + M(a).start ELSE S(s).addr
        ELSE IF n = 0 THEN p ELSE AlignAddr(p, n)

\* What CfgProcess takes to be in the file.
Counts(a, s) == S(s).load = a /\ (~S(s).bss \/ M(a).fill) /\ ~S(s).overwrite

\* One step of CfgProcess from t to s: w are the addresses behind the
\* segments, z the sizes of the file behind them.
Stride(a, t, s, w, z) ==
    /\ w[s] = NewIn(a, s, w[t]) + segSize[s]
    /\ z[s] = z[t] + IF Counts(a, s) THEN w[s] - w[t] ELSE 0
    /\ M(a).start <= NewIn(a, s, w[t])
    /\ ~(S(s).overwrite /\ S(s).run = a) => w[t] <= NewIn(a, s, w[t])
    /\ ~S(s).overwrite => \A u \in Segs : InList(u, a) /\ u < s => ~S(u).overwrite
    /\ S(s).overwrite => S(s).at # "next"

\* Everything up to m is counted, in an area that is filled.
Solid(a, m) == M(a).fill /\ \A u \in Segs : InList(u, a) /\ u <= m => S(u).load = a /\ ~S(u).overwrite

\* The walk of CfgProcess over the list of a up to m.
Trace(a, m, w, z) ==
    /\ w \in [Marks -> Nat] /\ z \in [Marks -> Nat]
    /\ w[0] = M(a).start /\ z[0] = fileOffs[a]
    /\ \A s \in Segs, t \in Marks : s <= m /\ Prev(a, t, s) => Stride(a, t, s, w, z)
    /\ M(a).start <= w[m] /\ w[m] <= M(a).start + M(a).size
    /\ Solid(a, m) => z[m] - z[0] = w[m] - w[0]

\* The run addresses up to m are the ones of the walk.
Runners(a, m, w) ==
    \A s \in Segs : s <= m /\ InList(s, a) /\ S(s).run = a => segPC[s] + segSize[s] = w[s]

\* The whole walk, after which the file has the size e and the area the level l.
Walked(a, w, z, e, l) ==
    \E t \in Marks :
        /\ LastIn(a, t) /\ Trace(a, t, w, z) /\ Runners(a, t, w)
        /\ l = w[t] - M(a).start
        /\ e = z[t] + IF M(a).fill THEN M(a).size - l ELSE 0

\* v is the size of file f when the areas in front of b are in it; e has the
\* sizes behind each of them.
Chain(f, b, e, v) ==
    \/ (\A c \in Areas : c < b => M(c).file # f) /\ v = 0
    \/ \E c \in Areas : /\ c < b /\ M(c).file = f /\ v = e[c]
                        /\ \A d \in Areas : d < b /\ M(d).file = f => d <= c

\* Area a begins where e says, and the walk over it ends there.
Laid(a, e, l) == Chain(M(a).file, a, e, fileOffs[a]) /\ \E w, z : Walked(a, w, z, e[a], l)

\* The next one of a loop over a list is the one behind, and the last one has none.
LEMMA NextIsBehind ==
    ASSUME cfg \in Configs, seg \in Marks, Listed(seg, area), NEW s \in Segs, NextSeg(s)
    PROVE  Prev(area, seg, s) /\ InList(s, area) /\ seg < s
<1>1. seg \in Nat /\ \A u \in Segs : u \in Nat
  BY CfgTypes DEF Marks
<1> QED
  BY <1>1 DEF NextSeg, Prev

\* The loop over a list ends behind its last segment.
LEMMA DoneIsLast ==
    ASSUME cfg \in Configs, seg \in Marks, Listed(seg, area), ListDone
    PROVE  LastIn(area, seg)
<1>1. seg \in Nat /\ \A u \in Segs : u \in Nat
  BY CfgTypes DEF Marks
<1> QED
  BY <1>1 DEF ListDone, LastIn

\* There is one segment in front of another, and one last.
LEMMA PrevUnique ==
    ASSUME cfg \in Configs, NEW a \in Areas, NEW s \in Segs, NEW t \in Marks, NEW u \in Marks
    PROVE  /\ Prev(a, t, s) /\ Prev(a, u, s) => t = u
           /\ LastIn(a, t) /\ LastIn(a, u) => t = u
           /\ Prev(a, t, s) /\ LastIn(a, u) => s <= u
<1>1. 0 \notin Segs /\ s \in Nat /\ t \in Nat /\ u \in Nat /\ \A v \in Segs : v \in Nat /\ v > 0
  BY CfgTypes DEF Marks
<1>2. t = 0 \/ t \in Segs
  BY DEF Marks
<1>3. u = 0 \/ u \in Segs
  BY DEF Marks
<1>4. ASSUME Prev(a, t, s), Prev(a, u, s) PROVE t = u
  <2>1. t < s /\ u < s /\ (t = 0 \/ InList(t, a)) /\ (u = 0 \/ InList(u, a))
    BY <1>4 DEF Prev, Listed
  <2>2. \A v \in Segs : InList(v, a) => (v <= t \/ s <= v) /\ (v <= u \/ s <= v)
    BY <1>4 DEF Prev
  <2>3. t = 0 \/ t <= u
    BY <1>1, <1>2, <2>1, <2>2
  <2>4. u = 0 \/ u <= t
    BY <1>1, <1>3, <2>1, <2>2
  <2> QED
    BY <1>1, <2>3, <2>4
<1>5. ASSUME LastIn(a, t), LastIn(a, u) PROVE t = u
  <2>1. t = 0 \/ t <= u
    BY <1>2, <1>5 DEF LastIn, Listed
  <2>2. u = 0 \/ u <= t
    BY <1>3, <1>5 DEF LastIn, Listed
  <2> QED
    BY <1>1, <2>1, <2>2
<1>6. Prev(a, t, s) /\ LastIn(a, u) => s <= u
  BY DEF Prev, LastIn
<1> QED
  BY <1>4, <1>5, <1>6

\* The size of a file depends on the areas in front only.
LEMMA ChainSame ==
    ASSUME NEW f, NEW b, NEW e, NEW g, NEW v, Chain(f, b, e, v), \A c \in Areas : c < b => g[c] = e[c]
    PROVE  Chain(f, b, g, v)
  BY DEF Chain

\* It is a number.
LEMMA ChainNat ==
    ASSUME NEW f, NEW b, NEW e \in [Areas -> Nat], NEW v, Chain(f, b, e, v)
    PROVE  v \in Nat
  BY DEF Chain

\* A walk that has been made stays, until something is put at another address.
LEMMA TraceStays ==
    ASSUME NEW a \in Areas, NEW m, NEW w, NEW z, Trace(a, m, w, z),
           UNCHANGED <<cfg, sections, segSize>>, fileOffs'[a] = fileOffs[a]
    PROVE  Trace(a, m, w, z)'
<1>1. /\ Segs' = Segs /\ Marks' = Marks /\ Areas' = Areas
      /\ (\A s \in Segs : S(s)' = S(s)) /\ M(a)' = M(a)
  BY DEF Segs, Marks, Areas, S, M
<1>2. \A s \in Segs : InList(s, a)' = InList(s, a)
  BY <1>1 DEF InList
<1>3. ASSUME NEW s \in Segs, NEW t \in Marks, Prev(a, t, s)'
      PROVE  Prev(a, t, s)
  <2>1. Listed(t, a)' = Listed(t, a)
    BY <1>2 DEF Listed, Marks
  <2> QED
    BY <1>1, <1>2, <1>3, <2>1 DEF Prev
<1>4. ASSUME NEW s \in Segs, NEW t \in Marks, Stride(a, t, s, w, z)
      PROVE  Stride(a, t, s, w, z)'
  <2>1. NewIn(a, s, w[t])' = NewIn(a, s, w[t])
    BY <1>1 DEF NewIn, Fixed
  <2>2. Counts(a, s)' = Counts(a, s)
    BY <1>1 DEF Counts
  <2> QED
    BY <1>1, <1>2, <1>4, <2>1, <2>2 DEF Stride
<1>5. Solid(a, m)' = Solid(a, m)
  BY <1>1, <1>2 DEF Solid
<1> QED
  BY <1>1, <1>3, <1>4, <1>5 DEF Trace

\* An area that is laid out stays so.
LEMMA LaidStays ==
    ASSUME NEW a \in Areas, NEW e, NEW l, Laid(a, e, l),
           UNCHANGED <<cfg, sections, segSize>>, fileOffs'[a] = fileOffs[a],
           \A s \in Segs : S(s).run = a => segPC'[s] = segPC[s]
    PROVE  Laid(a, e, l)'
<1>1. Marks' = Marks /\ M(a)' = M(a) /\ Areas' = Areas /\ \A b \in Areas : M(b)' = M(b)
  BY DEF Segs, Marks, Areas, M
<1>2. Chain(M(a).file, a, e, fileOffs[a])'
  BY <1>1 DEF Laid, Chain
<1>3. ASSUME NEW w, NEW z, Walked(a, w, z, e[a], l)
      PROVE  Walked(a, w, z, e[a], l)'
  <2>1. PICK t \in Marks : /\ LastIn(a, t) /\ Trace(a, t, w, z) /\ Runners(a, t, w)
                           /\ l = w[t] - M(a).start
                           /\ e[a] = z[t] + IF M(a).fill THEN M(a).size - l ELSE 0
    BY <1>3 DEF Walked
  <2>2. Trace(a, t, w, z)'
    BY <2>1, TraceStays
  <2>3. LastIn(a, t)'
    BY <2>1 DEF LastIn, Listed, InList, Segs, S
  <2>4. Runners(a, t, w)'
    BY <2>1 DEF Runners, InList, Segs, S
  <2> QED
    BY <1>1, <2>1, <2>2, <2>3, <2>4 DEF Walked
<1> QED
  BY <1>2, <1>3 DEF Laid

-----------------------------------------------------------------------------
(* The file as CfgProcess counts it.                                       *)

\* What has its value before the second walk begins.
FileTypes ==
    /\ fileSize \in [Files \cup {0} -> Int] /\ fillLevel \in [Areas -> Int] /\ fileOffs \in [Areas -> Int]
    /\ pc = "read" => /\ fileSize = [f \in Files \cup {0} |-> 0] /\ fillLevel = [a \in Areas |-> 0]
    /\ pc \in {"read", "area", "place"} =>
          /\ dumped = {} /\ out = [f \in Files |-> <<>>] /\ pos = 0 /\ outputOffs = [s \in Segs |-> 0]

\* How far the walk over the present area has come.
Cursor(w, z) ==
    /\ Trace(area, seg, w, z) /\ Runners(area, seg, w)
    /\ addr = w[seg] /\ fillLevel[area] = addr - M(area).start
    /\ fileSize[M(area).file] = z[seg]

\* The areas up to the present one are laid out, with the sizes e behind them.
Placing(e) ==
    /\ e \in [Areas -> Nat]
    /\ \A a \in Areas : a < area => Laid(a, e, fillLevel[a])
    /\ \A a \in Areas : a > area \/ (a = area /\ pc = "area") => fillLevel[a] = 0
    /\ \A f \in Files \cup {0} : (pc = "place" /\ f = M(area).file) \/ Chain(f, area, e, fileSize[f])
    /\ pc = "place" =>
          /\ seg \in Marks /\ Listed(seg, area) /\ Chain(M(area).file, area, e, fileOffs[area])
          /\ ~overwrites => \A u \in Segs : InList(u, area) /\ u <= seg => ~S(u).overwrite
          /\ \E w, z : Cursor(w, z)

PlacingInv == pc \in {"area", "place"} /\ overflows = 0 => \E e : Placing(e)

\* Without an overflow both walks compute the same addresses.
LEMMA PlacedAsPlanned ==
    ASSUME LInv, pc = "place", overflows = 0, NEW s \in Segs, ~TooLow(s)
    PROVE  NewAddr(s) = NewIn(area, s, addr)
<1>1. ~overflow[area]
  BY DEF LInv, Flagged, Walk
<1>2. CASE Placed(s)
  BY <1>1, <1>2 DEF NewAddr, NewIn, Placed, Target, Runs
<1>3. CASE ~Placed(s)
  BY <1>1, <1>3 DEF NewAddr, NewIn, Placed, Aligned, Runs
<1> QED
  BY <1>2, <1>3

\* An area belongs to an output file, or to none.
LEMMA FileOf ==
    ASSUME cfg \in Configs, NEW a \in Areas
    PROVE  /\ M(a).file \in Files \cup {0}
           /\ M(a).file # 0 => M(a).file \in Files
  BY DEF Files

\* A walk with one more segment.
LEMMA TraceLonger ==
    ASSUME LInv, pc = "place", NEW s \in Segs, NextSeg(s), seg \in Marks, Listed(seg, area),
           NEW w, NEW z, Trace(area, seg, w, z),
           NEW v \in [Marks -> Nat], NEW y \in [Marks -> Nat],
           v = [w EXCEPT ![s] = v[s]], y = [z EXCEPT ![s] = y[s]],
           Stride(area, seg, s, v, y), v[s] <= M(area).start + M(area).size
    PROVE  Trace(area, s, v, y)
<1>1. cfg \in Configs /\ area \in Areas /\ seg \in Nat
  BY DEF LInv, LType, Walk
<1>2. /\ s \in Nat \ {0} /\ s \in Marks /\ 0 \in Marks /\ (\A u \in Marks : u \in Nat)
      /\ M(area).start \in Nat /\ segSize[s] \in Nat
  BY <1>1, CfgTypes DEF Marks, LInv, LType
<1>3. Prev(area, seg, s) /\ InList(s, area) /\ seg < s
  BY <1>1, NextIsBehind
<1>4. /\ w \in [Marks -> Nat] /\ z \in [Marks -> Nat]
      /\ \A u \in Marks : u # s => v[u] = w[u] /\ y[u] = z[u]
  BY DEF Trace
<1>5. v[0] = M(area).start /\ y[0] = fileOffs[area]
  BY <1>2, <1>4 DEF Trace
<1>6. ASSUME NEW u \in Segs, NEW t \in Marks, u <= s, Prev(area, t, u)
      PROVE  Stride(area, t, u, v, y)
  <2>1. CASE u = s
    <3>1. t = seg
      BY <1>1, <1>3, <1>6, <2>1, PrevUnique
    <3> QED
      BY <2>1, <3>1
  <2>2. CASE u # s
    <3>1. u <= seg /\ t < u
      BY <1>2, <1>3, <1>6, <2>2 DEF Prev, Marks
    <3>2. Stride(area, t, u, w, z)
      BY <1>6, <3>1 DEF Trace
    <3>3. u \in Marks /\ t # s
      BY <1>2, <1>3, <1>6, <3>1 DEF Marks
    <3> QED
      BY <1>4, <1>6, <2>2, <3>2, <3>3 DEF Stride
  <2> QED
    BY <2>1, <2>2
<1>7. v[seg] = w[seg] /\ y[seg] = z[seg]
  BY <1>2, <1>3, <1>4
<1>8. /\ v[s] = NewIn(area, s, v[seg]) + segSize[s] /\ M(area).start <= NewIn(area, s, v[seg])
      /\ y[s] = y[seg] + IF Counts(area, s) THEN v[s] - v[seg] ELSE 0
  BY DEF Stride
<1>9. Solid(area, s) => y[s] - y[0] = v[s] - v[0]
  <2> HAVE Solid(area, s)
  <2>1. Solid(area, seg)
    BY <1>2, <1>3 DEF Solid, Marks
  <2>2. Counts(area, s)
    BY <1>2, <1>3 DEF Solid, Counts
  <2>3. z[seg] - z[0] = w[seg] - w[0]
    BY <2>1 DEF Trace
  <2>4. w[0] = v[0] /\ z[0] = y[0]
    BY <1>5 DEF Trace
  <2>5. v[0] \in Nat /\ y[0] \in Nat /\ v[seg] \in Nat /\ y[seg] \in Nat /\ v[s] \in Nat
    BY <1>2
  <2> QED
    BY <1>7, <1>8, <2>2, <2>3, <2>4, <2>5
<1>10. M(area).start <= v[s]
  <2>1. v[s] \in Nat
    BY <1>2
  <2>2. NewIn(area, s, v[seg]) \in Nat
    <3> DEFINE n == IF S(s).run = area THEN S(s).align ELSE S(s).alignLoad
    <3>1. n \in Nat /\ v[seg] \in Nat /\ S(s).addr \in Nat
      BY <1>1, CfgTypes
    <3>2. n # 0 => AlignAddr(v[seg], n) \in Nat
      BY <3>1, AlignUp
    <3>3. NewIn(area, s, v[seg]) =
             IF S(s).run = area /\ Fixed(s)
             THEN IF S(s).at = "offset" THEN S(s).addr + M(area).start ELSE S(s).addr
             ELSE IF n = 0 THEN v[seg] ELSE AlignAddr(v[seg], n)
      BY DEF NewIn
    <3> HIDE DEF n
    <3> QED
      BY <1>2, <3>1, <3>2, <3>3
  <2> QED
    BY <1>2, <1>8, <2>1, <2>2
<1> QED
  BY <1>5, <1>6, <1>9, <1>10 DEF Trace

\* One step of the walk.
LEMMA PlaceCursor ==
    ASSUME LInv, FileTypes, PlaceSegment, overflows' = 0, NEW e, Placing(e)
    PROVE  (\E w, z : Cursor(w, z))' /\ seg' \in Marks /\ Listed(seg', area)
           /\ (~overwrites' => \A u \in Segs : InList(u, area) /\ u <= seg' => ~S(u).overwrite)
           /\ overflows = 0
<1>1. PICK s \in Segs :
         /\ NextSeg(s) /\ ~BadOverwrite(s) /\ seg' = s
         /\ overwrites' = (overwrites \/ S(s).overwrite)
         /\ segPC' = IF Runs(s) THEN [segPC EXCEPT ![s] = NewAddr(s)] ELSE segPC
         /\ addr' = NewAddr(s) + segSize[s]
         /\ fillLevel' = [fillLevel EXCEPT ![area] = Level(s)]
         /\ overflows' = overflows + (IF TooLow(s) THEN 1 ELSE 0) + (IF Overflows(s) THEN 1 ELSE 0)
         /\ fileSize' = [fileSize EXCEPT ![M(area).file] = @ + Counted(s)]
  BY DEF PlaceSegment
<1>2. pc = "place" /\ UNCHANGED <<cfg, pc, next, sections, segSize, segAlign, area, fileOffs>>
  BY DEF PlaceSegment, segments
<1>3. /\ area \in Areas /\ cfg \in Configs /\ overflows \in Nat /\ M(area).start <= addr /\ addr \in Nat
      /\ segPC \in [Segs -> Nat] /\ segSize \in [Segs -> Nat]
      /\ overflow \in [Areas -> BOOLEAN] /\ overwrites \in BOOLEAN
  BY <1>2 DEF LInv, LType, Walk
<1>4. overflows = 0 /\ ~TooLow(s) /\ ~Overflows(s)
  BY <1>1, <1>3
<1>5. ~overflow[area]
  BY <1>3, <1>4 DEF LInv, Flagged
<1>6. /\ M(area).start \in Nat /\ M(area).size \in Nat /\ segSize[s] \in Nat /\ s \in Nat \ {0}
      /\ S(s).overwrite \in BOOLEAN /\ S(s).load \in Areas \cup {0}
  BY <1>3, CfgTypes
<1>7. /\ seg \in Marks /\ Listed(seg, area)
      /\ ~overwrites => \A u \in Segs : InList(u, area) /\ u <= seg => ~S(u).overwrite
  BY <1>2 DEF Placing
<1>8. PICK w, z : Cursor(w, z)
  BY <1>2 DEF Placing
<1>9. NewAddr(s) \in Nat /\ M(area).start <= NewAddr(s) /\ (~S(s).overwrite => addr <= NewAddr(s))
  BY <1>1, <1>3, NewAddrBounds DEF LInv
<1>10. NewAddr(s) = NewIn(area, s, addr)
  BY <1>2, <1>4, PlacedAsPlanned
<1>11. Prev(area, seg, s) /\ InList(s, area) /\ seg < s
  BY <1>1, <1>3, <1>7, NextIsBehind
<1>12. /\ Trace(area, seg, w, z) /\ w \in [Marks -> Nat] /\ z \in [Marks -> Nat] /\ Runners(area, seg, w)
       /\ addr = w[seg] /\ fileSize[M(area).file] = z[seg] /\ z[seg] \in Nat /\ w[seg] \in Nat
  BY <1>7, <1>8 DEF Cursor, Trace
<1>13. s \in Marks /\ seg \in Nat /\ \A u \in Marks : u \in Nat
  BY <1>3, <1>7, CfgTypes DEF Marks
<1>14. Counted(s) \in Nat /\ Counted(s) = IF Counts(area, s) THEN NewAddr(s) + segSize[s] - addr ELSE 0
  <2>1. Counted(s) = IF Counts(area, s) THEN NewAddr(s) + segSize[s] - addr ELSE 0
    BY DEF Counted, Counts, Loads
  <2>2. Counts(area, s) => addr <= NewAddr(s)
    BY <1>9 DEF Counts
  <2> QED
    BY <1>3, <1>6, <1>9, <2>1, <2>2
<1> PICK n : n = NewAddr(s) + segSize[s]
  OBVIOUS
<1> PICK c : c = z[seg] + Counted(s)
  OBVIOUS
<1>15. n \in Nat /\ c \in Nat
  BY <1>6, <1>9, <1>12, <1>14
<1> DEFINE v == [w EXCEPT ![s] = n]
           y == [z EXCEPT ![s] = c]
<1>16. /\ v \in [Marks -> Nat] /\ y \in [Marks -> Nat] /\ v[s] = n /\ y[s] = c
       /\ (\A u \in Marks : u # s => v[u] = w[u] /\ y[u] = z[u])
       /\ v = [w EXCEPT ![s] = v[s]] /\ y = [z EXCEPT ![s] = y[s]]
  BY <1>12, <1>13, <1>15
<1> HIDE DEF v, y
<1>17. v[seg] = addr /\ y[seg] = z[seg] /\ seg # s
  BY <1>7, <1>11, <1>12, <1>13, <1>16
<1>18. Stride(area, seg, s, v, y)
  <2>1. v[s] = NewIn(area, s, v[seg]) + segSize[s]
    BY <1>10, <1>16, <1>17
  <2>2. y[s] = y[seg] + IF Counts(area, s) THEN v[s] - v[seg] ELSE 0
    BY <1>3, <1>6, <1>9, <1>12, <1>14, <1>16, <1>17
  <2>3. S(s).overwrite => S(s).at # "next"
    BY <1>1 DEF BadOverwrite
  <2>4. ~S(s).overwrite => ~overwrites
    BY <1>1 DEF BadOverwrite
  <2>5. ~S(s).overwrite => \A u \in Segs : InList(u, area) /\ u < s => ~S(u).overwrite
    <3> SUFFICES ASSUME ~S(s).overwrite, NEW u \in Segs, InList(u, area), u < s PROVE ~S(u).overwrite
      OBVIOUS
    <3>1. u \in Marks
      BY DEF Marks
    <3>2. u <= seg
      BY <1>11, <1>13, <3>1 DEF Prev
    <3> QED
      BY <1>7, <2>4, <3>2
  <2>6. ~(S(s).overwrite /\ S(s).run = area) => addr <= NewAddr(s)
    <3>1. CASE ~S(s).overwrite
      BY <1>9, <3>1
    <3>2. CASE S(s).run # area
      <4>1. ~Placed(s) /\ NewAddr(s) = Aligned(s, addr)
        BY <3>2 DEF Placed, Runs, NewAddr
      <4> DEFINE k == IF Runs(s) THEN S(s).align ELSE S(s).alignLoad
      <4>2. k \in Nat /\ Aligned(s, addr) = IF k = 0 THEN addr ELSE AlignAddr(addr, k)
        BY <1>3, CfgTypes DEF Aligned
      <4> HIDE DEF k
      <4>3. k # 0 => AlignAddr(addr, k) >= addr /\ AlignAddr(addr, k) \in Nat
        BY <1>3, <4>2, AlignUp
      <4> QED
        BY <1>3, <4>1, <4>2, <4>3
    <3> QED
      BY <3>1, <3>2
  <2> QED
    BY <1>9, <1>10, <1>17, <2>1, <2>2, <2>3, <2>5, <2>6 DEF Stride
<1>19. v[s] <= M(area).start + M(area).size
  BY <1>4, <1>5, <1>6, <1>9, <1>15, <1>16 DEF Overflows, Level
<1>20. Trace(area, s, v, y)
  BY <1>1, <1>2, <1>7, <1>12, <1>16, <1>18, <1>19, TraceLonger
<1>21. Trace(area, s, v, y)'
  BY <1>2, <1>3, <1>20, TraceStays
<1>22. Runners(area, s, v)'
  <2> SUFFICES ASSUME NEW u \in Segs, u <= s, InList(u, area), S(u).run = area
               PROVE  segPC'[u] + segSize[u] = v[u]
    BY <1>2 DEF Runners, Segs, S, InList
  <2>1. u \in Marks
    BY DEF Marks
  <2>2. CASE u = s
    BY <1>1, <1>3, <1>16, <2>2 DEF Runs
  <2>3. CASE u # s
    <3>1. u <= seg
      BY <1>11, <1>13, <2>1, <2>3 DEF Prev
    <3>2. segPC'[u] = segPC[u]
      BY <1>1, <1>3, <2>3
    <3> QED
      BY <1>12, <1>16, <2>1, <2>3, <3>1, <3>2 DEF Runners
  <2> QED
    BY <2>2, <2>3
<1>23. M(area)' = M(area) /\ Marks' = Marks /\ Segs' = Segs
  BY <1>2 DEF M, Marks, Segs
<1>24. addr' = v[s] /\ fillLevel'[area] = addr' - M(area).start
  <2>1. fillLevel'[area] = Level(s)
    BY <1>1, <1>3 DEF FileTypes
  <2>2. addr' = n
    BY <1>1
  <2>3. Level(s) = n - M(area).start
    BY <1>6, <1>9, <1>15 DEF Level
  <2> QED
    BY <1>16, <2>1, <2>2, <2>3
<1>25. fileSize'[M(area).file] = y[s]
  BY <1>1, <1>3, <1>12, <1>16, FileOf DEF FileTypes
<1>26. Cursor(v, y)'
  BY <1>1, <1>2, <1>21, <1>22, <1>23, <1>24, <1>25 DEF Cursor
<1>27. ASSUME ~overwrites', NEW u \in Segs, InList(u, area), u <= s PROVE ~S(u).overwrite
  <2>1. u \in Marks
    BY DEF Marks
  <2>2. u <= seg \/ u = s
    BY <1>11, <1>13, <1>27, <2>1 DEF Prev
  <2> QED
    BY <1>1, <1>7, <1>27, <2>2
<1> QED
  BY <1>1, <1>4, <1>11, <1>13, <1>26, <1>27 DEF Listed

\* A segment is placed: the walk over the area is one segment longer.
LEMMA PlacingPlace == LInv /\ LInv' /\ FileTypes /\ PlacingInv /\ PlaceSegment => PlacingInv'
<1> SUFFICES ASSUME LInv, LInv', FileTypes, PlacingInv, PlaceSegment, overflows' = 0
             PROVE  (\E e : Placing(e))'
  BY DEF PlacingInv
<1>1. /\ pc = "place" /\ UNCHANGED <<cfg, pc, next, sections, segSize, segAlign, area, fileOffs>>
      /\ area \in Areas /\ cfg \in Configs
  BY DEF PlaceSegment, segments, LInv, LType, Walk
<1>2. overflows = 0
  <2>1. overflows \in Nat /\ overflows' >= overflows
    <3>1. overflows \in Nat
      BY DEF LInv, LType
    <3> QED
      BY <3>1 DEF PlaceSegment
  <2> QED
    BY <2>1
<1>3. PICK e : Placing(e)
  BY <1>1, <1>2 DEF PlacingInv
<1>4. /\ (\E w, z : Cursor(w, z))' /\ seg' \in Marks /\ Listed(seg', area)
      /\ ~overwrites' => \A u \in Segs : InList(u, area) /\ u <= seg' => ~S(u).overwrite
  BY <1>3, PlaceCursor
<1>5. /\ Marks' = Marks /\ Areas' = Areas /\ Segs' = Segs /\ Files' = Files
      /\ (\A a \in Areas : M(a)' = M(a)) /\ (\A s \in Segs : S(s)' = S(s))
      /\ \A s \in Segs, a \in Areas : InList(s, a)' = InList(s, a)
  BY <1>1 DEF Marks, Areas, Segs, Files, M, S, InList
<1>6. /\ \A a \in Areas : a # area => fillLevel'[a] = fillLevel[a]
      /\ \A s \in Segs : S(s).run # area => segPC'[s] = segPC[s]
      /\ \A f \in Files \cup {0} : f # M(area).file => fileSize'[f] = fileSize[f]
  <2>1. PICK s \in Segs :
         /\ segPC' = IF Runs(s) THEN [segPC EXCEPT ![s] = NewAddr(s)] ELSE segPC
         /\ fillLevel' = [fillLevel EXCEPT ![area] = Level(s)]
         /\ fileSize' = [fileSize EXCEPT ![M(area).file] = @ + Counted(s)]
    BY DEF PlaceSegment
  <2> QED
    BY <2>1 DEF FileTypes, LInv, LType, Runs
<1>7. \A a \in Areas : a \in Nat
  BY <1>1, CfgTypes
<1>8. ASSUME NEW a \in Areas, a < area PROVE Laid(a, e, fillLevel[a])'
  <2> PICK l : l = fillLevel[a]
    OBVIOUS
  <2>1. Laid(a, e, l)
    BY <1>3, <1>8 DEF Placing
  <2>2. /\ fillLevel'[a] = l /\ fileOffs'[a] = fileOffs[a]
        /\ \A s \in Segs : S(s).run = a => segPC'[s] = segPC[s]
    BY <1>1, <1>6, <1>7, <1>8
  <2>3. Laid(a, e, l)'
    BY <1>1, <2>1, <2>2, LaidStays
  <2> QED
    BY <2>2, <2>3
<1>9. ASSUME NEW f \in Files \cup {0}, f # M(area).file PROVE Chain(f, area, e, fileSize[f])'
  <2>1. Chain(f, area, e, fileSize[f])
    BY <1>3, <1>9 DEF Placing
  <2> QED
    BY <1>1, <1>5, <1>6, <1>9, <2>1 DEF Chain
<1>10. Chain(M(area).file, area, e, fileOffs[area])'
  <2>1. Chain(M(area).file, area, e, fileOffs[area])
    BY <1>1, <1>3 DEF Placing
  <2> QED
    BY <1>1, <1>5, <2>1 DEF Chain
<1>11. Listed(seg, area)'
  BY <1>1, <1>4, <1>5 DEF Listed, Marks
<1>12. \A a \in Areas : a > area => fillLevel'[a] = 0
  BY <1>1, <1>3, <1>6, <1>7 DEF Placing
<1>13. e \in [Areas -> Nat]
  BY <1>3 DEF Placing
<1>14. Placing(e)'
  BY <1>1, <1>4, <1>5, <1>8, <1>9, <1>10, <1>11, <1>12, <1>13 DEF Placing
<1> QED
  BY <1>14

\* An area is begun: it starts where its file ends so far.
LEMMA PlacingBegin == LInv /\ FileTypes /\ PlacingInv /\ BeginArea => PlacingInv'
<1> SUFFICES ASSUME LInv, FileTypes, PlacingInv, BeginArea, overflows = 0
             PROVE  (\E e : Placing(e))'
  BY DEF PlacingInv, BeginArea
<1>1. /\ pc = "area" /\ pc' = "place" /\ area <= Len(cfg.areas) /\ area' = area
      /\ UNCHANGED <<cfg, sections, segSize, segPC, fillLevel, fileSize>>
      /\ fileOffs' = [fileOffs EXCEPT ![area] = fileSize[M(area).file]]
      /\ addr' = M(area).start /\ seg' = 0
  BY DEF BeginArea, segments
<1>2. area \in Areas /\ cfg \in Configs
  BY <1>1, CfgTypes DEF LInv, LType, Walk
<1>3. PICK e : Placing(e)
  BY <1>1 DEF PlacingInv
<1>4. /\ Marks' = Marks /\ Areas' = Areas /\ Segs' = Segs /\ Files' = Files
      /\ (\A a \in Areas : M(a)' = M(a)) /\ (\A s \in Segs : S(s)' = S(s))
      /\ \A s \in Segs, a \in Areas : InList(s, a)' = InList(s, a)
  BY <1>1 DEF Marks, Areas, Segs, Files, M, S, InList
<1>5. /\ \A a \in Areas : a \in Nat /\ M(a).start \in Nat /\ M(a).size \in Nat
      /\ \A s \in Segs : s \in Nat \ {0}
  BY <1>2, CfgTypes
<1>6. e \in [Areas -> Nat] /\ M(area).file \in Files \cup {0}
  BY <1>2, <1>3, FileOf DEF Placing
<1> PICK c : c = fileSize[M(area).file]
  OBVIOUS
<1>7. /\ Chain(M(area).file, area, e, c) /\ c \in Nat
      /\ \A f \in Files \cup {0} : Chain(f, area, e, fileSize[f])
  <2>1. \A f \in Files \cup {0} : Chain(f, area, e, fileSize[f])
    BY <1>1, <1>3 DEF Placing
  <2>2. Chain(M(area).file, area, e, c)
    BY <1>6, <2>1
  <2> QED
    BY <1>6, <2>1, <2>2, ChainNat
<1>8. fileOffs'[area] = c /\ \A a \in Areas : a # area => fileOffs'[a] = fileOffs[a]
  BY <1>1, <1>2 DEF FileTypes
<1>9. ASSUME NEW a \in Areas, a < area PROVE Laid(a, e, fillLevel[a])'
  <2> PICK l : l = fillLevel[a]
    OBVIOUS
  <2>1. Laid(a, e, l)
    BY <1>3, <1>9 DEF Placing
  <2>2. fillLevel'[a] = l /\ fileOffs'[a] = fileOffs[a]
    BY <1>1, <1>5, <1>8, <1>9, <1>2
  <2>3. Laid(a, e, l)'
    BY <1>1, <2>1, <2>2, LaidStays
  <2> QED
    BY <2>2, <2>3
<1>10. ASSUME NEW f \in Files \cup {0} PROVE Chain(f, area, e, fileSize[f])'
  <2>1. Chain(f, area, e, fileSize[f])
    BY <1>7
  <2> QED
    BY <1>1, <1>4, <2>1 DEF Chain
<1>11. Chain(M(area).file, area, e, fileOffs[area])'
  BY <1>1, <1>4, <1>7, <1>8, <1>2 DEF Chain
<1>20. PICK w, z : w = [m \in Marks |-> M(area).start] /\ z = [m \in Marks |-> c]
  OBVIOUS
<1>12. Cursor(w, z)'
  <2>1. 0 \in Marks /\ w \in [Marks -> Nat] /\ z \in [Marks -> Nat] /\ w[0] = M(area).start /\ z[0] = c
    BY <1>2, <1>5, <1>7, <1>20 DEF Marks
  <2>2. \A s \in Segs : ~(s <= 0)
    BY <1>5
  <2>3. Trace(area, 0, w, z)'
    BY <1>1, <1>2, <1>4, <1>5, <1>7, <1>8, <2>1, <2>2 DEF Trace
  <2>4. Runners(area, 0, w)'
    BY <1>4, <2>2 DEF Runners
  <2>5. fillLevel[area] = 0
    BY <1>1, <1>2, <1>3 DEF Placing
  <2>6. M(area)' = M(area)
    BY <1>1, <1>2, <1>4
  <2>7. addr' = w[0] /\ fillLevel'[area] = addr' - M(area).start /\ fileSize'[M(area).file] = z[0]
    BY <1>1, <1>2, <1>5, <2>1, <2>5
  <2> QED
    BY <1>1, <2>3, <2>4, <2>6, <2>7 DEF Cursor
<1>13. \A a \in Areas : a > area => fillLevel'[a] = 0
  BY <1>1, <1>3 DEF Placing
<1>14. seg' \in Marks' /\ Listed(seg, area)' /\ \A u \in Segs : ~(InList(u, area)' /\ u <= seg')
  BY <1>1, <1>4, <1>5 DEF Listed, Marks
<1>15. Placing(e)'
  BY <1>1, <1>2, <1>4, <1>6, <1>9, <1>10, <1>11, <1>12, <1>13, <1>14 DEF Placing
<1> QED
  BY <1>15

\* An area is ended: with its fill it is laid out.
LEMMA PlacingEnd == LInv /\ FileTypes /\ PlacingInv /\ EndArea => PlacingInv'
<1> SUFFICES ASSUME LInv, FileTypes, PlacingInv, EndArea, overflows = 0
             PROVE  (\E e : Placing(e))'
  BY DEF PlacingInv, EndArea
<1>1. /\ pc = "place" /\ pc' = "area" /\ area' = area + 1 /\ ListDone
      /\ UNCHANGED <<cfg, sections, segSize, segPC, fillLevel, fileOffs>>
      /\ fileSize' = IF ~overflow[area] /\ M(area).fill
                     THEN [fileSize EXCEPT ![M(area).file] = @ + M(area).size - fillLevel[area]]
                     ELSE fileSize
  BY DEF EndArea, segments
<1>2. area \in Areas /\ cfg \in Configs /\ ~overflow[area]
  BY <1>1 DEF LInv, Flagged, Walk, LType
<1>3. PICK e : Placing(e)
  BY <1>1 DEF PlacingInv
<1>4. /\ Areas' = Areas /\ Files' = Files /\ \A a \in Areas : M(a)' = M(a)
  BY <1>1 DEF Areas, Files, M
<1>5. /\ \A a \in Areas : a \in Nat /\ M(a).start \in Nat /\ M(a).size \in Nat
      /\ M(area).file \in Files \cup {0}
  BY <1>2, CfgTypes, FileOf
<1>6. /\ e \in [Areas -> Nat] /\ seg \in Marks /\ Listed(seg, area)
      /\ Chain(M(area).file, area, e, fileOffs[area])
  BY <1>1, <1>3 DEF Placing
<1>7. PICK w, z : Cursor(w, z)
  BY <1>1, <1>3 DEF Placing
<1>8. /\ Trace(area, seg, w, z) /\ Runners(area, seg, w) /\ w[seg] \in Nat /\ z[seg] \in Nat
      /\ M(area).start <= w[seg] /\ w[seg] <= M(area).start + M(area).size
      /\ fillLevel[area] = w[seg] - M(area).start /\ fileSize[M(area).file] = z[seg]
  BY <1>6, <1>7 DEF Cursor, Trace
<1> PICK l : l = fillLevel[area]
  OBVIOUS
<1> PICK n : n = z[seg] + IF M(area).fill THEN M(area).size - l ELSE 0
  OBVIOUS
<1>9. n \in Nat
  BY <1>2, <1>5, <1>8
<1>10. fileSize'[M(area).file] = n /\ \A f \in Files \cup {0} : f # M(area).file => fileSize'[f] = fileSize[f]
  BY <1>1, <1>2, <1>5, <1>8 DEF FileTypes
<1> DEFINE g == [e EXCEPT ![area] = n]
<1>11. g \in [Areas -> Nat] /\ g[area] = n /\ \A a \in Areas : a < area => g[a] = e[a]
  BY <1>2, <1>5, <1>6, <1>9
<1> HIDE DEF g
<1>20. PICK h : h = g
  OBVIOUS
<1>12. ASSUME NEW a \in Areas, a <= area PROVE Laid(a, h, fillLevel[a])'
  <2> PICK k : k = fillLevel[a]
    OBVIOUS
  <2>1. CASE a < area
    <3>1. Laid(a, e, k)
      BY <1>3, <2>1 DEF Placing
    <3>2. Chain(M(a).file, a, h, fileOffs[a])
      <4>1. \A c \in Areas : c < a => h[c] = e[c]
        BY <1>2, <1>5, <1>11, <1>20, <2>1
      <4> QED
        BY <3>1, <4>1, ChainSame DEF Laid
    <3> QED
      <4>1. h[a] = e[a]
        BY <1>11, <1>20, <2>1
      <4>2. Laid(a, h, k)
        BY <3>1, <3>2, <4>1 DEF Laid
      <4>3. Laid(a, h, k)'
        BY <1>1, <4>2, LaidStays
      <4> QED
        BY <1>1, <4>3
  <2>2. CASE a = area
    <3>1. LastIn(area, seg)
      BY <1>1, <1>2, <1>6, DoneIsLast
    <3>2. Walked(area, w, z, n, l)
      BY <1>6, <1>8, <3>1 DEF Walked
    <3>3. Chain(M(area).file, area, h, fileOffs[area])
      BY <1>6, <1>11, <1>20, ChainSame
    <3>4. Laid(area, h, l)
      BY <1>11, <1>20, <3>2, <3>3 DEF Laid
    <3> PICK b : b = area
      OBVIOUS
    <3>5. Laid(b, h, l)'
      BY <1>1, <1>2, <3>4, LaidStays
    <3> QED
      BY <1>1, <2>2, <3>5
  <2> QED
    BY <1>2, <1>5, <1>12, <2>1, <2>2
<1>13. ASSUME NEW f \in Files \cup {0} PROVE Chain(f, area, h, fileSize[f])'
  <2>1. CASE f = M(area).file
    <3>1. \E c \in Areas : /\ c < area + 1 /\ M(c).file = f /\ fileSize'[f] = h[c]
                           /\ \A d \in Areas : d < area + 1 /\ M(d).file = f => d <= c
      BY <1>2, <1>5, <1>10, <1>11, <1>20, <2>1
    <3> QED
      BY <1>1, <1>4, <3>1 DEF Chain
  <2>2. CASE f # M(area).file
    <3>1. Chain(f, area, e, fileSize[f])
      BY <1>3, <2>2 DEF Placing
    <3>2. Chain(f, area, h, fileSize[f])
      BY <1>11, <1>20, <3>1, ChainSame
    <3>3. \A c \in Areas : c < area + 1 /\ M(c).file = f => c < area
      BY <1>2, <1>5, <2>2
    <3>4. \A c \in Areas : c < area => c < area + 1
      BY <1>2, <1>5
    <3>5. Chain(f, area + 1, h, fileSize[f])
      BY <3>2, <3>3, <3>4 DEF Chain
    <3> QED
      BY <1>1, <1>4, <1>10, <2>2, <3>5 DEF Chain
  <2> QED
    BY <2>1, <2>2
<1>14. \A a \in Areas : a >= area + 1 => fillLevel'[a] = 0
  BY <1>1, <1>2, <1>3, <1>5 DEF Placing
<1>15. \A a \in Areas : a < area + 1 => a <= area
  BY <1>2, <1>5
<1>16. \A a \in Areas : a < area' => Laid(a, h, fillLevel[a])'
  BY <1>1, <1>12, <1>15
<1>17. \A a \in Areas : a > area' \/ a = area' => fillLevel'[a] = 0
  BY <1>1, <1>2, <1>5, <1>14
<1>18. Placing(h)'
  BY <1>1, <1>4, <1>11, <1>13, <1>16, <1>17, <1>20 DEF Placing
<1> QED
  BY <1>18

\* Before the first area every file is empty.
LEMMA PlacingStart == LInv /\ FileTypes /\ EndOfInput => PlacingInv'
<1> SUFFICES ASSUME LInv, FileTypes, EndOfInput PROVE (\E e : Placing(e))'
  BY DEF PlacingInv
<1>1. pc = "read" /\ pc' = "area" /\ area' = 1 /\ UNCHANGED <<cfg, fillLevel, fileSize>> /\ cfg \in Configs
  BY DEF EndOfInput, placement, LInv, LType
<1>2. Areas' = Areas /\ Files' = Files /\ \A a \in Areas : M(a)' = M(a)
  BY <1>1 DEF Areas, Files, M
<1>3. \A a \in Areas : a \in Nat \ {0}
  BY <1>1, CfgTypes
<1>4. PICK e : e = [a \in Areas |-> 0]
  OBVIOUS
<1>5. /\ \A a \in Areas : fillLevel'[a] = 0 /\ ~(a < area')
      /\ \A f \in Files \cup {0} : fileSize'[f] = 0
  BY <1>1, <1>3 DEF FileTypes
<1>6. \A f \in Files \cup {0} : Chain(f, area, e, fileSize[f])'
  BY <1>1, <1>2, <1>5 DEF Chain
<1>7. Placing(e)'
  BY <1>1, <1>2, <1>4, <1>5, <1>6 DEF Placing
<1> QED
  BY <1>7

\* CfgProcess keeps its invariant in every step.
LEMMA PlacingStep == LInv /\ LInv' /\ FileTypes /\ PlacingInv /\ [LayoutNext]_layoutVars => PlacingInv'
<1> SUFFICES ASSUME LInv, LInv', FileTypes, PlacingInv, [LayoutNext]_layoutVars PROVE PlacingInv'
  OBVIOUS
<1>1. CASE EndOfInput
  BY <1>1, PlacingStart
<1>2. CASE BeginArea
  BY <1>2, PlacingBegin
<1>3. CASE PlaceSegment
  BY <1>3, PlacingPlace
<1>4. CASE EndArea
  BY <1>4, PlacingEnd
<1>5. CASE \/ ReadSection \/ ReadTooAligned \/ PlaceError \/ EndOfPlacing \/ SkipArea \/ BeginWriteMem
           \/ WriteSegment \/ EndWriteMem \/ EndOfWriting \/ CheckSegments
  <2>1. pc' \notin {"area", "place"}
    BY <1>5 DEF ReadSection, ReadTooAligned, PlaceError, EndOfPlacing, SkipArea, BeginWriteMem,
                WriteSegment, EndWriteMem, EndOfWriting, CheckSegments
  <2> QED
    BY <2>1 DEF PlacingInv
<1>6. CASE UNCHANGED layoutVars
  <2>1. UNCHANGED <<cfg, pc, sections, segSize, area, seg, addr, overwrites, segPC, fillLevel, fileOffs,
                    fileSize, overflows>>
    BY <1>6 DEF layoutVars, segments, placement
  <2> SUFFICES ASSUME pc \in {"area", "place"}, overflows = 0 PROVE (\E e : Placing(e))'
    BY <2>1 DEF PlacingInv
  <2>2. PICK e : Placing(e)
    BY DEF PlacingInv
  <2>3. /\ Marks' = Marks /\ Areas' = Areas /\ Segs' = Segs /\ Files' = Files
        /\ (\A a \in Areas : M(a)' = M(a)) /\ (\A s \in Segs : S(s)' = S(s))
        /\ \A s \in Segs, a \in Areas : InList(s, a)' = InList(s, a)
    BY <2>1 DEF Marks, Areas, Segs, Files, M, S, InList
  <2>4. ASSUME NEW a \in Areas, a < area PROVE Laid(a, e, fillLevel[a])'
    <3> PICK l : l = fillLevel[a]
      OBVIOUS
    <3>1. Laid(a, e, l)'
      BY <2>1, <2>2, <2>4, LaidStays DEF Placing
    <3> QED
      BY <2>1, <3>1
  <2>5. pc = "place" => area \in Areas /\ Listed(seg, area)' = Listed(seg, area)
    BY <2>1, <2>3 DEF LInv, Walk, Listed, InList, Segs, S
  <2>6. ASSUME pc = "place", NEW w, NEW z, Cursor(w, z) PROVE Cursor(w, z)'
    <3> PICK m : m = seg
      OBVIOUS
    <3>1. area \in Areas /\ Trace(area, m, w, z)
      BY <2>5, <2>6 DEF Cursor
    <3> PICK a : a = area
      OBVIOUS
    <3>2. Trace(a, m, w, z)'
      BY <2>1, <3>1, TraceStays
    <3> QED
      BY <2>1, <2>3, <2>6, <3>1, <3>2 DEF Cursor, Runners
  <2> QED
    BY <2>1, <2>2, <2>3, <2>4, <2>5, <2>6 DEF Placing, Chain
<1> QED
  BY <1>1, <1>2, <1>3, <1>4, <1>5, <1>6 DEF LayoutNext

\* The file types hold at the begin.
LEMMA FileTypesInit == Init => FileTypes
  BY DEF Init, FileTypes

\* The file types are kept: sizes and levels are numbers, and nothing is written early.
LEMMA FileTypesStep == LInv /\ FileTypes /\ [LayoutNext]_layoutVars => FileTypes'
<1> SUFFICES ASSUME LInv, FileTypes, [LayoutNext]_layoutVars PROVE FileTypes'
  OBVIOUS
<1>1. /\ cfg \in Configs /\ (pc = "place" => area \in Areas /\ addr \in Nat /\ M(area).start <= addr)
      /\ segSize \in [Segs -> Nat]
  BY DEF LInv, LType, Walk
<1>2. \A a \in Areas : M(a).start \in Nat /\ M(a).size \in Nat /\ M(a).file \in Files \cup {0}
  BY <1>1, CfgTypes, FileOf
<1>3. fileSize \in [Files \cup {0} -> Int] /\ fillLevel \in [Areas -> Int] /\ fileOffs \in [Areas -> Int]
  BY DEF FileTypes
<1>4. cfg' = cfg => Areas' = Areas /\ Files' = Files /\ Segs' = Segs
  BY DEF Areas, Files, M, Segs
<1>5. CASE ReadSection \/ ReadTooAligned \/ EndOfInput \/ PlaceError \/ EndOfPlacing
  BY <1>4, <1>5 DEF ReadSection, ReadTooAligned, EndOfInput, PlaceError, EndOfPlacing, FileTypes,
                    placement, writing
<1>6. CASE SkipArea \/ BeginWriteMem \/ WriteSegment \/ EndOfWriting \/ CheckSegments
  BY <1>4, <1>6 DEF SkipArea, BeginWriteMem, WriteSegment, EndOfWriting, CheckSegments, FileTypes, placement
<1>7. CASE UNCHANGED layoutVars
  BY <1>4, <1>7 DEF layoutVars, placement, writing, FileTypes
<1>8. CASE BeginArea
  <2>1. pc = "area" /\ area \in Areas
    BY <1>1, <1>8, CfgTypes DEF BeginArea, LInv, LType, Walk
  <2>2. /\ fileOffs' = [fileOffs EXCEPT ![area] = fileSize[M(area).file]] /\ pc' = "place"
        /\ UNCHANGED <<cfg, fileSize, fillLevel, writing>>
    BY <1>8 DEF BeginArea
  <2>3. fileOffs' \in [Areas -> Int]
    BY <1>2, <1>3, <2>1, <2>2
  <2> QED
    BY <1>4, <2>1, <2>2, <2>3 DEF FileTypes, writing
<1>9. CASE PlaceSegment
  <2>1. PICK s \in Segs : /\ ~BadOverwrite(s)
                          /\ fillLevel' = [fillLevel EXCEPT ![area] = Level(s)]
                          /\ fileSize' = [fileSize EXCEPT ![M(area).file] = @ + Counted(s)]
    BY <1>9 DEF PlaceSegment
  <2>2. pc = "place" /\ UNCHANGED <<cfg, pc, fileOffs, writing>>
    BY <1>9 DEF PlaceSegment
  <2>3. NewAddr(s) \in Nat /\ segSize[s] \in Nat /\ area \in Areas
    BY <1>1, <2>1, <2>2, NewAddrBounds DEF LInv
  <2>4. Level(s) \in Int /\ Counted(s) \in Int
    BY <1>1, <1>2, <2>2, <2>3 DEF Level, Counted
  <2>5. fillLevel' \in [Areas -> Int] /\ fileSize' \in [Files \cup {0} -> Int]
    BY <1>2, <1>3, <2>1, <2>3, <2>4
  <2> QED
    BY <1>4, <2>2, <2>5 DEF FileTypes, writing
<1>10. CASE EndArea
  <2>1. /\ pc = "place" /\ pc' = "area" /\ UNCHANGED <<cfg, fillLevel, fileOffs, writing>>
        /\ fileSize' = IF ~overflow[area] /\ M(area).fill
                       THEN [fileSize EXCEPT ![M(area).file] = @ + M(area).size - fillLevel[area]]
                       ELSE fileSize
    BY <1>10 DEF EndArea
  <2>2. fileSize' \in [Files \cup {0} -> Int]
    BY <1>1, <1>2, <1>3, <2>1
  <2> QED
    BY <1>4, <2>1, <2>2 DEF FileTypes, writing
<1>11. CASE EndWriteMem
  <2>1. /\ pc = "write" /\ pc' = "file" /\ UNCHANGED <<cfg, fileOffs, fileSize>>
        /\ \E n \in {0, M(area).size - fillLevel[area]} : fillLevel' = [fillLevel EXCEPT ![area] = @ + n]
    BY <1>11 DEF EndWriteMem
  <2>2. fillLevel' \in [Areas -> Int]
    <3>1. PICK n \in {0, M(area).size - fillLevel[area]} : fillLevel' = [fillLevel EXCEPT ![area] = @ + n]
      BY <2>1
    <3>2. CASE area \in Areas
      <4>1. fillLevel[area] \in Int /\ n \in Int
        BY <1>2, <1>3, <3>2
      <4>2. fillLevel[area] + n \in Int
        BY <4>1
      <4> QED
        BY <1>3, <3>1, <3>2, <4>2
    <3>3. CASE area \notin Areas
      BY <1>3, <3>1, <3>3
    <3> QED
      BY <3>2, <3>3
  <2> QED
    BY <1>3, <1>4, <2>1, <2>2 DEF FileTypes
<1> QED
  BY <1>5, <1>6, <1>7, <1>8, <1>9, <1>10, <1>11 DEF LayoutNext

-----------------------------------------------------------------------------
(* The file as BinWriteMem writes it.                                      *)

\* The walk over area a has ended.
Past(a) == area # 0 /\ (Before(a, area) \/ (a = area /\ pc # "write"))

\* The walk over area a has passed segment s.
Seen(s, a) == a \in Areas /\ InList(s, a) /\ (Past(a) \/ (a = area /\ pc = "write" /\ s <= seg))

\* The initialized data of s have been written.
Sends(s, a) == S(s).load = a /\ ~S(s).bss
Sent(s)     == Seen(s, S(s).load) /\ ~S(s).bss

\* Up to segment m of area a the second walk writes what the first one counts;
\* it leaves nothing out; nothing is written over.
Told(a, m)  == \A u \in Segs : InList(u, a) /\ u <= m => ~S(u).overwrite /\ (M(a).fill => S(u).load = a)
Going(a, m) == \A u \in Segs : InList(u, a) /\ u <= m => ~S(u).overwrite /\ (M(a).fill \/ Sends(u, a))
Calm(a, m)  == /\ \A b \in Areas : M(b).file = M(a).file /\ b < a => ~Overwritten(b)
               /\ \A u \in Segs : InList(u, a) /\ u <= m => ~S(u).overwrite

\* What the first walk has laid down, for the second one.
Plan(e, l) ==
    /\ overflows = 0 /\ e \in [Areas -> Nat] /\ l \in [Areas -> Int]
    /\ \A a \in Areas : Laid(a, e, l[a]) /\ (~Past(a) => fillLevel[a] = l[a])
    /\ \A f \in Files : Chain(f, Len(cfg.areas) + 1, e, fileSize[f])

Written ==
    /\ area \in Areas \cup {0} /\ pos \in Nat
    /\ out \in [Files -> Seq(Byte)] /\ outputOffs \in [Segs -> Nat]
    /\ pc = "write" => M(area).file # 0 /\ area \in Areas /\ seg \in Marks /\ Listed(seg, area)
    /\ pc \in {"check", "linked", "missing"} => \A a \in Areas : Past(a)
    /\ \A s \in dumped : s \in Segs /\ Seen(s, S(s).load)

\* The position in the file, behind a segment and behind an area.
At(w, z) ==
    /\ addr = w[seg]
    /\ Told(area, seg) => pos = z[seg]
    /\ Going(area, seg) => pos - fileOffs[area] = w[seg] - M(area).start
    /\ Calm(area, seg) => pos = Len(out[M(area).file])

Position(e, l) ==
    /\ pc = "write" => \E w, z : Walked(area, w, z, e[area], l[area]) /\ At(w, z)
    /\ pc = "file" /\ area # 0 /\ M(area).file # 0 =>
          /\ ~Unpredicted(area) => pos = e[area]
          /\ (\A b \in Areas : M(b).file = M(area).file /\ b <= area => ~Overwritten(b))
             => pos = Len(out[M(area).file])

Untouched == \A f \in Files : (\A a \in Areas : M(a).file = f => ~Past(a) /\ a # area) => out[f] = <<>>

Lengths(e) ==
    \A a \in Areas :
        /\ Past(a) /\ M(a).file # 0
        /\ \A b \in Areas : M(b).file = M(a).file => b <= a /\ ~Unpredicted(b)
        => Len(out[M(a).file]) = e[a]

InPlace ==
    \A s \in Segs :
        LET a == S(s).load
        IN  Sent(s) /\ M(a).file # 0 /\ S(s).run = a /\ (S(s).overwrite \/ Going(a, s))
            => outputOffs[s] - fileOffs[a] = segPC[s] - M(a).start

\* The bytes of the segments are in the file, and no other ones.
Bytes ==
    \A f \in Files : (\A a \in Areas : M(a).file = f => ~Overwritten(a)) =>
        /\ \A s \in Segs : Sent(s) /\ M(S(s).load).file = f =>
              \A i \in 1 .. segSize[s] : /\ outputOffs[s] + i <= Len(out[f])
                                         /\ out[f][outputOffs[s] + i] = SegBytes(s)[i]
        /\ \A i \in 1 .. Len(out[f]) : out[f][i] # Fill =>
              \E s \in Segs : /\ Sent(s) /\ M(S(s).load).file = f
                              /\ out[f][i] = [seg |-> s, offs |-> i - 1 - outputOffs[s]]

Writing(e, l) == /\ Plan(e, l) /\ Written /\ Position(e, l) /\ Lengths(e)
                 /\ Untouched /\ InPlace /\ Bytes

WritingInv == pc \in {"file", "write", "check", "linked", "missing"} => \E e, l : Writing(e, l)

\* What is in front of the next area is behind the present one.
LEMMA NextFollows ==
    ASSUME cfg \in Configs, area \in Areas \cup {0}, NEW b \in Areas, NextArea(b)
    PROVE  /\ area # 0 => Before(area, b)
           /\ \A a \in Areas : Before(a, b) <=> area # 0 /\ (Before(a, area) \/ a = area)
<1>1. area # 0 => Before(area, b)
  BY DEF NextArea
<1>2. ASSUME NEW a \in Areas, Before(a, b) PROVE area # 0 /\ (Before(a, area) \/ a = area)
  <2>1. ~(area # 0 => Before(area, a))
    <3>1. (area # 0 => Before(area, a)) => b = a \/ Before(b, a)
      BY DEF NextArea
    <3> QED
      BY <1>2, <3>1, BeforeOrders
  <2>2. area \in Areas
    BY <2>1
  <2> QED
    BY <2>1, <2>2, BeforeOrders
<1>3. ASSUME NEW a \in Areas, area # 0, Before(a, area) \/ a = area PROVE Before(a, b)
  <2>1. area \in Areas /\ Before(area, b)
    BY <1>1, <1>3
  <2> QED
    BY <1>3, <2>1, BeforeOrders
<1> QED
  BY <1>1, <1>2, <1>3

\* Nothing of a file is behind the next area, and if the present one is of
\* another file, nothing of the file is in front of it.
LEMMA NextInFile ==
    ASSUME cfg \in Configs, area \in Areas \cup {0}, NEW b \in Areas, NextArea(b),
           NEW c \in Areas, M(c).file = M(b).file, c < b
    PROVE  area # 0 /\ M(area).file = M(b).file /\ c <= area /\ area < b
<1>1. \A h \in Areas : h \in Nat
  BY CfgTypes
<1>2. Before(c, b)
  BY BeforeOrders
<1>3. area # 0 /\ (Before(c, area) \/ c = area) /\ Before(area, b) /\ area \in Areas
  BY <1>2, NextFollows
<1>4. M(area).file = M(b).file
  <2>1. Before(c, area) /\ M(c).file # M(area).file /\ M(b).file = M(c).file => Before(b, area)
    BY <1>3, BeforeOrders
  <2>2. ~(Before(b, area) /\ Before(area, b))
    BY <1>3, BeforeOrders
  <2> QED
    BY <1>3, <2>1, <2>2
<1>5. (Before(c, area) <=> c < area) /\ (Before(area, b) <=> area < b)
  BY <1>3, <1>4, BeforeOrders
<1> QED
  BY <1>1, <1>3, <1>4, <1>5

\* The second walk changes nothing the first one has laid down.
LEMMA WalkedStays ==
    ASSUME NEW a \in Areas, NEW w, NEW z, NEW e, NEW l, Walked(a, w, z, e, l),
           UNCHANGED <<cfg, sections, segSize, segPC, fileOffs>>
    PROVE  Walked(a, w, z, e, l)'
<1>1. PICK t \in Marks : /\ LastIn(a, t) /\ Trace(a, t, w, z) /\ Runners(a, t, w)
                         /\ l = w[t] - M(a).start
                         /\ e = z[t] + IF M(a).fill THEN M(a).size - l ELSE 0
  BY DEF Walked
<1>2. Trace(a, t, w, z)'
  BY <1>1, TraceStays
<1>3. LastIn(a, t)' /\ Runners(a, t, w)' /\ Marks' = Marks /\ M(a)' = M(a)
  BY <1>1 DEF LastIn, Listed, InList, Segs, S, Runners, Marks, M
<1> QED
  BY <1>1, <1>2, <1>3 DEF Walked

\* The plan stays while nothing is placed.
LEMMA PlanStays ==
    ASSUME NEW e, NEW l, Plan(e, l),
           UNCHANGED <<cfg, sections, segSize, segPC, fileOffs, fileSize, overflows>>,
           \A a \in Areas : ~Past(a)' => ~Past(a) /\ fillLevel'[a] = fillLevel[a]
    PROVE  Plan(e, l)'
<1>1. Areas' = Areas /\ Files' = Files /\ \A a \in Areas : M(a)' = M(a)
  BY DEF Areas, Files, M
<1>2. ASSUME NEW a \in Areas PROVE Laid(a, e, l[a])' /\ (~Past(a)' => fillLevel'[a] = l[a])
  <2> PICK k : k = l[a]
    OBVIOUS
  <2>1. Laid(a, e, k)'
    BY LaidStays DEF Plan
  <2> QED
    BY <2>1 DEF Plan
<1>3. \A f \in Files : Chain(f, Len(cfg.areas) + 1, e, fileSize[f])'
  BY <1>1 DEF Plan, Chain
<1> QED
  BY <1>1, <1>2, <1>3 DEF Plan

\* What does not change while the files are written.
LEMMA SameLists ==
    ASSUME UNCHANGED <<cfg, sections, segSize>>
    PROVE  /\ Marks' = Marks /\ Areas' = Areas /\ Segs' = Segs /\ Files' = Files
           /\ (\A a \in Areas : M(a)' = M(a)) /\ (\A s \in Segs : S(s)' = S(s))
           /\ \A s \in Segs, a \in Areas : InList(s, a)' = InList(s, a)
           /\ \A a, b \in Areas : Before(a, b)' = Before(a, b)
           /\ \A a \in Areas : Unpredicted(a)' = Unpredicted(a) /\ Overwritten(a)' = Overwritten(a)
           /\ \A t \in Marks, a \in Areas : Listed(t, a)' = Listed(t, a)
           /\ \A s \in Segs : SegBytes(s)' = SegBytes(s)
<1>1. /\ Marks' = Marks /\ Areas' = Areas /\ Segs' = Segs /\ Files' = Files
      /\ (\A a \in Areas : M(a)' = M(a)) /\ (\A s \in Segs : S(s)' = S(s))
  BY DEF Marks, Areas, Segs, Files, M, S
<1>2. \A s \in Segs, a \in Areas : InList(s, a)' = InList(s, a)
  BY <1>1 DEF InList
<1>3. \A a, b \in Areas : Before(a, b)' = Before(a, b)
  BY DEF Before, Areas, M
<1>4. \A a \in Areas : Unpredicted(a)' = Unpredicted(a) /\ Overwritten(a)' = Overwritten(a)
  BY <1>1, <1>2 DEF Unpredicted, Overwritten
<1>5. \A t \in Marks, a \in Areas : Listed(t, a)' = Listed(t, a)
  BY <1>1, <1>2 DEF Listed, Marks
<1>6. \A s \in Segs : SegBytes(s)' = SegBytes(s)
  BY DEF SegBytes
<1> QED
  BY <1>1, <1>2, <1>3, <1>4, <1>5, <1>6

\* As long as no byte is written and no further segment counts as written, the
\* bytes and the places of the segments are what they were.
LEMMA NothingSent ==
    ASSUME LInv, UNCHANGED <<cfg, sections, segSize, segPC, fileOffs, out, outputOffs>>, InPlace, Bytes,
           \A s \in Segs : S(s).load \in Areas /\ M(S(s).load).file # 0 => Sent(s)' = Sent(s)
    PROVE  InPlace' /\ Bytes'
<1>1. /\ Marks' = Marks /\ Areas' = Areas /\ Segs' = Segs /\ Files' = Files
      /\ (\A a \in Areas : M(a)' = M(a)) /\ (\A s \in Segs : S(s)' = S(s))
      /\ \A s \in Segs, a \in Areas : InList(s, a)' = InList(s, a)
      /\ \A a \in Areas : Overwritten(a)' = Overwritten(a)
      /\ \A s \in Segs : SegBytes(s)' = SegBytes(s)
  BY SameLists
<1>2. \A s \in Segs : (Sent(s) => S(s).load \in Areas) /\ (Sent(s)' => S(s).load \in Areas)
  BY <1>1 DEF Sent, Seen
<1>3. \A a \in Areas, m \in Segs : Going(a, m)' = Going(a, m)
  BY <1>1 DEF Going, Sends
<1>4. InPlace'
  <2> SUFFICES ASSUME NEW s \in Segs, Sent(s)', M(S(s).load).file # 0, S(s).run = S(s).load,
                      S(s).overwrite \/ Going(S(s).load, s)
               PROVE  outputOffs[s] - fileOffs[S(s).load] = segPC[s] - M(S(s).load).start
    BY <1>1, <1>2, <1>3 DEF InPlace
  <2>1. Sent(s)
    BY <1>2
  <2> QED
    BY <2>1 DEF InPlace
<1>5. 0 \notin Files
  BY DEF Files
<1>6. Bytes'
  <2> SUFFICES ASSUME NEW f \in Files, \A a \in Areas : M(a).file = f => ~Overwritten(a)
               PROVE  /\ \A s \in Segs : Sent(s)' /\ M(S(s).load).file = f =>
                            \A i \in 1 .. segSize[s] : /\ outputOffs[s] + i <= Len(out[f])
                                                       /\ out[f][outputOffs[s] + i] = SegBytes(s)[i]
                      /\ \A i \in 1 .. Len(out[f]) : out[f][i] # Fill =>
                            \E s \in Segs : /\ Sent(s)' /\ M(S(s).load).file = f
                                            /\ out[f][i] = [seg |-> s, offs |-> i - 1 - outputOffs[s]]
    BY <1>1, <1>2 DEF Bytes
  <2>1. \A s \in Segs : Sent(s)' /\ M(S(s).load).file = f => Sent(s)
    BY <1>2, <1>5
  <2>2. \A s \in Segs : Sent(s) /\ M(S(s).load).file = f => Sent(s)'
    BY <1>2, <1>5
  <2> QED
    BY <2>1, <2>2 DEF Bytes
<1> QED
  BY <1>4, <1>6

\* The second walk begins with what the first one has laid down.
LEMMA WritingStart == LInv /\ FileTypes /\ PlacingInv /\ EndOfPlacing => WritingInv'
<1> SUFFICES ASSUME LInv, FileTypes, PlacingInv, EndOfPlacing, overflows = 0
             PROVE  (\E e, l : Writing(e, l))'
  BY DEF EndOfPlacing, WritingInv, placement
<1>1. /\ pc = "area" /\ area > Len(cfg.areas) /\ pc' = "file" /\ area' = 0
      /\ UNCHANGED <<cfg, sections, segSize, segPC, fillLevel, fileOffs, fileSize, overflows,
                     out, pos, outputOffs, dumped>>
  BY DEF EndOfPlacing, placement, segments, writing
<1>2. PICK e : Placing(e)
  BY <1>1 DEF PlacingInv
<1>3. PICK l : l = fillLevel
  OBVIOUS
<1>4. /\ cfg \in Configs /\ area \in Nat /\ Len(cfg.areas) \in Nat /\ Areas = 1 .. Len(cfg.areas)
      /\ \A a \in Areas : a \in Nat \ {0}
  BY CfgTypes DEF LInv, LType
<1>5. /\ Marks' = Marks /\ Areas' = Areas /\ Segs' = Segs /\ Files' = Files
      /\ (\A a \in Areas : M(a)' = M(a)) /\ \A s \in Segs : S(s)' = S(s)
  BY <1>1 DEF Marks, Areas, Segs, Files, M, S
<1>6. \A a \in Areas : ~Past(a)' /\ a < area
  BY <1>1, <1>4 DEF Past
<1>7. e \in [Areas -> Nat] /\ l \in [Areas -> Int]
  BY <1>2, <1>3 DEF Placing, FileTypes
<1>8. ASSUME NEW a \in Areas PROVE Laid(a, e, l[a])'
  <2> PICK k : k = l[a]
    OBVIOUS
  <2>1. Laid(a, e, k)
    BY <1>2, <1>3, <1>6 DEF Placing
  <2>2. Laid(a, e, k)'
    BY <1>1, <2>1, LaidStays
  <2> QED
    BY <2>2
<1>9. \A f \in Files : Chain(f, Len(cfg.areas) + 1, e, fileSize[f])'
  <2> SUFFICES ASSUME NEW f \in Files PROVE Chain(f, Len(cfg.areas) + 1, e, fileSize[f])
    BY <1>1, <1>5 DEF Chain
  <2>1. Chain(f, area, e, fileSize[f])
    BY <1>1, <1>2 DEF Placing
  <2>2. \A a \in Areas : a < area /\ a < Len(cfg.areas) + 1
    BY <1>4, <1>6
  <2> QED
    BY <2>1, <2>2 DEF Chain
<1>10. Plan(e, l)'
  BY <1>1, <1>3, <1>5, <1>6, <1>7, <1>8, <1>9 DEF Plan
<1>11. dumped = {} /\ out = [f \in Files |-> <<>>] /\ pos = 0 /\ outputOffs = [s \in Segs |-> 0]
  BY <1>1 DEF FileTypes
<1>12. \A s \in Segs : ~Sent(s)'
  BY <1>1, <1>4, <1>6, <1>5 DEF Sent, Seen
<1>13. Written'
  BY <1>1, <1>5, <1>11 DEF Written
<1>14. Position(e, l)' /\ Lengths(e)' /\ Untouched' /\ InPlace' /\ Bytes'
  BY <1>1, <1>5, <1>6, <1>11, <1>12 DEF Position, Lengths, Untouched, InPlace, Bytes
<1>15. Writing(e, l)'
  BY <1>10, <1>13, <1>14 DEF Writing
<1> QED
  BY <1>15

\* An area without a file is skipped: no file changes.
LEMMA WritingSkip == ASSUME LInv, FileTypes, NEW e, NEW l, Writing(e, l), SkipArea PROVE Writing(e, l)'
<1>1. PICK b \in Areas : NextArea(b) /\ M(b).file = 0 /\ area' = b
                         /\ dumped' = dumped \cup {s \in Segs : InList(s, b) /\ S(s).load = b}
  BY DEF SkipArea
<1>2. /\ pc = "file" /\ pc' = "file" /\ cfg \in Configs
      /\ UNCHANGED <<cfg, sections, segSize, segPC, fillLevel, fileOffs, fileSize, overflows,
                     out, pos, outputOffs>>
  BY DEF SkipArea, placement, segments, LInv, LType
<1>3. area \in Areas \cup {0} /\ b \in Nat \ {0}
  BY <1>2, CfgTypes DEF Writing, Written
<1>4. /\ Marks' = Marks /\ Areas' = Areas /\ Segs' = Segs /\ Files' = Files
      /\ (\A a \in Areas : M(a)' = M(a)) /\ (\A s \in Segs : S(s)' = S(s))
      /\ \A s \in Segs, a \in Areas : InList(s, a)' = InList(s, a)
      /\ \A a, c \in Areas : Before(a, c)' = Before(a, c)
      /\ \A a \in Areas : Unpredicted(a)' = Unpredicted(a)
  BY <1>2, SameLists
<1>5. ASSUME NEW a \in Areas PROVE Past(a)' <=> Past(a) \/ a = b
  <2>1. Before(a, b) <=> area # 0 /\ (Before(a, area) \/ a = area)
    BY <1>1, <1>2, <1>3, NextFollows
  <2>2. Past(a) <=> Before(a, b)
    BY <1>2, <2>1 DEF Past
  <2>3. Past(a)' <=> Before(a, b) \/ a = b
    BY <1>1, <1>2, <1>3, <1>4 DEF Past
  <2> QED
    BY <2>2, <2>3
<1>6. ASSUME NEW s \in Segs, NEW a \in Areas PROVE Seen(s, a)' <=> Seen(s, a) \/ (a = b /\ InList(s, b))
  BY <1>2, <1>4, <1>5 DEF Seen
<1>7. \A s \in Segs : S(s).load \in Areas /\ M(S(s).load).file # 0 => Sent(s)' = Sent(s)
  BY <1>1, <1>4, <1>6 DEF Sent
<1>8. InPlace' /\ Bytes'
  BY <1>2, <1>7, NothingSent DEF Writing
<1>9. Plan(e, l)'
  BY <1>2, <1>5, PlanStays DEF Writing
<1>10. Written'
  <2>1. ASSUME NEW s \in dumped' PROVE s \in Segs /\ Seen(s, S(s).load)'
    <3>1. CASE s \in dumped
      <4>1. s \in Segs /\ S(s).load \in Areas /\ Seen(s, S(s).load)
        BY <3>1 DEF Writing, Written, Seen
      <4> PICK a : a = S(s).load
        OBVIOUS
      <4> QED
        BY <1>4, <1>6, <4>1
    <3>2. CASE s \in Segs /\ InList(s, b) /\ S(s).load = b
      BY <1>4, <1>6, <3>2
    <3> QED
      BY <1>1, <2>1, <3>1, <3>2
  <2> QED
    BY <1>1, <1>2, <1>4, <2>1 DEF Writing, Written
<1>11. Position(e, l)'
  BY <1>1, <1>2, <1>4 DEF Position
<1>12. Lengths(e)' /\ Untouched'
  <2>1. Lengths(e)'
    BY <1>1, <1>2, <1>4, <1>5 DEF Writing, Lengths
  <2>2. 0 \notin Files
    BY DEF Files
  <2>3. ASSUME NEW f \in Files, \A a \in Areas : M(a).file = f => ~Past(a)' /\ a # b
        PROVE  out[f] = <<>>
    <3>1. \A a \in Areas : a # 0
      BY <1>2, CfgTypes
    <3>2. \A a \in Areas : M(a).file = f => ~Past(a) /\ a # area
      BY <1>2, <1>5, <2>3, <3>1 DEF Past
    <3> QED
      BY <3>2 DEF Writing, Untouched
  <2> QED
    BY <1>1, <1>2, <1>4, <2>1, <2>3 DEF Untouched
<1> QED
  BY <1>8, <1>9, <1>10, <1>11, <1>12 DEF Writing

\* The position an area is begun at is the one that was counted, unless the
\* area in front of it is Unpredicted.
LEMMA BeginsThere ==
    ASSUME LInv, NEW e, NEW l, Writing(e, l), pc = "file", NEW b \in Areas, NextArea(b), M(b).file # 0,
           NEW p, p = IF area # 0 /\ M(area).file = M(b).file THEN pos ELSE 0
    PROVE  /\ p \in Nat
           /\ p # fileOffs[b] => area \in Areas /\ M(area).file = M(b).file /\ area < b /\ Unpredicted(area)
           /\ Calm(b, 0) => p = Len(out[M(b).file])
<1>1. cfg \in Configs /\ area \in Areas \cup {0} /\ pos \in Nat /\ out \in [Files -> Seq(Byte)]
  BY DEF LInv, LType, Writing, Written
<1>2. \A a \in Areas : a \in Nat \ {0}
  BY <1>1, CfgTypes
<1>3. M(b).file \in Files
  BY <1>1, FileOf
<1>4. Chain(M(b).file, b, e, fileOffs[b])
  BY DEF Writing, Plan, Laid
<1>5. CASE area # 0 /\ M(area).file = M(b).file
  <2>1. area \in Areas /\ Before(area, b) /\ area < b
    BY <1>1, <1>5, BeforeOrders, NextFollows
  <2>2. \A c \in Areas : M(c).file = M(b).file /\ c < b => c <= area
    BY <1>1, NextInFile
  <2>3. fileOffs[b] = e[area]
    <3>1. PICK c \in Areas : /\ c < b /\ M(c).file = M(b).file /\ fileOffs[b] = e[c]
                             /\ \A d \in Areas : d < b /\ M(d).file = M(b).file => d <= c
      BY <1>4, <1>5, <2>1 DEF Chain
    <3>2. c = area
      BY <1>2, <1>5, <2>1, <2>2, <3>1
    <3> QED
      BY <3>1, <3>2
  <2>4. ~Unpredicted(area) => pos = e[area]
    BY <1>5 DEF Writing, Position
  <2>5. ASSUME Calm(b, 0) PROVE pos = Len(out[M(b).file])
    <3>1. \A c \in Areas : M(c).file = M(area).file /\ c <= area => ~Overwritten(c)
      BY <1>2, <1>5, <2>1, <2>5 DEF Calm
    <3> QED
      BY <1>5, <3>1 DEF Writing, Position
  <2> QED
    BY <1>1, <1>5, <2>1, <2>3, <2>4, <2>5
<1>6. CASE ~(area # 0 /\ M(area).file = M(b).file)
  <2>1. \A c \in Areas : ~(M(c).file = M(b).file /\ c < b)
    BY <1>1, <1>6, NextInFile
  <2>2. fileOffs[b] = 0
    BY <1>4, <2>1 DEF Chain
  <2>3. ASSUME NEW a \in Areas, M(a).file = M(b).file PROVE ~Past(a) /\ a # area
    <3>1. a # area
      BY <1>2, <1>6, <2>3
    <3>2. ~Before(a, b)
      BY <1>1, <2>1, <2>3, BeforeOrders
    <3>3. Past(a) => Before(a, b)
      BY <1>1, NextFollows DEF Past
    <3> QED
      BY <3>1, <3>2, <3>3
  <2>4. out[M(b).file] = <<>>
    BY <1>3, <2>3 DEF Writing, Untouched
  <2> QED
    BY <1>6, <2>2, <2>4
<1> QED
  BY <1>5, <1>6

\* An area is begun in the file: the position is the predicted one.
LEMMA WritingBegin ==
    ASSUME LInv, FileTypes, NEW e, NEW l, Writing(e, l), BeginWriteMem, pc' = "write"
    PROVE  Writing(e, l)'
<1>1. PICK b \in Areas : /\ NextArea(b) /\ M(b).file # 0 /\ area' = b /\ addr' = M(b).start /\ seg' = 0
                         /\ pos' = IF area # 0 /\ M(area).file = M(b).file THEN pos ELSE 0
                         /\ pc' = IF pos' # fileOffs[b] THEN "misfit" ELSE "write"
  BY DEF BeginWriteMem
<1>2. /\ pc = "file" /\ cfg \in Configs
      /\ UNCHANGED <<cfg, sections, segSize, segPC, fillLevel, fileOffs, fileSize, overflows,
                     out, outputOffs, dumped>>
  BY DEF BeginWriteMem, placement, segments, LInv, LType
<1>3. area \in Areas \cup {0} /\ b \in Nat \ {0} /\ \A s \in Segs : s \in Nat \ {0}
  BY <1>2, CfgTypes DEF Writing, Written
<1>4. /\ Marks' = Marks /\ Areas' = Areas /\ Segs' = Segs /\ Files' = Files
      /\ (\A a \in Areas : M(a)' = M(a)) /\ (\A s \in Segs : S(s)' = S(s))
      /\ \A s \in Segs, a \in Areas : InList(s, a)' = InList(s, a)
      /\ \A a, c \in Areas : Before(a, c)' = Before(a, c)
      /\ \A a \in Areas : Unpredicted(a)' = Unpredicted(a) /\ Overwritten(a)' = Overwritten(a)
  BY <1>2, SameLists
<1>5. ASSUME NEW a \in Areas PROVE Past(a)' <=> Past(a)
  <2>1. Before(a, b) <=> area # 0 /\ (Before(a, area) \/ a = area)
    BY <1>1, <1>2, <1>3, NextFollows
  <2>2. Past(a) <=> Before(a, b)
    BY <1>2, <2>1 DEF Past
  <2>3. Past(a)' <=> Before(a, b)
    BY <1>1, <1>3, <1>4 DEF Past
  <2> QED
    BY <2>2, <2>3
<1>6. ASSUME NEW s \in Segs, NEW a \in Areas PROVE Seen(s, a)' <=> Seen(s, a)
  BY <1>1, <1>2, <1>3, <1>4, <1>5 DEF Seen
<1>7. \A s \in Segs : S(s).load \in Areas /\ M(S(s).load).file # 0 => Sent(s)' = Sent(s)
  BY <1>4, <1>6 DEF Sent
<1>8. InPlace' /\ Bytes'
  BY <1>2, <1>7, NothingSent DEF Writing
<1>9. Plan(e, l)'
  BY <1>2, <1>5, PlanStays DEF Writing
<1>10. PICK p : p = pos'
  OBVIOUS
<1>11. p \in Nat /\ p = fileOffs[b] /\ (Calm(b, 0) => p = Len(out[M(b).file]))
  <2>1. p = IF area # 0 /\ M(area).file = M(b).file THEN pos ELSE 0
    BY <1>1, <1>10
  <2>2. p \in Nat /\ (Calm(b, 0) => p = Len(out[M(b).file]))
    BY <1>1, <1>2, <2>1, BeginsThere
  <2> QED
    BY <1>1, <1>10, <2>2
<1>12. Written'
  <2>1. ASSUME NEW s \in dumped PROVE s \in Segs /\ Seen(s, S(s).load)'
    <3>1. s \in Segs /\ S(s).load \in Areas /\ Seen(s, S(s).load)
      BY DEF Writing, Written, Seen
    <3> QED
      BY <1>4, <1>6, <3>1
  <2>2. 0 \in Marks /\ Listed(0, b)'
    BY DEF Marks, Listed
  <2> QED
    BY <1>1, <1>2, <1>4, <1>10, <1>11, <2>1, <2>2 DEF Writing, Written
<1>13. Position(e, l)'
  <2>1. PICK w, z : Walked(b, w, z, e[b], l[b])
    BY DEF Writing, Plan, Laid
  <2>2. Walked(b, w, z, e[b], l[b])'
    <3> PICK u, v : u = e[b] /\ v = l[b]
      OBVIOUS
    <3>1. Walked(b, w, z, u, v)
      BY <2>1
    <3>2. Walked(b, w, z, u, v)'
      BY <1>2, <3>1, WalkedStays
    <3> QED
      BY <3>2
  <2>3. w[0] = M(b).start /\ z[0] = fileOffs[b]
    BY <2>1 DEF Walked, Trace
  <2>4. Calm(b, 0)' => Calm(b, 0)
    BY <1>3, <1>4 DEF Calm
  <2>5. M(b)' = M(b) /\ M(b).start \in Nat
    BY <1>2, <1>4, CfgTypes
  <2>6. pos' = p /\ fileOffs' = fileOffs /\ out' = out
    BY <1>2, <1>10
  <2>7. At(w, z)'
    BY <1>1, <1>11, <2>3, <2>4, <2>5, <2>6 DEF At
  <2> QED
    BY <1>1, <2>2, <2>7 DEF Position
<1>14. Lengths(e)' /\ Untouched'
  <2>1. Lengths(e)'
    BY <1>1, <1>2, <1>4, <1>5 DEF Writing, Lengths
  <2>2. ASSUME NEW f \in Files, \A a \in Areas : M(a).file = f => ~Past(a)' /\ a # b
        PROVE  out[f] = <<>>
    <3>1. \A a \in Areas : a # 0
      BY <1>2, CfgTypes
    <3>2. \A a \in Areas : M(a).file = f => ~Past(a) /\ a # area
      BY <1>2, <1>5, <2>2, <3>1 DEF Past
    <3> QED
      BY <3>2 DEF Writing, Untouched
  <2> QED
    BY <1>1, <1>2, <1>4, <2>1, <2>2 DEF Untouched
<1> QED
  BY <1>8, <1>9, <1>12, <1>13, <1>14 DEF Writing

\* An area is ended in the file: what is left of it is filled.
LEMMA WritingEnd ==
    ASSUME LInv, FileTypes, NEW e, NEW l, Writing(e, l), EndWriteMem
    PROVE  Writing(e, l)'
<1> DEFINE f == M(area).file
<1>1. PICK n : /\ n = IF M(area).fill /\ fillLevel[area] < M(area).size
                      THEN M(area).size - fillLevel[area] ELSE 0
               /\ out' = [out EXCEPT ![f] = Put(out[f], pos, FillBytes(n))]
               /\ pos' = pos + n
               /\ fillLevel' = [fillLevel EXCEPT ![area] = @ + n]
  BY DEF EndWriteMem
<1>2. /\ pc = "write" /\ pc' = "file" /\ ListDone /\ cfg \in Configs
      /\ UNCHANGED <<cfg, sections, segSize, segPC, fileOffs, fileSize, overflows, area, seg, addr,
                     outputOffs, dumped>>
  BY DEF EndWriteMem, segments, LInv, LType
<1>3. /\ area \in Areas /\ seg \in Marks /\ Listed(seg, area) /\ f # 0 /\ f \in Files /\ pos \in Nat
      /\ out \in [Files -> Seq(Byte)] /\ outputOffs \in [Segs -> Nat] /\ fileOffs \in [Areas -> Int]
  BY <1>2, FileOf DEF Writing, Written, FileTypes
<1>4. /\ \A a \in Areas : a \in Nat \ {0} /\ M(a).start \in Nat /\ M(a).size \in Nat
      /\ \A s \in Segs : s \in Nat \ {0} /\ (s <= seg \/ ~InList(s, area))
      /\ \A s \in Segs : S(s).overwrite \in BOOLEAN
  BY <1>2, <1>3, CfgTypes, DoneIsLast DEF LastIn
<1>5. /\ Marks' = Marks /\ Areas' = Areas /\ Segs' = Segs /\ Files' = Files
      /\ (\A a \in Areas : M(a)' = M(a)) /\ (\A s \in Segs : S(s)' = S(s))
      /\ \A s \in Segs, a \in Areas : InList(s, a)' = InList(s, a)
      /\ \A a, c \in Areas : Before(a, c)' = Before(a, c)
      /\ \A a \in Areas : Unpredicted(a)' = Unpredicted(a) /\ Overwritten(a)' = Overwritten(a)
      /\ \A s \in Segs : SegBytes(s)' = SegBytes(s)
  BY <1>2, SameLists
<1>6. ASSUME NEW a \in Areas PROVE Past(a)' <=> Past(a) \/ a = area
  BY <1>2, <1>3, <1>4, <1>5 DEF Past
<1>7. ASSUME NEW s \in Segs, NEW a \in Areas PROVE Seen(s, a)' <=> Seen(s, a)
  BY <1>2, <1>4, <1>5, <1>6 DEF Seen
<1>8. ASSUME NEW s \in Segs PROVE Sent(s)' <=> Sent(s)
  <2>1. S(s).load \in Areas => (Sent(s)' <=> Sent(s))
    BY <1>5, <1>7 DEF Sent
  <2>2. S(s).load \notin Areas => ~Sent(s)' /\ ~Sent(s)
    BY <1>5 DEF Sent, Seen
  <2> QED
    BY <2>1, <2>2
<1>9. PICK w, z : Walked(area, w, z, e[area], l[area]) /\ At(w, z)
  BY <1>2 DEF Writing, Position
<1>10. /\ Trace(area, seg, w, z) /\ l[area] = w[seg] - M(area).start
       /\ e[area] = z[seg] + IF M(area).fill THEN M(area).size - l[area] ELSE 0
  <2>1. PICK t \in Marks : /\ LastIn(area, t) /\ Trace(area, t, w, z)
                           /\ l[area] = w[t] - M(area).start
                           /\ e[area] = z[t] + IF M(area).fill THEN M(area).size - l[area] ELSE 0
    BY <1>9 DEF Walked
  <2>2. \A s \in Segs : LastIn(area, seg) /\ (LastIn(area, t) => t = seg)
    BY <1>2, <1>3, <2>1, PrevUnique, DoneIsLast
  <2>3. LastIn(area, seg) /\ LastIn(area, t)
    BY <1>2, <1>3, <2>1, DoneIsLast
  <2>4. t = seg
    <3>1. CASE Segs = {}
      BY <1>3, <3>1 DEF Marks
    <3>2. CASE Segs # {}
      BY <2>2, <2>3, <3>2
    <3> QED
      BY <3>1, <3>2
  <2> QED
    BY <2>1, <2>4
<1>11. /\ w[seg] \in Nat /\ z[seg] \in Nat /\ M(area).start <= w[seg]
       /\ w[seg] <= M(area).start + M(area).size
  BY <1>3, <1>10 DEF Trace
<1>12. ~Past(area) /\ fillLevel[area] = l[area]
  <2>1. ~Past(area)
    BY <1>2, <1>3, BeforeOrders DEF Past
  <2> QED
    BY <1>3, <2>1 DEF Writing, Plan
<1>13. n \in Nat /\ e[area] = z[seg] + n
  <2>1. M(area).fill \in BOOLEAN /\ M(area).start \in Nat /\ M(area).size \in Nat
    BY <1>2, <1>3, CfgTypes
  <2>2. l[area] \in Int /\ l[area] <= M(area).size
    BY <1>10, <1>11, <2>1
  <2>3. n = IF M(area).fill THEN M(area).size - l[area] ELSE 0
    BY <1>1, <1>12, <2>1, <2>2
  <2> QED
    BY <1>10, <2>1, <2>2, <2>3
<1> PICK q : q = Put(out[f], pos, FillBytes(n))
  OBVIOUS
<1>14. /\ q \in Seq(Byte) /\ out[f] \in Seq(Byte)
       /\ FillBytes(n) \in Seq(Byte) /\ Len(FillBytes(n)) = n
  BY <1>3, <1>13, PutType, FillBytesType
<1> HIDE DEF f
<1>15. /\ out' \in [Files -> Seq(Byte)] /\ out'[f] = q
       /\ \A g \in Files : g # f => out'[g] = out[g]
  BY <1>1, <1>3, <1>14
<1>16. ASSUME pos = Len(out[f])
       PROVE  /\ Len(q) = pos + n
              /\ \A i \in 1 .. Len(out[f]) : q[i] = out[f][i]
              /\ \A i \in 1 .. Len(q) : i > Len(out[f]) => q[i] = Fill
  <2>1. /\ Len(q) = pos + n
        /\ \A i \in 1 .. Len(out[f]) : q[i] = out[f][i]
        /\ \A k \in 1 .. n : q[Len(out[f]) + k] = FillBytes(n)[k]
    <3>1. q = Put(out[f], Len(out[f]), FillBytes(n))
      BY <1>16
    <3> PICK g, h : g = out[f] /\ h = FillBytes(n)
      OBVIOUS
    <3>2. g \in Seq(Byte) /\ h \in Seq(Byte) /\ Len(h) = n /\ pos = Len(g) /\ q = Put(g, Len(g), h)
      BY <1>14, <1>16, <3>1
    <3>3. /\ Len(q) = Len(g) + Len(h)
          /\ \A i \in 1 .. Len(g) : q[i] = g[i]
          /\ \A k \in 1 .. Len(h) : q[Len(g) + k] = h[k]
      <4>1. /\ Len(Put(g, Len(g), h)) = Len(g) + Len(h)
            /\ \A i \in 1 .. Len(g) : Put(g, Len(g), h)[i] = g[i]
            /\ \A k \in 1 .. Len(h) : Put(g, Len(g), h)[Len(g) + k] = h[k]
        BY <3>2, PutAtEnd, Zenon
      <4> QED
        BY <3>2, <4>1
    <3> QED
      BY <3>2, <3>3
  <2>2. \A i \in 1 .. Len(q) : i > Len(out[f]) => q[i] = Fill
    <3> SUFFICES ASSUME NEW i \in 1 .. Len(q), i > Len(out[f]) PROVE q[i] = Fill
      OBVIOUS
    <3> DEFINE k == i - pos
    <3>1. k \in 1 .. n /\ Len(out[f]) + k = i
      BY <1>3, <1>13, <1>16, <2>1
    <3> HIDE DEF k
    <3>2. FillBytes(n)[k] = Fill
      BY <1>13, <3>1, FillBytesType
    <3> QED
      BY <2>1, <3>1, <3>2
  <2> QED
    BY <2>1, <2>2
<1>17. /\ Told(area, seg) => pos = z[seg]
       /\ Calm(area, seg) => pos = Len(out[f])
  BY <1>9 DEF At, f
<1>18. ~Unpredicted(area) => Told(area, seg)
  BY DEF Unpredicted, Told
<1>19. (\A b \in Areas : M(b).file = f /\ b <= area => ~Overwritten(b)) => Calm(area, seg)
  <2> SUFFICES ASSUME \A b \in Areas : M(b).file = f /\ b <= area => ~Overwritten(b)
               PROVE  Calm(area, seg)
    OBVIOUS
  <2>1. \A b \in Areas : b < area => b <= area
    BY <1>3, <1>4
  <2>2. ~Overwritten(area)
    BY <1>3, <1>4 DEF f
  <2> QED
    BY <2>1, <2>2 DEF Calm, Overwritten, f
<1>20. Plan(e, l)'
  <2>1. \A a \in Areas : ~Past(a)' => ~Past(a) /\ fillLevel'[a] = fillLevel[a]
    BY <1>1, <1>6 DEF FileTypes
  <2> QED
    BY <1>2, <2>1, PlanStays DEF Writing
<1>21. Written'
  <2>1. ASSUME NEW s \in dumped PROVE s \in Segs /\ Seen(s, S(s).load)'
    <3>1. s \in Segs /\ S(s).load \in Areas /\ Seen(s, S(s).load)
      BY DEF Writing, Written, Seen
    <3> QED
      BY <1>5, <1>7, <3>1
  <2>2. pos' \in Nat
    BY <1>1, <1>3, <1>13
  <2> QED
    BY <1>2, <1>3, <1>5, <1>15, <2>1, <2>2 DEF Written
<1>22. Position(e, l)'
  <2>1. ~Unpredicted(area) => pos' = e[area]
    BY <1>1, <1>13, <1>17, <1>18
  <2>2. (\A b \in Areas : M(b).file = f /\ b <= area => ~Overwritten(b)) => pos' = Len(out'[f])
    BY <1>1, <1>15, <1>16, <1>17, <1>19
  <2> QED
    BY <1>2, <1>3, <1>5, <2>1, <2>2 DEF Position, f
<1>23. Lengths(e)'
  <2> SUFFICES ASSUME NEW a \in Areas, Past(a)', M(a).file # 0,
                      \A b \in Areas : M(b).file = M(a).file => b <= a /\ ~Unpredicted(b)
               PROVE  Len(out'[M(a).file]) = e[a]
    BY <1>5 DEF Lengths
  <2>1. CASE a = area
    <3>1. \A b \in Areas : M(b).file = f => ~Overwritten(b)
      BY <2>1 DEF Unpredicted, Overwritten, f
    <3>2. pos = z[seg] /\ pos = Len(out[f])
      BY <1>3, <1>17, <1>18, <1>19, <2>1, <3>1
    <3> QED
      BY <1>13, <1>15, <1>16, <2>1, <3>2 DEF f
  <2>2. CASE a # area
    <3>1. Past(a) /\ Before(a, area)
      BY <1>2, <1>6, <2>2 DEF Past
    <3>2. M(a).file # f
      <4> SUFFICES ASSUME M(area).file = M(a).file PROVE FALSE
        BY DEF f
      <4>1. a < area
        BY <1>2, <1>3, <3>1, BeforeOrders
      <4>2. area <= a
        BY <1>3
      <4> QED
        BY <1>3, <1>4, <4>1, <4>2
    <3>3. M(a).file \in Files
      BY <1>2, FileOf
    <3> QED
      BY <1>15, <3>1, <3>2, <3>3 DEF Writing, Lengths
  <2> QED
    BY <2>1, <2>2
<1>24. Untouched'
  <2> SUFFICES ASSUME NEW g \in Files, \A a \in Areas : M(a).file = g => ~Past(a)' /\ a # area
               PROVE  out'[g] = <<>>
    BY <1>2, <1>5 DEF Untouched
  <2>1. g # f
    BY <1>3 DEF f
  <2>2. \A a \in Areas : M(a).file = g => ~Past(a) /\ a # area
    BY <1>6
  <2> QED
    BY <1>15, <2>1, <2>2 DEF Writing, Untouched
<1>25. InPlace'
  <2> SUFFICES ASSUME NEW s \in Segs, Sent(s), M(S(s).load).file # 0, S(s).run = S(s).load,
                      S(s).overwrite \/ Going(S(s).load, s)
               PROVE  outputOffs[s] - fileOffs[S(s).load] = segPC[s] - M(S(s).load).start
    <3>1. \A a \in Areas, m \in Segs : Going(a, m)' = Going(a, m)
      BY <1>5 DEF Going, Sends
    <3>2. \A s \in Segs : Sent(s) => S(s).load \in Areas
      BY DEF Sent, Seen
    <3> QED
      BY <1>2, <1>5, <1>8, <3>1, <3>2 DEF InPlace
  <2> QED
    BY DEF Writing, InPlace
<1>26. Bytes'
  <2> SUFFICES ASSUME NEW g \in Files, \A a \in Areas : M(a).file = g => ~Overwritten(a)
               PROVE  /\ \A s \in Segs : Sent(s) /\ M(S(s).load).file = g =>
                            \A i \in 1 .. segSize[s] : /\ outputOffs[s] + i <= Len(out'[g])
                                                       /\ out'[g][outputOffs[s] + i] = SegBytes(s)[i]
                      /\ \A i \in 1 .. Len(out'[g]) : out'[g][i] # Fill =>
                            \E s \in Segs : /\ Sent(s) /\ M(S(s).load).file = g
                                            /\ out'[g][i] = [seg |-> s, offs |-> i - 1 - outputOffs[s]]
    <3>1. \A s \in Segs : Sent(s) => S(s).load \in Areas
      BY DEF Sent, Seen
    <3> QED
      BY <1>2, <1>5, <1>8, <3>1 DEF Bytes
  <2>1. /\ \A s \in Segs : Sent(s) /\ M(S(s).load).file = g =>
              \A i \in 1 .. segSize[s] : /\ outputOffs[s] + i <= Len(out[g])
                                         /\ out[g][outputOffs[s] + i] = SegBytes(s)[i]
        /\ \A i \in 1 .. Len(out[g]) : out[g][i] # Fill =>
              \E s \in Segs : /\ Sent(s) /\ M(S(s).load).file = g
                              /\ out[g][i] = [seg |-> s, offs |-> i - 1 - outputOffs[s]]
    BY DEF Writing, Bytes
  <2>2. CASE g # f
    BY <1>15, <2>1, <2>2
  <2>3. CASE g = f
    <3>1. pos = Len(out[f])
      BY <1>17, <1>19, <2>3
    <3>2. /\ Len(q) >= Len(out[f]) /\ \A i \in 1 .. Len(out[f]) : q[i] = out[f][i]
          /\ \A i \in 1 .. Len(q) : i > Len(out[f]) => q[i] = Fill
      BY <1>3, <1>13, <1>16, <3>1
    <3>3. Len(out[f]) \in Nat /\ Len(q) \in Nat
      BY <1>14
    <3>4. ASSUME NEW s \in Segs, Sent(s), M(S(s).load).file = f, NEW i \in 1 .. segSize[s]
          PROVE  outputOffs[s] + i <= Len(q) /\ q[outputOffs[s] + i] = SegBytes(s)[i]
      <4>1. outputOffs[s] + i <= Len(out[f]) /\ out[f][outputOffs[s] + i] = SegBytes(s)[i]
        BY <2>1, <2>3, <3>4
      <4>2. outputOffs[s] \in Nat /\ segSize[s] \in Nat
        BY <1>3 DEF LInv, LType
      <4>3. outputOffs[s] + i \in 1 .. Len(out[f])
        BY <3>3, <4>1, <4>2
      <4> QED
        BY <3>2, <3>3, <4>1, <4>2, <4>3
    <3>5. ASSUME NEW i \in 1 .. Len(q), q[i] # Fill
          PROVE  \E s \in Segs : /\ Sent(s) /\ M(S(s).load).file = f
                                 /\ q[i] = [seg |-> s, offs |-> i - 1 - outputOffs[s]]
      <4>1. i \in 1 .. Len(out[f])
        BY <3>2, <3>3, <3>5
      <4> QED
        BY <2>1, <2>3, <3>2, <3>5, <4>1
    <3> QED
      BY <1>15, <2>3, <3>4, <3>5
  <2> QED
    BY <2>2, <2>3
<1> QED
  BY <1>20, <1>21, <1>22, <1>23, <1>24, <1>25, <1>26 DEF Writing

\* Steps that move neither the walk nor the file.
LEMMA WritingStill ==
    ASSUME LInv, FileTypes, NEW e, NEW l, Writing(e, l), pc' \notin {"file", "write"} \/ pc' = pc,
           UNCHANGED <<cfg, sections, segSize, segPC, fillLevel, fileOffs, fileSize, overflows, area, seg,
                       addr, out, pos, outputOffs, dumped>>,
           pc = "write" => pc' = "write",
           pc' \in {"check", "linked", "missing"} => \A a \in Areas : Past(a)
    PROVE  Writing(e, l)'
<1>1. cfg \in Configs /\ area \in Areas \cup {0}
  BY DEF LInv, LType, Writing, Written
<1>2. /\ Marks' = Marks /\ Areas' = Areas /\ Segs' = Segs /\ Files' = Files
      /\ (\A a \in Areas : M(a)' = M(a)) /\ (\A s \in Segs : S(s)' = S(s))
      /\ \A s \in Segs, a \in Areas : InList(s, a)' = InList(s, a)
      /\ \A a, c \in Areas : Before(a, c)' = Before(a, c)
      /\ \A a \in Areas : Unpredicted(a)' = Unpredicted(a) /\ Overwritten(a)' = Overwritten(a)
      /\ \A t \in Marks, a \in Areas : Listed(t, a)' = Listed(t, a)
  BY SameLists
<1>3. pc # "write" => pc' # "write"
  OBVIOUS
<1>4. ASSUME NEW a \in Areas PROVE Past(a)' <=> Past(a)
  BY <1>1, <1>2, <1>3 DEF Past
<1>5. ASSUME NEW s \in Segs, NEW a \in Areas PROVE Seen(s, a)' <=> Seen(s, a)
  BY <1>1, <1>2, <1>3, <1>4 DEF Seen
<1>6. \A s \in Segs : S(s).load \in Areas /\ M(S(s).load).file # 0 => Sent(s)' = Sent(s)
  BY <1>2, <1>5 DEF Sent
<1>7. InPlace' /\ Bytes'
  BY <1>6, NothingSent DEF Writing
<1>8. Plan(e, l)'
  BY <1>4, PlanStays DEF Writing
<1>9. Written'
  <2>1. ASSUME NEW s \in dumped PROVE s \in Segs /\ Seen(s, S(s).load)'
    <3>1. s \in Segs /\ S(s).load \in Areas /\ Seen(s, S(s).load)
      BY DEF Writing, Written, Seen
    <3> QED
      BY <1>2, <1>5, <3>1
  <2> QED
    BY <1>2, <1>3, <1>4, <2>1 DEF Writing, Written
<1>10. Position(e, l)'
  <2>1. ASSUME pc = "write" PROVE (\E w, z : Walked(area, w, z, e[area], l[area]) /\ At(w, z))'
    <3>1. PICK w, z : Walked(area, w, z, e[area], l[area]) /\ At(w, z)
      BY <2>1 DEF Writing, Position
    <3>2. area \in Areas
      BY <2>1 DEF Writing, Written
    <3> PICK a, u, v : a = area /\ u = e[area] /\ v = l[area]
      OBVIOUS
    <3>3. Walked(a, w, z, u, v)'
      BY <3>1, <3>2, WalkedStays
    <3>4. At(w, z)'
      BY <1>2, <3>1, <3>2 DEF At, Told, Going, Calm, Sends
    <3> QED
      BY <3>3, <3>4
  <2>2. pc' = "file" => pc = "file"
    OBVIOUS
  <2>3. pc' = "write" => pc = "write"
    OBVIOUS
  <2> QED
    BY <1>1, <1>2, <2>1, <2>2, <2>3 DEF Writing, Position
<1>11. Lengths(e)' /\ Untouched'
  BY <1>2, <1>4 DEF Writing, Lengths, Untouched
<1> QED
  BY <1>7, <1>8, <1>9, <1>10, <1>11 DEF Writing

\* The files are closed when every area is behind.
LEMMA WritingOver ==
    ASSUME LInv, FileTypes, NEW e, NEW l, Writing(e, l), EndOfWriting
    PROVE  Writing(e, l)'
<1>1. /\ pc = "file" /\ ~(\E a \in Areas : NextArea(a)) /\ pc' = "check" /\ cfg \in Configs
      /\ UNCHANGED <<cfg, sections, segSize, segPC, fillLevel, fileOffs, fileSize, overflows, area, seg,
                     addr, out, pos, outputOffs, dumped>>
  BY DEF EndOfWriting, segments, placement, writing, LInv, LType
<1>2. area \in Areas \cup {0}
  BY DEF Writing, Written
<1>3. ASSUME NEW a \in Areas PROVE Past(a)
  <2>1. area # 0 /\ ~Before(area, a)
    BY <1>1, NextExists
  <2> QED
    BY <1>1, <1>2, <2>1, BeforeOrders DEF Past
<1> QED
  BY <1>1, <1>3, WritingStill

\* CheckSegments changes no file.
LEMMA WritingChecked ==
    ASSUME LInv, FileTypes, NEW e, NEW l, Writing(e, l), CheckSegments
    PROVE  Writing(e, l)'
<1>1. /\ pc = "check" /\ pc' \in {"missing", "linked"}
      /\ UNCHANGED <<cfg, sections, segSize, segPC, fillLevel, fileOffs, fileSize, overflows, area, seg,
                     addr, out, pos, outputOffs, dumped>>
  BY DEF CheckSegments, segments, placement, writing
<1>2. \A a \in Areas : Past(a)
  BY <1>1 DEF Writing, Written
<1> QED
  BY <1>1, <1>2, WritingStill

\* The file q is g, fill bytes up to the position p, and h.
Appended(g, q, p, h) ==
    /\ q \in Seq(Byte) /\ p \in Nat /\ p >= Len(g) /\ Len(q) = p + Len(h)
    /\ \A i \in 1 .. Len(g) : q[i] = g[i]
    /\ \A i \in 1 .. p : i > Len(g) => q[i] = Fill
    /\ \A i \in 1 .. Len(h) : q[p + i] = h[i]

\* Bytes put at the end of a file are appended.
LEMMA AppendAtEnd ==
    ASSUME NEW g \in Seq(Byte), NEW h \in Seq(Byte), NEW q, q = Put(g, Len(g), h)
    PROVE  Appended(g, q, Len(g), h)
<1>1. /\ Put(g, Len(g), h) \in Seq(Byte)
      /\ Len(Put(g, Len(g), h)) = Len(g) + Len(h)
      /\ \A k \in 1 .. Len(g) : Put(g, Len(g), h)[k] = g[k]
      /\ \A k \in 1 .. Len(h) : Put(g, Len(g), h)[Len(g) + k] = h[k]
  BY PutAtEnd, Zenon
<1> QED
  BY <1>1 DEF Appended

\* So are padding and bytes put there together.
LEMMA AppendPadded ==
    ASSUME NEW g \in Seq(Byte), NEW k \in Nat, NEW h \in Seq(Byte), NEW q,
           q = Put(Put(g, Len(g), FillBytes(k)), Len(g) + k, h)
    PROVE  Appended(g, q, Len(g) + k, h)
<1>1. PICK b : b = FillBytes(k)
  OBVIOUS
<1>2. b \in Seq(Byte) /\ Len(b) = k /\ \A i \in 1 .. k : b[i] = Fill
  BY <1>1, FillBytesType
<1>3. PICK p : p = Put(g, Len(g), b)
  OBVIOUS
<1>4. Appended(g, p, Len(g), b)
  BY <1>2, <1>3, AppendAtEnd
<1>5. p \in Seq(Byte) /\ Len(p) = Len(g) + k /\ q = Put(p, Len(p), h)
  BY <1>1, <1>2, <1>3, <1>4 DEF Appended
<1>6. Appended(p, q, Len(p), h)
  BY <1>5, AppendAtEnd
<1>7. Len(g) \in Nat /\ Len(h) \in Nat
  OBVIOUS
<1>8. \A i \in 1 .. Len(g) : q[i] = g[i]
  BY <1>4, <1>5, <1>6, <1>7 DEF Appended
<1>9. ASSUME NEW i \in 1 .. Len(g) + k, i > Len(g) PROVE q[i] = Fill
  <2> PICK j : j = i - Len(g)
    OBVIOUS
  <2>1. j \in 1 .. k /\ Len(g) + j = i
    BY <1>7, <1>9
  <2>2. p[i] = Fill
    BY <1>2, <1>4, <2>1 DEF Appended
  <2> QED
    BY <1>5, <1>6, <1>9, <2>2 DEF Appended
<1> QED
  BY <1>5, <1>6, <1>7, <1>8, <1>9 DEF Appended

\* What BinWriteMem does for a segment, behind the walk that CfgProcess made.
LEMMA SegmentWritten ==
    ASSUME LInv, FileTypes, Written, WriteSegment, NEW w, NEW z, NEW e, NEW l,
           Walked(area, w, z, e, l), addr = w[seg]
    PROVE  \E s \in Segs, at \in Nat, q \in Seq(Byte), h \in Seq(Byte) :
               /\ Prev(area, seg, s) /\ NextSeg(s) /\ seg' = s
               /\ Stride(area, seg, s, w, z) /\ addr' = w[s]
               /\ S(s).run = area => segPC[s] + segSize[s] = w[s]
               /\ w[s] \in Nat /\ w[seg] \in Nat /\ z[seg] \in Nat /\ pos' \in Nat
               /\ out' = [out EXCEPT ![M(area).file] = q]
               /\ dumped' = IF S(s).load = area THEN dumped \cup {s} ELSE dumped
               /\ outputOffs' = IF Sends(s, area) THEN [outputOffs EXCEPT ![s] = at] ELSE outputOffs
               /\ S(s).overwrite /\ S(s).run = area /\ Sends(s, area)
                  => at = w[s] - segSize[s] - M(area).start + fileOffs[area]
               /\ LET goes == Sends(s, area) \/ M(area).fill
                  IN  ~S(s).overwrite =>
                         /\ pos' = at + IF goes THEN segSize[s] ELSE 0
                         /\ at = pos + IF goes THEN w[s] - segSize[s] - w[seg] ELSE 0
               /\ Sends(s, area) => h = SegBytes(s)
               /\ ~Sends(s, area) => \A i \in 1 .. Len(h) : h[i] = Fill
               /\ ~S(s).overwrite /\ pos = Len(out[M(area).file])
                  => Appended(out[M(area).file], q, at, h) /\ pos' = Len(q)
<1> DEFINE f == M(area).file
<1>1. PICK s \in Segs :
          LET goes  == DoWrite(s) \/ M(area).fill
              seeks == goes /\ S(s).overwrite /\ Runs(s) /\ Fixed(s)
              padded == IF goes /\ ~seeks THEN Put(out[f], pos, FillBytes(WriteAddr(s) - addr)) ELSE out[f]
              at == IF seeks THEN SeekPos(s)
                    ELSE IF goes THEN pos + WriteAddr(s) - addr ELSE pos
              bytes == IF DoWrite(s) THEN SegBytes(s)
                       ELSE IF M(area).fill THEN FillBytes(segSize[s]) ELSE <<>>
              written == Put(padded, at, bytes)
          IN  /\ NextSeg(s)
              /\ seg' = s
              /\ out' = [out EXCEPT ![f] = written]
              /\ pos' = IF DoWrite(s) /\ S(s).overwrite THEN Len(written) ELSE at + Len(bytes)
              /\ outputOffs' = IF DoWrite(s) THEN [outputOffs EXCEPT ![s] = at] ELSE outputOffs
              /\ dumped' = IF Loads(s) THEN dumped \cup {s} ELSE dumped
              /\ addr' = WriteAddr(s) + segSize[s]
  BY DEF WriteSegment
<1>2. pc = "write" /\ cfg \in Configs /\ segSize \in [Segs -> Nat]
  BY DEF WriteSegment, LInv, LType
<1>3. /\ area \in Areas /\ seg \in Marks /\ Listed(seg, area) /\ pos \in Nat /\ f \in Files
      /\ out \in [Files -> Seq(Byte)] /\ out[f] \in Seq(Byte)
  <2>1. /\ area \in Areas /\ seg \in Marks /\ Listed(seg, area) /\ pos \in Nat /\ f # 0
        /\ out \in [Files -> Seq(Byte)]
    BY <1>2 DEF Written
  <2> QED
    BY <1>2, <2>1, FileOf
<1>4. /\ S(s).overwrite \in BOOLEAN /\ S(s).bss \in BOOLEAN /\ M(area).fill \in BOOLEAN
      /\ M(area).start \in Nat /\ segSize[s] \in Nat /\ s \in Nat \ {0} /\ seg \in Nat
      /\ (S(s).align = 0 \/ S(s).at = "next") /\ (\A u \in Marks : u \in Nat)
  <2>1. S(s).align = 0 \/ S(s).at = "next"
    BY <1>2, LayoutAssumption DEF S, Segs
  <2> QED
    BY <1>2, <1>3, <2>1, CfgTypes DEF Marks
<1>5. Prev(area, seg, s) /\ InList(s, area) /\ seg < s /\ NextSeg(s)
  BY <1>1, <1>2, <1>3, NextIsBehind
<1>6. PICK t \in Marks : LastIn(area, t) /\ Trace(area, t, w, z) /\ Runners(area, t, w)
  BY DEF Walked
<1>7. s <= t
  BY <1>5, <1>6 DEF LastIn
<1>8. /\ Stride(area, seg, s, w, z) /\ (S(s).run = area => segPC[s] + segSize[s] = w[s])
      /\ w \in [Marks -> Nat] /\ z \in [Marks -> Nat] /\ z[0] = fileOffs[area]
  BY <1>3, <1>5, <1>6, <1>7 DEF Trace, Runners
<1>9. w[s] \in Nat /\ w[seg] \in Nat /\ z[seg] \in Nat /\ fileOffs[area] \in Nat
  <2>1. s \in Marks /\ 0 \in Marks
    BY DEF Marks
  <2> QED
    BY <1>3, <1>8, <2>1
<1>10. PICK v : v = WriteAddr(s)
  OBVIOUS
<1>11. v = NewIn(area, s, w[seg]) /\ w[s] = v + segSize[s]
  <2>1. v = NewIn(area, s, addr)
    BY <1>10 DEF WriteAddr, NewIn, Aligned, Target, Runs
  <2> QED
    BY <1>8, <2>1 DEF Stride
<1>12. v \in Nat /\ M(area).start <= v /\ (~(S(s).overwrite /\ S(s).run = area) => w[seg] <= v)
       /\ v = w[s] - segSize[s]
  <2>1. v \in Nat
    <3> DEFINE k == IF S(s).run = area THEN S(s).align ELSE S(s).alignLoad
    <3>1. k \in Nat /\ S(s).addr \in Nat
      BY <1>2, CfgTypes
    <3>2. k # 0 => AlignAddr(w[seg], k) \in Nat
      BY <1>9, <3>1, AlignUp
    <3>3. v = IF S(s).run = area /\ Fixed(s)
              THEN IF S(s).at = "offset" THEN S(s).addr + M(area).start ELSE S(s).addr
              ELSE IF k = 0 THEN w[seg] ELSE AlignAddr(w[seg], k)
      BY <1>11 DEF NewIn
    <3> HIDE DEF k
    <3> QED
      BY <1>4, <1>9, <3>1, <3>2, <3>3
  <2> QED
    BY <1>4, <1>8, <1>11, <2>1 DEF Stride
<1>13. DoWrite(s) <=> Sends(s, area)
  <2>1. S(s).load = area => s \notin dumped
    <3> SUFFICES ASSUME S(s).load = area, s \in dumped PROVE FALSE
      OBVIOUS
    <3>1. Seen(s, area)
      BY DEF Written
    <3>2. ~Past(area) /\ ~(s <= seg)
      BY <1>2, <1>3, <1>4, <1>5, BeforeOrders DEF Past
    <3> QED
      BY <1>2, <3>1, <3>2 DEF Seen
  <2> QED
    BY <2>1 DEF DoWrite, Loads, Sends
<1> DEFINE goes == Sends(s, area) \/ M(area).fill
           seeks == goes /\ S(s).overwrite /\ S(s).run = area
<1>14. (goes /\ S(s).overwrite /\ Runs(s) /\ Fixed(s)) <=> seeks
  <2>1. S(s).overwrite => Fixed(s)
    BY <1>4, <1>8 DEF Stride, Fixed
  <2> QED
    BY <2>1 DEF Runs
<1>15. PICK at : at = IF seeks THEN v - M(area).start + fileOffs[area]
                     ELSE IF goes THEN pos + v - w[seg] ELSE pos
  OBVIOUS
<1>16. PICK h : h = IF Sends(s, area) THEN SegBytes(s)
                    ELSE IF M(area).fill THEN FillBytes(segSize[s]) ELSE <<>>
  OBVIOUS
<1>17. PICK p : p = IF goes /\ ~seeks THEN Put(out[f], pos, FillBytes(v - w[seg])) ELSE out[f]
  OBVIOUS
<1>18. PICK q : q = Put(p, at, h)
  OBVIOUS
<1>19. /\ out' = [out EXCEPT ![f] = q] /\ seg' = s /\ addr' = w[s]
       /\ pos' = IF Sends(s, area) /\ S(s).overwrite THEN Len(q) ELSE at + Len(h)
       /\ outputOffs' = IF Sends(s, area) THEN [outputOffs EXCEPT ![s] = at] ELSE outputOffs
       /\ dumped' = IF S(s).load = area THEN dumped \cup {s} ELSE dumped
  <2>1. at = IF goes /\ S(s).overwrite /\ Runs(s) /\ Fixed(s) THEN SeekPos(s)
             ELSE IF goes THEN pos + WriteAddr(s) - addr ELSE pos
    BY <1>10, <1>14, <1>15 DEF SeekPos
  <2>2. p = IF goes /\ ~(goes /\ S(s).overwrite /\ Runs(s) /\ Fixed(s))
            THEN Put(out[f], pos, FillBytes(WriteAddr(s) - addr)) ELSE out[f]
    BY <1>10, <1>14, <1>17
  <2> QED
    BY <1>1, <1>10, <1>11, <1>13, <1>16, <1>18, <2>1, <2>2 DEF Loads
<1>20. /\ h \in Seq(Byte) /\ Len(h) = (IF goes THEN segSize[s] ELSE 0)
       /\ ~Sends(s, area) => \A i \in 1 .. Len(h) : h[i] = Fill
  <2>1. /\ SegBytes(s) \in Seq(Byte) /\ Len(SegBytes(s)) = segSize[s]
    BY SegBytesType
  <2>2. /\ FillBytes(segSize[s]) \in Seq(Byte) /\ Len(FillBytes(segSize[s])) = segSize[s]
        /\ \A i \in 1 .. segSize[s] : FillBytes(segSize[s])[i] = Fill
    BY <1>4, FillBytesType
  <2>3. <<>> \in Seq(Byte) /\ Len(<<>>) = 0
    OBVIOUS
  <2> QED
    BY <1>4, <1>16, <2>1, <2>2, <2>3
<1>21. ~seeks /\ goes => w[seg] <= v
  BY <1>12
<1>22. at \in Nat
  <2>1. CASE seeks
    <3>1. at = v - M(area).start + fileOffs[area]
      BY <1>15, <2>1
    <3> QED
      BY <1>4, <1>9, <1>12, <3>1
  <2>2. CASE ~seeks /\ goes
    <3>1. at = pos + v - w[seg] /\ w[seg] <= v
      BY <1>15, <1>21, <2>2
    <3> QED
      BY <1>3, <1>9, <1>12, <3>1
  <2>3. CASE ~seeks /\ ~goes
    BY <1>3, <1>15, <2>3
  <2> QED
    BY <2>1, <2>2, <2>3
<1>23. p \in Seq(Byte)
  <2>1. CASE goes /\ ~seeks
    <3>1. v - w[seg] \in Nat
      BY <1>9, <1>12, <1>21, <2>1
    <3>2. FillBytes(v - w[seg]) \in Seq(Byte)
      BY <3>1, FillBytesType
    <3> QED
      BY <1>3, <1>17, <2>1, <3>2, PutType
  <2>2. CASE ~(goes /\ ~seeks)
    BY <1>3, <1>17, <2>2
  <2> QED
    BY <2>1, <2>2
<1>24. q \in Seq(Byte)
  BY <1>18, <1>20, <1>22, <1>23, PutType
<1>25. pos' \in Nat
  BY <1>19, <1>20, <1>22, <1>24
<1> PICK g : g = out[f]
  OBVIOUS
<1>26. ~S(s).overwrite /\ pos = Len(g) => Appended(g, q, at, h) /\ pos' = Len(q)
  <2> SUFFICES ASSUME ~S(s).overwrite, pos = Len(g) PROVE Appended(g, q, at, h) /\ pos' = Len(q)
    OBVIOUS
  <2>0. g \in Seq(Byte) /\ ~seeks
    BY <1>3
  <2>1. CASE goes
    <3> PICK k : k = v - w[seg]
      OBVIOUS
    <3>1. k \in Nat /\ at = Len(g) + k
      BY <1>3, <1>9, <1>12, <1>15, <1>21, <2>0, <2>1
    <3>2. p = Put(g, Len(g), FillBytes(k))
      BY <1>17, <2>0, <2>1
    <3>3. q = Put(Put(g, Len(g), FillBytes(k)), Len(g) + k, h)
      BY <1>18, <3>1, <3>2
    <3>4. Appended(g, q, Len(g) + k, h)
      BY <1>20, <2>0, <3>1, <3>3, AppendPadded
    <3> QED
      BY <1>19, <3>1, <3>4 DEF Appended
  <2>2. CASE ~goes
    <3>1. p = g /\ at = Len(g)
      BY <1>15, <1>17, <2>0, <2>2
    <3>2. Appended(g, q, Len(g), h)
      BY <1>18, <1>20, <2>0, <3>1, AppendAtEnd
    <3> QED
      BY <1>19, <3>1, <3>2 DEF Appended
  <2> QED
    BY <2>1, <2>2
<1>27. ~S(s).overwrite => /\ pos' = at + IF goes THEN segSize[s] ELSE 0
                          /\ at = pos + IF goes THEN w[s] - segSize[s] - w[seg] ELSE 0
  BY <1>3, <1>4, <1>9, <1>12, <1>15, <1>19, <1>20
<1>28. S(s).overwrite /\ S(s).run = area /\ Sends(s, area)
       => at = w[s] - segSize[s] - M(area).start + fileOffs[area]
  BY <1>12, <1>15
<1>29. Sends(s, area) => h = SegBytes(s)
  BY <1>16
<1>30. s \in Segs /\ at \in Nat /\ q \in Seq(Byte) /\ h \in Seq(Byte)
  BY <1>20, <1>22, <1>24
<1> HIDE DEF f, goes, seeks
<1> QED
  BY <1>5, <1>8, <1>9, <1>19, <1>20, <1>25, <1>26, <1>27, <1>28, <1>29, <1>30 DEF f, goes

\* The distance from the begin of the area is the same in the file and in memory.
LEMMA SameDistance ==
    ASSUME NEW p \in Nat, NEW at \in Nat, NEW o \in Int, NEW z \in Nat, NEW w \in Nat, NEW v \in Nat,
           NEW m \in Nat, p - o = w - m, at = p + (v - z - w)
    PROVE  at - o = v - z - m /\ (at + z) - o = v - m
OBVIOUS

\* A segment is written: the files keep what the addresses promise.
LEMMA WritingWrite ==
    ASSUME LInv, FileTypes, NEW e, NEW l, Writing(e, l), WriteSegment
    PROVE  Writing(e, l)'
<1> DEFINE f == M(area).file
<1>1. /\ pc = "write" /\ cfg \in Configs
      /\ UNCHANGED <<cfg, pc, sections, segSize, segPC, fillLevel, fileOffs, fileSize, overflows, area>>
  BY DEF WriteSegment, segments, placement, LInv, LType
<1>2. PICK w, z : Walked(area, w, z, e[area], l[area]) /\ At(w, z)
  BY <1>1 DEF Writing, Position
<1>3. PICK s \in Segs, at \in Nat, q \in Seq(Byte), h \in Seq(Byte) :
               /\ Prev(area, seg, s) /\ NextSeg(s) /\ seg' = s
               /\ Stride(area, seg, s, w, z) /\ addr' = w[s]
               /\ S(s).run = area => segPC[s] + segSize[s] = w[s]
               /\ w[s] \in Nat /\ w[seg] \in Nat /\ z[seg] \in Nat /\ pos' \in Nat
               /\ out' = [out EXCEPT ![M(area).file] = q]
               /\ dumped' = IF S(s).load = area THEN dumped \cup {s} ELSE dumped
               /\ outputOffs' = IF Sends(s, area) THEN [outputOffs EXCEPT ![s] = at] ELSE outputOffs
               /\ S(s).overwrite /\ S(s).run = area /\ Sends(s, area)
                  => at = w[s] - segSize[s] - M(area).start + fileOffs[area]
               /\ LET goes == Sends(s, area) \/ M(area).fill
                  IN  ~S(s).overwrite =>
                         /\ pos' = at + IF goes THEN segSize[s] ELSE 0
                         /\ at = pos + IF goes THEN w[s] - segSize[s] - w[seg] ELSE 0
               /\ Sends(s, area) => h = SegBytes(s)
               /\ ~Sends(s, area) => \A i \in 1 .. Len(h) : h[i] = Fill
               /\ ~S(s).overwrite /\ pos = Len(out[M(area).file])
                  => Appended(out[M(area).file], q, at, h) /\ pos' = Len(q)
  <2>1. addr = w[seg]
    BY <1>2 DEF At
  <2> PICK u, v : u = e[area] /\ v = l[area]
    OBVIOUS
  <2>2. Written /\ Walked(area, w, z, u, v)
    BY <1>2 DEF Writing
  <2> QED
    BY <2>1, <2>2, SegmentWritten
<1>4. /\ area \in Areas /\ seg \in Marks /\ Listed(seg, area) /\ f # 0 /\ f \in Files /\ pos \in Nat
      /\ out \in [Files -> Seq(Byte)] /\ outputOffs \in [Segs -> Nat] /\ fileOffs \in [Areas -> Int]
  BY <1>1, FileOf DEF Writing, Written, FileTypes
<1>5. /\ \A a \in Areas : a \in Nat \ {0} /\ M(a).start \in Nat /\ M(a).size \in Nat
      /\ \A u \in Segs : /\ u \in Nat \ {0} /\ S(u).overwrite \in BOOLEAN
                         /\ segSize[u] \in Nat /\ segPC[u] \in Nat
      /\ seg \in Nat /\ M(area).start \in Nat
  <2>1. cfg \in Configs /\ segSize \in [Segs -> Nat] /\ segPC \in [Segs -> Nat]
    BY DEF LInv, LType
  <2>2. \A a \in Areas : a \in Nat \ {0} /\ M(a).start \in Nat /\ M(a).size \in Nat
    BY <2>1, CfgTypes
  <2>3. \A u \in Segs : u \in Nat \ {0} /\ S(u).overwrite \in BOOLEAN
    BY <2>1, CfgTypes
  <2>4. seg \in Nat
    BY <1>4, <2>3 DEF Marks
  <2> QED
    BY <1>4, <2>1, <2>2, <2>3, <2>4
<1>6. /\ Marks' = Marks /\ Areas' = Areas /\ Segs' = Segs /\ Files' = Files
      /\ (\A a \in Areas : M(a)' = M(a)) /\ (\A u \in Segs : S(u)' = S(u))
      /\ \A u \in Segs, a \in Areas : InList(u, a)' = InList(u, a)
      /\ \A a, c \in Areas : Before(a, c)' = Before(a, c)
      /\ \A a \in Areas : Unpredicted(a)' = Unpredicted(a) /\ Overwritten(a)' = Overwritten(a)
      /\ \A t \in Marks, a \in Areas : Listed(t, a)' = Listed(t, a)
      /\ \A u \in Segs : SegBytes(u)' = SegBytes(u)
  BY <1>1, SameLists
<1>7. InList(s, area) /\ seg < s /\ \A u \in Segs : InList(u, area) => (u <= s <=> u <= seg \/ u = s)
  BY <1>3, <1>5 DEF Prev
<1>8. ASSUME NEW a \in Areas PROVE Past(a)' <=> Past(a)
  BY <1>1, <1>4, <1>5, <1>6 DEF Past
<1>9. ASSUME NEW u \in Segs, NEW a \in Areas PROVE Seen(u, a)' <=> Seen(u, a) \/ (a = area /\ u = s)
  <2>1. Seen(u, a)' <=> InList(u, a) /\ (Past(a) \/ (a = area /\ u <= s))
    BY <1>1, <1>3, <1>6, <1>8 DEF Seen
  <2>2. Seen(u, a) <=> InList(u, a) /\ (Past(a) \/ (a = area /\ u <= seg))
    BY <1>1 DEF Seen
  <2> QED
    BY <1>7, <2>1, <2>2
<1>10. ~Past(area) /\ ~Seen(s, area)
  <2>1. ~Past(area)
    BY <1>1, <1>4, BeforeOrders DEF Past
  <2> QED
    BY <1>5, <1>7, <2>1 DEF Seen
<1>11. ASSUME NEW u \in Segs PROVE Sent(u)' <=> Sent(u) \/ (u = s /\ Sends(s, area))
  <2>1. CASE S(u).load \in Areas
    <3>1. Seen(u, S(u).load)' <=> Seen(u, S(u).load) \/ (S(u).load = area /\ u = s)
      BY <1>6, <1>9, <2>1
    <3> QED
      BY <1>6, <3>1 DEF Sent, Sends
  <2>2. CASE S(u).load \notin Areas
    BY <1>4, <1>6, <2>2 DEF Sent, Seen, Sends
  <2> QED
    BY <2>1, <2>2
<1>12. Sends(s, area) => ~Sent(s)
  BY <1>10 DEF Sent, Sends
<1>13. out[f] \in Seq(Byte) /\ out'[f] = q /\ (\A g \in Files : g # f => out'[g] = out[g])
       /\ out' \in [Files -> Seq(Byte)] /\ outputOffs' \in [Segs -> Nat]
       /\ \A u \in Segs : outputOffs'[u] = IF u = s /\ Sends(s, area) THEN at ELSE outputOffs[u]
  <2>1. out' = [out EXCEPT ![f] = q]
    BY <1>3
  <2>2. outputOffs' = IF Sends(s, area) THEN [outputOffs EXCEPT ![s] = at] ELSE outputOffs
    BY <1>3
  <2> HIDE DEF f
  <2>3. out[f] \in Seq(Byte) /\ out'[f] = q /\ (\A g \in Files : g # f => out'[g] = out[g])
        /\ out' \in [Files -> Seq(Byte)]
    BY <1>4, <2>1
  <2>4. /\ outputOffs' \in [Segs -> Nat]
        /\ \A u \in Segs : outputOffs'[u] = IF u = s /\ Sends(s, area) THEN at ELSE outputOffs[u]
    BY <1>4, <2>2
  <2> QED
    BY <2>3, <2>4
<1>22. /\ w[s] \in Nat /\ w[seg] \in Nat /\ z[seg] \in Nat /\ at \in Nat /\ pos \in Nat /\ pos' \in Nat
       /\ segSize[s] \in Nat /\ segPC[s] \in Nat /\ fileOffs[area] \in Int /\ M(area).start \in Nat
  BY <1>3, <1>4, <1>5
<1>14. Plan(e, l)'
  BY <1>1, <1>8, PlanStays DEF Writing
<1>15. Written'
  <2>1. ASSUME NEW u \in dumped' PROVE u \in Segs /\ Seen(u, S(u).load)'
    <3>1. CASE u \in dumped
      <4>1. u \in Segs /\ S(u).load \in Areas /\ Seen(u, S(u).load)
        BY <3>1 DEF Writing, Written, Seen
      <4> QED
        BY <1>6, <1>9, <4>1
    <3>2. CASE u = s /\ S(s).load = area
      BY <1>4, <1>6, <1>9, <3>2
    <3> QED
      BY <1>3, <2>1, <3>1, <3>2
  <2>2. s \in Marks /\ Listed(s, area)
    BY <1>7 DEF Marks, Listed
  <2> QED
    BY <1>1, <1>3, <1>4, <1>6, <1>13, <2>1, <2>2 DEF Written
<1>16. Position(e, l)'
  <2>1. (\E g, y : Walked(area, g, y, e[area], l[area]))' /\ Walked(area, w, z, e[area], l[area])'
    <3> PICK a, u, v : a = area /\ u = e[area] /\ v = l[area]
      OBVIOUS
    <3>1. Walked(a, w, z, u, v)
      BY <1>2
    <3>2. Walked(a, w, z, u, v)'
      BY <1>1, <1>4, <3>1, WalkedStays
    <3> QED
      BY <1>1, <3>2
  <2>2. ASSUME Told(area, s) PROVE pos' = z[s]
    <3>1. Told(area, seg) /\ ~S(s).overwrite /\ (M(area).fill => S(s).load = area)
      BY <1>7, <2>2 DEF Told
    <3>2. pos = z[seg]
      BY <1>2, <3>1 DEF At
    <3>3. (Sends(s, area) \/ M(area).fill) <=> Counts(area, s)
      BY <3>1 DEF Sends, Counts
    <3>4. z[s] = z[seg] + IF Counts(area, s) THEN w[s] - w[seg] ELSE 0
      BY <1>3 DEF Stride
    <3>5. CASE Counts(area, s)
      <4>1. pos' = at + segSize[s] /\ at = pos + (w[s] - segSize[s] - w[seg])
        BY <1>3, <3>1, <3>3, <3>5
      <4>2. z[s] = z[seg] + (w[s] - w[seg])
        BY <3>4, <3>5
      <4> QED
        BY <1>22, <3>2, <4>1, <4>2
    <3>6. CASE ~Counts(area, s)
      BY <1>3, <1>4, <3>1, <3>2, <3>3, <3>4, <3>6
    <3> QED
      BY <3>5, <3>6
  <2>3. ASSUME Going(area, s) PROVE pos' - fileOffs[area] = w[s] - M(area).start
    <3>1. Going(area, seg) /\ ~S(s).overwrite /\ (Sends(s, area) \/ M(area).fill)
      BY <1>7, <2>3 DEF Going
    <3>2. pos - fileOffs[area] = w[seg] - M(area).start
      BY <1>2, <3>1 DEF At
    <3>3. pos' = at + segSize[s] /\ at = pos + (w[s] - segSize[s] - w[seg])
      BY <1>3, <3>1
    <3> PICK o, p, y, v, m, k : /\ o = fileOffs[area] /\ p = pos /\ y = w[seg] /\ v = w[s]
                                /\ m = M(area).start /\ k = segSize[s]
      OBVIOUS
    <3>4. p - o = y - m /\ at = p + (v - k - y) /\ pos' = at + k
      BY <3>2, <3>3
    <3>5. at \in Nat /\ o \in Int /\ p \in Nat /\ y \in Nat /\ v \in Nat /\ m \in Nat /\ k \in Nat
      BY <1>22
    <3>6. (at + k) - o = v - m
      BY ONLY <3>4, <3>5, SameDistance
    <3> QED
      BY <3>4, <3>6
  <2>4. ASSUME Calm(area, s) PROVE pos' = Len(out'[f])
    <3>1. Calm(area, seg) /\ ~S(s).overwrite
      BY <1>7, <2>4 DEF Calm
    <3>2. pos = Len(out[f])
      BY <1>2, <3>1 DEF At
    <3> QED
      BY <1>3, <1>13, <3>1, <3>2
  <2>5. M(area)' = M(area) /\ Told(area, s)' = Told(area, s) /\ Going(area, s)' = Going(area, s)
        /\ Calm(area, s)' = Calm(area, s)
    BY <1>1, <1>4, <1>6 DEF Told, Going, Calm, Sends
  <2>6. fileOffs' = fileOffs /\ area' = area /\ seg' = s /\ addr' = w[s]
    BY <1>1, <1>3
  <2>7. At(w, z)'
    BY <2>2, <2>3, <2>4, <2>5, <2>6 DEF At
  <2> QED
    BY <1>1, <2>1, <2>7 DEF Position
<1>17. Lengths(e)'
  <2> SUFFICES ASSUME NEW a \in Areas, Past(a), M(a).file # 0,
                      \A b \in Areas : M(b).file = M(a).file => b <= a /\ ~Unpredicted(b)
               PROVE  Len(out'[M(a).file]) = e[a]
    BY <1>6, <1>8 DEF Lengths
  <2>1. Before(a, area)
    BY <1>1 DEF Past
  <2>2. M(a).file # f
    <3> SUFFICES ASSUME M(area).file = M(a).file PROVE FALSE
      OBVIOUS
    <3>1. a < area
      BY <1>1, <1>4, <2>1, BeforeOrders
    <3>2. area <= a
      BY <1>4
    <3> QED
      BY <1>4, <1>5, <3>1, <3>2
  <2>3. M(a).file \in Files
    BY <1>1, FileOf
  <2> QED
    BY <1>13, <2>2, <2>3 DEF Writing, Lengths
<1>18. Untouched'
  <2> SUFFICES ASSUME NEW g \in Files, \A a \in Areas : M(a).file = g => ~Past(a) /\ a # area
               PROVE  out'[g] = <<>>
    BY <1>1, <1>6, <1>8 DEF Untouched
  <2>1. g # f
    BY <1>4
  <2> QED
    BY <1>13, <2>1 DEF Writing, Untouched
<1>19. InPlace'
  <2> SUFFICES ASSUME NEW u \in Segs, Sent(u)', M(S(u).load).file # 0, S(u).run = S(u).load,
                      S(u).overwrite \/ Going(S(u).load, u)
               PROVE  outputOffs'[u] - fileOffs[S(u).load] = segPC[u] - M(S(u).load).start
    <3>1. \A a \in Areas, m \in Segs : Going(a, m)' = Going(a, m)
      BY <1>6 DEF Going, Sends
    <3>2. \A m \in Segs : Sent(m)' => S(m).load \in Areas
      BY <1>6 DEF Sent, Seen
    <3> QED
      BY <1>1, <1>6, <3>1, <3>2 DEF InPlace
  <2>1. CASE u = s /\ Sends(s, area)
    <3>1. S(s).load = area /\ S(s).run = area /\ segPC[s] + segSize[s] = w[s] /\ outputOffs'[s] = at
      BY <1>3, <1>13, <2>1 DEF Sends
    <3>2. CASE S(s).overwrite
      <4>1. at = w[s] - segSize[s] - M(area).start + fileOffs[area]
        BY <1>3, <2>1, <3>1, <3>2
      <4>2. at - fileOffs[area] = segPC[s] - M(area).start
        <5> PICK o, v, m, k, c : /\ o = fileOffs[area] /\ v = w[s] /\ m = M(area).start
                                 /\ k = segSize[s] /\ c = segPC[s]
          OBVIOUS
        <5>1. at = v - k - m + o /\ c + k = v
          BY <3>1, <4>1
        <5>2. at \in Nat /\ o \in Int /\ v \in Nat /\ m \in Nat /\ k \in Nat /\ c \in Nat
          BY <1>22
        <5>3. at - o = c - m
          BY ONLY <5>1, <5>2
        <5> QED
          BY <5>3
      <4> QED
        BY <2>1, <3>1, <4>2
    <3>3. CASE ~S(s).overwrite
      <4>1. Going(area, s)
        BY <2>1, <3>1, <3>3
      <4>2. Going(area, seg)
        BY <1>7, <4>1 DEF Going
      <4>3. pos - fileOffs[area] = w[seg] - M(area).start
        BY <1>2, <4>2 DEF At
      <4>4. at = pos + (w[s] - segSize[s] - w[seg])
        BY <1>3, <2>1, <3>3
      <4>5. at - fileOffs[area] = segPC[s] - M(area).start
        <5> PICK o, p, y, v, m, k, c : /\ o = fileOffs[area] /\ p = pos /\ y = w[seg] /\ v = w[s]
                                       /\ m = M(area).start /\ k = segSize[s] /\ c = segPC[s]
          OBVIOUS
        <5>1. p - o = y - m /\ at = p + (v - k - y) /\ c + k = v
          BY <3>1, <4>3, <4>4
        <5>2. /\ at \in Nat /\ o \in Int /\ p \in Nat /\ y \in Nat /\ v \in Nat /\ m \in Nat
              /\ k \in Nat /\ c \in Nat
          BY <1>22
        <5>3. at - o = v - k - m
          BY ONLY <5>1, <5>2, SameDistance
        <5>4. v - k = c
          BY <5>1, <5>2
        <5> QED
          BY <5>3, <5>4
      <4> QED
        BY <2>1, <3>1, <4>5
    <3> QED
      BY <3>2, <3>3
  <2>2. CASE ~(u = s /\ Sends(s, area))
    BY <1>11, <1>13, <2>2 DEF Writing, InPlace
  <2> QED
    BY <2>1, <2>2
<1>20. Bytes'
  <2> SUFFICES ASSUME NEW g \in Files, \A a \in Areas : M(a).file = g => ~Overwritten(a)
               PROVE  /\ \A u \in Segs : Sent(u)' /\ M(S(u).load).file = g =>
                            \A i \in 1 .. segSize[u] : /\ outputOffs'[u] + i <= Len(out'[g])
                                                       /\ out'[g][outputOffs'[u] + i] = SegBytes(u)[i]
                      /\ \A i \in 1 .. Len(out'[g]) : out'[g][i] # Fill =>
                            \E u \in Segs : /\ Sent(u)' /\ M(S(u).load).file = g
                                            /\ out'[g][i] = [seg |-> u, offs |-> i - 1 - outputOffs'[u]]
    <3>1. \A m \in Segs : Sent(m)' => S(m).load \in Areas
      BY <1>6 DEF Sent, Seen
    <3> QED
      BY <1>1, <1>6, <3>1 DEF Bytes
  <2>1. /\ \A u \in Segs : Sent(u) /\ M(S(u).load).file = g =>
              \A i \in 1 .. segSize[u] : /\ outputOffs[u] + i <= Len(out[g])
                                         /\ out[g][outputOffs[u] + i] = SegBytes(u)[i]
        /\ \A i \in 1 .. Len(out[g]) : out[g][i] # Fill =>
              \E u \in Segs : /\ Sent(u) /\ M(S(u).load).file = g
                              /\ out[g][i] = [seg |-> u, offs |-> i - 1 - outputOffs[u]]
    BY DEF Writing, Bytes
  <2>2. ASSUME NEW u \in Segs, Sent(u) PROVE outputOffs'[u] = outputOffs[u] /\ Sent(u)'
    BY <1>11, <1>12, <1>13, <2>2
  <2>3. CASE g # f
    <3>1. out'[g] = out[g]
      BY <1>13, <2>3
    <3>2. ASSUME NEW u \in Segs, Sent(u)', M(S(u).load).file = g
          PROVE  Sent(u) /\ outputOffs'[u] = outputOffs[u]
      BY <1>11, <2>2, <2>3, <3>2 DEF Sends
    <3>3. ASSUME NEW i \in 1 .. Len(out[g]), out[g][i] # Fill
          PROVE  \E u \in Segs : /\ Sent(u)' /\ M(S(u).load).file = g
                                 /\ out[g][i] = [seg |-> u, offs |-> i - 1 - outputOffs'[u]]
      <4>1. PICK u \in Segs : /\ Sent(u) /\ M(S(u).load).file = g
                              /\ out[g][i] = [seg |-> u, offs |-> i - 1 - outputOffs[u]]
        BY <2>1, <3>3
      <4> QED
        BY <2>2, <4>1
    <3>4. ASSUME NEW u \in Segs, Sent(u)', M(S(u).load).file = g, NEW i \in 1 .. segSize[u]
          PROVE  outputOffs'[u] + i <= Len(out[g]) /\ out[g][outputOffs'[u] + i] = SegBytes(u)[i]
      BY <2>1, <3>2, <3>4
    <3> QED
      BY <3>1, <3>3, <3>4
  <2>4. CASE g = f
    <3>1. Calm(area, seg) /\ ~S(s).overwrite
      BY <1>4, <1>7, <2>4 DEF Calm, Overwritten
    <3>2. pos = Len(out[f])
      BY <1>2, <3>1 DEF At
    <3>3. Appended(out[f], q, at, h)
      BY <1>3, <3>1, <3>2
    <3> HIDE DEF f
    <3> PICK old : old = out[f]
      OBVIOUS
    <3>4. /\ old \in Seq(Byte) /\ Len(old) \in Nat /\ Len(q) \in Nat /\ Len(h) \in Nat
          /\ at >= Len(old) /\ Len(q) = at + Len(h)
          /\ \A i \in 1 .. Len(old) : q[i] = old[i]
          /\ \A i \in 1 .. at : i > Len(old) => q[i] = Fill
          /\ \A i \in 1 .. Len(h) : q[at + i] = h[i]
      BY <1>13, <3>3 DEF Appended
    <3>5. Sends(s, area) => h = SegBytes(s) /\ Len(h) = segSize[s]
      <4>1. Len(SegBytes(s)) = segSize[s]
        BY SegBytesType
      <4> QED
        BY <1>3, <4>1
    <3>6. ASSUME NEW u \in Segs, Sent(u)', M(S(u).load).file = f, NEW i \in 1 .. segSize[u]
          PROVE  outputOffs'[u] + i <= Len(q) /\ q[outputOffs'[u] + i] = SegBytes(u)[i]
      <4>1. CASE Sent(u)
        <5>1. outputOffs[u] + i <= Len(old) /\ old[outputOffs[u] + i] = SegBytes(u)[i]
          BY <2>1, <2>4, <3>6, <4>1
        <5>2. outputOffs[u] \in Nat /\ segSize[u] \in Nat
          BY <1>4, <1>5
        <5>3. outputOffs[u] + i \in 1 .. Len(old)
          BY <3>4, <5>1, <5>2
        <5>4. outputOffs'[u] = outputOffs[u]
          BY <2>2, <4>1
        <5> QED
          BY <3>4, <5>1, <5>2, <5>3, <5>4
      <4>2. CASE u = s /\ Sends(s, area)
        <5>1. outputOffs'[u] = at /\ i \in 1 .. Len(h) /\ h[i] = SegBytes(u)[i]
          BY <1>13, <3>5, <3>6, <4>2
        <5> QED
          BY <3>4, <5>1
      <4> QED
        BY <1>11, <3>6, <4>1, <4>2
    <3>7. ASSUME NEW i \in 1 .. Len(q), q[i] # Fill
          PROVE  \E u \in Segs : /\ Sent(u)' /\ M(S(u).load).file = f
                                 /\ q[i] = [seg |-> u, offs |-> i - 1 - outputOffs'[u]]
      <4>1. CASE i <= Len(old)
        <5>1. i \in 1 .. Len(old) /\ q[i] = old[i]
          BY <3>4, <4>1
        <5>2. PICK u \in Segs : /\ Sent(u) /\ M(S(u).load).file = f
                                /\ old[i] = [seg |-> u, offs |-> i - 1 - outputOffs[u]]
          BY <2>1, <2>4, <3>7, <5>1
        <5> QED
          BY <2>2, <5>1, <5>2
      <4>2. CASE i > Len(old)
        <5>1. i > at
          BY <3>4, <3>7, <4>2
        <5> PICK k : k = i - at
          OBVIOUS
        <5>2. k \in 1 .. Len(h) /\ at + k = i
          BY <3>4, <3>7, <5>1
        <5>3. q[i] = h[k]
          BY <3>4, <5>2
        <5>4. Sends(s, area)
          BY <1>3, <3>7, <5>2, <5>3
        <5>5. h[k] = [seg |-> s, offs |-> k - 1]
          <6>1. k \in 1 .. segSize[s] /\ h[k] = SegBytes(s)[k]
            BY <3>5, <5>2, <5>4
          <6>2. SegBytes(s)[k] = Fill \/ SegBytes(s)[k] = [seg |-> s, offs |-> k - 1]
            BY <6>1, SegBytesType
          <6> QED
            BY <3>7, <5>3, <6>1, <6>2
        <5>6. k - 1 = i - 1 - outputOffs'[s] /\ Sent(s)' /\ M(S(s).load).file = f
          BY <1>5, <1>11, <1>13, <5>2, <5>4 DEF Sends, f
        <5> QED
          BY <5>3, <5>5, <5>6
      <4> QED
        BY <3>4, <4>1, <4>2
    <3> QED
      BY <1>13, <2>4, <3>6, <3>7
  <2> QED
    BY <2>3, <2>4
<1> QED
  BY <1>14, <1>15, <1>16, <1>17, <1>18, <1>19, <1>20 DEF Writing

\* The writing of the file keeps its invariant in every step.
LEMMA WritingStep ==
    LInv /\ FileTypes /\ PlacingInv /\ WritingInv /\ [LayoutNext]_layoutVars => WritingInv'
<1> SUFFICES ASSUME LInv, FileTypes, PlacingInv, WritingInv, [LayoutNext]_layoutVars PROVE WritingInv'
  OBVIOUS
<1>1. ASSUME pc \in {"file", "write", "check", "linked", "missing"},
             \A e, l : Writing(e, l) => Writing(e, l)'
      PROVE  WritingInv'
  <2>1. PICK e, l : Writing(e, l)
    BY <1>1 DEF WritingInv
  <2>2. Writing(e, l)'
    BY <1>1, <2>1
  <2> QED
    BY <2>2 DEF WritingInv
<1>2. CASE EndOfPlacing
  BY <1>2, WritingStart
<1>3. CASE SkipArea
  BY <1>1, <1>3, WritingSkip DEF SkipArea
<1>4. CASE BeginWriteMem
  <2>1. pc' = "write" => WritingInv'
    BY <1>1, <1>4, WritingBegin DEF BeginWriteMem
  <2>2. pc' = "misfit" => WritingInv'
    BY DEF WritingInv
  <2> QED
    BY <1>4, <2>1, <2>2 DEF BeginWriteMem
<1>5. CASE WriteSegment
  BY <1>1, <1>5, WritingWrite DEF WriteSegment
<1>6. CASE EndWriteMem
  BY <1>1, <1>6, WritingEnd DEF EndWriteMem
<1>7. CASE EndOfWriting
  BY <1>1, <1>7, WritingOver DEF EndOfWriting
<1>8. CASE CheckSegments
  BY <1>1, <1>8, WritingChecked DEF CheckSegments
<1>9. CASE ReadSection \/ ReadTooAligned \/ EndOfInput \/ BeginArea \/ PlaceSegment \/ PlaceError \/ EndArea
  <2>1. pc' \notin {"file", "write", "check", "linked", "missing"}
    BY <1>9 DEF ReadSection, ReadTooAligned, EndOfInput, BeginArea, PlaceSegment, PlaceError, EndArea
  <2> QED
    BY <2>1 DEF WritingInv
<1>10. CASE UNCHANGED layoutVars
  <2>1. pc' = pc /\ UNCHANGED <<cfg, sections, segSize, segPC, fillLevel, fileOffs, fileSize, overflows,
                                area, seg, addr, out, pos, outputOffs, dumped>>
    BY <1>10 DEF layoutVars, segments, placement, writing
  <2>2. ASSUME NEW e, NEW l, Writing(e, l) PROVE Writing(e, l)'
    <3>1. pc \in {"check", "linked", "missing"} => \A a \in Areas : Past(a)
      BY <2>2 DEF Writing, Written
    <3> QED
      BY <2>1, <2>2, <3>1, WritingStill
  <2>3. pc \in {"file", "write", "check", "linked", "missing"} \/ WritingInv'
    BY <2>1 DEF WritingInv
  <2> QED
    BY <1>1, <2>2, <2>3
<1> QED
  BY <1>2, <1>3, <1>4, <1>5, <1>6, <1>7, <1>8, <1>9, <1>10 DEF LayoutNext

\* The position is not the predicted one only behind an area that is Unpredicted.
MisfitInv ==
    pc = "misfit" => \E a \in Areas : M(a).file = M(area).file /\ a < area /\ Unpredicted(a)

\* The check of the position fails for no other reason.
LEMMA MisfitStep == LInv /\ WritingInv /\ MisfitInv /\ [LayoutNext]_layoutVars => MisfitInv'
<1> SUFFICES ASSUME LInv, WritingInv, MisfitInv, [LayoutNext]_layoutVars, pc' = "misfit"
             PROVE  (\E a \in Areas : M(a).file = M(area).file /\ a < area /\ Unpredicted(a))'
  BY DEF MisfitInv
<1>1. CASE BeginWriteMem
  <2>1. PICK b \in Areas : /\ NextArea(b) /\ M(b).file # 0 /\ area' = b
                           /\ pos' = IF area # 0 /\ M(area).file = M(b).file THEN pos ELSE 0
                           /\ pc' = IF pos' # fileOffs[b] THEN "misfit" ELSE "write"
    BY <1>1 DEF BeginWriteMem
  <2>2. pc = "file" /\ UNCHANGED <<cfg, sections, segSize>>
    BY <1>1 DEF BeginWriteMem, segments
  <2>3. PICK e, l : Writing(e, l)
    BY <2>2 DEF WritingInv
  <2> PICK p : p = IF area # 0 /\ M(area).file = M(b).file THEN pos ELSE 0
    OBVIOUS
  <2>4. p # fileOffs[b]
    BY <2>1
  <2>5. area \in Areas /\ M(area).file = M(b).file /\ area < b /\ Unpredicted(area)
    BY <2>1, <2>2, <2>3, <2>4, BeginsThere
  <2>6. Areas' = Areas /\ \A a \in Areas : M(a)' = M(a) /\ Unpredicted(a)' = Unpredicted(a)
    BY <2>2, SameLists
  <2> QED
    BY <2>1, <2>5, <2>6
<1>2. CASE UNCHANGED layoutVars
  <2>1. pc' = pc /\ UNCHANGED <<cfg, sections, segSize, area>>
    BY <1>2 DEF layoutVars, segments
  <2>2. Areas' = Areas /\ \A a \in Areas : M(a)' = M(a) /\ Unpredicted(a)' = Unpredicted(a)
    BY <2>1, SameLists
  <2>3. PICK a \in Areas : M(a).file = M(area).file /\ a < area /\ Unpredicted(a)
    BY <2>1 DEF MisfitInv
  <2>4. M(area)' = M(area)
    BY <2>1 DEF M
  <2> QED
    BY <2>1, <2>2, <2>3, <2>4
<1>3. CASE \/ ReadSection \/ ReadTooAligned \/ EndOfInput \/ BeginArea \/ PlaceSegment \/ PlaceError
           \/ EndArea \/ EndOfPlacing \/ SkipArea \/ WriteSegment \/ EndWriteMem \/ EndOfWriting
           \/ CheckSegments
  BY <1>3 DEF ReadSection, ReadTooAligned, EndOfInput, BeginArea, PlaceSegment, PlaceError, EndArea,
              EndOfPlacing, SkipArea, WriteSegment, EndWriteMem, EndOfWriting, CheckSegments,
              MisfitInv
<1> QED
  BY <1>1, <1>2, <1>3 DEF LayoutNext

\* A section is within its segment.
SectionsFit == \A k \in DOMAIN sections : sections[k].offs + sections[k].size <= segSize[sections[k].seg]

\* A section is read: its segment grows to its end.
LEMMA SectionsFitStep == LInv /\ LInv' /\ SectionsFit /\ [LayoutNext]_layoutVars => SectionsFit'
<1> SUFFICES ASSUME LInv, LInv', SectionsFit, [LayoutNext]_layoutVars PROVE SectionsFit'
  OBVIOUS
<1>1. CASE ReadSection
  <2> DEFINE sec  == cfg.sections[next]
             s    == sec.seg
             offs == AlignAddr(segSize[s], sec.align)
             item == [seg |-> s, offs |-> offs, size |-> sec.size, align |-> sec.align]
  <2>1. /\ next <= Len(cfg.sections)
        /\ segSize' = [segSize EXCEPT ![s] = offs + sec.size]
        /\ sections' = Append(sections, item)
    BY <1>1 DEF ReadSection
  <2>2. cfg \in Configs /\ next \in Nat \ {0} /\ segSize \in [Segs -> Nat] /\ Len(sections) = next - 1
    BY DEF LInv, LType, Reading
  <2>3. s \in Segs /\ sec.size \in Nat /\ sec.align \in Nat \ {0}
    BY <2>1, <2>2, CfgTypes
  <2>4. offs \in Nat /\ offs >= segSize[s]
    BY <2>2, <2>3, AlignUp
  <2> PICK o, z, i, n : o = offs /\ z = sec.size /\ i = item /\ n = s
    OBVIOUS
  <2>5. /\ n \in Segs /\ o \in Nat /\ z \in Nat /\ o >= segSize[n]
        /\ i.seg = n /\ i.offs = o /\ i.size = z
        /\ segSize' = [segSize EXCEPT ![n] = o + z] /\ sections' = Append(sections, i)
    BY <2>1, <2>3, <2>4
  <2> HIDE DEF sec, s, offs, item
  <2>6. \A u \in Segs : segSize[u] <= segSize'[u] /\ segSize[u] \in Nat /\ segSize'[u] \in Nat
    BY <2>2, <2>5
  <2>7. sections \in Seq([seg : Nat, offs : Nat, size : Nat, align : Nat])
    BY DEF LInv, Reading
  <2> SUFFICES ASSUME NEW k \in DOMAIN sections'
               PROVE  sections'[k].offs + sections'[k].size <= segSize'[sections'[k].seg]
    BY DEF SectionsFit
  <2>8. CASE k \in DOMAIN sections
    <3>1. sections'[k] = sections[k]
      BY <2>5, <2>7, <2>8
    <3>2. /\ sections[k].seg \in Segs /\ sections[k].offs \in Nat /\ sections[k].size \in Nat
          /\ sections[k].offs + sections[k].size <= segSize[sections[k].seg]
      BY <2>8, SectionTypes DEF SectionsFit
    <3> QED
      BY <2>6, <3>1, <3>2
  <2>9. CASE k \notin DOMAIN sections
    <3>1. sections'[k] = i
      BY <2>5, <2>7, <2>9
    <3>2. segSize'[n] = o + z
      BY <2>2, <2>5
    <3> QED
      BY <2>5, <3>1, <3>2
  <2> QED
    BY <2>8, <2>9
<1>2. CASE ~ReadSection
  <2>1. UNCHANGED <<sections, segSize>>
    BY <1>2 DEF LayoutNext, ReadTooAligned, EndOfInput, BeginArea, PlaceSegment, PlaceError, EndArea,
                EndOfPlacing, SkipArea, BeginWriteMem, WriteSegment, EndWriteMem, EndOfWriting,
                CheckSegments, layoutVars, segments
  <2> QED
    BY <2>1 DEF SectionsFit
<1> QED
  BY <1>1, <1>2

\* The whole inductive invariant of the file.
FileInv == LInv /\ FileTypes /\ PlacingInv /\ WritingInv /\ MisfitInv /\ SectionsFit

\* The invariant of the file holds at the begin.
LEMMA FileInvInit == Init => FileInv
<1> SUFFICES ASSUME Init PROVE FileInv
  OBVIOUS
<1>1. pc = "read" /\ sections = <<>>
  BY DEF Init
<1>2. PlacingInv /\ WritingInv /\ MisfitInv /\ SectionsFit
  BY <1>1 DEF PlacingInv, WritingInv, MisfitInv, SectionsFit
<1> QED
  BY <1>2, LInvInit, FileTypesInit DEF FileInv

\* Every step of the linker keeps it.
LEMMA FileInvStep == FileInv /\ [LayoutNext]_layoutVars => FileInv'
  BY LInvStep, FileTypesStep, PlacingStep, WritingStep, MisfitStep, SectionsFitStep DEF FileInv

\* It holds of every link.
LEMMA FileInductive == Spec => []FileInv
<1>1. StartupInit => FileInv
  BY FileInvInit DEF StartupInit
<1>2. FileInv /\ [Next]_vars => FileInv'
  BY FileInvStep, LayoutStep DEF vars
<1> QED
  BY <1>1, <1>2, PTL DEF Spec

\* A filled area in which nothing is Unpredicted ends its whole size behind its begin.
LEMMA FilledWhole ==
    ASSUME LInv, FileTypes, NEW e, NEW l, Plan(e, l), NEW a \in Areas, M(a).fill, ~Unpredicted(a)
    PROVE  e[a] = fileOffs[a] + M(a).size
<1>1. cfg \in Configs
  BY DEF LInv, LType
<1>2. PICK w, z : Walked(a, w, z, e[a], l[a])
  BY DEF Plan, Laid
<1>3. PICK t \in Marks : /\ Trace(a, t, w, z)
                         /\ l[a] = w[t] - M(a).start /\ e[a] = z[t] + M(a).size - l[a]
  <2>1. PICK t \in Marks : /\ Trace(a, t, w, z) /\ l[a] = w[t] - M(a).start
                           /\ e[a] = z[t] + IF M(a).fill THEN M(a).size - l[a] ELSE 0
    BY <1>2 DEF Walked
  <2> PICK k, d, n : k = l[a] /\ d = z[t] /\ n = M(a).size
    OBVIOUS
  <2>2. e[a] = d + (n - k) /\ k = w[t] - M(a).start
    BY <2>1
  <2>3. d \in Nat /\ n \in Nat /\ w[t] \in Nat /\ M(a).start \in Nat
    BY <1>1, <2>1, CfgTypes DEF Trace
  <2>4. e[a] = d + n - k
    BY <2>2, <2>3
  <2> QED
    BY <2>1, <2>4
<1>4. Solid(a, t)
  BY DEF Solid, Unpredicted, InList
<1>5. z[t] - z[0] = w[t] - w[0] /\ w[0] = M(a).start /\ z[0] = fileOffs[a]
  BY <1>3, <1>4 DEF Trace
<1>6. z[t] \in Nat /\ w[t] \in Nat /\ M(a).start \in Nat /\ M(a).size \in Nat /\ fileOffs[a] \in Int
  BY <1>1, <1>3, CfgTypes DEF Trace, FileTypes
<1> PICK o, d, m, n, y, k : /\ o = fileOffs[a] /\ d = z[t] /\ m = M(a).start /\ n = M(a).size
                            /\ y = w[t] /\ k = l[a]
  OBVIOUS
<1>7. d - o = y - m /\ k = y - m /\ e[a] = d + n - k
  BY <1>3, <1>5
<1>8. d \in Nat /\ y \in Nat /\ m \in Nat /\ n \in Nat /\ o \in Int
  BY <1>6
<1>9. d + n - k = o + n
  BY ONLY <1>7, <1>8
<1> QED
  BY <1>7, <1>9

\* Nothing overwrites in front of a segment that does not.
LEMMA CalmBefore ==
    ASSUME LInv, NEW e, NEW l, Plan(e, l), NEW a \in Areas, NEW s \in Segs, InList(s, a), ~S(s).overwrite
    PROVE  \A u \in Segs : InList(u, a) /\ u < s => ~S(u).overwrite
<1>1. cfg \in Configs /\ s \in Nat \ {0} /\ \A u \in Segs : u \in Nat \ {0}
  BY CfgTypes DEF LInv, LType
<1>2. PICK w, z : Walked(a, w, z, e[a], l[a])
  BY DEF Plan, Laid
<1>3. PICK t \in Marks : LastIn(a, t) /\ Trace(a, t, w, z)
  BY <1>2 DEF Walked
<1> DEFINE P == {u \in Marks : u < s /\ Listed(u, a)}
<1>4. P \in SUBSET (0 .. s) /\ 0 \in P
  <2>1. 0 \in Marks /\ \A u \in Marks : u \in Nat
    BY <1>1 DEF Marks
  <2>2. \A u \in Marks : u < s => u \in 0 .. s
    BY <1>1, <2>1
  <2>3. Listed(0, a) /\ 0 < s
    BY <1>1 DEF Listed
  <2> QED
    BY <2>1, <2>2, <2>3
<1>5. PICK p \in P : \A u \in P : u <= p
  BY <1>1, <1>4, LargestExists
<1>6. Prev(a, p, s)
  <2>1. ASSUME NEW u \in Segs, InList(u, a), u < s PROVE u <= p
    BY <1>5, <2>1 DEF Marks, Listed
  <2>2. p \in Nat
    BY <1>4
  <2> QED
    BY <1>1, <1>5, <2>1, <2>2 DEF Prev
<1>7. s <= t
  BY <1>3 DEF LastIn
<1>8. Stride(a, p, s, w, z)
  BY <1>3, <1>6, <1>7 DEF Trace
<1> QED
  BY <1>8 DEF Stride

\* The two walks agree on the offsets and the sizes of the files.
LEMMA OffsetsAgree == FileInv => FileOffsetsAgree
<1> SUFFICES ASSUME FileInv, pc = "linked", NEW f \in Files,
                    \A a \in Areas : M(a).file = f => ~Unpredicted(a)
             PROVE  Len(out[f]) = fileSize[f]
  BY DEF FileInv, MisfitInv, FileOffsetsAgree
<1>1. cfg \in Configs
  BY DEF FileInv, LInv, LType
<1>2. PICK e, l : Writing(e, l)
  BY DEF FileInv, WritingInv
<1>3. Chain(f, Len(cfg.areas) + 1, e, fileSize[f])
  BY <1>2 DEF Writing, Plan
<1>4. \A a \in Areas : a < Len(cfg.areas) + 1
  BY <1>1, CfgTypes
<1>5. \E a \in Areas : M(a).file = f /\ f # 0
  BY DEF Files
<1>6. PICK c \in Areas : M(c).file = f /\ fileSize[f] = e[c] /\ \A d \in Areas : M(d).file = f => d <= c
  BY <1>3, <1>4, <1>5 DEF Chain
<1>7. Past(c)
  BY <1>2 DEF Writing, Written
<1> QED
  BY <1>2, <1>5, <1>6, <1>7 DEF Writing, Lengths

\* A filled area has its size in the file.
LEMMA FilledFits == FileInv => FilledToSize
<1> SUFFICES ASSUME FileInv, pc = "linked", NEW a \in Areas, M(a).fill, M(a).file # 0, ~Unpredicted(a),
                    NEW before, before = {b \in Areas : M(b).file = M(a).file /\ b < a},
                    NEW after, after = {b \in Areas : M(b).file = M(a).file /\ b > a}
             PROVE  IF after # {}
                    THEN fileOffs[CHOOSE b \in after : \A c \in after : b <= c] - fileOffs[a] = M(a).size
                    ELSE (\A b \in before : ~Unpredicted(b)) => Len(out[M(a).file]) - fileOffs[a] = M(a).size
  BY DEF FilledToSize
<1>1. /\ cfg \in Configs /\ LInv /\ FileTypes
      /\ \A b \in Areas : b \in Nat /\ M(b).size \in Nat /\ fileOffs[b] \in Int
  <2>1. cfg \in Configs /\ LInv /\ FileTypes
    BY DEF FileInv, LInv, LType
  <2> QED
    BY <2>1, CfgTypes DEF FileTypes
<1>2. PICK e, l : Writing(e, l)
  BY DEF FileInv, WritingInv
<1>3. e[a] = fileOffs[a] + M(a).size
  BY <1>1, <1>2, FilledWhole DEF Writing
<1>4. CASE after # {}
  <2>1. after \in SUBSET Nat
    BY <1>1
  <2> DEFINE b == CHOOSE b \in after : \A c \in after : b <= c
  <2>2. b \in after /\ \A c \in after : b <= c
    BY <1>4, <2>1, LeastExists
  <2> HIDE DEF b
  <2>3. b \in Areas /\ M(b).file = M(a).file /\ a < b
    BY <1>1, <2>2
  <2>4. Chain(M(b).file, b, e, fileOffs[b])
    BY <1>2, <2>3 DEF Writing, Plan, Laid
  <2>5. PICK c \in Areas : /\ c < b /\ M(c).file = M(b).file /\ fileOffs[b] = e[c]
                           /\ \A d \in Areas : d < b /\ M(d).file = M(b).file => d <= c
    BY <2>3, <2>4 DEF Chain
  <2>6. a <= c
    BY <2>3, <2>5
  <2>7. ~(a < c)
    <3> SUFFICES ASSUME a < c PROVE FALSE
      OBVIOUS
    <3>1. c \in after
      BY <1>1, <2>3, <2>5
    <3>2. b <= c
      BY <2>2, <3>1
    <3> QED
      BY <1>1, <2>3, <2>5, <3>2
  <2>8. c = a
    BY <1>1, <2>6, <2>7
  <2>9. fileOffs[b] = fileOffs[a] + M(a).size
    BY <1>3, <2>5, <2>8
  <2>10. fileOffs[b] - fileOffs[a] = M(a).size
    BY <1>1, <2>3, <2>9
  <2> QED
    BY <1>4, <2>10 DEF b
<1>5. CASE after = {} /\ \A b \in before : ~Unpredicted(b)
  <2>1. \A b \in Areas : M(b).file = M(a).file => b <= a /\ ~Unpredicted(b)
    <3> SUFFICES ASSUME NEW b \in Areas, M(b).file = M(a).file PROVE b <= a /\ ~Unpredicted(b)
      OBVIOUS
    <3>1. ~(b > a)
      BY <1>5
    <3>2. b = a \/ b < a
      BY <1>1, <3>1
    <3> QED
      BY <1>1, <1>5, <3>2
  <2>2. Past(a)
    BY <1>2 DEF Writing, Written
  <2>3. Len(out[M(a).file]) = e[a]
    BY <1>2, <2>1, <2>2 DEF Writing, Lengths
  <2> QED
    BY <1>1, <1>3, <1>5, <2>3
<1> QED
  BY <1>4, <1>5

\* Every byte is written once.
LEMMA BytesWritten == FileInv => EveryByteWritten
<1> SUFFICES ASSUME FileInv, pc = "linked", NEW f \in Files,
                    \A a \in Areas : M(a).file = f => ~Overwritten(a)
             PROVE  /\ \A i, j \in DOMAIN out[f] : out[f][i] = out[f][j] /\ out[f][i] # Fill => i = j
                    /\ \A k \in DOMAIN sections :
                          LET s == sections[k].seg
                          IN  ~S(s).bss /\ S(s).load # 0 /\ M(S(s).load).file = f =>
                              \A b \in sections[k].offs .. sections[k].offs + sections[k].size - 1 :
                                  out[f][outputOffs[s] + b + 1] = [seg |-> s, offs |-> b]
  BY DEF EveryByteWritten
<1>1. cfg \in Configs /\ LInv /\ SectionsFit
  BY DEF FileInv, LInv, LType
<1>2. PICK e, l : Writing(e, l)
  BY DEF FileInv, WritingInv
<1>3. /\ \A s \in Segs : Sent(s) /\ M(S(s).load).file = f =>
            \A i \in 1 .. segSize[s] : out[f][outputOffs[s] + i] = SegBytes(s)[i]
      /\ \A i \in 1 .. Len(out[f]) : out[f][i] # Fill =>
            \E s \in Segs : out[f][i] = [seg |-> s, offs |-> i - 1 - outputOffs[s]]
  BY <1>2 DEF Writing, Bytes
<1>4. out[f] \in Seq(Byte) /\ outputOffs \in [Segs -> Nat]
  BY <1>2 DEF Writing, Written
<1>5. ASSUME NEW i \in DOMAIN out[f], NEW j \in DOMAIN out[f], out[f][i] = out[f][j], out[f][i] # Fill
      PROVE  i = j
  <2>1. i \in 1 .. Len(out[f]) /\ j \in 1 .. Len(out[f])
    BY <1>4
  <2>2. PICK s \in Segs : out[f][i] = [seg |-> s, offs |-> i - 1 - outputOffs[s]]
    BY <1>3, <1>5, <2>1
  <2>3. PICK t \in Segs : out[f][j] = [seg |-> t, offs |-> j - 1 - outputOffs[t]]
    BY <1>3, <1>5, <2>1
  <2>4. s = t /\ i - 1 - outputOffs[s] = j - 1 - outputOffs[t]
    <3> PICK m, n : m = i - 1 - outputOffs[s] /\ n = j - 1 - outputOffs[t]
      OBVIOUS
    <3>1. [seg |-> s, offs |-> m] = [seg |-> t, offs |-> n]
      BY <1>5, <2>2, <2>3
    <3>2. s = t /\ m = n
      BY ONLY <3>1
    <3> QED
      BY <3>2
  <2>5. outputOffs[s] \in Nat
    BY <1>4
  <2> QED
    BY <2>1, <2>4, <2>5
<1>6. ASSUME NEW k \in DOMAIN sections, NEW s, s = sections[k].seg,
             ~S(s).bss, S(s).load # 0, M(S(s).load).file = f,
             NEW b \in sections[k].offs .. sections[k].offs + sections[k].size - 1
      PROVE  out[f][outputOffs[s] + b + 1] = [seg |-> s, offs |-> b]
  <2>1. s \in Segs /\ sections[k].offs \in Nat /\ sections[k].size \in Nat
    BY <1>1, <1>6, SectionTypes
  <2>2. S(s).load \in Areas
    BY <1>1, <1>6, <2>1, CfgTypes
  <2>3. Sent(s)
    <3>1. InList(s, S(s).load)
      BY <1>6 DEF InList
    <3>2. Past(S(s).load)
      BY <1>2, <2>2 DEF Writing, Written
    <3> QED
      BY <1>6, <2>2, <3>1, <3>2 DEF Sent, Seen
  <2>4. segSize[s] \in Nat /\ outputOffs[s] \in Nat
    BY <1>1, <1>4, <2>1 DEF LInv, LType
  <2>5. sections[k].offs + sections[k].size <= segSize[s]
    BY <1>1, <1>6 DEF SectionsFit
  <2>6. b \in Nat /\ b + 1 \in 1 .. segSize[s] /\ b = (b + 1) - 1
    BY <2>1, <2>4, <2>5
  <2>7. out[f][outputOffs[s] + (b + 1)] = SegBytes(s)[b + 1]
    BY <1>3, <1>6, <2>1, <2>3, <2>6
  <2>8. SegBytes(s)[b + 1] = [seg |-> s, offs |-> b]
    <3> PICK j : j = b + 1
      OBVIOUS
    <3>1. j \in 1 .. segSize[s] /\ j - 1 = b
      BY <2>6
    <3>2. j - 1 \in sections[k].offs .. sections[k].offs + sections[k].size - 1
      BY <1>6, <3>1
    <3>3. SegBytes(s)[j] = [seg |-> s, offs |-> j - 1]
      BY <1>6, <3>1, <3>2 DEF SegBytes
    <3> QED
      BY <3>1, <3>3
  <2>9. outputOffs[s] + (b + 1) = outputOffs[s] + b + 1
    BY <2>4, <2>6
  <2> QED
    BY <2>7, <2>8, <2>9
<1> QED
  BY <1>5, <1>6

\* A segment stands in the file as far behind its area as in memory.
LEMMA StandsInPlace == FileInv => ImageInPlace
<1> SUFFICES ASSUME FileInv, pc = "linked", NEW s \in Segs, NEW a, a = S(s).run,
                    Stands(s), a = S(s).load, M(a).file # 0, ~S(s).bss,
                    \/ S(s).overwrite \/ M(a).fill
                    \/ \A t \in 1 .. s - 1 : InList(t, a) => ~S(t).bss /\ S(t).load = a
             PROVE  outputOffs[s] - fileOffs[a] = segPC[s] - M(a).start
  BY DEF ImageInPlace
<1>1. cfg \in Configs /\ LInv
  BY DEF FileInv, LInv, LType
<1>2. PICK e, l : Writing(e, l)
  BY DEF FileInv, WritingInv
<1>3. a \in Areas /\ InList(s, a) /\ \A u \in Segs : u \in Nat \ {0}
  <2>1. a # 0 /\ \E k \in DOMAIN sections : sections[k].seg = s
    BY DEF Stands
  <2> QED
    BY <1>1, <2>1, CfgTypes DEF InList
<1>4. Past(a)
  BY <1>2, <1>3 DEF Writing, Written
<1>5. Sent(s)
  BY <1>3, <1>4 DEF Sent, Seen
<1>6. S(s).overwrite \/ Going(a, s)
  <2> SUFFICES ASSUME ~S(s).overwrite, NEW u \in Segs, InList(u, a), u <= s
               PROVE  ~S(u).overwrite /\ (M(a).fill \/ Sends(u, a))
    BY DEF Going
  <2>1. u = s \/ u < s
    BY <1>3
  <2>2. ~S(u).overwrite
    BY <1>1, <1>2, <1>3, <2>1, CalmBefore DEF Writing
  <2>3. M(a).fill \/ Sends(u, a)
    <3>1. u < s => u \in 1 .. s - 1
      BY <1>3
    <3> QED
      BY <2>1, <3>1 DEF Sends
  <2> QED
    BY <2>2, <2>3
<1> QED
  BY <1>2, <1>5, <1>6 DEF Writing, InPlace

\* Whatever is linked, the output files are what the assigned addresses promise:
\* every area begins at its offset and has its size, every byte of a segment is in
\* the file of its load area, once, and a segment that loads where it runs stands
\* there as far behind its area's begin as in memory (CfgProcess, BinWriteMem).
THEOREM FileIsAsLinked == Spec => []FileAsLinked
<1>1. FileInv => FileAsLinked
  BY OffsetsAgree, FilledFits, BytesWritten, StandsInPlace DEF FileAsLinked
<1> QED
  BY <1>1, FileInductive, PTL

-----------------------------------------------------------------------------
(* The relocator.                                                          *)

\* Where memory stands when all but the lowest n bytes are copied.
CopiedDownTo(n) ==
    \A a \in 0 .. Top :
        mem[a] = IF a \in OnceRun + n .. OnceRun + OnceSize - 1
                 THEN image[OncePhys + a - OnceRun] ELSE image[a]

CopyInv ==
    /\ boot # "off" => pc = "linked" /\ B.main # 0
    /\ boot = "copy" => /\ DOMAIN mem = 0 .. Top /\ x \in 0 .. OnceSize
                        /\ CopiedDownTo(x)
    /\ boot = "once" => CopiedDownTo(0)

\* The one-shot code runs above where the image has it.
LEMMA OnceMovesUp ==
    ASSUME LInv, pc = "linked", B.main # 0
    PROVE  /\ OnceRun \in Nat /\ OnceSize \in Nat /\ OncePhys \in Nat
           /\ OncePhys <= OnceRun
<1>1. cfg \in Configs /\ segPC \in [Segs -> Nat] /\ segSize \in [Segs -> Nat]
  BY DEF LInv, LType
<1>2. /\ B.bss \in Segs /\ B.once \in Segs /\ B.bss < B.once /\ B.main \in Areas
      /\ S(B.bss).run = B.main /\ S(B.once).run = B.main
      /\ ~S(B.bss).overwrite /\ ~S(B.once).overwrite
      /\ \E k \in DOMAIN cfg.sections : cfg.sections[k].seg = B.bss
      /\ \E k \in DOMAIN cfg.sections : cfg.sections[k].seg = B.once
  BY <1>1, StartupAssumption DEF B, Segs, Areas, S
<1>3. BssRun \in Nat /\ BssSize \in Nat /\ OnceRun \in Nat /\ OnceSize \in Nat
  BY <1>1, <1>2 DEF BssRun, BssSize, OnceRun, OnceSize
<1>4. ASSUME NEW k \in DOMAIN cfg.sections
      PROVE  k \in DOMAIN sections /\ sections[k].seg = cfg.sections[k].seg
  <2>1. /\ cfg.sections \in Seq(Section) /\ next \in Nat \ {0}
    BY <1>1, CfgTypes DEF LInv, LType
  <2>2. /\ Len(sections) = next - 1 /\ next > Len(cfg.sections)
        /\ sections \in Seq([seg : Nat, offs : Nat, size : Nat, align : Nat])
        /\ \A j \in 1 .. next - 1 : sections[j].seg = cfg.sections[j].seg
    BY DEF LInv, Reading
  <2>3. k \in 1 .. Len(cfg.sections) /\ Len(cfg.sections) \in Nat
    BY <2>1
  <2>4. k \in 1 .. next - 1
    BY <2>1, <2>2, <2>3
  <2>5. DOMAIN sections = 1 .. next - 1
    BY <2>2
  <2> QED
    BY <2>2, <2>4, <2>5
<1>5. Stands(B.bss) /\ Stands(B.once)
  BY <1>2, <1>4, StartupAssumption DEF Stands
<1>6. BssRun + BssSize <= OnceRun
  BY <1>2, <1>5 DEF LInv, Apart, BssRun, BssSize, OnceRun
<1> QED
  BY <1>3, <1>6 DEF OncePhys

LEMMA CopyStep == LInv /\ CopyInv /\ Copy => CopyInv'
<1> SUFFICES ASSUME LInv, CopyInv, Copy PROVE CopyInv'
  OBVIOUS
<1>1. /\ boot = "copy" /\ x > 0 /\ x' = x - 1 /\ pc = "linked" /\ B.main # 0
      /\ mem' = [mem EXCEPT ![OnceRun + x - 1] = mem[OncePhys + x - 1]]
      /\ boot' \in {"copy", "once"} /\ (boot' = "once" => x' = 0)
      /\ UNCHANGED <<pc, cfg, segPC, segSize, image>>
      /\ DOMAIN mem = 0 .. Top /\ x \in 0 .. OnceSize /\ CopiedDownTo(x)
  BY DEF CopyInv, Copy, layoutVars, segments, placement
<1>2. /\ OnceRun \in Nat /\ OnceSize \in Nat /\ OncePhys \in Nat
      /\ OncePhys <= OnceRun
  BY <1>1, OnceMovesUp
<1>3. OnceRun' = OnceRun /\ OnceSize' = OnceSize /\ OncePhys' = OncePhys /\ B' = B
  BY <1>1 DEF OnceRun, OnceSize, OncePhys, BssRun, B
<1> DEFINE p == OncePhys  r == OnceRun  n == OnceSize
<1>4. ASSUME NEW a \in 0 .. Top
      PROVE  mem'[a] = IF a \in r + (x - 1) .. r + n - 1 THEN image[p + a - r] ELSE image[a]
  <2>0. Top \in Nat
    BY StartupAssumption
  <2>1. mem[a] = IF a \in r + x .. r + n - 1 THEN image[p + a - r] ELSE image[a]
    BY <1>1 DEF CopiedDownTo
  <2> HIDE DEF p, r, n
  <2>2. mem' = [mem EXCEPT ![r + x - 1] = mem[p + x - 1]] /\ x \in 0 .. n /\ x > 0
    BY <1>1 DEF p, r, n
  <2>3. r \in Nat /\ n \in Nat /\ p \in Nat /\ p <= r
    BY <1>2 DEF p, r, n
  <2>4. CASE a = r + x - 1
    <3>1. p + x - 1 \in 0 .. Top
      BY <2>0, <2>2, <2>3, <2>4
    <3>2. mem[p + x - 1] = IF p + x - 1 \in r + x .. r + n - 1
                           THEN image[p + (p + x - 1) - r] ELSE image[p + x - 1]
      BY <1>1, <3>1 DEF CopiedDownTo, p, r, n
    <3>3. mem[p + x - 1] = image[p + x - 1]
      BY <2>2, <2>3, <3>2
    <3>4. p + a - r = p + x - 1 /\ a \in r + (x - 1) .. r + n - 1
      BY <2>2, <2>3, <2>4
    <3>5. mem'[a] = mem[p + x - 1]
      BY <1>1, <2>2, <2>4
    <3> QED
      BY <3>3, <3>4, <3>5
  <2>5. CASE a # r + x - 1
    <3>1. mem'[a] = mem[a]
      BY <1>1, <2>2, <2>5
    <3>2. a \in r + (x - 1) .. r + n - 1 <=> a \in r + x .. r + n - 1
      BY <2>2, <2>3, <2>5
    <3> QED
      BY <2>1, <3>1, <3>2
  <2> QED
    BY <2>4, <2>5
<1>5. CopiedDownTo(x)'
  BY <1>1, <1>3, <1>4 DEF CopiedDownTo
<1>6. x' = 0 => CopiedDownTo(0)'
  BY <1>3, <1>5 DEF CopiedDownTo
<1>7. DOMAIN mem' = 0 .. Top /\ x' \in 0 .. OnceSize'
  BY <1>1, <1>2, <1>3
<1> QED
  BY <1>1, <1>3, <1>5, <1>6, <1>7 DEF CopyInv, CopiedDownTo

LEMMA LoadStep == LInv /\ CopyInv /\ Load => CopyInv'
<1> SUFFICES ASSUME LInv, CopyInv, Load PROVE CopyInv'
  OBVIOUS
<1>1. /\ pc = "linked" /\ B.main # 0 /\ OnceSize < Page
      /\ DOMAIN mem' = 0 .. Top /\ image' = mem' /\ x' = OnceSize % Page
      /\ boot' \in {"copy", "once"} /\ (boot' = "once" => x' = 0)
      /\ UNCHANGED <<pc, cfg, segPC, segSize>>
  BY DEF Load, layoutVars, segments, placement
<1>2. OnceRun \in Nat /\ OnceSize \in Nat /\ OncePhys \in Nat
  BY <1>1, OnceMovesUp
<1>3. x' = OnceSize
  BY <1>1, <1>2, StartupAssumption
<1>4. OnceRun' = OnceRun /\ OnceSize' = OnceSize /\ OncePhys' = OncePhys /\ B' = B
  BY <1>1 DEF OnceRun, OnceSize, OncePhys, BssRun, B
<1>5. \A a \in 0 .. Top : a \notin OnceRun + OnceSize .. OnceRun + OnceSize - 1
  BY <1>2
<1>6. CopiedDownTo(x)'
  BY <1>1, <1>3, <1>4, <1>5 DEF CopiedDownTo
<1>7. x' = 0 => CopiedDownTo(0)'
  BY <1>6 DEF CopiedDownTo
<1> QED
  BY <1>1, <1>2, <1>3, <1>4, <1>6, <1>7 DEF CopyInv, CopiedDownTo

LEMMA CopyInvStep == LInv /\ CopyInv /\ [Next]_vars => CopyInv'
<1> SUFFICES ASSUME LInv, CopyInv, [Next]_vars PROVE CopyInv'
  OBVIOUS
<1>1. CASE Link
  <2>1. pc # "linked" /\ boot' = boot
    BY <1>1 DEF Link, LayoutNext, ReadSection, ReadTooAligned, EndOfInput, BeginArea, PlaceSegment,
                PlaceError, EndArea, EndOfPlacing, SkipArea, BeginWriteMem, WriteSegment, EndWriteMem,
                EndOfWriting, CheckSegments
  <2> QED
    BY <2>1 DEF CopyInv
<1>2. CASE Load
  BY <1>2, LoadStep
<1>3. CASE Copy
  BY <1>3, CopyStep
<1>4. CASE ZeroBss \/ CallMain \/ HeapGrows
  <2>1. boot \notin {"off"} /\ boot' \in {"cleared", "main"} /\ pc' = pc /\ cfg' = cfg
    BY <1>4 DEF ZeroBss, CallMain, HeapGrows, layoutVars
  <2> QED
    BY <2>1 DEF CopyInv, B
<1>5. CASE UNCHANGED vars
  BY <1>5 DEF vars, layoutVars, segments, placement, CopyInv, CopiedDownTo, OnceRun, OnceSize, OncePhys,
              BssRun, B
<1> QED
  BY <1>1, <1>2, <1>3, <1>4, <1>5 DEF Next

\* The relocator enters an exact copy of the one-shot code the loader has put
\* below, however the two overlap, and changes no other byte (crt0.s).
THEOREM RelocationExact == Spec => []Relocated
<1>1. StartupInit => CopyInv
  BY DEF StartupInit, CopyInv
<1>2. LInv /\ CopyInv /\ [Next]_vars => CopyInv'
  BY CopyInvStep
<1>3. LInv /\ CopyInv => Relocated
  <2> SUFFICES ASSUME LInv, CopyInv, boot = "once" PROVE Relocated
    BY DEF Relocated
  <2>1. CopiedDownTo(0) /\ pc = "linked" /\ B.main # 0
    BY DEF CopyInv
  <2>2. OnceRun + 0 = OnceRun
    BY <2>1, OnceMovesUp
  <2> QED
    BY <2>1, <2>2 DEF Relocated, CopiedDownTo
<1> QED
  BY <1>1, <1>2, <1>3, LayoutInductive, PTL DEF Spec
-----------------------------------------------------------------------------
(* Where a segment is in the file, by what CfgProcess has counted.         *)

\* There is something in front of each segment of a list.
LEMMA PrevExists ==
    ASSUME cfg \in Configs, NEW a \in Areas, NEW s \in Segs, InList(s, a)
    PROVE  \E p \in Marks : Prev(a, p, s)
<1>1. s \in Nat \ {0} /\ \A u \in Segs : u \in Nat \ {0}
  BY CfgTypes
<1> DEFINE P == {u \in Marks : u < s /\ Listed(u, a)}
<1>2. P \in SUBSET (0 .. s) /\ 0 \in P
  <2>1. 0 \in Marks /\ \A u \in Marks : u \in Nat
    BY <1>1 DEF Marks
  <2>2. \A u \in Marks : u < s => u \in 0 .. s
    BY <1>1, <2>1
  <2>3. Listed(0, a) /\ 0 < s
    BY <1>1 DEF Listed
  <2> QED
    BY <2>1, <2>2, <2>3
<1>3. PICK p \in P : \A u \in P : u <= p
  BY <1>1, <1>2, LargestExists
<1>4. ASSUME NEW u \in Segs, InList(u, a), u < s PROVE u <= p
  BY <1>3, <1>4 DEF Marks, Listed
<1> QED
  BY <1>1, <1>2, <1>3, <1>4 DEF Prev

\* The sequences of the walk over area a, up to segment m.
Steps(a, m, w, z) ==
    /\ w \in [Marks -> Nat] /\ z \in [Marks -> Nat]
    /\ w[0] = M(a).start /\ z[0] = fileOffs[a]
    /\ \A s \in Segs, t \in Marks : s <= m /\ Prev(a, t, s) => Stride(a, t, s, w, z)

\* There are no others.
LEMMA StepsUnique ==
    ASSUME cfg \in Configs, NEW a \in Areas, NEW m \in Nat,
           NEW w, NEW z, Steps(a, m, w, z), NEW v, NEW y, Steps(a, m, v, y),
           NEW s \in Segs, InList(s, a), s <= m
    PROVE  w[s] = v[s] /\ z[s] = y[s]
<1>1. s \in Nat \ {0} /\ \A u \in Segs : u \in Nat \ {0}
  BY CfgTypes
<1> DEFINE Differs == {u \in Segs : InList(u, a) /\ u <= m /\ ~(w[u] = v[u] /\ z[u] = y[u])}
<1> SUFFICES ASSUME Differs # {} PROVE FALSE
  OBVIOUS
<1>2. Differs \in SUBSET Nat
  BY <1>1
<1>3. PICK u \in Differs : \A k \in Differs : u <= k
  BY <1>2, LeastExists
<1>4. u \in Segs /\ InList(u, a) /\ u <= m /\ u \in Nat
  BY <1>1, <1>3
<1>5. PICK p \in Marks : Prev(a, p, u)
  BY <1>4, PrevExists
<1>6. w[p] = v[p] /\ z[p] = y[p]
  <2>1. CASE p = 0
    BY <2>1 DEF Steps
  <2>2. CASE p # 0
    <3>1. p \in Segs /\ InList(p, a) /\ p < u /\ p \in Nat
      BY <1>1, <1>5, <2>2 DEF Marks, Prev, Listed
    <3>2. p \notin Differs
      BY <1>3, <1>4, <3>1
    <3> QED
      BY <1>4, <3>1, <3>2
  <2> QED
    BY <2>1, <2>2
<1>7. Stride(a, p, u, w, z) /\ Stride(a, p, u, v, y)
  BY <1>4, <1>5 DEF Steps
<1>8. w[u] = v[u]
  BY <1>6, <1>7 DEF Stride
<1>9. z[u] = y[u]
  BY <1>6, <1>7, <1>8 DEF Stride
<1> QED
  BY <1>3, <1>8, <1>9

\* A segment whose area is told of up to it ends in the file where CfgProcess has
\* counted it to.
Ends(s) ==
    M(S(s).load).file # 0 /\ ~S(s).bss /\ Told(S(s).load, s) =>
        \A w, z : Steps(S(s).load, s, w, z) => outputOffs[s] + segSize[s] = z[s]

EndsInv ==
    /\ pc = "linked" => \A s \in Segs : segSize[s] > 0 => s \in dumped
    /\ pc \in {"file", "write", "check", "linked", "missing"} => \A s \in dumped : Ends(s)

\* The sequences stay while nothing is placed.
LEMMA StepsStay ==
    ASSUME NEW a \in Areas, NEW m, NEW w, NEW z, UNCHANGED <<cfg, sections, segSize, fileOffs>>
    PROVE  Steps(a, m, w, z)' <=> Steps(a, m, w, z)
<1>1. /\ Marks' = Marks /\ Areas' = Areas /\ Segs' = Segs
      /\ (\A b \in Areas : M(b)' = M(b)) /\ (\A u \in Segs : S(u)' = S(u))
      /\ \A u \in Segs, b \in Areas : InList(u, b)' = InList(u, b)
      /\ \A t \in Marks, b \in Areas : Listed(t, b)' = Listed(t, b)
  BY SameLists
<1>2. ASSUME NEW u \in Segs, NEW t \in Marks PROVE Prev(a, t, u)' = Prev(a, t, u)
  BY <1>1 DEF Prev
<1>3. ASSUME NEW u \in Segs, NEW t \in Marks PROVE Stride(a, t, u, w, z)' = Stride(a, t, u, w, z)
  <2>1. NewIn(a, u, w[t])' = NewIn(a, u, w[t])
    BY <1>1 DEF NewIn, Fixed
  <2>2. Counts(a, u)' = Counts(a, u)
    BY <1>1 DEF Counts
  <2> QED
    BY <1>1, <2>1, <2>2 DEF Stride
<1> QED
  BY <1>1, <1>2, <1>3 DEF Steps

\* A segment that is written stays there.
LEMMA EndsStays ==
    ASSUME NEW s \in Segs, S(s).load \in Areas, Ends(s), outputOffs'[s] = outputOffs[s],
           UNCHANGED <<cfg, sections, segSize, fileOffs>>
    PROVE  Ends(s)'
<1>1. /\ Areas' = Areas /\ Segs' = Segs
      /\ (\A a \in Areas : M(a)' = M(a)) /\ (\A u \in Segs : S(u)' = S(u))
      /\ \A u \in Segs, a \in Areas : InList(u, a)' = InList(u, a)
  BY SameLists
<1> PICK a : a = S(s).load
  OBVIOUS
<1>2. a \in Areas /\ S(s)' = S(s) /\ S(s)'.load = a
  BY <1>1
<1>3. Told(a, s)' = Told(a, s)
  BY <1>1, <1>2 DEF Told
<1>4. ASSUME NEW w, NEW z, Steps(a, s, w, z)' PROVE Steps(a, s, w, z)
  BY <1>2, <1>4, StepsStay
<1> QED
  BY <1>1, <1>2, <1>3, <1>4 DEF Ends

\* A segment is written: it ends where it was counted to.
LEMMA EndsWrite ==
    ASSUME FileInv, FileInv', EndsInv, WriteSegment
    PROVE  EndsInv'
<1>1. /\ pc = "write" /\ pc' = "write" /\ cfg \in Configs
      /\ UNCHANGED <<cfg, sections, segSize, segPC, fillLevel, fileOffs, fileSize, overflows, area>>
  BY DEF WriteSegment, segments, placement, FileInv, LInv, LType
<1>2. PICK e, l : Writing(e, l)
  BY <1>1 DEF FileInv, WritingInv
<1>3. PICK d, k : Writing(d, k)'
  BY <1>1 DEF FileInv, WritingInv
<1>4. PICK s \in Segs :
          LET f     == M(area).file
              goes  == DoWrite(s) \/ M(area).fill
              seeks == goes /\ S(s).overwrite /\ Runs(s) /\ Fixed(s)
              padded == IF goes /\ ~seeks THEN Put(out[f], pos, FillBytes(WriteAddr(s) - addr)) ELSE out[f]
              at == IF seeks THEN SeekPos(s)
                    ELSE IF goes THEN pos + WriteAddr(s) - addr ELSE pos
              bytes == IF DoWrite(s) THEN SegBytes(s)
                       ELSE IF M(area).fill THEN FillBytes(segSize[s]) ELSE <<>>
              written == Put(padded, at, bytes)
          IN  /\ NextSeg(s)
              /\ seg' = s
              /\ out' = [out EXCEPT ![f] = written]
              /\ pos' = IF DoWrite(s) /\ S(s).overwrite THEN Len(written) ELSE at + Len(bytes)
              /\ outputOffs' = IF DoWrite(s) THEN [outputOffs EXCEPT ![s] = at] ELSE outputOffs
              /\ dumped' = IF Loads(s) THEN dumped \cup {s} ELSE dumped
              /\ addr' = WriteAddr(s) + segSize[s]
  BY DEF WriteSegment
<1>5. /\ area \in Areas /\ outputOffs \in [Segs -> Nat] /\ outputOffs' \in [Segs -> Nat] /\ seg \in Marks
      /\ \A u \in dumped : u \in Segs /\ S(u).load \in Areas
  <2>1. Segs' = Segs
    BY <1>1, SameLists
  <2> QED
    BY <1>1, <1>2, <1>3, <2>1 DEF Writing, Written, Seen
<1>6. /\ seg' = s /\ dumped' = IF S(s).load = area THEN dumped \cup {s} ELSE dumped
      /\ \A u \in Segs : u # s \/ s \in dumped => outputOffs'[u] = outputOffs[u]
  BY <1>4, <1>5 DEF Loads, DoWrite
<1>7. ASSUME S(s).load = area, ~S(s).bss, ~S(s).overwrite, s \notin dumped
      PROVE  pos' = outputOffs'[s] + segSize[s]
  <2>1. DoWrite(s)
    BY <1>7 DEF DoWrite, Loads
  <2>2. PICK at : outputOffs' = [outputOffs EXCEPT ![s] = at] /\ pos' = at + Len(SegBytes(s))
    BY <1>4, <1>7, <2>1
  <2>3. Len(SegBytes(s)) = segSize[s]
    BY SegBytesType DEF FileInv
  <2> QED
    BY <1>5, <2>2, <2>3
<1>8. ASSUME S(s).load = area, s \notin dumped PROVE Ends(s)'
  <2>1. /\ Marks' = Marks /\ Areas' = Areas /\ Segs' = Segs
        /\ (\A a \in Areas : M(a)' = M(a)) /\ (\A u \in Segs : S(u)' = S(u))
        /\ \A u \in Segs, a \in Areas : InList(u, a)' = InList(u, a)
    BY <1>1, SameLists
  <2> PICK a : a = area
    OBVIOUS
  <2>2. a \in Areas /\ area' = a /\ S(s).load = a /\ seg' = s
    BY <1>1, <1>5, <1>6, <1>8
  <2>3. PICK w, z : Walked(area, w, z, d[area], k[area])' /\ At(w, z)'
    BY <1>1, <1>3 DEF Writing, Position
  <2>4. PICK t \in Marks : LastIn(a, t)' /\ Trace(a, t, w, z)'
    BY <1>1, <2>1, <2>2, <2>3 DEF Walked
  <2>5. InList(s, a) /\ s \in Nat /\ t \in Nat /\ segSize[s] \in Nat /\ \A u \in Segs : u \in Nat
    <3>1. InList(s, a)
      BY <1>4, <2>2 DEF NextSeg
    <3>2. (\A u \in Segs : u \in Nat) /\ LInv
      BY <1>1, CfgTypes DEF FileInv
    <3> QED
      BY <3>1, <3>2 DEF Marks, LInv, LType
  <2>6. s <= t
    BY <2>1, <2>2, <2>4, <2>5 DEF LastIn
  <2>7. Steps(a, s, w, z)'
    <3>1. \A u \in Segs : u <= s => u <= t
      BY <2>5, <2>6
    <3> QED
      BY <2>1, <2>4, <3>1 DEF Trace, Steps
  <2>8. Told(a, s)' = Told(a, s) /\ Told(area, seg)' = Told(a, s)
    BY <2>1, <2>2 DEF Told
  <2> SUFFICES ASSUME ~S(s).bss, Told(a, s), NEW v, NEW y, Steps(a, s, v, y)
               PROVE  outputOffs'[s] + segSize[s] = y[s]
    <3>1. \A v, y : Steps(a, s, v, y)' => Steps(a, s, v, y)
      BY <1>1, <2>2, StepsStay
    <3>2. S(s)' = S(s) /\ S(s)'.load = a
      BY <2>1, <2>2
    <3> QED
      BY <1>1, <2>8, <3>1, <3>2 DEF Ends
  <2>9. pos' = z[s]
    BY <2>2, <2>3, <2>8 DEF At
  <2>10. ~S(s).overwrite
    BY <2>5 DEF Told
  <2>11. outputOffs'[s] + segSize[s] = z[s]
    BY <1>7, <1>8, <2>9, <2>10
  <2>12. Steps(a, s, w, z)
    BY <1>1, <2>2, <2>7, StepsStay
  <2>13. z[s] = y[s]
    BY <1>1, <2>2, <2>5, <2>12, StepsUnique
  <2> QED
    BY <2>11, <2>13
<1>9. ASSUME NEW u \in dumped PROVE Ends(u)'
  <2>1. Ends(u) /\ outputOffs'[u] = outputOffs[u]
    BY <1>1, <1>5, <1>6 DEF EndsInv
  <2> QED
    BY <1>1, <1>5, <2>1, EndsStays
<1> QED
  BY <1>1, <1>6, <1>8, <1>9 DEF EndsInv

\* Every step of the linker keeps where the segments end in the file.
LEMMA EndsStep == FileInv /\ FileInv' /\ EndsInv /\ [LayoutNext]_layoutVars => EndsInv'
<1> SUFFICES ASSUME FileInv, FileInv', EndsInv, [LayoutNext]_layoutVars PROVE EndsInv'
  OBVIOUS
<1>1. ASSUME pc \in {"file", "write", "check", "linked", "missing"}
      PROVE  dumped \subseteq Segs /\ \A u \in dumped : S(u).load \in Areas
  <2>1. PICK e, l : Writing(e, l)
    BY <1>1 DEF FileInv, WritingInv
  <2> QED
    BY <2>1 DEF Writing, Written, Seen
<1>2. CASE WriteSegment
  BY <1>2, EndsWrite
<1>3. CASE SkipArea
  <2>1. PICK b \in Areas : M(b).file = 0
                           /\ dumped' = dumped \cup {s \in Segs : InList(s, b) /\ S(s).load = b}
    BY <1>3 DEF SkipArea
  <2>2. pc = "file" /\ pc' = "file" /\ UNCHANGED <<cfg, sections, segSize, fileOffs, outputOffs>>
    BY <1>3 DEF SkipArea, segments, placement
  <2>3. ASSUME NEW u \in dumped PROVE Ends(u)'
    BY <1>1, <2>2, EndsStays DEF EndsInv
  <2>4. ASSUME NEW u \in Segs, S(u).load = b PROVE Ends(u)'
    <3>1. S(u)' = S(u) /\ M(b)' = M(b)
      BY <2>2, SameLists
    <3> QED
      BY <2>1, <2>4, <3>1 DEF Ends
  <2> QED
    BY <2>1, <2>2, <2>3, <2>4 DEF EndsInv
<1>4. CASE BeginWriteMem \/ EndWriteMem \/ EndOfWriting \/ CheckSegments
  <2>1. /\ pc \in {"file", "write", "check"}
        /\ UNCHANGED <<cfg, sections, segSize, fileOffs, outputOffs, dumped>>
    BY <1>4 DEF BeginWriteMem, EndWriteMem, EndOfWriting, CheckSegments, segments, placement, writing
  <2>2. ASSUME NEW u \in dumped PROVE Ends(u)'
    BY <1>1, <2>1, EndsStays DEF EndsInv
  <2>3. pc' = "linked" => \A s \in Segs : segSize[s] > 0 => s \in dumped
    BY <1>4 DEF BeginWriteMem, EndWriteMem, EndOfWriting, CheckSegments
  <2>4. Segs' = Segs
    BY <2>1, SameLists
  <2> QED
    BY <2>1, <2>2, <2>3, <2>4 DEF EndsInv
<1>5. CASE EndOfPlacing
  <2>1. dumped' = {} /\ pc' # "linked"
    BY <1>5 DEF EndOfPlacing, writing, FileInv, FileTypes
  <2> QED
    BY <2>1 DEF EndsInv
<1>6. CASE ReadSection \/ ReadTooAligned \/ EndOfInput \/ BeginArea \/ PlaceSegment \/ PlaceError \/ EndArea
  <2>1. pc' \notin {"file", "write", "check", "linked", "missing"}
    BY <1>6 DEF ReadSection, ReadTooAligned, EndOfInput, BeginArea, PlaceSegment, PlaceError, EndArea
  <2> QED
    BY <2>1 DEF EndsInv
<1>7. CASE UNCHANGED layoutVars
  <2>1. pc' = pc /\ UNCHANGED <<cfg, sections, segSize, fileOffs, outputOffs, dumped>>
    BY <1>7 DEF layoutVars, segments, placement, writing
  <2>2. ASSUME NEW u \in dumped, pc \in {"file", "write", "check", "linked", "missing"} PROVE Ends(u)'
    BY <1>1, <2>1, <2>2, EndsStays DEF EndsInv
  <2>3. Segs' = Segs
    BY <2>1, SameLists
  <2> QED
    BY <2>1, <2>2, <2>3 DEF EndsInv
<1> QED
  BY <1>2, <1>3, <1>4, <1>5, <1>6, <1>7 DEF LayoutNext

\* In every link.
LEMMA EndsInductive == Spec => []EndsInv
<1>1. StartupInit => EndsInv
  BY DEF StartupInit, Init, EndsInv
<1>2. FileInv /\ FileInv' /\ EndsInv /\ [Next]_vars => EndsInv'
  BY EndsStep, LayoutStep DEF vars
<1> QED
  BY <1>1, <1>2, FileInductive, PTL DEF Spec

-----------------------------------------------------------------------------
(* The image of the main area.                                             *)

\* The layout is complete, and it is that of a cartridge.
Linked == FileInv /\ EndsInv /\ pc = "linked" /\ B.main # 0

\* What the assumptions on the config file say of the main area.
LEMMA MainArea ==
    ASSUME Linked
    PROVE  /\ cfg \in Configs /\ Top \in Nat
           /\ B.main \in Areas /\ B.bss \in Segs /\ B.once \in Segs /\ B.bss < B.once
           /\ M(B.main).file # 0 /\ MainStart \in Nat /\ M(B.main).size \in Nat
           /\ MainStart + M(B.main).size <= Top + 1
           /\ B.inPlace <=> M(B.main).fill
           /\ \A s \in {B.bss, B.once} :
                 /\ InList(s, B.main) /\ Stands(s)
                 /\ S(s).run = B.main /\ S(s).load = B.main /\ S(s).align = 0 /\ S(s).at = "next"
           /\ \A s \in Segs : InList(s, B.main) =>
                 /\ S(s).load = B.main /\ S(s).run = B.main /\ ~S(s).overwrite
                 /\ (S(s).bss <=> s = B.bss) /\ ~(B.bss < s /\ s < B.once)
           /\ \A a \in Areas : M(a).file = M(B.main).file => ~Overwritten(a)
           /\ \A s \in Segs : segSize[s] \in Nat /\ segPC[s] \in Nat
           /\ overflows = 0
<1>1. cfg \in Configs /\ LInv /\ \A s \in Segs : segSize[s] \in Nat /\ segPC[s] \in Nat
  BY DEF Linked, FileInv, LInv, LType
<1>2. /\ B.main \in Areas /\ B.bss \in Segs /\ B.once \in Segs /\ B.bss < B.once
      /\ M(B.main).file # 0 /\ Top \in Nat
      /\ \A s \in {B.bss, B.once} : /\ S(s).run = B.main
                                    /\ \E k \in DOMAIN cfg.sections : cfg.sections[k].seg = s
  BY <1>1, StartupAssumption DEF Linked, B, Areas, Segs, M, S
<1>3. Cartridge(cfg)
  BY <1>1, CartridgeAssumption DEF Linked, B
<1>4. /\ MainStart + M(B.main).size <= Top + 1
      /\ B.inPlace <=> M(B.main).fill
      /\ \A s \in {B.bss, B.once} : S(s).align = 0 /\ S(s).at = "next"
  BY <1>3 DEF Cartridge, B, M, S, MainStart
<1>5. \A s \in Segs : B.main \in {S(s).load, S(s).run} =>
         S(s).load = S(s).run /\ (S(s).bss <=> s = B.bss) /\ ~(B.bss < s /\ s < B.once)
  BY <1>3 DEF Cartridge, B, M, S, Segs
<1>6. \A s \in Segs : \A a \in {S(s).load, S(s).run} \ {0} :
         M(a).file = M(B.main).file => ~S(s).overwrite
  BY <1>3 DEF Cartridge, B, M, S, Segs
<1>7. ASSUME NEW k \in DOMAIN cfg.sections
      PROVE  k \in DOMAIN sections /\ sections[k].seg = cfg.sections[k].seg
  <2>1. cfg.sections \in Seq(Section) /\ next \in Nat \ {0}
    BY <1>1, CfgTypes DEF LInv, LType
  <2>2. /\ Len(sections) = next - 1 /\ next > Len(cfg.sections)
        /\ sections \in Seq([seg : Nat, offs : Nat, size : Nat, align : Nat])
        /\ \A j \in 1 .. next - 1 : sections[j].seg = cfg.sections[j].seg
    BY <1>1 DEF LInv, Reading, Linked
  <2>3. k \in 1 .. Len(cfg.sections) /\ Len(cfg.sections) \in Nat
    BY <2>1
  <2>4. k \in 1 .. next - 1
    BY <2>1, <2>2, <2>3
  <2>5. DOMAIN sections = 1 .. next - 1
    BY <2>2
  <2> QED
    BY <2>2, <2>4, <2>5
<1>8. ASSUME NEW s \in {B.bss, B.once} PROVE InList(s, B.main) /\ Stands(s)
  BY <1>1, <1>2, <1>7, CfgTypes DEF InList, Stands, Linked
<1>9. ASSUME NEW s \in Segs, InList(s, B.main)
      PROVE  /\ S(s).load = B.main /\ S(s).run = B.main /\ ~S(s).overwrite
             /\ (S(s).bss <=> s = B.bss) /\ ~(B.bss < s /\ s < B.once)
  <2>1. B.main \in {S(s).load, S(s).run} \ {0}
    BY <1>1, <1>2, <1>9, CfgTypes DEF InList
  <2> QED
    BY <1>5, <1>6, <2>1
<1>10. ASSUME NEW a \in Areas, M(a).file = M(B.main).file PROVE ~Overwritten(a)
  <2> SUFFICES ASSUME NEW s \in Segs, InList(s, a), S(s).overwrite PROVE FALSE
    BY DEF Overwritten
  <2>1. a \in {S(s).load, S(s).run} \ {0}
    BY <1>1, CfgTypes DEF InList
  <2> QED
    BY <1>6, <1>10, <2>1
<1>11. overflows = 0
  <2>1. PICK e, l : Writing(e, l)
    BY DEF Linked, FileInv, WritingInv
  <2> QED
    BY <2>1 DEF Writing, Plan
<1>12. MainStart \in Nat /\ M(B.main).size \in Nat
  BY <1>1, <1>2, CfgTypes DEF MainStart
<1> QED
  BY <1>1, <1>2, <1>4, <1>8, <1>9, <1>10, <1>11, <1>12

\* The segments of the main area that hold code and data of the program.
Code(s) == InList(s, B.main) /\ S(s).run = B.main /\ S(s).load = B.main /\ ~S(s).bss /\ s < B.bss

\* Code and data, the BSS and ONCE are apart, in this order, and within memory.
LEMMA Regions ==
    ASSUME Linked
    PROVE  /\ BssRun \in Nat /\ BssSize \in Nat /\ OnceRun \in Nat /\ OnceSize \in Nat
           /\ MainStart <= BssRun /\ BssRun + BssSize <= OnceRun /\ OnceRun + OnceSize <= Top + 1
           /\ \A s \in Segs : Code(s) => MainStart <= segPC[s] /\ segPC[s] + segSize[s] <= BssRun
<1>1. /\ BssRun \in Nat /\ BssSize \in Nat /\ OnceRun \in Nat /\ OnceSize \in Nat
      /\ \A s \in {B.bss, B.once} : Stands(s) /\ S(s).run = B.main /\ ~S(s).overwrite
  BY MainArea DEF BssRun, BssSize, OnceRun, OnceSize
<1>2. BssRun + BssSize <= OnceRun
  BY <1>1, MainArea DEF Linked, FileInv, LInv, Apart, BssRun, BssSize, OnceRun
<1>3. MainStart <= BssRun /\ OnceRun + OnceSize <= MainStart + M(B.main).size
  BY <1>1, MainArea DEF Linked, FileInv, LInv, Inside, BssRun, OnceRun, OnceSize, MainStart
<1>4. OnceRun + OnceSize <= Top + 1
  BY <1>1, <1>3, MainArea
<1>5. ASSUME NEW s \in Segs, Code(s)
      PROVE  MainStart <= segPC[s] /\ segPC[s] + segSize[s] <= BssRun
  <2>1. S(s).run = B.main /\ ~S(s).overwrite /\ s < B.bss
    BY <1>5, MainArea DEF Code
  <2>2. Stands(s)
    BY <1>5, <2>1, MainArea, CfgTypes DEF Code, InList, Stands, Linked
  <2>3. MainStart <= segPC[s]
    BY <2>1, <2>2, MainArea DEF Linked, FileInv, LInv, Inside, MainStart
  <2>4. segPC[s] + segSize[s] <= segPC[B.bss]
    BY <1>1, <2>1, <2>2, MainArea DEF Linked, FileInv, LInv, Apart
  <2> QED
    BY <2>3, <2>4 DEF BssRun
<1> QED
  BY <1>1, <1>2, <1>3, <1>4, <1>5

\* The bytes of the sections of s are in the file.
LEMMA SectionBytes ==
    ASSUME Linked, NEW s \in Segs, InList(s, B.main), ~S(s).bss,
           NEW k \in DOMAIN sections, sections[k].seg = s,
           NEW b \in sections[k].offs .. sections[k].offs + sections[k].size - 1
    PROVE  /\ b \in Nat /\ b < segSize[s] /\ outputOffs[s] \in Nat
           /\ outputOffs[s] + b + 1 \in DOMAIN out[M(B.main).file]
           /\ out[M(B.main).file][outputOffs[s] + b + 1] = [seg |-> s, offs |-> b]
<1>1. PICK e, l : Writing(e, l)
  BY DEF Linked, FileInv, WritingInv
<1>2. S(s).load = B.main /\ M(B.main).file \in Files /\ B.main \in Areas
  BY MainArea, FileOf
<1>3. Sent(s)
  <2>1. Past(B.main)
    BY <1>1, <1>2 DEF Writing, Written, Linked
  <2> QED
    BY <1>2, <2>1 DEF Sent, Seen
<1> PICK f : f = M(B.main).file
  OBVIOUS
<1>4. f \in Files /\ out[f] \in Seq(Byte) /\ outputOffs[s] \in Nat /\ segSize[s] \in Nat
  BY <1>1, <1>2, MainArea DEF Writing, Written
<1>5. \A i \in 1 .. segSize[s] : outputOffs[s] + i <= Len(out[f])
  BY <1>1, <1>2, <1>3, MainArea DEF Writing, Bytes
<1>6. /\ sections[k].offs \in Nat /\ sections[k].size \in Nat
      /\ sections[k].offs + sections[k].size <= segSize[s]
  BY SectionTypes DEF Linked, FileInv, SectionsFit
<1>7. b \in Nat /\ b < segSize[s] /\ b + 1 \in 1 .. segSize[s]
  BY <1>4, <1>6
<1>8. outputOffs[s] + b + 1 \in 1 .. Len(out[f])
  BY <1>4, <1>5, <1>7
<1>9. out[f][outputOffs[s] + b + 1] = [seg |-> s, offs |-> b]
  <2>1. EveryByteWritten
    BY BytesWritten DEF Linked
  <2>2. S(s).load # 0
    BY <1>2, MainArea, CfgTypes
  <2> QED
    BY <1>2, <2>1, <2>2, MainArea DEF EveryByteWritten, Linked
<1> QED
  BY <1>4, <1>7, <1>8, <1>9

\* Code and data stand in the image as far behind its begin as in memory.
LEMMA CodeInImage ==
    ASSUME Linked, NEW s \in Segs, Code(s)
    PROVE  outputOffs[s] - fileOffs[B.main] = segPC[s] - MainStart
<1>1. ImageInPlace /\ pc = "linked"
  BY StandsInPlace DEF Linked
<1>2. Stands(s) /\ S(s).run = B.main /\ S(s).load = B.main /\ ~S(s).bss /\ M(B.main).file # 0
  BY MainArea, CfgTypes DEF Code, InList, Stands, Linked
<1>3. \A t \in 1 .. s - 1 : InList(t, B.main) => ~S(t).bss /\ S(t).load = B.main
  <2> SUFFICES ASSUME NEW t \in 1 .. s - 1, InList(t, B.main) PROVE ~S(t).bss /\ S(t).load = B.main
    OBVIOUS
  <2>1. cfg.segs \in Seq(SegDesc)
    BY MainArea, LayoutAssumption
  <2>2. s \in 1 .. Len(cfg.segs) /\ Segs = 1 .. Len(cfg.segs)
    BY <2>1 DEF Segs
  <2>3. t \in Segs /\ t < s /\ s \in Nat
    BY <2>2
  <2>4. s < B.bss /\ B.bss \in Nat
    BY MainArea, CfgTypes DEF Code
  <2>5. t # B.bss
    BY <2>3, <2>4
  <2> QED
    BY <2>3, <2>5, MainArea
<1> QED
  BY <1>1, <1>2, <1>3 DEF ImageInPlace, MainStart

\* In front of the BSS everything is counted.
LEMMA CountedTo ==
    ASSUME Linked, NEW w, NEW z, NEW t \in Marks, Steps(B.main, t, w, z),
           NEW p \in Marks, Listed(p, B.main), p < B.bss, p <= t
    PROVE  z[p] - z[0] = w[p] - w[0]
<1>1. /\ cfg \in Configs /\ B.main \in Areas /\ B.bss \in Nat /\ t \in Nat /\ p \in Nat
      /\ \A u \in Segs : u \in Nat \ {0}
  BY MainArea, CfgTypes DEF Marks
<1>2. \A u \in Marks : w[u] \in Nat /\ z[u] \in Nat
  BY DEF Steps
<1>3. 0 \in Marks
  BY DEF Marks
<1> DEFINE Off == {u \in Segs : InList(u, B.main) /\ u < B.bss /\ u <= t /\ z[u] - z[0] # w[u] - w[0]}
<1>4. Off = {}
  <2> SUFFICES ASSUME Off # {} PROVE FALSE
    OBVIOUS
  <2>1. Off \in SUBSET Nat
    BY <1>1
  <2>2. PICK u \in Off : \A k \in Off : u <= k
    BY <2>1, LeastExists
  <2>3. u \in Segs /\ u \in Marks /\ InList(u, B.main) /\ u < B.bss /\ u <= t /\ u \in Nat
    BY <1>1, <2>2 DEF Marks
  <2>4. PICK q \in Marks : Prev(B.main, q, u)
    BY <1>1, <2>3, PrevExists
  <2>5. z[q] - z[0] = w[q] - w[0]
    <3>1. CASE q = 0
      BY <1>2, <1>3, <3>1
    <3>2. CASE q # 0
      <4>1. q \in Segs /\ InList(q, B.main) /\ q < u /\ q \in Nat
        BY <1>1, <2>4, <3>2 DEF Marks, Prev, Listed
      <4>2. q \notin Off
        BY <2>2, <2>3, <4>1
      <4> QED
        BY <1>1, <2>3, <4>1, <4>2
    <3> QED
      BY <3>1, <3>2
  <2>6. Counts(B.main, u)
    <3>1. u # B.bss
      BY <1>1, <2>3
    <3> QED
      BY <2>3, <3>1, MainArea DEF Counts
  <2>7. Stride(B.main, q, u, w, z)
    BY <2>3, <2>4 DEF Steps
  <2>8. z[u] = z[q] + (w[u] - w[q])
    BY <2>6, <2>7 DEF Stride
  <2>9. z[u] - z[0] = w[u] - w[0]
    <3> PICK zu, zq, z0, wu, wq, w0 : /\ zu = z[u] /\ zq = z[q] /\ z0 = z[0]
                                      /\ wu = w[u] /\ wq = w[q] /\ w0 = w[0]
      OBVIOUS
    <3>1. zu \in Nat /\ zq \in Nat /\ z0 \in Nat /\ wu \in Nat /\ wq \in Nat /\ w0 \in Nat
      BY <1>2, <1>3, <2>3
    <3>2. zu = zq + (wu - wq) /\ zq - z0 = wq - w0
      BY <2>5, <2>8
    <3>3. zu - z0 = wu - w0
      BY ONLY <3>1, <3>2
    <3> QED
      BY <3>3
  <2> QED
    BY <2>2, <2>9
<1>5. CASE p = 0
  BY <1>2, <1>3, <1>5
<1>6. CASE p # 0
  <2>1. p \in Segs /\ InList(p, B.main)
    BY <1>6 DEF Marks, Listed
  <2> QED
    BY <1>4, <2>1
<1> QED
  BY <1>5, <1>6

\* ONCE stands in the image where the relocator takes it from.
LEMMA OnceInImage ==
    ASSUME Linked, OnceSize > 0
    PROVE  outputOffs[B.once] - fileOffs[B.main] = OncePhys - MainStart
<1> PICK m, b, s : m = B.main /\ b = B.bss /\ s = B.once
  OBVIOUS
<1>1. /\ cfg \in Configs /\ m \in Areas /\ b \in Segs /\ s \in Segs /\ b < s
      /\ InList(s, m) /\ InList(b, m) /\ S(s).run = m /\ S(s).load = m /\ ~S(s).bss /\ ~S(s).overwrite
      /\ S(b).run = m /\ S(b).load = m /\ S(b).bss /\ ~S(b).overwrite
      /\ S(s).align = 0 /\ S(s).at = "next" /\ S(b).align = 0 /\ S(b).at = "next"
      /\ \A u \in Segs : InList(u, m) => ~(b < u /\ u < s) /\ S(u).load = m /\ ~S(u).overwrite
      /\ M(m).file # 0 /\ (B.inPlace <=> M(m).fill) /\ Stands(s)
  <2>1. s # b
    BY MainArea, CfgTypes
  <2> QED
    BY <2>1, MainArea
<1>2. /\ LInv /\ pc = "linked" /\ segSize[s] > 0
      /\ \A u \in Segs : u \in Nat \ {0} /\ segSize[u] \in Nat /\ segPC[u] \in Nat
      /\ M(m).start \in Nat
  BY <1>1, MainArea, CfgTypes DEF Linked, FileInv, OnceSize
<1>3. CASE B.inPlace
  <2>1. outputOffs[s] - fileOffs[m] = segPC[s] - M(m).start
    <3>1. ImageInPlace
      BY StandsInPlace DEF Linked
    <3> QED
      BY <1>1, <1>2, <1>3, <3>1 DEF ImageInPlace
  <2> QED
    BY <1>3, <2>1 DEF OncePhys, OnceRun, MainStart
<1>4. CASE ~B.inPlace
  <2>1. PICK e, l : Writing(e, l)
    BY DEF Linked, FileInv, WritingInv
  <2>2. PICK w, z : Walked(m, w, z, e[m], l[m])
    BY <1>1, <2>1 DEF Writing, Plan, Laid
  <2>3. PICK t \in Marks : LastIn(m, t) /\ Trace(m, t, w, z) /\ Runners(m, t, w)
    BY <2>2 DEF Walked
  <2>4. s <= t /\ b <= t /\ t \in Nat
    <3>1. s <= t /\ b <= t
      BY <1>1, <2>3 DEF LastIn
    <3> QED
      BY <1>2, <3>1 DEF Marks
  <2>5. Steps(m, t, w, z)
    BY <2>3 DEF Trace, Steps
  <2>6. PICK p \in Marks : Prev(m, p, b)
    BY <1>1, PrevExists
  <2>7. Prev(m, b, s) /\ b \in Marks
    <3>1. ASSUME NEW u \in Segs, InList(u, m) PROVE u <= b \/ s <= u
      BY <1>1, <1>2, <3>1
    <3> QED
      BY <1>1, <3>1 DEF Prev, Listed, Marks
  <2>8. Stride(m, p, b, w, z) /\ Stride(m, b, s, w, z)
    BY <1>1, <2>3, <2>4, <2>6, <2>7 DEF Trace
  <2>9. ~M(m).fill /\ ~Counts(m, b) /\ Counts(m, s)
    BY <1>1, <1>4 DEF Counts
  <2>10. NewIn(m, b, w[p]) = w[p] /\ NewIn(m, s, w[b]) = w[b]
    BY <1>1 DEF NewIn, Fixed
  <2>11. w[b] = w[p] + segSize[b] /\ z[b] = z[p] + 0
    BY <2>8, <2>9, <2>10 DEF Stride
  <2>12. w[s] = w[b] + segSize[s] /\ z[s] = z[b] + (w[s] - w[b])
    BY <2>8, <2>9, <2>10 DEF Stride
  <2>13. segPC[b] + segSize[b] = w[b]
    BY <1>1, <2>3, <2>4 DEF Runners
  <2>14. outputOffs[s] + segSize[s] = z[s]
    <3>1. s \in dumped
      BY <1>1, <1>2 DEF Linked, EndsInv
    <3>2. Ends(s)
      BY <1>2, <3>1 DEF Linked, EndsInv
    <3>3. Told(m, s)
      BY <1>1 DEF Told
    <3>4. Steps(m, s, w, z)
      <4>1. \A u \in Segs : u <= s => u <= t
        BY <1>1, <1>2, <2>4
      <4> QED
        BY <2>5, <4>1 DEF Steps
    <3> QED
      BY <1>1, <3>2, <3>3, <3>4 DEF Ends
  <2>15. z[p] - z[0] = w[p] - w[0] /\ z[0] = fileOffs[m] /\ w[0] = M(m).start
    <3>1. Listed(p, m) /\ p < b /\ p <= t
      <4>1. Listed(p, m) /\ p < b /\ p \in Nat
        BY <1>2, <2>6 DEF Prev, Marks
      <4> QED
        BY <1>1, <1>2, <2>4, <4>1
    <3>2. z[p] - z[0] = w[p] - w[0]
      BY <2>5, <3>1, CountedTo
    <3> QED
      BY <2>5, <3>2 DEF Steps
  <2>16. /\ w[p] \in Nat /\ w[b] \in Nat /\ w[s] \in Nat /\ z[p] \in Nat /\ z[b] \in Nat /\ z[s] \in Nat
         /\ fileOffs[m] \in Int /\ outputOffs[s] \in Nat
    <3>1. fileOffs \in [Areas -> Int] /\ outputOffs \in [Segs -> Nat]
      BY <2>1 DEF Linked, FileInv, FileTypes, Writing, Written
    <3>2. p \in Marks /\ b \in Marks /\ s \in Marks
      BY <1>1 DEF Marks
    <3> QED
      BY <1>1, <2>5, <3>1, <3>2 DEF Steps
  <2> PICK wp, wb, ws, zp, zb, zs, o, a, c, d, n : /\ wp = w[p] /\ wb = w[b] /\ ws = w[s]
                                                   /\ zp = z[p] /\ zb = z[b] /\ zs = z[s]
                                                   /\ o = fileOffs[m] /\ a = M(m).start /\ c = segPC[b]
                                                   /\ d = segSize[b] /\ n = segSize[s]
    OBVIOUS
  <2> PICK k : k = outputOffs[s]
    OBVIOUS
  <2>17. /\ wp \in Nat /\ wb \in Nat /\ ws \in Nat /\ zp \in Nat /\ zb \in Nat /\ zs \in Nat
         /\ o \in Int /\ a \in Nat /\ c \in Nat /\ d \in Nat /\ n \in Nat /\ k \in Nat
    BY <1>1, <1>2, <2>16
  <2>18. /\ wb = wp + d /\ zb = zp + 0 /\ ws = wb + n /\ zs = zb + (ws - wb) /\ c + d = wb /\ k + n = zs
         /\ zp - o = wp - a
    BY <2>11, <2>12, <2>13, <2>14, <2>15
  <2>19. zs = zp + n /\ c = wp
    BY ONLY <2>17, <2>18
  <2>20. k - o = c - a
    BY ONLY <2>17, <2>18, <2>19
  <2> QED
    BY <1>4, <2>20 DEF OncePhys, BssRun, MainStart
<1> QED
  BY <1>3, <1>4

-----------------------------------------------------------------------------
(* What is in memory.                                                      *)

\* The directory (defdir.s) tells the loader where the linker has put main.
DirectoryRight == pc = "linked" /\ B.main # 0 => fileOffs[B.main] = B.offs

\* The bytes of s are at p and behind.
StandsAt(s, p, m) ==
    \A k \in DOMAIN sections : sections[k].seg = s =>
        \A b \in sections[k].offs .. sections[k].offs + sections[k].size - 1 :
            m[p + b] = [seg |-> s, offs |-> b]

\* What stands in the image as far behind its begin as p, the loader puts at p.
LEMMA LoadsAt ==
    ASSUME Linked, DirectoryRight, Load, NEW s \in Segs, InList(s, B.main), ~S(s).bss, NEW p \in Nat,
           MainStart <= p, p + segSize[s] <= OncePhys + OnceSize, OncePhys <= OnceRun,
           segSize[s] > 0 => outputOffs[s] - fileOffs[B.main] = p - MainStart
    PROVE  StandsAt(s, p, mem')
<1> SUFFICES ASSUME NEW k \in DOMAIN sections, sections[k].seg = s,
                    NEW b \in sections[k].offs .. sections[k].offs + sections[k].size - 1
             PROVE  mem'[p + b] = [seg |-> s, offs |-> b]
  BY DEF StandsAt
<1> PICK f : f = out[M(B.main).file]
  OBVIOUS
<1>1. /\ b \in Nat /\ b < segSize[s] /\ outputOffs[s] \in Nat
      /\ outputOffs[s] + b + 1 \in DOMAIN f /\ f[outputOffs[s] + b + 1] = [seg |-> s, offs |-> b]
  BY SectionBytes
<1>2. /\ OncePhys \in Nat /\ OnceSize \in Nat /\ MainStart \in Nat /\ segSize[s] \in Nat /\ Top \in Nat
      /\ OnceRun + OnceSize <= Top + 1 /\ OnceRun \in Nat
  BY MainArea, Regions DEF OncePhys
<1>3. p + b \in 0 .. Top /\ p + b \in MainStart .. MainStart + (OncePhys + OnceSize - MainStart) - 1
  BY <1>1, <1>2
<1>4. B.offs + (p + b) - MainStart + 1 = outputOffs[s] + b + 1
  <2> PICK o, q, g : o = outputOffs[s] /\ q = MainStart /\ g = B.offs
    OBVIOUS
  <2>1. fileOffs[B.main] = g
    BY DEF DirectoryRight, Linked
  <2>2. g \in Nat
    BY MainArea, StartupAssumption DEF B
  <2>3. o - g = p - q /\ o \in Nat /\ q \in Nat
    BY <1>1, <1>2, <2>1
  <2>4. g + (p + b) - q + 1 = o + b + 1
    BY ONLY <1>1, <2>2, <2>3
  <2> QED
    BY <2>4
<1>5. mem'[p + b] = IF B.offs + (p + b) - MainStart + 1 \in DOMAIN f
                    THEN f[B.offs + (p + b) - MainStart + 1] ELSE Junk
  BY <1>3 DEF Load
<1> QED
  BY <1>1, <1>4, <1>5

\* Code and data stay where the loader puts them; the image has ONCE where the
\* relocator takes it from, and the relocator puts it where it runs; the BSS is
\* cleared before the constructors run.
MemInv ==
    boot # "off" =>
        /\ pc = "linked" /\ B.main # 0 /\ DOMAIN mem = 0 .. Top
        /\ DirectoryRight =>
              /\ \A s \in Segs : Code(s) => StandsAt(s, segPC[s], mem)
              /\ boot = "copy" => StandsAt(B.once, OncePhys, image)
              /\ boot \in {"once", "cleared"} => StandsAt(B.once, OnceRun, mem)
        /\ boot = "cleared" => \A a \in BssRun .. BssRun + BssSize - 1 : mem[a] = Zero

\* The bytes of a segment stay if nothing is written to them.
LEMMA StandsAtStays ==
    ASSUME LInv, SectionsFit, NEW s \in Segs, NEW p \in Nat, NEW m, StandsAt(s, p, m), NEW n,
           \A b \in Nat : b < segSize[s] => n[p + b] = m[p + b]
    PROVE  StandsAt(s, p, n)
<1> SUFFICES ASSUME NEW k \in DOMAIN sections, sections[k].seg = s,
                    NEW b \in sections[k].offs .. sections[k].offs + sections[k].size - 1
             PROVE  n[p + b] = [seg |-> s, offs |-> b]
  BY DEF StandsAt
<1>1. /\ sections[k].offs \in Nat /\ sections[k].size \in Nat /\ segSize[s] \in Nat
      /\ sections[k].offs + sections[k].size <= segSize[s]
  BY SectionTypes DEF SectionsFit, LInv, LType
<1>2. b \in Nat /\ b < segSize[s]
  BY <1>1
<1>3. m[p + b] = [seg |-> s, offs |-> b]
  BY DEF StandsAt
<1> QED
  BY <1>2, <1>3

\* The startup changes nothing of the layout.
LEMMA MemGoal ==
    ASSUME UNCHANGED layoutVars,
           boot' # "off" =>
              /\ pc = "linked" /\ B.main # 0 /\ DOMAIN mem' = 0 .. Top
              /\ DirectoryRight =>
                    /\ \A s \in Segs : Code(s) => StandsAt(s, segPC[s], mem')
                    /\ boot' = "copy" => StandsAt(B.once, OncePhys, image')
                    /\ boot' \in {"once", "cleared"} => StandsAt(B.once, OnceRun, mem')
              /\ boot' = "cleared" => \A a \in BssRun .. BssRun + BssSize - 1 : mem'[a] = Zero
    PROVE  MemInv'
<1>1. UNCHANGED <<cfg, pc, sections, segSize, segPC, fileOffs>>
  BY DEF layoutVars, segments, placement
<1>2. /\ Segs' = Segs /\ B' = B /\ OncePhys' = OncePhys /\ OnceRun' = OnceRun
      /\ BssRun' = BssRun /\ BssSize' = BssSize
  BY <1>1 DEF Segs, B, OncePhys, OnceRun, BssRun, BssSize
<1>3. DirectoryRight' <=> DirectoryRight
  BY <1>1, <1>2 DEF DirectoryRight
<1>4. \A s \in Segs : Code(s)' <=> Code(s)
  BY <1>1 DEF Code, InList, S, B
<1>5. ASSUME NEW s \in Segs, StandsAt(s, segPC[s], mem') PROVE StandsAt(s, segPC[s], mem)'
  BY <1>1, <1>5 DEF StandsAt
<1>6. StandsAt(B.once, OncePhys, image') => StandsAt(B.once, OncePhys, image)'
  BY <1>1, <1>2 DEF StandsAt
<1>7. StandsAt(B.once, OnceRun, mem') => StandsAt(B.once, OnceRun, mem)'
  BY <1>1, <1>2 DEF StandsAt
<1> QED
  BY <1>1, <1>2, <1>3, <1>4, <1>5, <1>6, <1>7 DEF MemInv

\* The loader has copied.
LEMMA MemLoad == FileInv /\ EndsInv /\ Load => MemInv'
<1> SUFFICES ASSUME FileInv, EndsInv, Load PROVE MemInv'
  OBVIOUS
<1>1. Linked /\ UNCHANGED layoutVars /\ boot' \in {"copy", "once"} /\ image' = mem'
      /\ DOMAIN mem' = 0 .. Top /\ x' = OnceSize % Page /\ (boot' = "once" => x' = 0) /\ OnceSize < Page
  BY DEF Load, Linked
<1>2. /\ OnceRun \in Nat /\ OnceSize \in Nat /\ BssRun \in Nat /\ BssSize \in Nat
      /\ OncePhys \in Nat /\ OncePhys <= OnceRun /\ BssRun <= OncePhys /\ MainStart <= OncePhys
      /\ MainStart \in Nat
      /\ \A s \in Segs : Code(s) => MainStart <= segPC[s] /\ segPC[s] + segSize[s] <= BssRun
  <2>1. MainStart \in Nat
    BY <1>1, MainArea
  <2> QED
    BY <1>1, <2>1, Regions DEF OncePhys
<1>3. ASSUME DirectoryRight, NEW s \in Segs, Code(s) PROVE StandsAt(s, segPC[s], mem')
  <2> PICK p : p = segPC[s]
    OBVIOUS
  <2>1. /\ p \in Nat /\ segSize[s] \in Nat /\ InList(s, B.main) /\ ~S(s).bss
        /\ outputOffs[s] - fileOffs[B.main] = p - MainStart
    BY <1>1, <1>3, MainArea, CodeInImage DEF Code
  <2>2. MainStart <= p /\ p + segSize[s] <= OncePhys + OnceSize
    BY <1>2, <1>3, <2>1
  <2>3. StandsAt(s, p, mem')
    BY <1>1, <1>2, <1>3, <2>1, <2>2, LoadsAt
  <2> QED
    BY <2>3
<1>4. ASSUME DirectoryRight PROVE StandsAt(B.once, OncePhys, mem')
  <2> PICK p, s : p = OncePhys /\ s = B.once
    OBVIOUS
  <2>1. s \in Segs /\ InList(s, B.main) /\ ~S(s).bss /\ segSize[s] = OnceSize /\ p \in Nat
    <3>1. B.once # B.bss
      BY <1>1, MainArea, CfgTypes
    <3> QED
      BY <1>1, <1>2, <3>1, MainArea DEF OnceSize
  <2>2. segSize[s] > 0 => outputOffs[s] - fileOffs[B.main] = p - MainStart
    BY <1>1, <2>1, OnceInImage
  <2>3. StandsAt(s, p, mem')
    BY <1>1, <1>2, <1>4, <2>1, <2>2, LoadsAt
  <2> QED
    BY <2>3
<1>5. boot' = "once" => StandsAt(B.once, OnceRun, mem')
  <2> SUFFICES ASSUME boot' = "once", NEW k \in DOMAIN sections, sections[k].seg = B.once,
                      NEW b \in sections[k].offs .. sections[k].offs + sections[k].size - 1
               PROVE  FALSE
    BY DEF StandsAt
  <2>1. OnceSize = 0
    BY <1>1, <1>2, StartupAssumption
  <2>2. /\ sections[k].offs \in Nat /\ sections[k].size \in Nat
        /\ sections[k].offs + sections[k].size <= 0
    BY <2>1, SectionTypes DEF FileInv, SectionsFit, OnceSize
  <2> QED
    BY <2>2
<1> QED
  BY <1>1, <1>3, <1>4, <1>5, MemGoal DEF Linked

\* The relocator has copied a byte.
LEMMA MemCopy == FileInv /\ EndsInv /\ CopyInv /\ CopyInv' /\ MemInv /\ Copy => MemInv'
<1> SUFFICES ASSUME FileInv, EndsInv, CopyInv, CopyInv', MemInv, Copy PROVE MemInv'
  OBVIOUS
<1>1. /\ UNCHANGED layoutVars /\ boot = "copy" /\ boot' \in {"copy", "once"} /\ image' = image
      /\ mem' = [mem EXCEPT ![OnceRun + x - 1] = mem[OncePhys + x - 1]]
      /\ x > 0 /\ x \in 0 .. OnceSize /\ pc = "linked" /\ B.main # 0 /\ DOMAIN mem = 0 .. Top
      /\ boot' = "once" => CopiedDownTo(0)'
  BY DEF Copy, CopyInv
<1>2. Linked
  BY <1>1 DEF Linked
<1>3. /\ OnceRun \in Nat /\ OnceSize \in Nat /\ BssRun \in Nat /\ BssSize \in Nat
      /\ OncePhys \in Nat /\ BssRun + BssSize <= OnceRun /\ OnceRun + OnceSize <= Top + 1 /\ Top \in Nat
      /\ \A s \in Segs : Code(s) => segPC[s] + segSize[s] <= BssRun
      /\ \A s \in Segs : segPC[s] \in Nat /\ segSize[s] \in Nat
  <2>1. Top \in Nat /\ \A s \in Segs : segPC[s] \in Nat /\ segSize[s] \in Nat
    BY <1>2, MainArea
  <2> QED
    BY <1>2, <2>1, Regions DEF OncePhys
<1>4. ASSUME DirectoryRight, NEW s \in Segs, Code(s) PROVE StandsAt(s, segPC[s], mem')
  <2> PICK p, m, n : p = segPC[s] /\ m = mem /\ n = mem'
    OBVIOUS
  <2>1. StandsAt(s, p, m) /\ p \in Nat
    BY <1>1, <1>3, <1>4 DEF MemInv
  <2>2. ASSUME NEW b \in Nat, b < segSize[s] PROVE n[p + b] = m[p + b]
    <3>1. p + b # OnceRun + x - 1
      <4> PICK r, c, d : r = OnceRun /\ c = segSize[s] /\ d = BssRun
        OBVIOUS
      <4>1. /\ r \in Nat /\ c \in Nat /\ d \in Nat /\ p \in Nat /\ BssSize \in Nat /\ x \in Nat
            /\ p + c <= d /\ d + BssSize <= r /\ b < c /\ x > 0
        BY <1>1, <1>3, <1>4, <2>1, <2>2
      <4>2. p + b # r + x - 1
        BY ONLY <2>2, <4>1
      <4> QED
        BY <4>2
    <3> QED
      BY <1>1, <3>1
  <2>3. StandsAt(s, p, n)
    BY <2>1, <2>2, StandsAtStays DEF FileInv
  <2> QED
    BY <2>3
<1>5. ASSUME DirectoryRight, boot' = "once" PROVE StandsAt(B.once, OnceRun, mem')
  <2> SUFFICES ASSUME NEW k \in DOMAIN sections, sections[k].seg = B.once,
                      NEW b \in sections[k].offs .. sections[k].offs + sections[k].size - 1
               PROVE  mem'[OnceRun + b] = [seg |-> B.once, offs |-> b]
    BY DEF StandsAt
  <2>1. /\ sections[k].offs \in Nat /\ sections[k].size \in Nat
        /\ sections[k].offs + sections[k].size <= OnceSize
    BY SectionTypes DEF FileInv, SectionsFit, OnceSize
  <2>2. b \in Nat /\ b < OnceSize
    BY <1>3, <2>1
  <2>3. image[OncePhys + b] = [seg |-> B.once, offs |-> b]
    BY <1>1, <1>5 DEF MemInv, StandsAt
  <2>4. OnceRun' = OnceRun /\ OnceSize' = OnceSize /\ OncePhys' = OncePhys
    BY <1>1 DEF OnceRun, OnceSize, OncePhys, BssRun, B, layoutVars, segments, placement
  <2>5. \A a \in 0 .. Top : mem'[a] = IF a \in OnceRun + 0 .. OnceRun + OnceSize - 1
                                      THEN image[OncePhys + a - OnceRun] ELSE image[a]
    BY <1>1, <1>5, <2>4 DEF CopiedDownTo
  <2>6. OnceRun + b \in 0 .. Top /\ OnceRun + b \in OnceRun + 0 .. OnceRun + OnceSize - 1
        /\ OncePhys + (OnceRun + b) - OnceRun = OncePhys + b
    BY <1>3, <2>2
  <2>7. mem'[OnceRun + b] = image[OncePhys + (OnceRun + b) - OnceRun]
    BY <2>5, <2>6
  <2> QED
    BY <2>3, <2>6, <2>7
<1>6. DOMAIN mem' = 0 .. Top /\ boot' # "cleared"
  BY <1>1
<1>7. DirectoryRight => StandsAt(B.once, OncePhys, image')
  BY <1>1 DEF MemInv
<1> QED
  BY <1>1, <1>4, <1>5, <1>6, <1>7, MemGoal

\* What is written above code and data, or above ONCE, disturbs neither.
LEMMA MemAbove ==
    ASSUME FileInv, EndsInv, MemInv, boot # "off", DirectoryRight, NEW n,
           \A a \in 0 .. Top : a < BssRun => n[a] = mem[a]
    PROVE  \A s \in Segs : Code(s) => StandsAt(s, segPC[s], n)
<1> SUFFICES ASSUME NEW s \in Segs, Code(s) PROVE StandsAt(s, segPC[s], n)
  OBVIOUS
<1>1. Linked
  BY DEF MemInv, Linked
<1> PICK p, m : p = segPC[s] /\ m = mem
  OBVIOUS
<1>2. StandsAt(s, p, m)
  BY DEF MemInv
<1>3. /\ p \in Nat /\ segSize[s] \in Nat /\ BssRun \in Nat /\ BssSize \in Nat /\ OnceSize \in Nat
      /\ OnceRun \in Nat /\ Top \in Nat /\ p + segSize[s] <= BssRun
      /\ BssRun + BssSize <= OnceRun /\ OnceRun + OnceSize <= Top + 1
  <2>1. p \in Nat /\ segSize[s] \in Nat /\ Top \in Nat
    BY <1>1, MainArea
  <2> QED
    BY <1>1, <2>1, Regions
<1>4. ASSUME NEW b \in Nat, b < segSize[s] PROVE n[p + b] = m[p + b]
  <2>1. p + b \in 0 .. Top /\ p + b < BssRun
    BY <1>3, <1>4
  <2> QED
    BY <2>1
<1>5. StandsAt(s, p, n)
  BY <1>2, <1>3, <1>4, StandsAtStays DEF FileInv
<1> QED
  BY <1>5

\* Every step keeps what is in memory.
LEMMA MemStep == FileInv /\ EndsInv /\ CopyInv /\ CopyInv' /\ MemInv /\ [Next]_vars => MemInv'
<1> SUFFICES ASSUME FileInv, EndsInv, CopyInv, CopyInv', MemInv, [Next]_vars PROVE MemInv'
  OBVIOUS
<1>1. CASE Link
  <2>1. pc # "linked" /\ boot' = boot
    BY <1>1 DEF Link, LayoutNext, ReadSection, ReadTooAligned, EndOfInput, BeginArea, PlaceSegment,
                PlaceError, EndArea, EndOfPlacing, SkipArea, BeginWriteMem, WriteSegment, EndWriteMem,
                EndOfWriting, CheckSegments
  <2> QED
    BY <2>1 DEF MemInv
<1>2. CASE Load
  BY <1>2, MemLoad
<1>3. CASE Copy
  BY <1>3, MemCopy
<1>4. CASE ZeroBss
  <2>1. /\ boot = "once" /\ boot' = "cleared" /\ UNCHANGED layoutVars /\ pc = "linked" /\ B.main # 0
        /\ mem' = [a \in 0 .. Top |-> IF a \in BssRun .. BssRun + BssSize - 1 THEN Zero ELSE mem[a]]
    BY <1>4 DEF ZeroBss, MemInv
  <2>2. Linked /\ DOMAIN mem' = 0 .. Top
    BY <2>1 DEF Linked
  <2>3. /\ BssRun \in Nat /\ BssSize \in Nat /\ OnceRun \in Nat /\ OnceSize \in Nat
        /\ BssRun + BssSize <= OnceRun /\ OnceRun + OnceSize <= Top + 1 /\ Top \in Nat
    <3>1. Top \in Nat
      BY <2>2, MainArea
    <3> QED
      BY <2>2, <3>1, Regions
  <2>4. DirectoryRight => \A s \in Segs : Code(s) => StandsAt(s, segPC[s], mem')
    <3>1. \A a \in 0 .. Top : a < BssRun => mem'[a] = mem[a]
      BY <2>1, <2>3
    <3> QED
      BY <2>1, <3>1, MemAbove
  <2>5. ASSUME DirectoryRight PROVE StandsAt(B.once, OnceRun, mem')
    <3> PICK p, s, m, n : p = OnceRun /\ s = B.once /\ m = mem /\ n = mem'
      OBVIOUS
    <3>1. s \in Segs /\ segSize[s] = OnceSize /\ StandsAt(s, p, m) /\ p \in Nat
      BY <2>1, <2>2, <2>3, <2>5, MainArea DEF MemInv, OnceSize
    <3>2. ASSUME NEW b \in Nat, b < segSize[s] PROVE n[p + b] = m[p + b]
      <4>1. p + b \in 0 .. Top /\ p + b \notin BssRun .. BssRun + BssSize - 1
        BY <2>3, <3>1, <3>2
      <4> QED
        BY <2>1, <4>1
    <3>3. StandsAt(s, p, n)
      BY <3>1, <3>2, StandsAtStays DEF FileInv
    <3> QED
      BY <3>3
  <2>6. \A a \in BssRun .. BssRun + BssSize - 1 : mem'[a] = Zero
    <3>1. \A a \in BssRun .. BssRun + BssSize - 1 : a \in 0 .. Top
      BY <2>3
    <3> QED
      BY <2>1, <3>1
  <2> QED
    BY <2>1, <2>2, <2>4, <2>5, <2>6, MemGoal
<1>5. CASE CallMain
  <2>1. boot = "cleared" /\ boot' = "main" /\ UNCHANGED <<layoutVars, mem, image>>
    BY <1>5 DEF CallMain
  <2>2. /\ pc = "linked" /\ B.main # 0 /\ DOMAIN mem' = 0 .. Top
        /\ DirectoryRight => \A s \in Segs : Code(s) => StandsAt(s, segPC[s], mem')
    BY <2>1 DEF MemInv
  <2> QED
    BY <2>1, <2>2, MemGoal
<1>6. CASE HeapGrows
  <2>1. boot = "main" /\ boot' = "main" /\ UNCHANGED layoutVars /\ pc = "linked" /\ B.main # 0
    BY <1>6 DEF HeapGrows, MemInv
  <2>2. PICK h \in OnceRun .. Top : mem' = [mem EXCEPT ![h] = Heap]
    BY <1>6 DEF HeapGrows
  <2>3. Linked /\ DOMAIN mem' = 0 .. Top
    BY <2>1, <2>2 DEF Linked, MemInv
  <2>4. DirectoryRight => \A s \in Segs : Code(s) => StandsAt(s, segPC[s], mem')
    <3>1. BssRun \in Nat /\ BssSize \in Nat /\ OnceRun \in Nat /\ BssRun + BssSize <= OnceRun
      BY <2>3, Regions
    <3>2. \A a \in 0 .. Top : a < BssRun => mem'[a] = mem[a]
      BY <2>2, <3>1
    <3> QED
      BY <2>1, <3>2, MemAbove
  <2> QED
    BY <2>1, <2>3, <2>4, MemGoal
<1>7. CASE UNCHANGED vars
  <2>1. UNCHANGED <<layoutVars, mem, image, boot>>
    BY <1>7 DEF vars
  <2> QED
    BY <2>1, MemGoal DEF MemInv
<1> QED
  BY <1>1, <1>2, <1>3, <1>4, <1>5, <1>6, <1>7 DEF Next

\* What runs is in memory as it was linked, while it runs: the loader puts code
\* and data where they were linked to run, nothing that follows writes to them, and
\* ONCE has arrived when the relocator enters it (bootldr.s, crt0.s).  The directory
\* must tell the loader where the linker has put main, which no tool checks.
THEOREM ProgramResident == Spec => [](DirectoryRight => Resident)
<1>1. StartupInit => CopyInv /\ MemInv
  BY DEF StartupInit, CopyInv, MemInv
<1>2. FileInv /\ CopyInv /\ [Next]_vars => CopyInv'
  BY CopyInvStep DEF FileInv
<1>3. FileInv /\ EndsInv /\ CopyInv /\ CopyInv' /\ MemInv /\ [Next]_vars => MemInv'
  BY MemStep
<1>4. MemInv /\ DirectoryRight => Resident
  <2> SUFFICES ASSUME MemInv, DirectoryRight PROVE Resident
    OBVIOUS
  <2>1. ASSUME NEW s \in Segs, StandsAt(s, segPC[s], mem) PROVE InMemory(s)
    BY <2>1 DEF StandsAt, InMemory
  <2>2. CodeResident
    BY <2>1 DEF MemInv, CodeResident, Code
  <2>3. StandsAt(B.once, OnceRun, mem) => InMemory(B.once)
    BY DEF StandsAt, InMemory, OnceRun
  <2>4. OnceInMemory
    BY <2>3 DEF MemInv, OnceInMemory
  <2> QED
    BY <2>2, <2>4 DEF Resident
<1> QED
  BY <1>1, <1>2, <1>3, <1>4, FileInductive, EndsInductive, PTL DEF Spec
=================================================================================
