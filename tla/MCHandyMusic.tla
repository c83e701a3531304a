---------------------------- MODULE MCHandyMusic ----------------------------
(***************************************************************************)
(* A song of two tracks, two effects and one sample.  The instrument loops *)
(* until it is released, the first track retriggers it, plays the sample   *)
(* and breaks the second one out of its pattern.                           *)
(***************************************************************************)
EXTENDS Scripts, TLC

Op(op) == [op |-> op]
Waits(op, frames) == [op |-> op, frames |-> frames]
Loops(count) == [op |-> "setloop", count |-> count]
PlaysNote(instr, frames) == [op |-> "note", instr |-> instr, frames |-> frames]
Prio(p) == [op |-> "priority", prio |-> p]

TheScript ==
    \* The instrument and its note-off section.
       1 :> Loops(Infinite)   @@ 2 :> Waits("wait", 1)   @@ 3 :> Op("loop")
    @@ 4 :> Waits("wait", 0)  @@ 5 :> Op("stop")
    \* The effects.
    @@ 6 :> Loops(2)          @@ 7 :> Op("frequency")    @@ 8 :> Waits("wait", 1)
    @@ 9 :> Op("loop")        @@ 10 :> Op("sfb")         @@ 11 :> Op("stop")
    \* The first track.
    @@ 20 :> Loops(2)         @@ 21 :> PlaysNote(1, 1)   @@ 22 :> Op("loop")
    @@ 23 :> [op |-> "sample", num |-> 1]                @@ 24 :> Waits("wait", 1)
    @@ 25 :> Op("break")      @@ 26 :> Waits("noteoff", 1)                        @@ 27 :> Prio(0)
    \* The second track and its pattern.
    @@ 30 :> PlaysNote(1, 1)  @@ 31 :> [op |-> "call", to |-> 40]
    @@ 32 :> [op |-> "call", to |-> 45]                  @@ 33 :> Waits("noteoff", 1)    @@ 34 :> Prio(0)
    @@ 40 :> PlaysNote(0, 1)  @@ 41 :> Op("ret")
    @@ 45 :> Loops(Infinite)  @@ 46 :> PlaysNote(0, 2)   @@ 47 :> Op("loop")

TheInstruments == 1 :> [start |-> 1, off |-> 4]
TheEffects == 1 :> [start |-> 6, off |-> 11, prio |-> 2] @@ 2 :> [start |-> 6, off |-> 11, prio |-> 4]
TheSong == 0 :> [prio |-> 3, start |-> 20] @@ 1 :> [prio |-> 1, start |-> 30]

\* The places the commands of a script lead to.
RECURSIVE Reached(_)
Reached(places) == LET more == UNION {Leads(w[1], w[2], w[3]) \cup Breaks(w[2], w[3]) : w \in places}
                   IN  IF more \subseteq places THEN places ELSE Reached(places \cup more)

\* With the note-off section, which is entered from all of them.
Notes(s) == LET places == Reached({Begun(s)})
            IN  Reached(places \cup {<<s.off, w[2], 0>> : w \in places})

\* The scripts are nested as the theorem about LoopsInBounds expects them.
ASSUME ScriptsAreNested ==
    WellNested(4 :> Notes(TheInstruments[1]) @@ 11 :> Notes(TheEffects[1]),
               Reached({Begun(TheSong[x]) : x \in Channels}))
=============================================================================
