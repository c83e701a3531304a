------------------------------ MODULE Scripts -------------------------------
(***************************************************************************)
(* What the scripts of HandyMusic have to be like for its loops to stay in *)
(* their slots: each for itself nests its loops and calls, not deeper than *)
(* Depth.  A place of a script is its address, the loops and calls it is   *)
(* inside of and the instrument a track has played last, 0 for none.       *)
(***************************************************************************)
EXTENDS HandyMusic, Sequences

\* A loop or call, by what its slot counts.
Kind(count) == IF count = Called THEN "call" ELSE IF count > 0 THEN "counted" ELSE "endless"
Frame(addr, count) == [addr |-> addr, kind |-> Kind(count)]
Frames == [addr : Int, kind : {"call", "counted", "endless"}]
Places == Int \X Seq(Frames) \X Int

Top(s) == s[Len(s)]
Outside(s, d) == SubSeq(s, 1, d - 1)
Played(cmd, i) == IF cmd.instr = 0 THEN i ELSE cmd.instr

\* What a command expects where it stands.
Proper(p, s, i) ==
    LET cmd == Script[p]
    IN  /\ p \in DOMAIN Script
        /\ Len(s) <= Depth
        /\ cmd.op = "setloop" => cmd.count \in Int \ {Called}
        /\ cmd.op = "loop" => s # <<>> /\ Top(s).kind # "call"
        /\ cmd.op = "ret" => s # <<>> /\ Top(s).kind = "call"
        /\ cmd.op = "note" => Played(cmd, i) \in DOMAIN Instruments \ {0}

\* Where it leads.
Leads(p, s, i) ==
    LET cmd == Script[p]
    IN  CASE cmd.op = "setloop" -> {<<p + 1, Append(s, Frame(p + 1, cmd.count)), i>>}
          [] cmd.op = "call" -> {<<cmd.to, Append(s, Frame(p + 1, Called)), i>>}
          [] cmd.op = "loop" -> {<<Top(s).addr, s, i>>} \cup
                                (IF Top(s).kind = "counted" THEN {<<p + 1, Outside(s, Len(s)), i>>} ELSE {})
          [] cmd.op = "ret" -> {<<Top(s).addr, Outside(s, Len(s)), i>>}
          [] cmd.op = "note" -> {<<p + 1, s, Played(cmd, i)>>}
          [] cmd.op = "stop" \/ (cmd.op = "priority" /\ cmd.prio = 0) -> {}
          [] OTHER -> {<<p + 1, s, i>>}

\* A Pattern Break of any track leads behind the outermost call.
Outermost(s, d) == s[d].kind = "call" /\ \A e \in 1 .. d - 1 : s[e].kind # "call"
Breaks(s, i) == {<<s[d].addr, Outside(s, d), i>> : d \in {e \in 1 .. Len(s) : Outermost(s, e)}}

Nested(places) ==
    /\ places \subseteq Places
    /\ \A w \in places : /\ Proper(w[1], w[2], w[3])
                         /\ Leads(w[1], w[2], w[3]) \cup Breaks(w[2], w[3]) \subseteq places

Begun(s) == <<s.start, <<>>, 0>>
Entered(notes, s) == s.off \in DOMAIN notes /\ Begun(s) \in notes[s.off]

\* The instruments and effects, by their note-off section, which a note may
\* be sent to from wherever it is, and the tracks of the song.
WellNested(notes, tracks) ==
    /\ \A off \in DOMAIN notes : Nested(notes[off]) /\ \A w \in notes[off] : <<off, w[2], 0>> \in notes[off]
    /\ \A n \in DOMAIN Instruments : Entered(notes, Instruments[n])
    /\ \A n \in DOMAIN Effects : Entered(notes, Effects[n])
    /\ Nested(tracks)
    /\ \A x \in Channels : Begun(Song[x]) \in tracks
=============================================================================
