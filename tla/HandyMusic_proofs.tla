-------------------------- MODULE HandyMusic_proofs --------------------------
(***************************************************************************)
(* No script, song or effect whatever leaves a note hanging: when a tick   *)
(* of the music driver ends, the timers of all free channels stand still.  *)
(* And stop_music finds every note of the song by the priority of its      *)
(* track, as long as that has not changed under the note.  Scripts that    *)
(* are nested each for itself keep their loops in their slots, however the *)
(* driver switches between them.                                           *)
(***************************************************************************)
EXTENDS Scripts, SequenceTheorems, NaturalsInduction, WellFoundedInduction, TLAPS

\* The parts of HandyMusic_Main behind the walk over the channels.
Behind == {"effect", "track", "command", "length", "pcm"}

Types == /\ DOMAIN chan = Channels /\ \A c \in Channels : "prio" \in DOMAIN chan[c]
         /\ on \in [Channels -> BOOLEAN] /\ saved \in [Channels -> BOOLEAN]
         /\ DOMAIN at = {"part", "x", "n"}
         /\ at.part \in {"idle", "update"} \cup Behind
         /\ at.x \in Channels

Quiet(c) == chan[c].prio = 0 => ~on[c]

\* The channels the walk has left are quiet, and all are behind it.
HInv == /\ Types
        /\ at.part = "update" => \A c \in Channels : c > at.x => Quiet(c)
        /\ at.part \in Behind => \A c \in Channels : Quiet(c)

-----------------------------------------------------------------------------
(* The walk over the channels.                                             *)

\* Only channel x is touched.
Only(x) == /\ DOMAIN chan' = Channels /\ on' \in [Channels -> BOOLEAN]
           /\ \A c \in Channels : "prio" \in DOMAIN chan'[c]
           /\ \A c \in Channels \ {x} : chan'[c] = chan[c] /\ on'[c] = on[c]

\* The walk stays at a channel.
LEMMA WalkStays ==
    ASSUME HInv, In("update"), Only(at.x), UNCHANGED <<at, saved>>
    PROVE  HInv'
<1>1. Types'
  BY DEF HInv, Types, Only
<1>2. ASSUME NEW c \in Channels, c > at.x PROVE Quiet(c)'
  <2>1. c # at.x
    BY <1>2 DEF HInv, Types, Channels
  <2> QED
    BY <1>2, <2>1 DEF HInv, Only, Quiet, In
<1> QED
  BY <1>1, <1>2 DEF HInv, In, Behind

\* The walk is over when a tick ends.
Ends == at' = at \/ at'.part # "idle" \/ \A c \in Channels : Quiet(c)'

\* The walk leaves a channel, which is quiet now.
LEMMA WalkGoesOn ==
    ASSUME HInv, In("update"), NEW x \in Channels, x = at.x, Only(x),
           chan'[x].prio = 0 => ~on'[x], NextChannel(x), UNCHANGED saved
    PROVE  HInv' /\ at'.part # "idle"
<1>1. \A c \in Channels : c >= x => Quiet(c)'
  <2> SUFFICES ASSUME NEW c \in Channels, c >= x PROVE Quiet(c)'
    OBVIOUS
  <2>1. CASE c = x
    BY <2>1 DEF Quiet
  <2>2. CASE c # x
    <3>1. c > x
      BY <2>2 DEF Channels
    <3>2. Quiet(c)
      BY <3>1 DEF HInv, In
    <3> QED
      BY <2>2, <3>2 DEF Only, Quiet
  <2> QED
    BY <2>1, <2>2
<1>2. CASE x = 0
  <2>1. at' = [part |-> "effect", x |-> 0, n |-> 0]
    BY <1>2 DEF NextChannel
  <2>2. at'.part = "effect" /\ at'.x = 0 /\ DOMAIN at' = {"part", "x", "n"}
    BY <2>1
  <2>3. \A c \in Channels : c >= x
    BY <1>2 DEF Channels
  <2>4. Types'
    BY <1>2, <2>2 DEF HInv, Types, Only, Behind
  <2> QED
    BY <1>1, <2>2, <2>3, <2>4 DEF HInv
<1>3. CASE x # 0
  <2>1. at' = [at EXCEPT !.x = x - 1]
    BY <1>3 DEF NextChannel
  <2>2. at'.part = "update" /\ at'.x = x - 1 /\ DOMAIN at' = {"part", "x", "n"}
    BY <2>1 DEF HInv, Types, In
  <2>3. x - 1 \in Channels /\ \A c \in Channels : c > x - 1 => c >= x
    BY <1>3, HandyMusicAssumption DEF Channels
  <2>4. Types'
    BY <2>2, <2>3 DEF HInv, Types, Only
  <2>5. "update" \notin Behind
    BY DEF Behind
  <2> QED
    BY <1>1, <2>2, <2>3, <2>4, <2>5 DEF HInv
<1> QED
  BY <1>2, <1>3

\* The end of an update starts the timer of a channel in use at most.
LEMMA WriteBackStep ==
    ASSUME Types, NEW x \in Channels, NEW r, "prio" \in DOMAIN r, r.prio # 0, WriteBack(x, r)
    PROVE  Only(x) /\ chan'[x].prio # 0
<1>1. CASE chan' = [chan EXCEPT ![x] = r] /\ on' = on
  BY <1>1 DEF Types, Only
<1>2. CASE chan' = [chan EXCEPT ![x] = [r EXCEPT !.force = FALSE]] /\ on' = [on EXCEPT ![x] = TRUE]
  <2> DEFINE q == [r EXCEPT !.force = FALSE]
  <2>1. "prio" \in DOMAIN q /\ q.prio # 0
    OBVIOUS
  <2>2. chan' = [chan EXCEPT ![x] = q]
    BY <1>2
  <2> HIDE DEF q
  <2> QED
    BY <1>2, <2>1, <2>2 DEF Types, Only
<1> QED
  BY <1>1, <1>2 DEF WriteBack

\* The commands of a channel's script, whatever it is.
LEMMA UpdateChannelStep ==
    ASSUME HInv, UpdateChannel
    PROVE  HInv' /\ Ends
<1> DEFINE x == at.x
           r == chan[x]
<1>1. Types /\ In("update") /\ x \in Channels /\ "prio" \in DOMAIN r
  BY DEF HInv, Types, UpdateChannel, UpdateFree, UpdateWaits, UpdateWait, UpdateStop, UpdateSet,
         UpdateSetLoop, UpdateLoop, Due
<1>2. UNCHANGED saved
  BY DEF UpdateChannel, UpdateFree, UpdateWaits, UpdateWait, UpdateStop, UpdateSet,
         UpdateSetLoop, UpdateLoop, updated
<1>3. ASSUME Only(x), chan'[x].prio = 0 => ~on'[x], NextChannel(x) PROVE HInv' /\ Ends
  BY <1>1, <1>2, <1>3, WalkGoesOn DEF Ends
<1>4. ASSUME Only(x), UNCHANGED at PROVE HInv' /\ Ends
  BY <1>1, <1>2, <1>4, WalkStays DEF Ends
<1>5. ASSUME NEW q, "prio" \in DOMAIN q, chan' = [chan EXCEPT ![x] = q],
             on' \in [Channels -> BOOLEAN], \A c \in Channels \ {x} : on'[c] = on[c]
      PROVE  Only(x)
  BY <1>1, <1>5 DEF Types, Only
<1>6. CASE UpdateFree
  <2>1. chan' = chan /\ on' = [on EXCEPT ![x] = FALSE] /\ NextChannel(x)
    BY <1>6 DEF UpdateFree
  <2> HIDE DEF x
  <2>2. Only(x) /\ on'[x] = FALSE
    BY <1>1, <2>1 DEF Types, Only
  <2> QED
    BY <1>3, <2>1, <2>2
<1>7. CASE UpdateWaits
  <2> DEFINE q == [r EXCEPT !.delay = @ - 1]
  <2>1. r.prio # 0 /\ WriteBack(x, q) /\ NextChannel(x)
    BY <1>7 DEF UpdateWaits
  <2>2. "prio" \in DOMAIN q /\ q.prio # 0
    BY <1>1, <2>1
  <2> HIDE DEF q
  <2>3. Only(x) /\ chan'[x].prio # 0
    BY <1>1, <2>1, <2>2, WriteBackStep
  <2> QED
    BY <1>3, <2>1, <2>3
<1>8. CASE UpdateWait
  <2> DEFINE q == [r EXCEPT !.delay = Script[r.ptr].frames, !.ptr = @ + 1]
  <2>1. /\ r.prio # 0
        /\ \/ chan' = [chan EXCEPT ![x] = q] /\ UNCHANGED <<on, at>>
           \/ WriteBack(x, q) /\ NextChannel(x)
    BY <1>8 DEF UpdateWait, Due
  <2>2. "prio" \in DOMAIN q /\ q.prio # 0
    BY <1>1, <2>1
  <2> HIDE DEF q, x
  <2>3. CASE chan' = [chan EXCEPT ![x] = q] /\ UNCHANGED <<on, at>>
    BY <1>1, <1>4, <1>5, <2>2, <2>3 DEF Types
  <2>4. CASE WriteBack(x, q) /\ NextChannel(x)
    <3>1. Only(x) /\ chan'[x].prio # 0
      BY <1>1, <2>2, <2>4, WriteBackStep
    <3> QED
      BY <1>3, <2>4, <3>1
  <2> QED
    BY <2>1, <2>3, <2>4
<1>9. CASE UpdateStop
  <2> DEFINE q == [r EXCEPT !.prio = 0]
  <2>1. chan' = [chan EXCEPT ![x] = q] /\ on' = [on EXCEPT ![x] = FALSE] /\ NextChannel(x)
    BY <1>1, <1>9 DEF UpdateStop, FreeChannel, Types
  <2>2. "prio" \in DOMAIN q
    BY <1>1
  <2> HIDE DEF q, x
  <2>3. Only(x) /\ on'[x] = FALSE
    BY <1>1, <1>5, <2>1, <2>2 DEF Types
  <2> QED
    BY <1>3, <2>1, <2>3
<1>10. CASE UpdateSet
  <2> DEFINE q == [r EXCEPT !.force = TRUE, !.ptr = @ + 1]
  <2>1. chan' = [chan EXCEPT ![x] = q] /\ UNCHANGED at
    BY <1>1, <1>10 DEF UpdateSet, Types
  <2>2. on' = [on EXCEPT ![x] = on[x] /\ Script[r.ptr].op # "sfb"]
    BY <1>10 DEF UpdateSet
  <2>3. "prio" \in DOMAIN q
    BY <1>1
  <2>4. on' \in [Channels -> BOOLEAN] /\ \A c \in Channels \ {x} : on'[c] = on[c]
    <3> DEFINE b == on[x] /\ Script[r.ptr].op # "sfb"
    <3>1. b \in BOOLEAN
      BY Zenon
    <3>2. on' = [on EXCEPT ![x] = b]
      BY <2>2
    <3> HIDE DEF b, x
    <3> QED
      BY <1>1, <3>1, <3>2 DEF Types
  <2> HIDE DEF q, x
  <2>5. Only(x)
    BY <1>5, <2>1, <2>3, <2>4
  <2> QED
    BY <1>4, <2>1, <2>5
<1>11. CASE UpdateSetLoop
  <2> DEFINE q == [r EXCEPT !.depth = @ + 1, !.ptr = @ + 1]
  <2>1. chan' = [chan EXCEPT ![x] = q] /\ UNCHANGED <<on, at>>
    BY <1>1, <1>11 DEF UpdateSetLoop, Types
  <2>2. "prio" \in DOMAIN q
    BY <1>1
  <2> HIDE DEF q, x
  <2> QED
    BY <1>1, <1>4, <1>5, <2>1, <2>2 DEF Types
<1>12. CASE UpdateLoop
  <2> DEFINE q == LoopBack(chanLoops, x, r)
  <2>1. chan' = [chan EXCEPT ![x] = q] /\ UNCHANGED <<on, at>>
    BY <1>12 DEF UpdateLoop
  <2>2. "prio" \in DOMAIN q
    BY <1>1 DEF LoopBack
  <2> HIDE DEF q, x
  <2> QED
    BY <1>1, <1>4, <1>5, <2>1, <2>2 DEF Types
<1> QED
  BY <1>6, <1>7, <1>8, <1>9, <1>10, <1>11, <1>12 DEF UpdateChannel

-----------------------------------------------------------------------------
(* Effects and tracks.                                                     *)

\* A channel keeps its priority and timer, or its timer stands still.
Settles == \A c \in Channels : /\ "prio" \in DOMAIN chan'[c]
                               /\ ~on'[c] \/ (on'[c] = on[c] /\ chan'[c].prio = chan[c].prio)

\* Where the walk behind the channels goes on.
Moves == /\ DOMAIN at' = {"part", "x", "n"} /\ at'.x \in Channels
         /\ at'.part \in {"idle"} \cup Behind

\* Behind the walk over the channels all of them stay quiet.
LEMMA StaysQuiet ==
    ASSUME HInv, at.part \in Behind, Settles, Moves, DOMAIN chan' = Channels,
           on' \in [Channels -> BOOLEAN], UNCHANGED saved
    PROVE  HInv' /\ Ends
<1>1. \A c \in Channels : Quiet(c)'
  BY DEF HInv, Settles, Quiet
<1>2. Types' /\ at'.part # "update"
  BY DEF HInv, Types, Settles, Moves, Behind
<1> QED
  BY <1>1, <1>2 DEF HInv, Ends

\* The next track is one below.
LEMMA NextTrackMoves ==
    ASSUME NEW x \in Channels, NextTrack(x)
    PROVE  Moves
<1>1. CASE x = 0
  <2>1. at' = [part |-> "idle", x |-> 0, n |-> 0]
    BY <1>1 DEF NextTrack, Idle
  <2> QED
    BY <1>1, <2>1 DEF Moves
<1>2. CASE x # 0
  <2>1. at' = [part |-> "track", x |-> x - 1, n |-> 0]
    BY <1>2 DEF NextTrack
  <2>2. x - 1 \in Channels
    BY <1>2, HandyMusicAssumption DEF Channels
  <2> QED
    BY <2>1, <2>2 DEF Moves, Behind
<1> QED
  BY <1>1, <1>2

\* An effect takes a channel whose timer it stops first.
LEMMA BeginSettles ==
    ASSUME Types, NEW c, NEW s, NEW prio, NEW isNote, Begin(c, s, prio, isNote)
    PROVE  Settles /\ DOMAIN chan' = Channels /\ on' \in [Channels -> BOOLEAN]
<1> DEFINE q == Started(s, prio)
<1>1. chan' = [chan EXCEPT ![c] = q] /\ on' = [on EXCEPT ![c] = FALSE]
  BY DEF Begin
<1>2. "prio" \in DOMAIN q
  BY DEF Started, Free
<1> HIDE DEF q
<1> QED
  BY <1>1, <1>2 DEF Types, Settles

\* A request, whatever the effect, and the end of a tick without music.
LEMMA EnqueueSFXStep ==
    ASSUME HInv, EnqueueSFX
    PROVE  HInv' /\ Ends
<1>1. Types /\ at.part = "effect" /\ at.part \in Behind /\ UNCHANGED saved
  BY DEF HInv, EnqueueSFX, In, Behind
<1>2. Moves
  <2>1. \/ at' = [part |-> "track", x |-> Voices - 1, n |-> 0]
        \/ at' = [part |-> "idle", x |-> 0, n |-> 0]
    BY DEF EnqueueSFX, BehindEffects, Idle
  <2>2. Voices - 1 \in Channels /\ 0 \in Channels
    BY HandyMusicAssumption DEF Channels
  <2> QED
    BY <2>1, <2>2 DEF Moves, Behind
<1>3. Settles /\ DOMAIN chan' = Channels /\ on' \in [Channels -> BOOLEAN]
  <2>1. \/ \E c, s : Begin(c, s, s.prio, FALSE)
        \/ UNCHANGED <<chan, on>>
    BY DEF EnqueueSFX
  <2>2. CASE \E c, s : Begin(c, s, s.prio, FALSE)
    BY <1>1, <2>2, BeginSettles
  <2>3. CASE UNCHANGED <<chan, on>>
    BY <1>1, <2>3 DEF Types, Settles
  <2> QED
    BY <2>1, <2>2, <2>3
<1> QED
  BY <1>1, <1>2, <1>3, StaysQuiet

\* A sample takes channel 0, whose timer it stops first.
LEMMA PlayPCMSettles ==
    ASSUME Types, PlayPCM, UNCHANGED chan
    PROVE  Settles /\ on' \in [Channels -> BOOLEAN]
<1>1. on' \in {on, [on EXCEPT ![0] = FALSE]}
  BY DEF PlayPCM
<1> QED
  BY <1>1 DEF Types, Settles

\* The commands of a track, whatever they are.
LEMMA DecodeMusicStep ==
    ASSUME HInv, DecodeMusic
    PROVE  HInv' /\ Ends
<1>1. /\ Types /\ at.x \in Channels /\ UNCHANGED saved
      /\ DOMAIN at = {"part", "x", "n"}
  BY DEF HInv, Types, DecodeMusic, TrackRests, TrackDecodes, SetPri, NoteOn, NoteOff, Wait,
         SetLoop, Loop, Call, Ret, Break, Sampl, SamplHi, SamplPlay, decoded
<1>2. at.part \in Behind
  BY DEF DecodeMusic, TrackRests, TrackDecodes, SetPri, NoteOn, NoteOff, Wait, SetLoop, Loop,
         Call, Ret, Break, Sampl, SamplHi, SamplPlay, Command, In, Behind
<1>3. Moves
  <2>1. CASE UNCHANGED at
    BY <1>1, <1>2, <2>1 DEF Moves
  <2>2. CASE NextTrack(at.x)
    BY <1>1, <2>2, NextTrackMoves
  <2>3. ASSUME NEW part \in Behind, NEW n, at' = [at EXCEPT !.part = part, !.n = n]
        PROVE  Moves
    <3>1. DOMAIN at' = {"part", "x", "n"} /\ at'.x = at.x /\ at'.part = part
      BY <1>1, <2>3
    <3> QED
      BY <1>1, <3>1 DEF Moves
  <2>4. ASSUME NEW part \in Behind, at' = [at EXCEPT !.part = part]
        PROVE  Moves
    <3>1. DOMAIN at' = {"part", "x", "n"} /\ at'.x = at.x /\ at'.part = part
      BY <1>1, <2>4
    <3> QED
      BY <1>1, <3>1 DEF Moves
  <2>5. CASE TrackDecodes \/ Sampl \/ SamplHi \/ SamplPlay
    <3>1. {"command", "length", "pcm"} \subseteq Behind
      BY DEF Behind
    <3>2. CASE TrackDecodes \/ SamplHi
      BY <2>4, <3>1, <3>2 DEF TrackDecodes, SamplHi
    <3>3. CASE Sampl
      BY <2>1, <2>3, <3>1, <3>3 DEF Sampl
    <3>4. CASE SamplPlay
      BY <2>3, <3>1, <3>4 DEF SamplPlay
    <3> QED
      BY <2>5, <3>2, <3>3, <3>4
  <2>6. CASE TrackRests \/ SetPri \/ NoteOn \/ NoteOff \/ Wait \/ SetLoop \/ Loop \/ Call \/ Ret \/ Break
    <3>1. NextTrack(at.x) \/ UNCHANGED at
      BY <2>6 DEF TrackRests, SetPri, NoteOn, NoteOff, Wait, SetLoop, Loop, Call, Ret, Break,
                  Leaves, Goes
    <3> QED
      BY <2>1, <2>2, <3>1
  <2> QED
    BY <2>5, <2>6 DEF DecodeMusic
<1>4. Settles /\ DOMAIN chan' = Channels /\ on' \in [Channels -> BOOLEAN]
  <2>1. CASE NoteOn
    <3>1. \/ \E s, prio : Begin(at.x, s, prio, TRUE)
          \/ UNCHANGED <<chan, on>>
      BY <2>1 DEF NoteOn, BeginNote
    <3>2. CASE UNCHANGED <<chan, on>>
      BY <1>1, <3>2 DEF Types, Settles
    <3> QED
      BY <1>1, <3>1, <3>2, BeginSettles
  <2>2. CASE NoteOff
    <3> DEFINE x == at.x
               q == [chan[x] EXCEPT !.ptr = chan[x].off, !.delay = 0]
    <3>1. on' = on /\ (chan' = chan \/ chan' = [chan EXCEPT ![x] = q])
      BY <1>1, <2>2 DEF NoteOff, Types
    <3>2. "prio" \in DOMAIN q /\ q.prio = chan[x].prio
      BY <1>1 DEF Types
    <3> HIDE DEF q
    <3> QED
      BY <1>1, <3>1, <3>2 DEF Types, Settles
  <2>3. CASE SamplPlay
    BY <1>1, <2>3, PlayPCMSettles DEF SamplPlay, Types
  <2>4. CASE \/ TrackRests \/ TrackDecodes \/ SetPri \/ Wait \/ SetLoop \/ Loop \/ Call \/ Ret
             \/ Break \/ Sampl \/ SamplHi
    <3>1. UNCHANGED <<chan, on>>
      BY <2>4 DEF TrackRests, TrackDecodes, SetPri, Wait, SetLoop, Loop, Call, Ret, Break, Sampl,
                  SamplHi
    <3> QED
      BY <1>1, <3>1 DEF Types, Settles
  <2> QED
    BY <2>1, <2>2, <2>3, <2>4 DEF DecodeMusic
<1> QED
  BY <1>1, <1>2, <1>3, <1>4, StaysQuiet

-----------------------------------------------------------------------------
(* The program, which runs while the driver does not.                      *)

\* All that matters of a call is that the arrays keep their shape.
LEMMA IdleStep ==
    ASSUME HInv, In("idle"), UNCHANGED at, DOMAIN chan' = Channels,
           \A c \in Channels : "prio" \in DOMAIN chan'[c],
           on' \in [Channels -> BOOLEAN], saved' \in [Channels -> BOOLEAN]
    PROVE  HInv' /\ Ends
<1>1. Types'
  BY DEF HInv, Types
<1> QED
  BY <1>1 DEF HInv, In, Behind, Ends

\* The calls of the program.
LEMMA ProgramStep ==
    ASSUME HInv, Program
    PROVE  HInv' /\ Ends
<1>1. Types /\ In("idle") /\ UNCHANGED at
  BY DEF HInv, Program, PlaySFX, StoreNext, StoreRequest, StopSoundEffect, StopMusic, StopTrack,
         StopChannel, PlayMusic, Pause, UnPause, Samples, PlayPcm, RegisterPcm, Mute, Begins, Runs,
         tracksOnly
<1>2. ASSUME DOMAIN chan' = Channels, \A c \in Channels : "prio" \in DOMAIN chan'[c],
             on' \in [Channels -> BOOLEAN], saved' \in [Channels -> BOOLEAN]
      PROVE  HInv' /\ Ends
  BY <1>1, <1>2, IdleStep
<1>3. CASE UNCHANGED <<chan, on, saved>>
  BY <1>1, <1>2, <1>3 DEF Types
<1>4. ASSUME NEW x, FreeChannel(x), UNCHANGED saved PROVE HInv' /\ Ends
  <2> DEFINE q == [chan[x] EXCEPT !.prio = 0]
  <2>1. on' = [on EXCEPT ![x] = FALSE] /\ chan' = [chan EXCEPT ![x].prio = 0]
    BY <1>4 DEF FreeChannel
  <2>2. DOMAIN chan' = Channels /\ \A c \in Channels : "prio" \in DOMAIN chan'[c]
    BY <1>1, <2>1 DEF Types
  <2> QED
    BY <1>1, <1>2, <1>4, <2>1, <2>2 DEF Types
<1>5. CASE \/ PlaySFX \/ StoreNext \/ StoreRequest \/ StopMusic \/ PlayMusic
  <2>1. UNCHANGED <<chan, on, saved>>
    BY <1>5 DEF PlaySFX, StoreNext, StoreRequest, StopMusic, PlayMusic, scripts
  <2> QED
    BY <1>3, <2>1
<1>6. CASE StopSoundEffect \/ StopTrack \/ StopChannel
  <2>1. UNCHANGED saved /\ (FreeChannel(call.x) \/ UNCHANGED <<chan, on>>)
    BY <1>6 DEF StopSoundEffect, StopTrack, StopChannel, tracksOnly
  <2> QED
    BY <1>3, <1>4, <2>1
<1>7. CASE Pause
  <2>1. saved' = on /\ on' = [c \in Channels |-> FALSE] /\ UNCHANGED chan
    BY <1>7 DEF Pause, scripts
  <2> QED
    BY <1>1, <1>2, <2>1 DEF Types
<1>8. CASE UnPause
  <2>1. on' = saved /\ UNCHANGED <<chan, saved>>
    BY <1>8 DEF UnPause, scripts
  <2> QED
    BY <1>1, <1>2, <2>1 DEF Types
<1>9. CASE Samples
  <2>1. UNCHANGED <<chan, saved>> /\ (PlayPCM \/ UNCHANGED on)
    BY <1>9 DEF Samples, PlayPcm, RegisterPcm, Mute, scripts
  <2>2. CASE PlayPCM
    BY <1>1, <1>2, <2>1, <2>2, PlayPCMSettles DEF Types
  <2> QED
    BY <1>3, <2>1, <2>2
<1> QED
  BY <1>5, <1>6, <1>7, <1>8, <1>9 DEF Program

-----------------------------------------------------------------------------
(* The theorem.                                                            *)

\* All channels are free and silent at first.
LEMMA InitHInv == Init => HInv
<1> SUFFICES ASSUME Init PROVE HInv
  OBVIOUS
<1>1. /\ chan = [c \in Channels |-> Free] /\ on = [c \in Channels |-> FALSE]
      /\ saved = on /\ at = [part |-> "idle", x |-> 0, n |-> 0]
  BY DEF Init, Idle
<1>2. "prio" \in DOMAIN Free
  BY DEF Free
<1>3. 0 \in Channels
  BY HandyMusicAssumption DEF Channels
<1>4. Types
  <2> HIDE DEF Free
  <2> QED
    BY <1>1, <1>2, <1>3 DEF Types
<1> QED
  BY <1>1, <1>4 DEF HInv, Behind

\* A step keeps the invariant, and a tick ends only when all is quiet.
LEMMA StepHInv == HInv /\ Next => HInv' /\ Ends
<1> SUFFICES ASSUME HInv, Next PROVE HInv' /\ Ends
  OBVIOUS
<1>1. CASE Vbl
  <2>1. at' = [part |-> "update", x |-> Voices - 1, n |-> 0] /\ UNCHANGED <<chan, on, saved>>
    BY <1>1 DEF Vbl, scripts
  <2>2. Voices - 1 \in Channels /\ \A c \in Channels : ~(c > Voices - 1)
    BY HandyMusicAssumption DEF Channels
  <2>3. at'.part = "update" /\ at'.x = Voices - 1 /\ DOMAIN at' = {"part", "x", "n"}
    BY <2>1
  <2>4. Types'
    BY <2>1, <2>2, <2>3 DEF HInv, Types
  <2> QED
    BY <2>2, <2>3, <2>4 DEF HInv, Behind, Ends
<1>2. CASE PcmIrq
  <2>1. UNCHANGED <<chan, on, saved, at>>
    BY <1>2 DEF PcmIrq, scripts
  <2> QED
    BY <2>1 DEF HInv, Types, Quiet, Ends
<1> QED
  BY <1>1, <1>2, UpdateChannelStep, EnqueueSFXStep, DecodeMusicStep, ProgramStep DEF Next, Main

\* Whatever the scripts, songs, effects and samples, and whatever the program
\* calls in between, a tick of HandyMusic_Main that ends leaves no channel
\* sounding that nothing plays on.
THEOREM NothingHangs == Spec => NoHangingNote
<1>1. HInv /\ [Next]_vars => HInv'
  <2> SUFFICES ASSUME HInv, UNCHANGED vars PROVE HInv'
    BY StepHInv
  <2> QED
    BY DEF HInv, Types, Quiet, vars, scripts
<1>2. HInv /\ [Next]_vars =>
         [at # Idle /\ at' = Idle => \A c \in Channels : chan'[c].prio = 0 => ~on'[c]]_vars
  <2> SUFFICES ASSUME HInv, Next, at # Idle, at' = Idle, NEW c \in Channels
               PROVE  chan'[c].prio = 0 => ~on'[c]
    OBVIOUS
  <2>1. at' # at /\ at'.part = "idle"
    BY DEF Idle
  <2> QED
    BY <2>1, StepHInv DEF Ends, Quiet
<1> QED
  BY <1>1, <1>2, InitHInv, PTL DEF Spec, NoHangingNote

-----------------------------------------------------------------------------
(* The song's notes.                                                       *)

Decoding == {"track", "command", "length", "pcm"}

SongTypes == /\ DOMAIN track = Channels /\ \A c \in Channels : "prio" \in DOMAIN track[c]
             /\ DOMAIN note = Channels
             /\ DOMAIN call = {"part", "x", "n"}

\* A note of the song has the priority of its track, by which stop_music
\* will know it, and is not behind the track stop_music has come to.
Sings(c) == /\ chan[c].prio = track[c].prio
            /\ ~bgm => call.part = "tracks" /\ c <= call.x

SongInv == /\ SongTypes
           /\ \A c \in Channels : note[c] => Sings(c)
           /\ at.part \in Decoding => bgm
           /\ call.part = "tracks" => ~bgm /\ call.x \in Channels

\* A step that starts no note and leaves those that go on alone.
NotesLast == /\ DOMAIN note' = Channels
             /\ \A c \in Channels : note'[c] => note[c] /\ chan'[c].prio = chan[c].prio

\* A channel is freed.
LEMMA FreeingLasts ==
    ASSUME Types, SongTypes, NEW x, FreeChannel(x)
    PROVE  NotesLast /\ (x \in Channels => ~note'[x])
<1>1. /\ chan' = [chan EXCEPT ![x].prio = 0] /\ note' = [note EXCEPT ![x] = FALSE]
      /\ DOMAIN chan = Channels /\ DOMAIN note = Channels
  BY DEF FreeChannel, Types, SongTypes
<1>2. \A c \in Channels : c # x => chan'[c] = chan[c] /\ note'[c] = note[c]
  BY <1>1
<1>3. x \in Channels => ~note'[x]
  BY <1>1
<1> QED
  BY <1>1, <1>2, <1>3 DEF NotesLast

\* The walk over the channels.
LEMMA UpdateSong ==
    ASSUME Types, SongTypes, UpdateChannel
    PROVE  NotesLast /\ UNCHANGED <<bgm, track, call>> /\ at.part = "update"
                     /\ at'.part \notin Decoding
<1> DEFINE x == at.x
           r == chan[x]
<1>1. x \in Channels /\ "prio" \in DOMAIN r /\ at.part = "update"
  BY DEF Types, UpdateChannel, UpdateFree, UpdateWaits, UpdateWait, UpdateStop, UpdateSet,
         UpdateSetLoop, UpdateLoop, Due, In
<1>2. UNCHANGED <<bgm, track, call>>
  BY DEF UpdateChannel, UpdateFree, UpdateWaits, UpdateWait, UpdateStop, UpdateSet,
         UpdateSetLoop, UpdateLoop, updated, program
<1>3. at'.part \notin Decoding
  <2>1. at' = at \/ NextChannel(x)
    BY DEF UpdateChannel, UpdateFree, UpdateWaits, UpdateWait, UpdateStop, UpdateSet,
           UpdateSetLoop, UpdateLoop, Due, In
  <2>2. NextChannel(x) => at'.part \in {"update", "effect"}
    BY <1>1 DEF NextChannel, Types
  <2> QED
    BY <1>1, <2>1, <2>2 DEF Decoding
<1> SUFFICES NotesLast
  BY <1>1, <1>2, <1>3
<1>4. ASSUME NEW q, q.prio = r.prio, chan' = [chan EXCEPT ![x] = q], note' = note PROVE NotesLast
  BY <1>1, <1>4 DEF Types, SongTypes, NotesLast
<1>5. ASSUME NEW q, "prio" \in DOMAIN q, q.prio = r.prio, WriteBack(x, q), note' = note PROVE NotesLast
  <2>1. CASE chan' = [chan EXCEPT ![x] = q]
    BY <1>4, <1>5, <2>1
  <2>2. CASE chan' = [chan EXCEPT ![x] = [q EXCEPT !.force = FALSE]]
    <3>1. [q EXCEPT !.force = FALSE].prio = r.prio
      BY <1>5
    <3> QED
      BY <1>4, <1>5, <2>2, <3>1
  <2> QED
    BY <1>5, <2>1, <2>2 DEF WriteBack
<1>6. CASE UpdateFree
  BY <1>6 DEF UpdateFree, NotesLast, SongTypes
<1>7. CASE UpdateWaits
  <2> DEFINE q == [r EXCEPT !.delay = @ - 1]
  <2>1. WriteBack(x, q) /\ note' = note
    BY <1>7 DEF UpdateWaits
  <2>2. "prio" \in DOMAIN q /\ q.prio = r.prio
    BY <1>1
  <2> HIDE DEF q
  <2> QED
    BY <1>5, <2>1, <2>2
<1>8. CASE UpdateWait
  <2> DEFINE q == [r EXCEPT !.delay = Script[r.ptr].frames, !.ptr = @ + 1]
  <2>1. (WriteBack(x, q) \/ chan' = [chan EXCEPT ![x] = q]) /\ note' = note
    BY <1>8 DEF UpdateWait
  <2>2. "prio" \in DOMAIN q /\ q.prio = r.prio
    BY <1>1
  <2> HIDE DEF q
  <2> QED
    BY <1>4, <1>5, <2>1, <2>2
<1>9. CASE UpdateStop
  BY <1>9, FreeingLasts DEF UpdateStop
<1>10. CASE UpdateSet
  <2> DEFINE q == [r EXCEPT !.force = TRUE, !.ptr = @ + 1]
  <2>1. chan' = [chan EXCEPT ![x] = q] /\ note' = note
    BY <1>10, <1>1 DEF UpdateSet, Types
  <2>2. q.prio = r.prio
    BY <1>1
  <2> HIDE DEF q
  <2> QED
    BY <1>4, <2>1, <2>2
<1>11. CASE UpdateSetLoop
  <2> DEFINE q == [r EXCEPT !.depth = @ + 1, !.ptr = @ + 1]
  <2>1. chan' = [chan EXCEPT ![x] = q] /\ note' = note
    BY <1>11, <1>1 DEF UpdateSetLoop, Types
  <2>2. q.prio = r.prio
    BY <1>1
  <2> HIDE DEF q
  <2> QED
    BY <1>4, <2>1, <2>2
<1>12. CASE UpdateLoop
  <2> DEFINE q == LoopBack(chanLoops, x, r)
  <2>1. chan' = [chan EXCEPT ![x] = q] /\ note' = note
    BY <1>12 DEF UpdateLoop
  <2>2. q.prio = r.prio
    BY <1>1 DEF LoopBack
  <2> HIDE DEF q
  <2> QED
    BY <1>4, <2>1, <2>2
<1> QED
  BY <1>6, <1>7, <1>8, <1>9, <1>10, <1>11, <1>12 DEF UpdateChannel

\* An effect is not of the song.
LEMMA EffectSong ==
    ASSUME Types, SongTypes, EnqueueSFX
    PROVE  NotesLast /\ UNCHANGED <<bgm, track, call>> /\ (at'.part \in Decoding => bgm)
<1>1. UNCHANGED <<bgm, track, call>>
  BY DEF EnqueueSFX, program
<1>2. at'.part \in Decoding => bgm
  BY DEF EnqueueSFX, BehindEffects, Idle, Decoding
<1> SUFFICES NotesLast
  BY <1>1, <1>2
<1>3. CASE UNCHANGED <<chan, note>>
  BY <1>3 DEF NotesLast, SongTypes
<1>4. ASSUME NEW c, NEW s, NEW p, Begin(c, s, p, FALSE) PROVE NotesLast
  <2>1. chan' = [chan EXCEPT ![c] = Started(s, p)] /\ note' = [note EXCEPT ![c] = FALSE]
    BY <1>4 DEF Begin
  <2> QED
    BY <2>1 DEF NotesLast, Types, SongTypes
<1>5. UNCHANGED <<chan, note>> \/ \E c, s, p : Begin(c, s, p, FALSE)
  BY DEF EnqueueSFX
<1> QED
  BY <1>3, <1>4, <1>5

\* A step that leaves the tracks their priorities.
TracksLast == /\ DOMAIN track' = Channels
              /\ \A c \in Channels : "prio" \in DOMAIN track'[c] /\ track'[c].prio = track[c].prio

\* A return is a jump to where a slot says.
LEMMA ReturnedKeeps ==
    ASSUME NEW l, NEW x, NEW r, "prio" \in DOMAIN r
    PROVE  /\ "prio" \in DOMAIN LoopBack(l, x, r) /\ LoopBack(l, x, r).prio = r.prio
           /\ "prio" \in DOMAIN Returned(l, x, r) /\ Returned(l, x, r).prio = r.prio
<1>1. "prio" \in DOMAIN LoopBack(l, x, r) /\ LoopBack(l, x, r).prio = r.prio
  BY DEF LoopBack
<1> QED
  BY <1>1 DEF Returned

\* The commands of a track other than a priority leave the tracks theirs.
LEMMA DecodeTracks ==
    ASSUME Types, SongTypes, DecodeMusic, ~SetPri
    PROVE  TracksLast
<1> DEFINE x == at.x
           r == track[x]
<1>1. x \in Channels /\ "prio" \in DOMAIN r
  BY DEF Types, SongTypes
<1>2. ASSUME NEW q, "prio" \in DOMAIN q, q.prio = r.prio, track' = [track EXCEPT ![x] = q]
      PROVE  TracksLast
  BY <1>1, <1>2 DEF SongTypes, TracksLast
<1>3. CASE UNCHANGED track
  BY <1>3 DEF TracksLast, SongTypes
<1>4. ASSUME NEW d, track' = [track EXCEPT ![x].delay = d] PROVE TracksLast
  <2> DEFINE q == [r EXCEPT !.delay = d]
  <2>1. track' = [track EXCEPT ![x] = q] /\ "prio" \in DOMAIN q /\ q.prio = r.prio
    BY <1>1, <1>4 DEF SongTypes
  <2> HIDE DEF q
  <2> QED
    BY <1>2, <2>1
<1>5. CASE TrackRests \/ TrackDecodes
  BY <1>3, <1>4, <1>5 DEF TrackRests, TrackDecodes
<1>6. CASE NoteOn
  <2> DEFINE i == IF Script[r.ptr].instr = 0 THEN r.instr ELSE Script[r.ptr].instr
             q == [r EXCEPT !.delay = Script[r.ptr].frames, !.ptr = @ + 1, !.instr = i]
  <2>1. track' = [track EXCEPT ![x] = q]
    BY <1>6 DEF NoteOn, Leaves
  <2>2. "prio" \in DOMAIN q /\ q.prio = r.prio
    BY <1>1
  <2> HIDE DEF q
  <2> QED
    BY <1>2, <2>1, <2>2
<1>7. CASE NoteOff \/ Wait
  <2> DEFINE q == [r EXCEPT !.delay = Script[r.ptr].frames, !.ptr = @ + 1]
  <2>1. track' = [track EXCEPT ![x] = q]
    BY <1>7 DEF NoteOff, Wait, Leaves
  <2>2. "prio" \in DOMAIN q /\ q.prio = r.prio
    BY <1>1
  <2> HIDE DEF q
  <2> QED
    BY <1>2, <2>1, <2>2
<1>8. CASE SetLoop
  <2> DEFINE q == [r EXCEPT !.depth = @ + 1, !.ptr = @ + 1]
  <2>1. track' = [track EXCEPT ![x] = q]
    BY <1>8 DEF SetLoop, Leaves
  <2>2. "prio" \in DOMAIN q /\ q.prio = r.prio
    BY <1>1
  <2> HIDE DEF q
  <2> QED
    BY <1>2, <2>1, <2>2
<1>9. CASE Call
  <2> DEFINE q == [r EXCEPT !.depth = @ + 1, !.ptr = Script[r.ptr].to]
  <2>1. track' = [track EXCEPT ![x] = q]
    BY <1>9 DEF Call, Leaves
  <2>2. "prio" \in DOMAIN q /\ q.prio = r.prio
    BY <1>1
  <2> HIDE DEF q
  <2> QED
    BY <1>2, <2>1, <2>2
<1>10. CASE Loop \/ Ret
  <2>1. \/ track' = [track EXCEPT ![x] = LoopBack(trackLoops, x, r)]
        \/ track' = [track EXCEPT ![x] = Returned(trackLoops, x, r)]
    BY <1>10 DEF Loop, Ret, Leaves
  <2> QED
    BY <1>1, <1>2, <2>1, ReturnedKeeps
<1>11. CASE Break
  <2>1. track' = [c \in Channels |->
                    Broken(c, IF c = x THEN [track[c] EXCEPT !.ptr = @ + 1] ELSE track[c])]
    BY <1>11 DEF Break
  <2>2. ASSUME NEW c, NEW q, "prio" \in DOMAIN q
        PROVE  "prio" \in DOMAIN Broken(c, q) /\ Broken(c, q).prio = q.prio
    <3> DEFINE w == [q EXCEPT !.depth = Min(Calls(c))]
               b == Returned(trackLoops, c, w)
    <3>1. "prio" \in DOMAIN w /\ w.prio = q.prio
      BY <2>2
    <3> HIDE DEF w
    <3>2. "prio" \in DOMAIN b /\ b.prio = q.prio
      BY <3>1, ReturnedKeeps
    <3> HIDE DEF b
    <3>3. "prio" \in DOMAIN [b EXCEPT !.delay = 0] /\ [b EXCEPT !.delay = 0].prio = q.prio
      BY <3>2
    <3>4. Broken(c, q) = IF Calls(c) = {} THEN q ELSE [b EXCEPT !.delay = 0]
      BY DEF Broken, b, w
    <3> QED
      BY <2>2, <3>3, <3>4
  <2>3. ASSUME NEW c \in Channels
        PROVE  /\ "prio" \in DOMAIN track'[c] /\ track'[c].prio = track[c].prio
    <3> DEFINE q == IF c = x THEN [track[c] EXCEPT !.ptr = @ + 1] ELSE track[c]
    <3>1. "prio" \in DOMAIN q /\ q.prio = track[c].prio
      BY DEF SongTypes
    <3>2. track'[c] = Broken(c, q)
      BY <2>1
    <3> HIDE DEF q
    <3> QED
      BY <3>1, <3>2, <2>2
  <2> QED
    BY <2>1, <2>3 DEF TracksLast
<1>12. CASE Sampl
  <2> DEFINE q == [r EXCEPT !.ptr = @ + 1]
  <2>1. track' = [track EXCEPT ![x] = q]
    BY <1>1, <1>12 DEF Sampl, SongTypes
  <2>2. "prio" \in DOMAIN q /\ q.prio = r.prio
    BY <1>1
  <2> HIDE DEF q
  <2> QED
    BY <1>2, <2>1, <2>2
<1>13. CASE SamplHi \/ SamplPlay
  BY <1>3, <1>13 DEF SamplHi, SamplPlay
<1> QED
  BY <1>5, <1>6, <1>7, <1>8, <1>9, <1>10, <1>11, <1>12, <1>13 DEF DecodeMusic

\* A track that changes its priority has no note that still sounds.
Settled == SetPri => ~note[at.x] \/ track'[at.x].prio = track[at.x].prio

\* What the tracks do.
LEMMA DecodeSong ==
    ASSUME Types, SongInv, DecodeMusic, Settled
    PROVE  SongInv'
<1> DEFINE x == at.x
           r == track[x]
<1>1. x \in Channels /\ SongTypes /\ "prio" \in DOMAIN r
  BY DEF Types, SongInv, SongTypes
<1>2. UNCHANGED <<bgm, call>>
  BY DEF DecodeMusic, TrackRests, TrackDecodes, SetPri, NoteOn, NoteOff, Wait, SetLoop, Loop, Call,
         Ret, Break, Sampl, SamplHi, SamplPlay, decoded, program
<1>3. at.part \in Decoding /\ bgm
  BY DEF SongInv, DecodeMusic, TrackRests, TrackDecodes, SetPri, NoteOn, NoteOff, Wait, SetLoop, Loop,
         Call, Ret, Break, Sampl, SamplHi, SamplPlay, Command, In, Decoding
<1>4. call.part # "tracks"
  BY <1>3 DEF SongInv
<1>5. ASSUME DOMAIN track' = Channels, \A c \in Channels : "prio" \in DOMAIN track'[c],
             DOMAIN note' = Channels,
             \A c \in Channels : note'[c] => chan'[c].prio = track'[c].prio
      PROVE  SongInv'
  BY <1>1, <1>2, <1>3, <1>4, <1>5 DEF SongInv, SongTypes, Sings
<1>6. CASE SetPri
  <2> DEFINE q == [r EXCEPT !.prio = Script[r.ptr].prio, !.ptr = @ + 1]
  <2>1. /\ track' = [track EXCEPT ![x] = q] /\ UNCHANGED <<chan, note>>
        /\ ~note[x] \/ track'[x].prio = r.prio
    BY <1>6 DEF SetPri, Leaves, Settled
  <2>2. "prio" \in DOMAIN q
    BY <1>1
  <2> HIDE DEF q
  <2>3. ASSUME NEW c \in Channels
        PROVE  "prio" \in DOMAIN track'[c] /\ (note'[c] => chan'[c].prio = track'[c].prio)
    BY <1>1, <2>1, <2>2 DEF SongInv, SongTypes, Sings
  <2> QED
    BY <1>1, <1>5, <2>1, <2>3 DEF SongTypes
<1>7. CASE ~SetPri
  <2>1. TracksLast
    BY <1>1, <1>7, DecodeTracks
  <2>2. CASE NotesLast
    BY <1>5, <2>1, <2>2 DEF TracksLast, NotesLast, SongInv, Sings
  <2>3. CASE UNCHANGED <<chan, note>>
    BY <1>1, <2>2, <2>3 DEF NotesLast, SongTypes
  <2>4. CASE NoteOn
    <3>1. CASE UNCHANGED <<chan, note>>
      BY <2>3, <3>1
    <3>2. ASSUME NEW s, BeginNote(x, s, r.prio) PROVE SongInv'
      <4>1. chan' = [chan EXCEPT ![x] = Started(s, r.prio)] /\ note' = [note EXCEPT ![x] = TRUE]
        BY <3>2 DEF BeginNote, Begin
      <4>2. Started(s, r.prio).prio = r.prio
        BY DEF Started, Free
      <4>3. ASSUME NEW c \in Channels, note'[c] PROVE chan'[c].prio = track'[c].prio
        <5>1. CASE c = x
          BY <1>1, <2>1, <4>1, <4>2, <5>1 DEF Types, TracksLast
        <5>2. CASE c # x
          BY <1>1, <2>1, <4>1, <4>3, <5>2 DEF Types, TracksLast, SongInv, SongTypes, Sings
        <5> QED
          BY <5>1, <5>2
      <4> QED
        BY <1>1, <1>5, <2>1, <4>1, <4>3 DEF TracksLast, SongTypes
    <3> QED
      BY <2>4, <3>1, <3>2 DEF NoteOn
  <2>5. CASE NoteOff
    <3> DEFINE q == [chan[x] EXCEPT !.ptr = chan[x].off, !.delay = 0]
    <3>1. note' = note /\ (chan' = chan \/ chan' = [chan EXCEPT ![x] = q])
      BY <1>1, <2>5 DEF NoteOff, Types
    <3>2. q.prio = chan[x].prio
      BY <1>1 DEF Types
    <3> HIDE DEF q
    <3>3. NotesLast
      BY <1>1, <3>1, <3>2 DEF NotesLast, Types, SongTypes
    <3> QED
      BY <2>2, <3>3
  <2>6. CASE ~NoteOn /\ ~NoteOff
    <3>1. UNCHANGED <<chan, note>>
      BY <1>7, <2>6 DEF DecodeMusic, TrackRests, TrackDecodes, Wait, SetLoop, Loop, Call, Ret, Break,
                        Sampl, SamplHi, SamplPlay
    <3> QED
      BY <2>3, <3>1
  <2> QED
    BY <2>4, <2>5, <2>6
<1> QED
  BY <1>6, <1>7

\* A step in which the tracks stand still.
LEMMA SongLasts ==
    ASSUME SongInv, NotesLast, UNCHANGED <<bgm, track, call>>, at'.part \in Decoding => bgm
    PROVE  SongInv'
BY DEF SongInv, SongTypes, Sings, NotesLast

\* A call that begins, goes on or returns.
LEMMA CallShape ==
    ASSUME DOMAIN call = {"part", "x", "n"}, Program
    PROVE  DOMAIN call' = {"part", "x", "n"}
<1>1. ASSUME NEW last, DOMAIN last = {"part", "x", "n"}, Downwards(last)
      PROVE  DOMAIN call' = {"part", "x", "n"}
  BY <1>1 DEF Downwards
<1>2. DOMAIN Idle = {"part", "x", "n"} /\ DOMAIN TracksDone = {"part", "x", "n"}
  <2>1. DOMAIN Idle = {"part", "x", "n"}
    BY DEF Idle
  <2> QED
    BY <2>1 DEF TracksDone
<1>3. ASSUME NEW part, NEW x, NEW n, Begins(part, x, n) PROVE DOMAIN call' = {"part", "x", "n"}
  BY <1>3 DEF Begins
<1>4. ASSUME NEW part, Then(part) PROVE DOMAIN call' = {"part", "x", "n"}
  BY <1>4 DEF Then
<1>5. CASE PlaySFX \/ StoreNext \/ StoreRequest \/ PlayMusic \/ Pause \/ UnPause
  BY <1>2, <1>3, <1>4, <1>5 DEF PlaySFX, StoreNext, StoreRequest, PlayMusic, Pause, UnPause
<1>6. CASE StopSoundEffect \/ StopMusic \/ StopTrack \/ StopChannel
  BY <1>1, <1>2, <1>3, <1>6 DEF StopSoundEffect, StopMusic, StopTrack, StopChannel
<1>7. CASE Samples
  BY <1>2, <1>3, <1>4, <1>7 DEF Samples, PlayPcm, RegisterPcm, Mute
<1> QED
  BY <1>5, <1>6, <1>7 DEF Program

\* The calls other than stop_music and play_music: channels are freed at most.
LEMMA OtherCalls ==
    ASSUME Types, SongInv, NotesLast, UNCHANGED <<bgm, track, at>>,
           DOMAIN call' = {"part", "x", "n"}, call.part # "tracks", call'.part # "tracks"
    PROVE  SongInv'
BY DEF SongInv, SongTypes, Sings, NotesLast

\* stop_music frees the channel of each track's note in turn.
LEMMA StopTrackSong ==
    ASSUME Types, SongInv, StopTrack, DOMAIN call' = {"part", "x", "n"}
    PROVE  SongInv'
<1> DEFINE x == call.x
           q == [track[x] EXCEPT !.prio = 0]
<1>1. /\ SongTypes /\ call.part = "tracks" /\ x \in Channels /\ ~bgm /\ UNCHANGED <<bgm, at>>
      /\ at.part = "idle"
  BY DEF StopTrack, Runs, In, SongInv, tracksOnly
<1>2. NotesLast /\ ~note'[x]
  <2>1. CASE FreeChannel(x)
    BY <1>1, <2>1, FreeingLasts
  <2>2. CASE chan[x].prio # track[x].prio /\ UNCHANGED <<chan, note>>
    BY <1>1, <2>2 DEF SongInv, SongTypes, Sings, NotesLast
  <2> QED
    BY <2>1, <2>2 DEF StopTrack
<1>3. track' = [track EXCEPT ![x] = q] /\ "prio" \in DOMAIN q
  BY <1>1 DEF StopTrack, SongTypes
<1> HIDE DEF q
<1>4. /\ DOMAIN track' = Channels
      /\ \A c \in Channels : /\ "prio" \in DOMAIN track'[c]
                             /\ c # x => track'[c] = track[c]
  BY <1>1, <1>3 DEF SongTypes
<1>5. ASSUME NEW c \in Channels, note'[c]
      PROVE  chan'[c].prio = track'[c].prio /\ c < x
  <2>1. note[c] /\ chan'[c].prio = chan[c].prio /\ c # x
    BY <1>2, <1>5 DEF NotesLast
  <2>2. Sings(c)
    BY <2>1 DEF SongInv
  <2> QED
    BY <1>1, <1>4, <2>1, <2>2 DEF Sings, Channels
<1>6. SongTypes'
  BY <1>2, <1>4 DEF SongTypes, NotesLast
<1>7. at'.part \notin Decoding
  BY <1>1 DEF Decoding
<1>8. CASE x = 0
  <2>1. \A c \in Channels : ~note'[c]
    BY <1>5, <1>8 DEF Channels
  <2>2. call'.part # "tracks"
    BY <1>8 DEF StopTrack, Downwards, TracksDone, Idle
  <2> QED
    BY <1>1, <1>6, <1>7, <2>1, <2>2 DEF SongInv
<1>9. CASE x # 0
  <2>1. call' = [call EXCEPT !.x = x - 1]
    BY <1>9 DEF StopTrack, Downwards
  <2>2. call'.part = "tracks" /\ call'.x = x - 1
    BY <1>1, <2>1 DEF SongTypes
  <2>3. x - 1 \in Channels
    BY <1>1, <1>9, HandyMusicAssumption DEF Channels
  <2>4. \A c \in Channels : note'[c] => chan'[c].prio = track'[c].prio /\ c <= x - 1
    BY <1>1, <1>5 DEF Channels
  <2>5. \A c \in Channels : note'[c] => Sings(c)'
    BY <2>2, <2>4 DEF Sings
  <2> QED
    BY <1>1, <1>6, <1>7, <2>2, <2>3, <2>5 DEF SongInv
<1> QED
  BY <1>8, <1>9

\* What the program calls.
LEMMA ProgramSong ==
    ASSUME Types, SongInv, Program
    PROVE  SongInv'
<1>1. SongTypes /\ DOMAIN call' = {"part", "x", "n"}
  BY CallShape DEF SongInv, SongTypes
<1>2. UNCHANGED at /\ at.part = "idle"
  BY DEF Program, PlaySFX, StoreNext, StoreRequest, StopSoundEffect, StopMusic, StopTrack, StopChannel,
         PlayMusic, Pause, UnPause, Samples, PlayPcm, RegisterPcm, Mute, Begins, Runs, In, tracksOnly
<1>3. ASSUME NEW part, NEW x, NEW n, Begins(part, x, n)
      PROVE  call.part # "tracks" /\ call' = [part |-> part, x |-> x, n |-> n]
  BY <1>3 DEF Begins
<1>4. ASSUME NEW part, Then(part) PROVE call'.part = part
  BY <1>1, <1>4 DEF Then, SongTypes
<1>5. ASSUME UNCHANGED <<chan, note>> PROVE NotesLast
  BY <1>1, <1>5 DEF NotesLast, SongTypes
<1>6. CASE PlaySFX \/ StoreNext \/ StoreRequest \/ Pause \/ UnPause \/ Samples
  <2>1. UNCHANGED <<chan, note, bgm, track>>
    BY <1>6 DEF PlaySFX, StoreNext, StoreRequest, Pause, UnPause, Samples, scripts
  <2>2. call.part # "tracks" /\ call'.part # "tracks"
    <3>1. CASE PlaySFX
      BY <1>3, <1>4, <3>1 DEF PlaySFX, Runs, Idle
    <3>2. CASE StoreNext \/ StoreRequest
      BY <1>4, <3>2 DEF StoreNext, StoreRequest, Runs, Idle
    <3>3. CASE Pause \/ UnPause
      BY <1>3, <3>3 DEF Pause, UnPause
    <3>4. CASE Samples
      BY <1>3, <1>4, <3>4 DEF Samples, PlayPcm, RegisterPcm, Mute, Runs, Idle
    <3> QED
      BY <1>6, <3>1, <3>2, <3>3, <3>4
  <2> QED
    BY <1>1, <1>2, <1>5, <2>1, <2>2, OtherCalls
<1>7. ASSUME call'.part = call.part, UNCHANGED <<bgm, track>>, NotesLast, call.part # "tracks"
      PROVE  SongInv'
  BY <1>1, <1>2, <1>7, OtherCalls
<1>8. ASSUME NEW last, Downwards(last) PROVE call' = last \/ call'.part = call.part
  BY <1>1, <1>8 DEF Downwards, SongTypes
<1>9. Idle.part = "idle"
  BY DEF Idle
<1>10. CASE StopSoundEffect
  <2>1. UNCHANGED <<bgm, track>>
    BY <1>10 DEF StopSoundEffect
  <2>2. NotesLast
    BY <1>1, <1>5, <1>10, FreeingLasts DEF StopSoundEffect
  <2>3. call.part # "tracks" /\ call'.part # "tracks"
    BY <1>3, <1>8, <1>9, <1>10 DEF StopSoundEffect, Runs
  <2> QED
    BY <1>1, <1>2, <2>1, <2>2, <2>3, OtherCalls
<1>11. CASE StopChannel
  <2>1. UNCHANGED <<bgm, track>>
    BY <1>11 DEF StopChannel
  <2>2. NotesLast
    BY <1>1, <1>11, FreeingLasts DEF StopChannel
  <2>3. call.part # "tracks" /\ call'.part # "tracks"
    BY <1>8, <1>9, <1>11 DEF StopChannel, Runs
  <2> QED
    BY <1>1, <1>2, <2>1, <2>2, <2>3, OtherCalls
<1>12. CASE StopMusic
  <2>1. UNCHANGED <<chan, note, track>> /\ ~bgm'
    BY <1>12 DEF StopMusic, scripts
  <2>2. PICK n : Begins("tracks", Voices - 1, n)
    BY <1>12 DEF StopMusic
  <2>3. call.part # "tracks" /\ call' = [part |-> "tracks", x |-> Voices - 1, n |-> n]
    BY <1>3, <2>2
  <2>4. call'.part = "tracks" /\ call'.x = Voices - 1
    BY <2>3
  <2>5. Voices - 1 \in Channels /\ \A c \in Channels : c <= Voices - 1
    BY HandyMusicAssumption DEF Channels
  <2>6. at'.part \notin Decoding
    BY <1>2 DEF Decoding
  <2> QED
    BY <1>1, <2>1, <2>4, <2>5, <2>6 DEF SongInv, SongTypes, Sings
<1>13. CASE StopTrack
  BY <1>1, <1>13, StopTrackSong
<1>14. CASE PlayMusic
  <2>1. CASE ~bgm /\ Begins("play_music", 0, 0)
    <3>1. /\ track' = [x \in Channels |-> [NoTrack EXCEPT !.prio = Song[x].prio, !.ptr = Song[x].start,
                                                       !.instr = track[x].instr]]
          /\ UNCHANGED <<bgm, chan, note>>
      BY <1>14, <2>1 DEF PlayMusic, Begins, Runs
    <3>2. call.part # "tracks" /\ call'.part = "play_music"
      BY <1>3, <2>1
    <3>3. \A c \in Channels : ~note'[c]
      BY <2>1, <3>1, <3>2 DEF SongInv, Sings
    <3>4. DOMAIN track' = Channels /\ \A c \in Channels : "prio" \in DOMAIN track'[c]
      BY <3>1 DEF NoTrack
    <3>5. at'.part \notin Decoding
      BY <1>2 DEF Decoding
    <3> QED
      BY <1>1, <3>1, <3>2, <3>3, <3>4, <3>5 DEF SongInv, SongTypes
  <2>2. CASE Runs("play_music")
    <3>1. bgm' = TRUE /\ call' = Idle /\ UNCHANGED <<chan, note, track>> /\ call.part # "tracks"
      BY <1>14, <2>2 DEF PlayMusic, Begins, Runs, scripts
    <3> QED
      BY <1>1, <1>9, <3>1 DEF SongInv, SongTypes, Sings
  <2> QED
    BY <1>14, <2>1, <2>2 DEF PlayMusic
<1> QED
  BY <1>6, <1>10, <1>11, <1>12, <1>13, <1>14 DEF Program

\* Every step keeps the song's notes those of its tracks.
LEMMA SongStep ==
    ASSUME Types, SongInv, Next, Settled
    PROVE  SongInv'
<1>1. SongTypes
  BY DEF SongInv
<1>2. ASSUME UNCHANGED <<chan, note, track, bgm, call>>, at' = at \/ at'.part \notin Decoding
      PROVE  SongInv'
  BY <1>2 DEF SongInv, SongTypes, Sings
<1>3. CASE Vbl
  BY <1>2, <1>3 DEF Vbl, scripts, program, Decoding
<1>4. CASE PcmIrq
  BY <1>2, <1>4 DEF PcmIrq, scripts, program
<1>5. CASE UpdateChannel
  BY <1>1, <1>5, UpdateSong, SongLasts
<1>6. CASE EnqueueSFX
  BY <1>1, <1>6, EffectSong, SongLasts
<1>7. CASE DecodeMusic
  BY <1>7, DecodeSong
<1>8. CASE Program
  BY <1>8, ProgramSong
<1> QED
  BY <1>3, <1>4, <1>5, <1>6, <1>7, <1>8 DEF Next, Main

\* Whatever the song and the effects, and wherever a tick comes in between,
\* no note of the song is left once stop_music has returned, as long as no
\* track changes its priority while its note sounds.
THEOREM SongEnds == Spec /\ [][Settled]_vars => []SongStops
<1>1. Init => SongInv
  <2> SUFFICES ASSUME Init PROVE SongInv
    OBVIOUS
  <2>1. SongTypes
    <3>1. "prio" \in DOMAIN NoTrack
      BY DEF NoTrack
    <3>2. DOMAIN call = {"part", "x", "n"}
      BY DEF Init, Idle
    <3> HIDE DEF NoTrack
    <3> QED
      BY <3>1, <3>2 DEF Init, SongTypes
  <2>2. \A c \in Channels : ~note[c]
    BY DEF Init
  <2>3. at.part = "idle" /\ call.part = "idle"
    BY DEF Init, Idle
  <2> QED
    BY <2>1, <2>2, <2>3 DEF SongInv, Decoding
<1>2. HInv /\ [Next]_vars => HInv'
  <2> SUFFICES ASSUME HInv, UNCHANGED vars PROVE HInv'
    BY StepHInv
  <2> QED
    BY DEF HInv, Types, Quiet, vars, scripts
<1>3. HInv /\ SongInv /\ [Next]_vars /\ [Settled]_vars => SongInv'
  <2>1. CASE UNCHANGED vars
    BY <2>1 DEF SongInv, SongTypes, Sings, vars, scripts, program
  <2>2. CASE Next /\ Settled
    BY <2>2, SongStep DEF HInv
  <2>3. CASE Next /\ UNCHANGED vars
    BY <2>1, <2>3
  <2> QED
    BY <2>1, <2>2
<1>4. SongInv => SongStops
  BY DEF SongInv, Sings, SongStops
<1> QED
  BY <1>1, <1>2, <1>3, <1>4, InitHInv, PTL DEF Spec

-----------------------------------------------------------------------------
(* The slots of loops.                                                     *)

\* Every channel and track has slots of its own.
LEMMA SlotsApart ==
    ASSUME NEW x \in Channels, NEW y \in Channels, NEW d \in 1 .. Depth, NEW e \in 1 .. Depth
    PROVE  SlotOf(x, d) \in LoopSlots /\ (SlotOf(x, d) = SlotOf(y, e) => x = y /\ d = e)
<1>1. Voices \in Nat /\ Depth \in Nat /\ x \in 0 .. Voices - 1 /\ y \in 0 .. Voices - 1
  BY HandyMusicAssumption DEF Channels
<1>2. x * Depth \in Nat /\ y * Depth \in Nat /\ Voices * Depth \in Nat
  BY <1>1, Z3
<1>3. ASSUME NEW a \in Nat, NEW b \in Nat, a < b PROVE a * Depth + Depth <= b * Depth
  <2>1. PICK k \in Nat : b = a + 1 + k
    <3>1. b - a - 1 \in Nat /\ b = a + 1 + (b - a - 1)
      BY <1>3
    <3> QED
      BY <3>1
  <2>2. b * Depth = a * Depth + Depth + k * Depth /\ k * Depth \in Nat /\ a * Depth \in Nat
    BY <1>1, <2>1, Z3
  <2> QED
    BY <1>1, <2>2
<1>4. x * Depth + Depth <= Voices * Depth
  BY <1>1, <1>3
<1>5. x < y => x * Depth + Depth <= y * Depth
  BY <1>1, <1>3
<1>6. y < x => y * Depth + Depth <= x * Depth
  BY <1>1, <1>3
<1>7. SlotOf(x, d) = x * Depth + (d - 1) /\ SlotOf(y, e) = y * Depth + (e - 1)
  BY <1>1, <1>2 DEF SlotOf
<1> QED
  BY <1>1, <1>2, <1>4, <1>5, <1>6, <1>7 DEF LoopSlots

LoopTypes(l) == DOMAIN l = LoopSlots /\ \A s \in LoopSlots : DOMAIN l[s] = {"addr", "count"}

\* The slots of x hold the loops and calls s, the outermost first.
Holds(l, x, s) == \A d \in 1 .. Len(s) : /\ l[SlotOf(x, d)].addr = s[d].addr
                                         /\ l[SlotOf(x, d)].count \in Int
                                         /\ Kind(l[SlotOf(x, d)].count) = s[d].kind

Stacks == {s \in Seq(Frames) : Len(s) <= Depth}

\* Only slots of x differ.
Others(l, k, x) == /\ LoopTypes(k)
                   /\ \A y \in Channels \ {x} : \A s \in Stacks : Holds(l, y, s) => Holds(k, y, s)

Stores(l, k, n, e) == k = [l EXCEPT ![n] = e]

\* A slot is changed.
LEMMA OneSlot ==
    ASSUME NEW l, LoopTypes(l), NEW x \in Channels, NEW d \in 1 .. Depth, NEW e,
           DOMAIN e = {"addr", "count"}, NEW k, Stores(l, k, SlotOf(x, d), e)
    PROVE  /\ Others(l, k, x) /\ k[SlotOf(x, d)] = e
           /\ \A b \in 1 .. Depth : b # d => k[SlotOf(x, b)] = l[SlotOf(x, b)]
<1>1. SlotOf(x, d) \in LoopSlots
  BY SlotsApart
<1>2. ASSUME NEW y \in Channels, NEW b \in 1 .. Depth, y # x \/ b # d
      PROVE  k[SlotOf(y, b)] = l[SlotOf(y, b)]
  <2>1. SlotOf(y, b) \in LoopSlots /\ SlotOf(y, b) # SlotOf(x, d)
    BY <1>2, SlotsApart
  <2> QED
    BY <2>1 DEF LoopTypes, Stores
<1>3. LoopTypes(k) /\ k[SlotOf(x, d)] = e
  BY <1>1 DEF LoopTypes, Stores
<1>4. ASSUME NEW y \in Channels \ {x}, NEW s \in Stacks, Holds(l, y, s) PROVE Holds(k, y, s)
  <2>1. Len(s) \in Nat /\ Len(s) <= Depth /\ Depth \in Nat
    BY HandyMusicAssumption, LenProperties DEF Stacks
  <2>2. \A b \in 1 .. Len(s) : k[SlotOf(y, b)] = l[SlotOf(y, b)]
    BY <1>2, <2>1
  <2> QED
    BY <1>4, <2>2 DEF Holds
<1>5. Others(l, k, x)
  BY <1>3, <1>4 DEF Others
<1>6. \A b \in 1 .. Depth : b # d => k[SlotOf(x, b)] = l[SlotOf(x, b)]
  BY <1>2
<1> QED
  BY <1>3, <1>5, <1>6

\* SetLoop and Call.
LEMMA PushHolds ==
    ASSUME NEW l, LoopTypes(l), NEW x \in Channels, NEW r, r.ptr \in Int, NEW count \in Int,
           NEW s \in Stacks, r.depth = Len(s), Len(s) < Depth, Holds(l, x, s)
    PROVE  LET f == Frame(r.ptr + 1, count)
           IN  /\ Others(l, Push(l, x, r, count), x)
               /\ Append(s, f) \in Stacks /\ Len(Append(s, f)) = Len(s) + 1
               /\ Holds(Push(l, x, r, count), x, Append(s, f))
<1> DEFINE f == Frame(r.ptr + 1, count)
           d == Len(s) + 1
           e == [addr |-> r.ptr + 1, count |-> count]
           k == Push(l, x, r, count)
           t == Append(s, f)
<1>1. s \in Seq(Frames) /\ Len(s) \in Nat /\ Depth \in Nat /\ d \in 1 .. Depth
  BY HandyMusicAssumption, LenProperties DEF Stacks
<1>2. Stores(l, k, SlotOf(x, d), e)
  BY <1>1 DEF Push, Stores
<1>3. /\ Others(l, k, x) /\ k[SlotOf(x, d)] = e
      /\ \A b \in 1 .. Depth : b # d => k[SlotOf(x, b)] = l[SlotOf(x, b)]
  <2>1. DOMAIN e = {"addr", "count"}
    OBVIOUS
  <2> HIDE DEF d, e, k
  <2> QED
    BY <1>1, <1>2, <2>1, OneSlot
<1>4. f \in Frames /\ f.addr = e.addr /\ f.kind = Kind(e.count) /\ e.count \in Int
  BY DEF Frame, Frames, Kind
<1> HIDE DEF f, e, k
<1>5. /\ t \in Seq(Frames) /\ Len(t) = d /\ t[d] = f
      /\ \A b \in 1 .. Len(s) : t[b] = s[b]
  BY <1>1, <1>4, AppendProperties
<1> HIDE DEF t
<1>6. ASSUME NEW b \in 1 .. d
      PROVE  /\ k[SlotOf(x, b)].addr = t[b].addr /\ k[SlotOf(x, b)].count \in Int
             /\ Kind(k[SlotOf(x, b)].count) = t[b].kind
  <2>1. CASE b = d
    BY <1>3, <1>4, <1>5, <2>1
  <2>2. CASE b # d
    <3>1. b \in 1 .. Len(s) /\ b \in 1 .. Depth
      BY <1>1, <2>2
    <3> QED
      BY <1>3, <1>5, <2>2, <3>1 DEF Holds
  <2> QED
    BY <2>1, <2>2
<1>7. t \in Stacks /\ Holds(k, x, t)
  BY <1>1, <1>5, <1>6 DEF Stacks, Holds
<1> QED
  BY <1>3, <1>5, <1>7 DEF f, k, t

\* What is outside of a loop or call.
LEMMA OutsideHolds ==
    ASSUME NEW l, NEW x, NEW s \in Stacks, NEW d \in 1 .. Len(s), Holds(l, x, s)
    PROVE  /\ Outside(s, d) \in Stacks /\ Len(Outside(s, d)) = d - 1
           /\ Holds(l, x, Outside(s, d))
<1>1. s \in Seq(Frames) /\ Len(s) \in Nat /\ Depth \in Nat /\ Len(s) <= Depth
  BY HandyMusicAssumption, LenProperties DEF Stacks
<1>2. \A i \in 1 .. d - 1 : s[i] \in Frames
  BY <1>1, ElementOfSeq
<1>3. /\ Outside(s, d) \in Seq(Frames) /\ Len(Outside(s, d)) = d - 1
      /\ \A i \in 1 .. d - 1 : Outside(s, d)[i] = s[i]
  <2>1. /\ SubSeq(s, 1, d - 1) \in Seq(Frames)
        /\ Len(SubSeq(s, 1, d - 1)) = IF 1 <= d - 1 THEN d - 1 - 1 + 1 ELSE 0
        /\ \A i \in 1 .. d - 1 - 1 + 1 : SubSeq(s, 1, d - 1)[i] = s[1 + i - 1]
    BY <1>1, <1>2, SubSeqProperties
  <2> QED
    BY <1>1, <2>1 DEF Outside
<1> QED
  BY <1>1, <1>3 DEF Holds, Stacks

\* Loop.
LEMMA CountHolds ==
    ASSUME NEW l, LoopTypes(l), NEW x \in Channels, NEW r, {"ptr", "depth"} \subseteq DOMAIN r,
           NEW s \in Stacks, s # <<>>, Top(s).kind # "call", r.depth = Len(s), Holds(l, x, s)
    PROVE  /\ Others(l, LoopCount(l, x, r), x)
           /\ \/ /\ LoopBack(l, x, r) = [r EXCEPT !.ptr = Top(s).addr]
                 /\ Holds(LoopCount(l, x, r), x, s)
              \/ /\ LoopBack(l, x, r) = [r EXCEPT !.ptr = @ + 1, !.depth = @ - 1]
                 /\ Top(s).kind = "counted"
                 /\ Holds(LoopCount(l, x, r), x, Outside(s, Len(s)))
<1> DEFINE d == Len(s)
           e == l[SlotOf(x, d)]
           k == LoopCount(l, x, r)
<1>1. s \in Seq(Frames) /\ Depth \in Nat /\ d \in 1 .. Depth /\ d \in 1 .. Len(s) /\ Len(s) \in Nat
  BY HandyMusicAssumption, LenProperties, EmptySeq DEF Stacks
<1>2. e.addr = Top(s).addr /\ e.count \in Int /\ Kind(e.count) = Top(s).kind
  BY <1>1 DEF Holds, Top
<1>3. SlotOf(x, d) \in LoopSlots /\ DOMAIN e = {"addr", "count"}
  BY <1>1, SlotsApart DEF LoopTypes
<1> HIDE DEF d, e
<1>4. CASE e.count > 0
  <2> DEFINE g == [e EXCEPT !.count = @ - 1]
  <2>1. Stores(l, k, SlotOf(x, d), g)
    BY <1>3, <1>4 DEF Stores, LoopCount, Counted, e, d, LoopTypes
  <2>2. DOMAIN g = {"addr", "count"} /\ g.addr = e.addr /\ g.count = e.count - 1
    BY <1>3
  <2> HIDE DEF g, k
  <2>3. /\ Others(l, k, x) /\ k[SlotOf(x, d)] = g
        /\ \A b \in 1 .. Depth : b # d => k[SlotOf(x, b)] = l[SlotOf(x, b)]
    BY <1>1, <2>1, <2>2, OneSlot
  <2>4. Top(s).kind = "counted"
    BY <1>2, <1>4 DEF Kind, Called
  <2>5. \A b \in 1 .. Depth : b < d => k[SlotOf(x, b)] = l[SlotOf(x, b)]
    BY <1>1, <2>3
  <2>6. CASE e.count = 1
    <3>1. Holds(l, x, Outside(s, d)) /\ Len(Outside(s, d)) = d - 1
      BY <1>1, OutsideHolds DEF d
    <3>2. Holds(k, x, Outside(s, d))
      <4>1. \A b \in 1 .. d - 1 : k[SlotOf(x, b)] = l[SlotOf(x, b)]
        BY <1>1, <2>5
      <4> QED
        BY <3>1, <4>1 DEF Holds
    <3>3. LoopBack(l, x, r) = [r EXCEPT !.ptr = @ + 1, !.depth = @ - 1]
      BY <2>6 DEF LoopBack, Again, e, d
    <3> QED
      BY <2>3, <2>4, <3>2, <3>3 DEF d, k
  <2>7. CASE e.count # 1
    <3>1. LoopBack(l, x, r) = [r EXCEPT !.ptr = Top(s).addr]
      BY <1>2, <2>7 DEF LoopBack, Again, e, d
    <3>2. Kind(g.count) = "counted" /\ g.count \in Int
      BY <1>2, <1>4, <2>2, <2>7 DEF Kind, Called
    <3>3. ASSUME NEW b \in 1 .. d
          PROVE  /\ k[SlotOf(x, b)].addr = s[b].addr /\ k[SlotOf(x, b)].count \in Int
                 /\ Kind(k[SlotOf(x, b)].count) = s[b].kind
      <4>1. CASE b = d
        BY <1>2, <2>2, <2>3, <2>4, <3>2, <4>1 DEF Top, d
      <4>2. CASE b # d
        <5>1. b < d /\ b \in 1 .. Depth
          BY <1>1, <4>2
        <5> QED
          BY <2>5, <5>1 DEF Holds, d
      <4> QED
        BY <4>1, <4>2
    <3>4. Holds(k, x, s)
      BY <3>3 DEF Holds, d
    <3> QED
      BY <2>3, <3>1, <3>4 DEF k
  <2> QED
    BY <2>6, <2>7
<1>5. CASE ~(e.count > 0)
  <2>1. k = l
    BY <1>5 DEF LoopCount, Counted, e, d
  <2>2. e.count # 1
    BY <1>5
  <2>3. LoopBack(l, x, r) = [r EXCEPT !.ptr = Top(s).addr]
    BY <1>2, <2>2 DEF LoopBack, Again, e, d
  <2> QED
    BY <2>1, <2>3 DEF Others
<1> QED
  BY <1>4, <1>5

\* Return, and the return of a Pattern Break.
LEMMA ReturnHolds ==
    ASSUME NEW l, NEW x, NEW r, {"ptr", "depth"} \subseteq DOMAIN r, r.depth \in Int,
           l[SlotOf(x, r.depth)].count = Called
    PROVE  LET q == Returned(l, x, r)
           IN  /\ LoopCount(l, x, r) = l
               /\ DOMAIN q = DOMAIN r /\ \A f \in DOMAIN r \ {"ptr", "depth"} : q[f] = r[f]
               /\ q.ptr = l[SlotOf(x, r.depth)].addr /\ q.depth = r.depth - 1
<1>1. ~Counted(l, x, r) /\ Again(l, x, r)
  BY DEF Counted, Again, Called
<1> DEFINE a == l[SlotOf(x, r.depth)].addr
           w == [r EXCEPT !.ptr = a]
<1>2. Returned(l, x, r) = [w EXCEPT !.depth = @ - 1]
  BY <1>1 DEF LoopBack, Returned
<1>3. DOMAIN w = DOMAIN r /\ w.ptr = a /\ \A f \in DOMAIN r \ {"ptr"} : w[f] = r[f]
  OBVIOUS
<1> HIDE DEF w
<1>4. LET q == [w EXCEPT !.depth = @ - 1]
      IN  /\ DOMAIN q = DOMAIN r /\ \A f \in DOMAIN r \ {"ptr", "depth"} : q[f] = r[f]
          /\ q.ptr = a /\ q.depth = r.depth - 1
  BY <1>3
<1> QED
  BY <1>1, <1>2, <1>4 DEF LoopCount

\* A set of natural numbers has a least one.
LEMMA LeastIsIn ==
    ASSUME NEW S, S \subseteq Nat, S # {}
    PROVE  Min(S) \in S /\ \A y \in S : Min(S) <= y
<1> PICK R : R = OpToRel(<, Nat)
  OBVIOUS
<1>1. R = {ss \in Nat \X Nat : ss[1] < ss[2]}
  BY DEF OpToRel
<1>2. IsWellFoundedOn(R, Nat)
  BY NatLessThanWellFounded
<1>3. PICK x \in S : \A y \in S : ~ (<<y, x>> \in R)
  BY <1>2, WFMin
<1>4. ASSUME NEW y \in S PROVE x <= y
  <2>1. x \in Nat /\ y \in Nat
    OBVIOUS
  <2>2. ~ (y < x)
    <3>1. <<y, x>> \notin {ss \in Nat \X Nat : ss[1] < ss[2]}
      BY <1>1, <1>3
    <3> QED
      BY ONLY <2>1, <3>1
  <2> QED
    BY ONLY <2>1, <2>2
<1> QED
  BY <1>3, <1>4 DEF Min

\* Pattern Break looks for the outermost call.
LEMMA BreakFinds ==
    ASSUME NEW x, NEW s \in Stacks, track[x].depth = Len(s), Holds(trackLoops, x, s), Calls(x) # {}
    PROVE  LET d == Min(Calls(x))
           IN  /\ d \in 1 .. Len(s) /\ Outermost(s, d)
               /\ trackLoops[SlotOf(x, d)].count = Called
               /\ trackLoops[SlotOf(x, d)].addr = s[d].addr
<1> DEFINE d == Min(Calls(x))
<1>1. Len(s) \in Nat
  BY LenProperties DEF Stacks
<1>2. Calls(x) \subseteq 1 .. Len(s) /\ Calls(x) \subseteq Nat
  BY <1>1 DEF Calls
<1>3. d \in Calls(x) /\ \A e \in Calls(x) : d <= e
  BY <1>2, LeastIsIn
<1> HIDE DEF d
<1>4. d \in 1 .. Len(s) /\ trackLoops[SlotOf(x, d)].count = Called
  BY <1>2, <1>3 DEF Calls
<1>5. \A count : Kind(count) = "call" <=> count = Called
  BY DEF Kind
<1>6. s[d].kind = "call"
  BY <1>4, <1>5 DEF Holds
<1>7. ASSUME NEW e \in 1 .. d - 1 PROVE s[e].kind # "call"
  <2>1. e \in 1 .. Len(s) /\ e \notin Calls(x)
    BY <1>1, <1>2, <1>3, <1>4
  <2>2. trackLoops[SlotOf(x, e)].count # Called
    BY <2>1 DEF Calls
  <2> QED
    BY <1>5, <2>1, <2>2 DEF Holds
<1> QED
  BY <1>4, <1>6, <1>7 DEF Outermost, Holds, d

-----------------------------------------------------------------------------
(* The places of instruments, effects and tracks.                          *)

\* A channel that is in use is at a place of its script; a free one keeps
\* its depth.
FitsNote(notes, l, c, r) ==
    /\ r.depth \in 0 .. Depth
    /\ r.prio # 0 => /\ r.off \in DOMAIN notes
                     /\ \E s \in Stacks : /\ <<r.ptr, s, 0>> \in notes[r.off]
                                          /\ r.depth = Len(s) /\ Holds(l, c, s)

\* A track is at a place, one that has ended inside of loops and calls of one.
FitsTrack(tracks, l, x, r) ==
    \E s \in Stacks, i \in Int : /\ \E p \in Int : <<p, s, i>> \in tracks
                                 /\ r.prio # 0 => <<r.ptr, s, i>> \in tracks
                                 /\ i # 0 => r.instr = i
                                 /\ r.depth = Len(s) /\ Holds(l, x, s)

NoteFields == {"prio", "depth", "delay", "ptr", "off", "force"}
TrackFields == {"prio", "depth", "delay", "ptr", "instr"}

NoteInv(notes) == /\ DOMAIN chan = Channels /\ LoopTypes(chanLoops)
                  /\ \A c \in Channels : /\ DOMAIN chan[c] = NoteFields
                                         /\ FitsNote(notes, chanLoops, c, chan[c])

TrackInv(tracks) == /\ DOMAIN track = Channels /\ LoopTypes(trackLoops)
                    /\ \A x \in Channels : /\ DOMAIN track[x] = TrackFields
                                           /\ FitsTrack(tracks, trackLoops, x, track[x])

\* A tick enters the effect the program has stored.
Requests == /\ request \/ call.part = "request" => next \in DOMAIN Effects
            /\ call.part \in {"compare", "store"} => call.n \in DOMAIN Effects

\* A track whose commands are decoded has not ended.
Active == at.part \in {"command", "length", "pcm"} => track[at.x].prio # 0

\* One channel goes on to a place of its script.
LEMMA OneNote ==
    ASSUME NEW notes, NoteInv(notes), NEW x \in Channels, NEW q, DOMAIN q = NoteFields,
           chan' = [chan EXCEPT ![x] = q], Others(chanLoops, chanLoops', x),
           FitsNote(notes, chanLoops', x, q)
    PROVE  NoteInv(notes)'
<1>1. DOMAIN chan' = Channels /\ chan'[x] = q /\ \A c \in Channels \ {x} : chan'[c] = chan[c]
  BY DEF NoteInv
<1>2. LoopTypes(chanLoops')
  BY DEF Others
<1>3. ASSUME NEW c \in Channels \ {x}
      PROVE  DOMAIN chan'[c] = NoteFields /\ FitsNote(notes, chanLoops', c, chan'[c])
  BY <1>1 DEF NoteInv, FitsNote, Others
<1> QED
  BY <1>1, <1>2, <1>3 DEF NoteInv

\* The slots stay.
LEMMA SameSlots == ASSUME NEW l, LoopTypes(l), NEW x PROVE Others(l, l, x)
BY DEF Others

\* A place depends on no other fields.
LEMMA SameNote ==
    ASSUME NEW notes, NEW l, NEW c, NEW r, NEW q, FitsNote(notes, l, c, r), q.prio \in {0, r.prio},
           q.depth = r.depth, q.ptr = r.ptr, q.off = r.off
    PROVE  FitsNote(notes, l, c, q)
BY DEF FitsNote

\* The end of an update.
LEMMA WriteBackFits ==
    ASSUME NEW notes, NoteInv(notes), NEW x \in Channels, NEW q, DOMAIN q = NoteFields,
           WriteBack(x, q), UNCHANGED chanLoops, FitsNote(notes, chanLoops, x, q)
    PROVE  NoteInv(notes)'
<1>1. Others(chanLoops, chanLoops', x)
  BY SameSlots DEF NoteInv
<1>2. CASE chan' = [chan EXCEPT ![x] = q]
  BY <1>1, <1>2, OneNote
<1>3. CASE chan' = [chan EXCEPT ![x] = [q EXCEPT !.force = FALSE]]
  <2> DEFINE w == [q EXCEPT !.force = FALSE]
  <2>1. DOMAIN w = NoteFields /\ w.prio = q.prio /\ w.depth = q.depth /\ w.ptr = q.ptr /\ w.off = q.off
    BY DEF NoteFields
  <2> HIDE DEF w
  <2>2. FitsNote(notes, chanLoops', x, w)
    BY <2>1, SameNote
  <2> QED
    BY <1>1, <1>3, <2>1, <2>2, OneNote DEF w
<1> QED
  BY <1>2, <1>3 DEF WriteBack

\* A script goes on behind all commands but these.
LEMMA LeadsOn ==
    ASSUME NEW places, Nested(places), NEW p, NEW s, NEW i, <<p, s, i>> \in places
    PROVE  /\ p \in Int /\ s \in Stacks /\ i \in Int
           /\ Proper(p, s, i) /\ Leads(p, s, i) \subseteq places /\ Breaks(s, i) \subseteq places
           /\ Script[p].op \notin {"setloop", "call", "loop", "ret", "note", "stop", "priority"}
                => <<p + 1, s, i>> \in places
<1> PICK w \in places : w = <<p, s, i>>
  OBVIOUS
<1>1. /\ w \in Places /\ Proper(w[1], w[2], w[3])
      /\ Leads(w[1], w[2], w[3]) \cup Breaks(w[2], w[3]) \subseteq places
  BY DEF Nested
<1>2. p \in Int /\ s \in Seq(Frames) /\ i \in Int
  BY <1>1 DEF Places
<1>3. Proper(p, s, i) /\ Leads(p, s, i) \subseteq places /\ Breaks(s, i) \subseteq places
  BY <1>1
<1>4. Len(s) <= Depth
  BY <1>3 DEF Proper
<1>5. ASSUME Script[p].op \notin {"setloop", "call", "loop", "ret", "note", "stop", "priority"}
      PROVE  <<p + 1, s, i>> \in places
  <2>1. Leads(p, s, i) = {<<p + 1, s, i>>}
    BY <1>5 DEF Leads
  <2> QED
    BY <1>3, <2>1
<1> QED
  BY <1>2, <1>3, <1>4, <1>5 DEF Stacks

\* The commands of a channel's script keep to the places.
LEMMA UpdateFits ==
    ASSUME NEW notes, \A off \in DOMAIN notes : Nested(notes[off]), Types, NoteInv(notes), UpdateChannel
    PROVE  NoteInv(notes)'
<1> DEFINE x == at.x
           r == chan[x]
           cmd == Script[r.ptr]
<1>1. x \in Channels /\ DOMAIN r = NoteFields /\ FitsNote(notes, chanLoops, x, r) /\ LoopTypes(chanLoops)
  BY DEF Types, NoteInv
<1>2. ASSUME UNCHANGED <<chan, chanLoops>> PROVE NoteInv(notes)'
  BY <1>2 DEF NoteInv
<1>3. ASSUME NEW q, DOMAIN q = NoteFields, chan' = [chan EXCEPT ![x] = q], UNCHANGED chanLoops,
             FitsNote(notes, chanLoops, x, q)
      PROVE  NoteInv(notes)'
  BY <1>1, <1>3, OneNote, SameSlots
<1>4. ASSUME NEW q, DOMAIN q = NoteFields, WriteBack(x, q), UNCHANGED chanLoops,
             FitsNote(notes, chanLoops, x, q)
      PROVE  NoteInv(notes)'
  BY <1>1, <1>4, WriteBackFits
<1>5. ASSUME r.prio # 0
      PROVE  /\ r.off \in DOMAIN notes /\ Nested(notes[r.off])
             /\ \E s \in Stacks : /\ <<r.ptr, s, 0>> \in notes[r.off]
                                  /\ r.depth = Len(s) /\ Holds(chanLoops, x, s)
  BY <1>1, <1>5 DEF FitsNote
<1>6. ASSUME NEW q, r.prio # 0,
             cmd.op \notin {"setloop", "call", "loop", "ret", "note", "stop", "priority"},
             q.prio = r.prio, q.depth = r.depth, q.ptr = r.ptr + 1, q.off = r.off
      PROVE  FitsNote(notes, chanLoops, x, q)
  <2>1. PICK s \in Stacks : <<r.ptr, s, 0>> \in notes[r.off] /\ r.depth = Len(s) /\ Holds(chanLoops, x, s)
    BY <1>5, <1>6
  <2>2. <<r.ptr + 1, s, 0>> \in notes[r.off]
    BY <1>5, <1>6, <2>1, LeadsOn
  <2>3. q.depth \in 0 .. Depth
    BY <1>1, <1>6 DEF FitsNote
  <2> QED
    BY <1>5, <1>6, <2>1, <2>2, <2>3 DEF FitsNote
<1> DEFINE P == notes[r.off]
           p == r.ptr
<1>7. ASSUME NEW s, r.prio # 0, <<p, s, 0>> \in P
       PROVE  Proper(p, s, 0) /\ Leads(p, s, 0) \subseteq P /\ p \in Int /\ s \in Stacks
  <2>1. Nested(P)
    BY <1>5, <1>7
  <2> HIDE DEF P, p
  <2> QED
    BY <1>7, <2>1, LeadsOn
<1>8. ASSUME NEW s, NEW q, r.prio # 0, <<q, s, 0>> \in P PROVE s \in Stacks
  <2>1. Nested(P)
    BY <1>5, <1>8
  <2> HIDE DEF P, p
  <2> QED
    BY <1>8, <2>1, LeadsOn
<1>9. CASE UpdateFree
  BY <1>2, <1>9 DEF UpdateFree
<1>10. CASE UpdateWaits
  <2> DEFINE q == [r EXCEPT !.delay = @ - 1]
  <2>1. WriteBack(x, q) /\ UNCHANGED chanLoops
    BY <1>10 DEF UpdateWaits
  <2>2. DOMAIN q = NoteFields /\ q.prio = r.prio /\ q.depth = r.depth /\ q.ptr = r.ptr /\ q.off = r.off
    BY <1>1 DEF NoteFields
  <2> HIDE DEF q
  <2>3. FitsNote(notes, chanLoops, x, q)
    BY <1>1, <2>2, SameNote
  <2> QED
    BY <1>4, <2>1, <2>2, <2>3
<1>11. CASE UpdateWait
  <2> DEFINE q == [r EXCEPT !.delay = cmd.frames, !.ptr = @ + 1]
  <2>1. /\ WriteBack(x, q) \/ chan' = [chan EXCEPT ![x] = q]
        /\ UNCHANGED chanLoops /\ r.prio # 0 /\ cmd.op = "wait"
    BY <1>11 DEF UpdateWait, Due
  <2>2. DOMAIN q = NoteFields /\ q.prio = r.prio /\ q.depth = r.depth /\ q.ptr = r.ptr + 1 /\ q.off = r.off
    BY <1>1 DEF NoteFields
  <2> HIDE DEF q
  <2>3. FitsNote(notes, chanLoops, x, q)
    BY <1>6, <2>1, <2>2
  <2> QED
    BY <1>3, <1>4, <2>1, <2>2, <2>3
<1>12. CASE UpdateStop
  <2> DEFINE q == [r EXCEPT !.prio = 0]
  <2>1. chan' = [chan EXCEPT ![x] = q] /\ UNCHANGED chanLoops
    BY <1>1, <1>12 DEF UpdateStop, FreeChannel, Types
  <2>2. DOMAIN q = NoteFields /\ q.prio = 0 /\ q.depth = r.depth /\ q.ptr = r.ptr /\ q.off = r.off
    BY <1>1 DEF NoteFields
  <2> HIDE DEF q
  <2>3. FitsNote(notes, chanLoops, x, q)
    BY <1>1, <2>2, SameNote
  <2> QED
    BY <1>3, <2>1, <2>2, <2>3
<1>13. CASE UpdateSet
  <2> DEFINE q == [r EXCEPT !.force = TRUE, !.ptr = @ + 1]
  <2>1. /\ chan' = [chan EXCEPT ![x] = q] /\ UNCHANGED chanLoops /\ r.prio # 0
        /\ cmd.op \in {"sfb", "frequency"}
    BY <1>1, <1>13 DEF UpdateSet, Due, Types
  <2>2. DOMAIN q = NoteFields /\ q.prio = r.prio /\ q.depth = r.depth /\ q.ptr = r.ptr + 1 /\ q.off = r.off
    BY <1>1 DEF NoteFields
  <2> HIDE DEF q
  <2>3. FitsNote(notes, chanLoops, x, q)
    BY <1>6, <2>1, <2>2
  <2> QED
    BY <1>3, <2>1, <2>2, <2>3
<1>14. CASE UpdateSetLoop
  <2> DEFINE q == [r EXCEPT !.depth = @ + 1, !.ptr = @ + 1]
             k == Push(chanLoops, x, r, cmd.count)
  <2>1. /\ chan' = [chan EXCEPT ![x] = q] /\ chanLoops' = k /\ r.prio # 0
        /\ cmd.op = "setloop"
    BY <1>1, <1>14 DEF UpdateSetLoop, Due, Types
  <2>2. /\ DOMAIN q = NoteFields /\ q.prio = r.prio /\ q.depth = r.depth + 1
        /\ q.ptr = r.ptr + 1 /\ q.off = r.off
    BY <1>1 DEF NoteFields
  <2>3. PICK s \in Stacks : <<r.ptr, s, 0>> \in notes[r.off] /\ r.depth = Len(s) /\ Holds(chanLoops, x, s)
    BY <1>5, <2>1
  <2> DEFINE t == Append(s, Frame(r.ptr + 1, cmd.count))
  <2>4. r.ptr \in Int /\ cmd.count \in Int /\ <<r.ptr + 1, t, 0>> \in notes[r.off]
    <3>1. Proper(r.ptr, s, 0) /\ Leads(r.ptr, s, 0) \subseteq notes[r.off] /\ r.ptr \in Int
      BY <1>7, <2>1, <2>3
    <3>2. Leads(r.ptr, s, 0) = {<<r.ptr + 1, t, 0>>}
      BY <2>1 DEF Leads
    <3>3. cmd.count \in Int
      BY <2>1, <3>1 DEF Proper
    <3> QED
      BY <3>1, <3>2, <3>3
  <2> HIDE DEF q, k, cmd, t
  <2>5. t \in Stacks
    BY <1>8, <2>1, <2>4
  <2>6. Len(s) \in Nat /\ Len(s) < Depth
    <3>1. s \in Seq(Frames) /\ Len(s) \in Nat /\ Len(t) <= Depth
      BY <2>5, LenProperties DEF Stacks
    <3>2. Len(t) = Len(s) + 1
      BY <2>4, <3>1, AppendProperties DEF t, Frame, Frames, Kind
    <3> QED
      BY <3>1, <3>2, HandyMusicAssumption
  <2>7. Others(chanLoops, k, x) /\ Len(t) = Len(s) + 1 /\ Holds(k, x, t)
    BY <1>1, <2>3, <2>4, <2>6, PushHolds DEF k, t
  <2>8. q.depth = Len(t) /\ q.depth \in 0 .. Depth
    BY <2>2, <2>3, <2>6, <2>7, HandyMusicAssumption
  <2>9. FitsNote(notes, k, x, q)
    BY <1>5, <2>1, <2>2, <2>4, <2>5, <2>7, <2>8 DEF FitsNote
  <2> QED
    BY <1>1, <2>1, <2>2, <2>7, <2>9, OneNote
<1>15. CASE UpdateLoop
  <2> DEFINE q == LoopBack(chanLoops, x, r)
             k == LoopCount(chanLoops, x, r)
  <2>1. chan' = [chan EXCEPT ![x] = q] /\ chanLoops' = k /\ r.prio # 0 /\ cmd.op = "loop"
    BY <1>15 DEF UpdateLoop, Due
  <2>2. PICK s \in Stacks : <<r.ptr, s, 0>> \in notes[r.off] /\ r.depth = Len(s) /\ Holds(chanLoops, x, s)
    BY <1>5, <2>1
  <2>3. /\ s # <<>> /\ Top(s).kind # "call" /\ r.ptr \in Int
        /\ <<Top(s).addr, s, 0>> \in notes[r.off]
        /\ Top(s).kind = "counted" => <<r.ptr + 1, Outside(s, Len(s)), 0>> \in notes[r.off]
    <3>1. Proper(r.ptr, s, 0) /\ Leads(r.ptr, s, 0) \subseteq notes[r.off] /\ r.ptr \in Int
      BY <1>7, <2>1, <2>2
    <3>2. Leads(r.ptr, s, 0) =
            {<<Top(s).addr, s, 0>>} \cup
            (IF Top(s).kind = "counted" THEN {<<r.ptr + 1, Outside(s, Len(s)), 0>>} ELSE {})
      BY <2>1 DEF Leads
    <3> QED
      BY <2>1, <3>1, <3>2 DEF Proper
  <2>4. {"ptr", "depth"} \subseteq DOMAIN r
    BY <1>1 DEF NoteFields
  <2>5. /\ Others(chanLoops, k, x)
        /\ \/ /\ q = [r EXCEPT !.ptr = Top(s).addr]
              /\ Holds(k, x, s)
           \/ /\ q = [r EXCEPT !.ptr = @ + 1, !.depth = @ - 1]
              /\ Top(s).kind = "counted"
              /\ Holds(k, x, Outside(s, Len(s)))
    <3> HIDE DEF r, x
    <3> QED
      BY <1>1, <2>2, <2>3, <2>4, CountHolds
  <2> HIDE DEF q, k
  <2>6. Len(s) \in Nat \ {0} /\ Len(s) <= Depth
    BY <2>3, EmptySeq DEF Stacks
  <2>7. CASE q = [r EXCEPT !.ptr = Top(s).addr] /\ Holds(k, x, s)
    <3>1. /\ DOMAIN q = NoteFields /\ q.prio = r.prio /\ q.depth = r.depth /\ q.off = r.off
          /\ q.ptr = Top(s).addr
      BY <1>1, <2>7 DEF NoteFields
    <3>2. FitsNote(notes, k, x, q)
      BY <1>1, <1>5, <2>1, <2>2, <2>3, <2>7, <3>1 DEF FitsNote
    <3> QED
      BY <1>1, <2>1, <2>5, <3>1, <3>2, OneNote
  <2>8. CASE /\ q = [r EXCEPT !.ptr = @ + 1, !.depth = @ - 1]
             /\ Top(s).kind = "counted"
             /\ Holds(k, x, Outside(s, Len(s)))
    <3>1. /\ DOMAIN q = NoteFields /\ q.prio = r.prio /\ q.depth = r.depth - 1 /\ q.off = r.off
          /\ q.ptr = r.ptr + 1
      BY <1>1, <2>8 DEF NoteFields
    <3>2. Outside(s, Len(s)) \in Stacks /\ Len(Outside(s, Len(s))) = Len(s) - 1
      BY <2>2, <2>6, OutsideHolds
    <3>3. q.depth \in 0 .. Depth /\ q.depth = Len(s) - 1
      BY <2>2, <2>6, <3>1, HandyMusicAssumption
    <3>4. FitsNote(notes, k, x, q)
      BY <1>5, <2>1, <2>3, <2>8, <3>1, <3>2, <3>3 DEF FitsNote
    <3> QED
      BY <1>1, <2>1, <2>5, <3>1, <3>4, OneNote
  <2> QED
    BY <2>5, <2>7, <2>8
<1> QED
  BY <1>9, <1>10, <1>11, <1>12, <1>13, <1>14, <1>15 DEF UpdateChannel

\* A note and an effect start outside of all loops.
LEMMA BegunFits ==
    ASSUME NEW notes, NEW l, NEW c, NEW s, NEW prio, s.off \in DOMAIN notes, Begun(s) \in notes[s.off]
    PROVE  FitsNote(notes, l, c, Started(s, prio)) /\ DOMAIN Started(s, prio) = NoteFields
<1> DEFINE q == Started(s, prio)
<1>1. DOMAIN q = NoteFields /\ q.depth = 0 /\ q.ptr = s.start /\ q.off = s.off
  BY DEF Started, Free, NoteFields
<1> HIDE DEF q
<1>2. <<>> \in Stacks /\ Len(<<>>) = 0
  BY EmptySeq, HandyMusicAssumption DEF Stacks
<1>3. Holds(l, c, <<>>)
  BY <1>2 DEF Holds
<1>4. 0 \in 0 .. Depth
  BY HandyMusicAssumption
<1>5. FitsNote(notes, l, c, q)
  BY <1>1, <1>2, <1>3, <1>4 DEF FitsNote, Begun
<1> QED
  BY <1>1, <1>5 DEF q

\* One track goes on.
LEMMA OneTrack ==
    ASSUME NEW tracks, TrackInv(tracks), NEW x \in Channels, NEW q, DOMAIN q = TrackFields,
           track' = [track EXCEPT ![x] = q], Others(trackLoops, trackLoops', x),
           FitsTrack(tracks, trackLoops', x, q)
    PROVE  TrackInv(tracks)'
<1>1. DOMAIN track' = Channels /\ track'[x] = q /\ \A c \in Channels \ {x} : track'[c] = track[c]
  BY DEF TrackInv
<1>2. LoopTypes(trackLoops')
  BY DEF Others
<1>3. ASSUME NEW c \in Channels \ {x}
      PROVE  DOMAIN track'[c] = TrackFields /\ FitsTrack(tracks, trackLoops', c, track'[c])
  <2>1. /\ DOMAIN track[c] = TrackFields
        /\ \A s \in Stacks : Holds(trackLoops, c, s) => Holds(trackLoops', c, s)
    BY DEF TrackInv, Others
  <2>2. PICK s \in Stacks, i \in Int : /\ \E p \in Int : <<p, s, i>> \in tracks
                                       /\ track[c].prio # 0 => <<track[c].ptr, s, i>> \in tracks
                                       /\ i # 0 => track[c].instr = i
                                       /\ track[c].depth = Len(s) /\ Holds(trackLoops, c, s)
    BY DEF TrackInv, FitsTrack
  <2> QED
    BY <1>1, <2>1, <2>2 DEF FitsTrack
<1> QED
  BY <1>1, <1>2, <1>3 DEF TrackInv

\* A place depends on no other fields.
LEMMA SameTrack ==
    ASSUME NEW tracks, NEW l, NEW x, NEW r, NEW q, FitsTrack(tracks, l, x, r), q.prio \in {0, r.prio},
           q.depth = r.depth, q.ptr = r.ptr, q.instr = r.instr
    PROVE  FitsTrack(tracks, l, x, q)
BY DEF FitsTrack

\* A track is at a place.
LEMMA AtPlace ==
    ASSUME NEW tracks, NEW l, NEW x, NEW q, NEW p \in Int, NEW s \in Stacks, NEW i \in Int,
           <<p, s, i>> \in tracks, q.prio # 0 => q.ptr = p, i # 0 => q.instr = i,
           q.depth = Len(s), Holds(l, x, s)
    PROVE  FitsTrack(tracks, l, x, q)
BY DEF FitsTrack

\* Behind a command.
LEMMA LeavesFits ==
    ASSUME NEW tracks, TrackInv(tracks), In("command"), at.x \in Channels,
           NEW q, DOMAIN q = TrackFields, Leaves(q), Others(trackLoops, trackLoops', at.x),
           FitsTrack(tracks, trackLoops', at.x, q)
    PROVE  TrackInv(tracks)' /\ Active'
<1> DEFINE x == at.x
<1>1. track' = [track EXCEPT ![x] = q] /\ Goes(q)
  BY DEF Leaves
<1>2. TrackInv(tracks)'
  BY <1>1, OneTrack
<1>3. CASE NextTrack(x)
  <2>1. at'.part \in {"idle", "track"}
    BY <1>3 DEF NextTrack, Idle
  <2> QED
    BY <1>2, <2>1 DEF Active
<1>4. CASE UNCHANGED at /\ q.prio # 0
  BY <1>1, <1>2, <1>4 DEF Active, TrackInv
<1> QED
  BY <1>1, <1>3, <1>4 DEF Goes

\* A Pattern Break sends a track that is in a call behind the outermost one.
LEMMA BrokenFits ==
    ASSUME NEW tracks, Nested(tracks), NEW x, NEW q, DOMAIN q = TrackFields,
           q.depth = track[x].depth, FitsTrack(tracks, trackLoops, x, q)
    PROVE  /\ DOMAIN Broken(x, q) = TrackFields /\ Broken(x, q).prio = q.prio
           /\ FitsTrack(tracks, trackLoops, x, Broken(x, q))
<1>1. PICK s \in Stacks, i \in Int : /\ \E p \in Int : <<p, s, i>> \in tracks
                                     /\ i # 0 => q.instr = i
                                     /\ q.depth = Len(s) /\ Holds(trackLoops, x, s)
  BY DEF FitsTrack
<1>2. CASE Calls(x) = {}
  BY <1>2 DEF Broken
<1>3. CASE Calls(x) # {}
  <2> DEFINE d == Min(Calls(x))
             w == [q EXCEPT !.depth = d]
             a == trackLoops[SlotOf(x, d)].addr
             v == Returned(trackLoops, x, w)
             b == [v EXCEPT !.delay = 0]
  <2>1. d \in 1 .. Len(s) /\ Outermost(s, d) /\ trackLoops[SlotOf(x, d)].count = Called /\ a = s[d].addr
    BY <1>1, <1>3, BreakFinds
  <2>2. Len(s) \in Nat
    BY LenProperties DEF Stacks
  <2> HIDE DEF d
  <2>3. DOMAIN w = TrackFields /\ w.depth = d /\ w.prio = q.prio /\ w.instr = q.instr
    BY DEF TrackFields
  <2> HIDE DEF w
  <2>4. {"ptr", "depth"} \subseteq DOMAIN w /\ w.depth \in Int
    BY <2>1, <2>2, <2>3 DEF TrackFields
  <2>5. DOMAIN v = TrackFields /\ v.prio = q.prio /\ v.instr = q.instr /\ v.ptr = a /\ v.depth = d - 1
    <3>1. trackLoops[SlotOf(x, w.depth)].count = Called
      BY <2>1, <2>3
    <3>2. /\ DOMAIN v = DOMAIN w /\ \A f \in DOMAIN w \ {"ptr", "depth"} : v[f] = w[f]
          /\ v.ptr = trackLoops[SlotOf(x, w.depth)].addr /\ v.depth = w.depth - 1
      BY <2>4, <3>1, ReturnHolds
    <3> HIDE DEF v
    <3> QED
      BY <2>3, <3>2 DEF TrackFields
  <2> HIDE DEF v, a
  <2>6. DOMAIN b = TrackFields /\ b.prio = q.prio /\ b.instr = q.instr /\ b.ptr = a /\ b.depth = d - 1
    BY <2>5 DEF TrackFields
  <2>7. Broken(x, q) = b
    BY <1>3 DEF Broken, d, w, v
  <2> HIDE DEF b
  <2>8. /\ Outside(s, d) \in Stacks /\ Len(Outside(s, d)) = d - 1 /\ Holds(trackLoops, x, Outside(s, d))
    BY <1>1, <2>1, OutsideHolds
  <2>9. <<a, Outside(s, d), i>> \in tracks /\ a \in Int
    <3>1. Breaks(s, i) \subseteq tracks
      BY <1>1, LeadsOn
    <3>2. <<s[d].addr, Outside(s, d), i>> \in Breaks(s, i)
      BY <2>1 DEF Breaks
    <3>3. <<a, Outside(s, d), i>> \in tracks
      BY <2>1, <3>1, <3>2
    <3> QED
      BY <3>3, LeadsOn
  <2> QED
    BY <1>1, <2>6, <2>7, <2>8, <2>9 DEF FitsTrack
<1> QED
  BY <1>2, <1>3

\* The commands of a track keep to the places of the song.
LEMMA DecodeFitsTracks ==
    ASSUME NEW tracks, Nested(tracks), Types, TrackInv(tracks), Active, DecodeMusic
    PROVE  TrackInv(tracks)' /\ Active'
<1> DEFINE x == at.x
           r == track[x]
           cmd == Script[r.ptr]
<1>1. /\ x \in Channels /\ DOMAIN r = TrackFields /\ FitsTrack(tracks, trackLoops, x, r)
      /\ LoopTypes(trackLoops) /\ Others(trackLoops, trackLoops, x)
  BY SameSlots DEF Types, TrackInv
<1>2. ASSUME UNCHANGED <<track, trackLoops>> PROVE TrackInv(tracks)'
  BY <1>2 DEF TrackInv
<1>3. ASSUME In("command"), NEW q, DOMAIN q = TrackFields, Leaves(q), UNCHANGED trackLoops,
             FitsTrack(tracks, trackLoops, x, q)
      PROVE  TrackInv(tracks)' /\ Active'
  BY <1>1, <1>3, LeavesFits
<1>4. ASSUME In("command")
      PROVE  /\ r.prio # 0
             /\ \E s \in Stacks, i \in Int : /\ <<r.ptr, s, i>> \in tracks /\ (i # 0 => r.instr = i)
                                             /\ r.depth = Len(s) /\ Holds(trackLoops, x, s)
  BY <1>1, <1>4 DEF Active, In, FitsTrack
<1> DEFINE p == r.ptr
<1>5. ASSUME NEW s, NEW i, <<p, s, i>> \in tracks
      PROVE  Proper(p, s, i) /\ Leads(p, s, i) \subseteq tracks /\ p \in Int /\ s \in Stacks /\ i \in Int
  <2> HIDE DEF p
  <2> QED
    BY <1>5, LeadsOn
<1>6. ASSUME NEW q, In("command"),
             cmd.op \notin {"setloop", "call", "loop", "ret", "note", "stop", "priority"},
             q.depth = r.depth, q.ptr = r.ptr + 1, q.instr = r.instr
      PROVE  FitsTrack(tracks, trackLoops, x, q)
  <2>1. PICK s \in Stacks, i \in Int : /\ <<p, s, i>> \in tracks /\ (i # 0 => r.instr = i)
                                       /\ r.depth = Len(s) /\ Holds(trackLoops, x, s)
    BY <1>4, <1>6
  <2>2. <<p + 1, s, i>> \in tracks /\ p \in Int
    <3>1. Script[p].op \notin {"setloop", "call", "loop", "ret", "note", "stop", "priority"}
      BY <1>6
    <3> HIDE DEF p
    <3> QED
      BY <2>1, <3>1, LeadsOn
  <2> QED
    BY <1>6, <2>1, <2>2 DEF FitsTrack
<1>7. CASE TrackRests
  <2>1. Active'
    <3>1. at'.part \in {"idle", "track"}
      BY <1>7 DEF TrackRests, NextTrack, Idle
    <3> QED
      BY <3>1 DEF Active
  <2>2. UNCHANGED trackLoops
    BY <1>7 DEF TrackRests
  <2>3. CASE UNCHANGED track
    BY <1>2, <2>1, <2>2, <2>3
  <2>4. CASE ~UNCHANGED track
    <3> DEFINE q == [r EXCEPT !.delay = @ - 1]
    <3>1. track' = [track EXCEPT ![x] = q]
      BY <1>1, <1>7, <2>4 DEF TrackRests, TrackInv
    <3>2. DOMAIN q = TrackFields /\ q.prio = r.prio /\ q.depth = r.depth /\ q.ptr = r.ptr /\ q.instr = r.instr
      BY <1>1 DEF TrackFields
    <3> HIDE DEF q
    <3>3. FitsTrack(tracks, trackLoops, x, q)
      BY <1>1, <3>2, SameTrack
    <3> QED
      BY <1>1, <2>1, <2>2, <3>1, <3>2, <3>3, OneTrack
  <2> QED
    BY <2>3, <2>4
<1>8. CASE TrackDecodes
  <2> DEFINE q == [r EXCEPT !.delay = 0]
  <2>1. /\ track' = [track EXCEPT ![x] = q] /\ UNCHANGED trackLoops /\ r.prio # 0
        /\ at' = [at EXCEPT !.part = "command"]
    BY <1>1, <1>8 DEF TrackDecodes, TrackInv
  <2>2. DOMAIN q = TrackFields /\ q.prio = r.prio /\ q.depth = r.depth /\ q.ptr = r.ptr /\ q.instr = r.instr
    BY <1>1 DEF TrackFields
  <2> HIDE DEF q
  <2>3. FitsTrack(tracks, trackLoops, x, q)
    BY <1>1, <2>2, SameTrack
  <2>4. TrackInv(tracks)'
    BY <1>1, <2>1, <2>2, <2>3, OneTrack
  <2>5. at'.x = x /\ track'[x].prio # 0
    BY <1>1, <2>1, <2>2 DEF TrackInv, Types
  <2> QED
    BY <2>4, <2>5 DEF Active
<1>9. CASE SetPri
  <2> DEFINE q == [r EXCEPT !.prio = cmd.prio, !.ptr = @ + 1]
  <2>1. In("command") /\ cmd.op = "priority" /\ Leaves(q) /\ UNCHANGED trackLoops
    BY <1>9 DEF SetPri, Command, In
  <2>2. /\ DOMAIN q = TrackFields /\ q.prio = cmd.prio /\ q.depth = r.depth /\ q.ptr = p + 1
        /\ q.instr = r.instr
    BY <1>1 DEF TrackFields
  <2> HIDE DEF q
  <2>3. PICK s \in Stacks, i \in Int : /\ <<p, s, i>> \in tracks /\ (i # 0 => r.instr = i)
                                       /\ r.depth = Len(s) /\ Holds(trackLoops, x, s)
    BY <1>4, <2>1
  <2>4. p \in Int /\ (cmd.prio # 0 => <<p + 1, s, i>> \in tracks)
    <3>1. cmd.prio # 0 => Leads(p, s, i) = {<<p + 1, s, i>>}
      BY <2>1 DEF Leads
    <3> QED
      BY <1>5, <2>3, <3>1
  <2>5. FitsTrack(tracks, trackLoops, x, q)
    BY <2>2, <2>3, <2>4 DEF FitsTrack
  <2> QED
    BY <1>3, <2>1, <2>2, <2>5
<1>10. CASE NoteOn
  <2> DEFINE j == IF cmd.instr = 0 THEN r.instr ELSE cmd.instr
             q == [r EXCEPT !.delay = cmd.frames, !.ptr = @ + 1, !.instr = j]
  <2>1. In("command") /\ cmd.op = "note" /\ Leaves(q) /\ UNCHANGED trackLoops
    BY <1>10 DEF NoteOn, Command, In
  <2>2. /\ DOMAIN q = TrackFields /\ q.prio = r.prio /\ q.depth = r.depth /\ q.ptr = p + 1 /\ q.instr = j
    BY <1>1 DEF TrackFields
  <2> HIDE DEF q
  <2>3. PICK s \in Stacks, i \in Int : /\ <<p, s, i>> \in tracks /\ (i # 0 => r.instr = i)
                                       /\ r.depth = Len(s) /\ Holds(trackLoops, x, s)
    BY <1>4, <2>1
  <2>4. p \in Int /\ <<p + 1, s, Played(cmd, i)>> \in tracks /\ Played(cmd, i) \in Int
    <3>1. Leads(p, s, i) = {<<p + 1, s, Played(cmd, i)>>}
      BY <2>1 DEF Leads
    <3>2. p \in Int /\ <<p + 1, s, Played(cmd, i)>> \in tracks
      BY <1>5, <2>3, <3>1
    <3> HIDE DEF p, cmd
    <3> QED
      BY <3>2, LeadsOn
  <2>5. Played(cmd, i) # 0 => j = Played(cmd, i)
    BY <2>3 DEF Played
  <2>6. FitsTrack(tracks, trackLoops, x, q)
    <3> HIDE DEF j, cmd, x, r, p
    <3>1. p + 1 \in Int
      BY <2>4
    <3> QED
      BY <2>2, <2>3, <2>4, <2>5, <3>1, AtPlace
  <2> QED
    BY <1>3, <2>1, <2>2, <2>6
<1>11. CASE NoteOff \/ Wait
  <2> DEFINE q == [r EXCEPT !.delay = cmd.frames, !.ptr = @ + 1]
  <2>1. In("command") /\ cmd.op \in {"noteoff", "wait"} /\ Leaves(q) /\ UNCHANGED trackLoops
    BY <1>11 DEF NoteOff, Wait, Command, In
  <2>2. /\ DOMAIN q = TrackFields /\ q.depth = r.depth /\ q.ptr = r.ptr + 1 /\ q.instr = r.instr
    BY <1>1 DEF TrackFields
  <2> HIDE DEF q
  <2>3. FitsTrack(tracks, trackLoops, x, q)
    BY <1>6, <2>1, <2>2
  <2> QED
    BY <1>3, <2>1, <2>2, <2>3
<1>12. ASSUME NEW count \in Int, NEW q, In("command"), NEW to \in Int, Leaves(q), DOMAIN q = TrackFields,
              trackLoops' = Push(trackLoops, x, r, count),
              q.depth = r.depth + 1, q.ptr = to, q.instr = r.instr,
              \A s, i : <<p, s, i>> \in tracks => <<to, Append(s, Frame(p + 1, count)), i>> \in tracks
       PROVE  TrackInv(tracks)' /\ Active'
  <2>1. PICK s \in Stacks, i \in Int : /\ <<p, s, i>> \in tracks /\ (i # 0 => r.instr = i)
                                       /\ r.depth = Len(s) /\ Holds(trackLoops, x, s)
    BY <1>4, <1>12
  <2> DEFINE t == Append(s, Frame(p + 1, count))
  <2>2. <<to, t, i>> \in tracks /\ p \in Int
    BY <1>5, <1>12, <2>1
  <2>3. t \in Stacks
    <3> HIDE DEF t
    <3> QED
      BY <2>2, LeadsOn
  <2>4. Len(s) \in Nat /\ Len(s) < Depth
    <3>1. s \in Seq(Frames) /\ Len(s) \in Nat /\ Len(t) <= Depth
      BY <2>3, LenProperties DEF Stacks
    <3>2. Frame(p + 1, count) \in Frames
      BY <2>2 DEF Frame, Frames, Kind
    <3>3. Len(t) = Len(s) + 1
      BY <3>1, <3>2, AppendProperties
    <3> QED
      BY <3>1, <3>3, HandyMusicAssumption
  <2>5. Others(trackLoops, trackLoops', x) /\ Len(t) = Len(s) + 1 /\ Holds(trackLoops', x, t)
    <3> HIDE DEF x, r
    <3> QED
      BY <1>1, <1>12, <2>1, <2>2, <2>4, PushHolds DEF p
  <2> HIDE DEF t
  <2>6. FitsTrack(tracks, trackLoops', x, q)
    BY <1>12, <2>1, <2>2, <2>3, <2>5 DEF FitsTrack
  <2> QED
    BY <1>1, <1>12, <2>5, <2>6, LeavesFits
<1>13. CASE SetLoop
  <2> DEFINE q == [r EXCEPT !.depth = @ + 1, !.ptr = @ + 1]
  <2>1. /\ In("command") /\ cmd.op = "setloop" /\ Leaves(q)
        /\ trackLoops' = Push(trackLoops, x, r, cmd.count)
    BY <1>13 DEF SetLoop, Command, In
  <2>2. /\ DOMAIN q = TrackFields /\ q.depth = r.depth + 1 /\ q.ptr = p + 1 /\ q.instr = r.instr
    BY <1>1 DEF TrackFields
  <2> HIDE DEF q
  <2>3. p \in Int /\ cmd.count \in Int
    <3>1. PICK s, i : <<p, s, i>> \in tracks
      BY <1>4, <2>1
    <3> QED
      BY <1>5, <2>1, <3>1 DEF Proper
  <2>4. \A s, i : <<p, s, i>> \in tracks => <<p + 1, Append(s, Frame(p + 1, cmd.count)), i>> \in tracks
    <3>1. \A s, i : Leads(p, s, i) = {<<p + 1, Append(s, Frame(p + 1, cmd.count)), i>>}
      BY <2>1 DEF Leads
    <3> QED
      BY <1>5, <3>1
  <2> QED
    BY <1>12, <2>1, <2>2, <2>3, <2>4
<1>14. CASE Call
  <2> DEFINE q == [r EXCEPT !.depth = @ + 1, !.ptr = cmd.to]
  <2>1. /\ In("command") /\ cmd.op = "call" /\ Leaves(q)
        /\ trackLoops' = Push(trackLoops, x, r, Called)
    BY <1>14 DEF Call, Command, In
  <2>2. /\ DOMAIN q = TrackFields /\ q.depth = r.depth + 1 /\ q.ptr = cmd.to /\ q.instr = r.instr
    BY <1>1 DEF TrackFields
  <2> HIDE DEF q
  <2>3. \A s, i : <<p, s, i>> \in tracks => <<cmd.to, Append(s, Frame(p + 1, Called)), i>> \in tracks
    <3>1. \A s, i : Leads(p, s, i) = {<<cmd.to, Append(s, Frame(p + 1, Called)), i>>}
      BY <2>1 DEF Leads
    <3> QED
      BY <1>5, <3>1
  <2>4. cmd.to \in Int /\ Called \in Int
    <3>1. PICK s, i : <<p, s, i>> \in tracks
      BY <1>4, <2>1
    <3>2. <<cmd.to, Append(s, Frame(p + 1, Called)), i>> \in tracks
      BY <2>3, <3>1
    <3> PICK c, t : c = cmd.to /\ t = Append(s, Frame(p + 1, Called))
      OBVIOUS
    <3>3. c \in Int
      <4>1. <<c, t, i>> \in tracks
        BY <3>2
      <4> QED
        BY ONLY <4>1, Nested(tracks), LeadsOn
    <3> QED
      BY <3>3 DEF Called
  <2> QED
    BY <1>12, <2>1, <2>2, <2>3, <2>4
<1>15. CASE Loop
  <2> DEFINE q == LoopBack(trackLoops, x, r)
             k == LoopCount(trackLoops, x, r)
  <2>1. In("command") /\ cmd.op = "loop" /\ Leaves(q) /\ trackLoops' = k
    BY <1>15 DEF Loop, Command, In
  <2>2. PICK s \in Stacks, i \in Int : /\ <<p, s, i>> \in tracks /\ (i # 0 => r.instr = i)
                                       /\ r.depth = Len(s) /\ Holds(trackLoops, x, s)
    BY <1>4, <2>1
  <2>3. /\ s # <<>> /\ Top(s).kind # "call" /\ p \in Int
        /\ <<Top(s).addr, s, i>> \in tracks
        /\ Top(s).kind = "counted" => <<p + 1, Outside(s, Len(s)), i>> \in tracks
    <3>1. Proper(p, s, i) /\ Leads(p, s, i) \subseteq tracks /\ p \in Int
      BY <1>5, <2>2
    <3>2. Leads(p, s, i) = {<<Top(s).addr, s, i>>} \cup
                           (IF Top(s).kind = "counted" THEN {<<p + 1, Outside(s, Len(s)), i>>} ELSE {})
      BY <2>1 DEF Leads
    <3> QED
      BY <2>1, <3>1, <3>2 DEF Proper
  <2>4. {"ptr", "depth"} \subseteq DOMAIN r
    BY <1>1 DEF TrackFields
  <2>5. /\ Others(trackLoops, k, x)
        /\ \/ /\ q = [r EXCEPT !.ptr = Top(s).addr]
              /\ Holds(k, x, s)
           \/ /\ q = [r EXCEPT !.ptr = @ + 1, !.depth = @ - 1]
              /\ Top(s).kind = "counted"
              /\ Holds(k, x, Outside(s, Len(s)))
    <3> HIDE DEF r, x
    <3> QED
      BY <1>1, <2>2, <2>3, <2>4, CountHolds
  <2> HIDE DEF q, k
  <2>6. Len(s) \in Nat \ {0}
    BY <2>3, EmptySeq DEF Stacks
  <2>7. Top(s).addr \in Int
    BY <2>3, LeadsOn
  <2>8. CASE q = [r EXCEPT !.ptr = Top(s).addr] /\ Holds(k, x, s)
    <3>1. /\ DOMAIN q = TrackFields /\ q.prio = r.prio /\ q.depth = r.depth /\ q.instr = r.instr
          /\ q.ptr = Top(s).addr
      BY <1>1, <2>8 DEF TrackFields
    <3>2. FitsTrack(tracks, k, x, q)
      BY <2>2, <2>3, <2>7, <2>8, <3>1 DEF FitsTrack
    <3> QED
      BY <1>1, <2>1, <2>5, <3>1, <3>2, LeavesFits
  <2>9. CASE /\ q = [r EXCEPT !.ptr = @ + 1, !.depth = @ - 1]
             /\ Top(s).kind = "counted"
             /\ Holds(k, x, Outside(s, Len(s)))
    <3>1. /\ DOMAIN q = TrackFields /\ q.prio = r.prio /\ q.depth = r.depth - 1 /\ q.instr = r.instr
          /\ q.ptr = p + 1
      BY <1>1, <2>9 DEF TrackFields
    <3>2. Outside(s, Len(s)) \in Stacks /\ Len(Outside(s, Len(s))) = Len(s) - 1
      BY <2>2, <2>6, OutsideHolds
    <3>3. FitsTrack(tracks, k, x, q)
      <4> HIDE DEF x, r, p
      <4>1. p + 1 \in Int
        BY <2>3
      <4> QED
        BY <2>2, <2>3, <2>9, <3>1, <3>2, <4>1, AtPlace
    <3> QED
      BY <1>1, <2>1, <2>5, <3>1, <3>3, LeavesFits
  <2> QED
    BY <2>5, <2>8, <2>9
<1>16. CASE Ret
  <2> DEFINE q == Returned(trackLoops, x, r)
  <2>1. /\ In("command") /\ cmd.op = "ret" /\ Leaves(q)
        /\ trackLoops' = LoopCount(trackLoops, x, r)
    BY <1>16 DEF Ret, Command, In
  <2>2. PICK s \in Stacks, i \in Int : /\ <<p, s, i>> \in tracks /\ (i # 0 => r.instr = i)
                                       /\ r.depth = Len(s) /\ Holds(trackLoops, x, s)
    BY <1>4, <2>1
  <2>3. /\ s # <<>> /\ Top(s).kind = "call"
        /\ <<Top(s).addr, Outside(s, Len(s)), i>> \in tracks
    <3>1. Proper(p, s, i) /\ Leads(p, s, i) \subseteq tracks
      BY <1>5, <2>2
    <3>2. Leads(p, s, i) = {<<Top(s).addr, Outside(s, Len(s)), i>>}
      BY <2>1 DEF Leads
    <3> QED
      BY <2>1, <3>1, <3>2 DEF Proper
  <2>4. Len(s) \in Nat \ {0} /\ Len(s) \in 1 .. Len(s)
    <3>1. Len(s) \in Nat \ {0}
      BY <2>3, EmptySeq DEF Stacks
    <3> QED
      BY <3>1
  <2>5. trackLoops[SlotOf(x, r.depth)].count = Called /\ trackLoops[SlotOf(x, r.depth)].addr = Top(s).addr
    BY <2>2, <2>3, <2>4 DEF Holds, Top, Kind
  <2>6. {"ptr", "depth"} \subseteq DOMAIN r /\ r.depth \in Int
    BY <1>1, <2>2, <2>4 DEF TrackFields
  <2>7. /\ DOMAIN q = TrackFields /\ q.prio = r.prio /\ q.depth = r.depth - 1 /\ q.instr = r.instr
        /\ q.ptr = Top(s).addr /\ UNCHANGED trackLoops
    <3>1. /\ LoopCount(trackLoops, x, r) = trackLoops
          /\ DOMAIN q = DOMAIN r /\ \A f \in DOMAIN r \ {"ptr", "depth"} : q[f] = r[f]
          /\ q.ptr = trackLoops[SlotOf(x, r.depth)].addr /\ q.depth = r.depth - 1
      <4> HIDE DEF r, x
      <4> QED
        BY <2>5, <2>6, ReturnHolds
    <3> HIDE DEF q
    <3> QED
      BY <1>1, <2>1, <2>5, <3>1 DEF TrackFields
  <2> HIDE DEF q
  <2>8. /\ Outside(s, Len(s)) \in Stacks /\ Len(Outside(s, Len(s))) = Len(s) - 1
        /\ Holds(trackLoops, x, Outside(s, Len(s)))
    BY <2>2, <2>4, OutsideHolds
  <2>9. Top(s).addr \in Int
    BY <2>3, LeadsOn
  <2>10. FitsTrack(tracks, trackLoops, x, q)
    BY <2>2, <2>3, <2>7, <2>8, <2>9 DEF FitsTrack
  <2> QED
    BY <1>3, <2>1, <2>7, <2>10
<1>17. CASE Break
  <2>1. /\ In("command") /\ cmd.op = "break" /\ UNCHANGED <<at, trackLoops>>
        /\ track' = [c \in Channels |->
                        Broken(c, IF c = x THEN [track[c] EXCEPT !.ptr = @ + 1] ELSE track[c])]
    BY <1>17 DEF Break, Command, In
  <2>2. ASSUME NEW c \in Channels
        PROVE  /\ DOMAIN track'[c] = TrackFields /\ track'[c].prio = track[c].prio
               /\ FitsTrack(tracks, trackLoops, c, track'[c])
    <3> DEFINE q == IF c = x THEN [track[c] EXCEPT !.ptr = @ + 1] ELSE track[c]
    <3>1. /\ DOMAIN q = TrackFields /\ q.prio = track[c].prio /\ q.depth = track[c].depth
          /\ q.instr = track[c].instr /\ (c = x => q.ptr = r.ptr + 1)
      BY DEF TrackInv, TrackFields
    <3>2. track'[c] = Broken(c, q)
      BY <2>1
    <3>3. c # x => q = track[c]
      OBVIOUS
    <3> HIDE DEF q
    <3>4. FitsTrack(tracks, trackLoops, c, q)
      <4>1. CASE c = x
        BY <1>6, <2>1, <3>1, <4>1
      <4>2. CASE c # x
        BY <3>3, <4>2 DEF TrackInv
      <4> QED
        BY <4>1, <4>2
    <3> QED
      BY <3>1, <3>2, <3>4, BrokenFits
  <2>3. TrackInv(tracks)'
    BY <1>1, <2>1, <2>2 DEF TrackInv
  <2>4. Active'
    BY <1>1, <1>4, <2>1, <2>2 DEF Active
  <2> QED
    BY <2>3, <2>4
<1>18. CASE Sampl
  <2> DEFINE q == [r EXCEPT !.ptr = @ + 1]
  <2>1. /\ In("command") /\ cmd.op = "sample" /\ UNCHANGED trackLoops
        /\ track' = [track EXCEPT ![x] = q]
        /\ at' = at \/ at' = [at EXCEPT !.part = "length", !.n = slot[cmd.num].hi]
    BY <1>1, <1>18 DEF Sampl, Command, In, TrackInv
  <2>2. /\ DOMAIN q = TrackFields /\ q.depth = r.depth /\ q.ptr = r.ptr + 1 /\ q.instr = r.instr
        /\ q.prio = r.prio
    BY <1>1 DEF TrackFields
  <2> HIDE DEF q
  <2>3. FitsTrack(tracks, trackLoops, x, q)
    BY <1>6, <2>1, <2>2
  <2>4. TrackInv(tracks)'
    BY <1>1, <2>1, <2>2, <2>3, OneTrack
  <2>5. at'.x = x
    BY <2>1 DEF Types
  <2>6. track'[x].prio # 0
    BY <1>1, <1>4, <2>1, <2>2 DEF TrackInv
  <2> QED
    BY <2>4, <2>5, <2>6 DEF Active
<1>19. CASE SamplHi \/ SamplPlay
  <2>1. /\ UNCHANGED <<track, trackLoops>> /\ at.part \in {"length", "pcm"}
        /\ at' = [at EXCEPT !.part = "pcm"] \/ at' = [at EXCEPT !.part = "command", !.n = 0]
    BY <1>19 DEF SamplHi, SamplPlay, In
  <2>2. at'.x = x
    BY <2>1 DEF Types
  <2> QED
    BY <1>2, <2>1, <2>2 DEF Active
<1> QED
  BY <1>7, <1>8, <1>9, <1>10, <1>11, <1>13, <1>14, <1>15, <1>16, <1>17, <1>18, <1>19 DEF DecodeMusic

\* Nothing happens to a channel.
LEMMA NotesStay ==
    ASSUME NEW notes, NoteInv(notes), DOMAIN chan' = Channels, UNCHANGED chanLoops,
           \A c \in Channels : chan'[c] = chan[c]
    PROVE  NoteInv(notes)'
BY DEF NoteInv

\* Nothing happens to a track.
LEMMA TracksStay ==
    ASSUME NEW tracks, TrackInv(tracks), DOMAIN track' = Channels, UNCHANGED trackLoops,
           \A c \in Channels : track'[c] = track[c]
    PROVE  TrackInv(tracks)'
BY DEF TrackInv

\* What the tracks do to the channels: a note starts its instrument, or is
\* sent to the note-off section of whatever script sounds there.
LEMMA DecodeFitsNotes ==
    ASSUME NEW notes, NEW tracks, WellNested(notes, tracks), Types, NoteInv(notes), TrackInv(tracks),
           Active, DecodeMusic
    PROVE  NoteInv(notes)'
<1> DEFINE x == at.x
           r == track[x]
           cmd == Script[r.ptr]
<1>1. /\ x \in Channels /\ DOMAIN chan[x] = NoteFields /\ FitsNote(notes, chanLoops, x, chan[x])
      /\ Others(chanLoops, chanLoops, x) /\ UNCHANGED chanLoops
  <2>1. UNCHANGED chanLoops
    BY DEF DecodeMusic, TrackRests, TrackDecodes, SetPri, NoteOn, NoteOff, Wait, SetLoop, Loop,
           Call, Ret, Break, Sampl, SamplHi, SamplPlay, decoded
  <2> QED
    BY <2>1, SameSlots DEF Types, NoteInv
<1>2. CASE UNCHANGED chan
  BY <1>1, <1>2 DEF NoteInv
<1>3. CASE NoteOn
  <2> DEFINE j == IF cmd.instr = 0 THEN r.instr ELSE cmd.instr
  <2>1. CASE ~UNCHANGED chan
    <3>1. Begin(x, Instruments[j], r.prio, TRUE) /\ In("command") /\ cmd.op = "note"
      BY <1>3, <2>1 DEF NoteOn, BeginNote, Command, In
    <3>2. r.prio # 0
      BY <3>1 DEF Active, In
    <3>3. PICK s \in Stacks, i \in Int : <<r.ptr, s, i>> \in tracks /\ (i # 0 => r.instr = i)
      BY <1>1, <3>2 DEF TrackInv, FitsTrack
    <3>4. Proper(r.ptr, s, i)
      <4> DEFINE p == r.ptr
      <4>1. <<p, s, i>> \in tracks /\ Nested(tracks)
        BY <3>3 DEF WellNested, Entered
      <4> HIDE DEF p
      <4>2. Proper(p, s, i)
        BY <4>1, LeadsOn
      <4> QED
        BY <4>2 DEF p
    <3>5. j \in DOMAIN Instruments
      BY <3>1, <3>3, <3>4 DEF Proper, Played
    <3> DEFINE sc == Instruments[j]
               q == Started(sc, r.prio)
    <3>6. sc.off \in DOMAIN notes /\ Begun(sc) \in notes[sc.off]
      BY <3>5 DEF WellNested, Entered
    <3>7. chan' = [chan EXCEPT ![x] = q]
      BY <3>1 DEF Begin
    <3>8. FitsNote(notes, chanLoops', x, q) /\ DOMAIN q = NoteFields
      <4> HIDE DEF sc, r, x
      <4> QED
        BY <3>6, BegunFits
    <3> HIDE DEF q, x
    <3> QED
      BY <1>1, <3>7, <3>8, OneNote
  <2> QED
    BY <1>2, <2>1
<1>4. CASE NoteOff
  <2> DEFINE o == chan[x]
             q == [o EXCEPT !.ptr = o.off, !.delay = 0]
  <2>1. UNCHANGED chan \/ chan' = [chan EXCEPT ![x] = q]
    BY <1>1, <1>4 DEF NoteOff, NoteInv
  <2>2. DOMAIN q = NoteFields /\ q.prio = o.prio /\ q.depth = o.depth /\ q.off = o.off /\ q.ptr = o.off
    BY <1>1 DEF NoteFields
  <2> HIDE DEF q
  <2>3. FitsNote(notes, chanLoops, x, q)
    <3>1. CASE o.prio = 0
      BY <1>1, <2>2, <3>1 DEF FitsNote
    <3>2. CASE o.prio # 0
      <4>1. PICK s \in Stacks : /\ o.off \in DOMAIN notes /\ <<o.ptr, s, 0>> \in notes[o.off]
                                /\ o.depth = Len(s) /\ Holds(chanLoops, x, s)
        BY <1>1, <3>2 DEF FitsNote
      <4>2. <<o.off, s, 0>> \in notes[o.off]
        <5> DEFINE off == o.off
                   w == <<o.ptr, s, 0>>
        <5>1. w[2] = s /\ w \in notes[off] /\ off \in DOMAIN notes
          BY <4>1
        <5> HIDE DEF off, w
        <5>2. <<off, s, 0>> \in notes[off]
          BY <5>1 DEF WellNested, Entered
        <5> QED
          BY <5>2 DEF off
      <4> QED
        BY <1>1, <2>2, <4>1, <4>2 DEF FitsNote
    <3> QED
      BY <3>1, <3>2
  <2> QED
    BY <1>1, <1>2, <2>1, <2>2, <2>3, OneNote
<1>5. CASE ~NoteOn /\ ~NoteOff
  <2>1. UNCHANGED chan
    BY <1>5 DEF DecodeMusic, TrackRests, TrackDecodes, SetPri, Wait, SetLoop, Loop, Call, Ret, Break,
                Sampl, SamplHi, SamplPlay
  <2> QED
    BY <1>2, <2>1
<1> QED
  BY <1>3, <1>4, <1>5

\* A channel is freed.
LEMMA FreeFits ==
    ASSUME NEW notes, NoteInv(notes), NEW c, FreeChannel(c), UNCHANGED chanLoops
    PROVE  NoteInv(notes)'
<1>1. chan' = [chan EXCEPT ![c].prio = 0]
  BY DEF FreeChannel
<1>2. CASE c \notin Channels
  <2>1. DOMAIN chan' = Channels /\ \A d \in Channels : chan'[d] = chan[d]
    BY <1>1, <1>2 DEF NoteInv
  <2> QED
    BY <2>1, NotesStay
<1>3. CASE c \in Channels
  <2> DEFINE q == [chan[c] EXCEPT !.prio = 0]
  <2>1. chan' = [chan EXCEPT ![c] = q]
    BY <1>1, <1>3 DEF NoteInv
  <2>2. DOMAIN chan[c] = NoteFields /\ FitsNote(notes, chanLoops, c, chan[c]) /\ LoopTypes(chanLoops)
    BY <1>3 DEF NoteInv
  <2>3. /\ DOMAIN q = NoteFields /\ q.prio = 0 /\ q.depth = chan[c].depth /\ q.ptr = chan[c].ptr
        /\ q.off = chan[c].off
    BY <2>2 DEF NoteFields
  <2> HIDE DEF q
  <2>4. FitsNote(notes, chanLoops, c, q)
    BY <2>2, <2>3, SameNote
  <2> QED
    BY <1>3, <2>1, <2>2, <2>3, <2>4, OneNote, SameSlots
<1> QED
  BY <1>2, <1>3

\* An effect.
LEMMA EnqueueFits ==
    ASSUME NEW notes, NEW tracks, WellNested(notes, tracks), NoteInv(notes), Requests, EnqueueSFX
    PROVE  NoteInv(notes)'
<1>1. UNCHANGED chanLoops
  BY DEF EnqueueSFX
<1>2. CASE UNCHANGED chan
  BY <1>1, <1>2 DEF NoteInv
<1>3. CASE ~UNCHANGED chan
  <2> DEFINE e == Effects[next]
             q == Started(e, e.prio)
  <2>1. PICK c : request /\ Begin(c, e, e.prio, FALSE)
    BY <1>3 DEF EnqueueSFX
  <2>2. e.off \in DOMAIN notes /\ Begun(e) \in notes[e.off]
    BY <2>1 DEF Requests, WellNested, Entered
  <2>3. chan' = [chan EXCEPT ![c] = q]
    BY <2>1 DEF Begin
  <2>4. FitsNote(notes, chanLoops', c, q) /\ DOMAIN q = NoteFields
    <3> HIDE DEF e
    <3> QED
      BY <2>2, BegunFits
  <2> HIDE DEF q, e
  <2>5. CASE c \in Channels
    BY <1>1, <2>3, <2>4, <2>5, OneNote, SameSlots DEF NoteInv
  <2>6. CASE c \notin Channels
    <3>1. DOMAIN chan' = Channels /\ \A d \in Channels : chan'[d] = chan[d]
      BY <2>3, <2>6 DEF NoteInv
    <3> QED
      BY <1>1, <3>1, NotesStay
  <2> QED
    BY <2>5, <2>6
<1> QED
  BY <1>2, <1>3

-----------------------------------------------------------------------------
(* The program.                                                            *)

\* A request is only left for an effect there is.
LEMMA RequestsKept ==
    ASSUME DOMAIN call = {"part", "x", "n"}, Requests, Program
    PROVE  Requests'
<1>1. ASSUME NEW part, NEW x, NEW n, Begins(part, x, n) PROVE call'.part = part /\ call'.n = n
  BY <1>1 DEF Begins
<1>2. ASSUME NEW part, Then(part) PROVE call'.part = part /\ call'.n = call.n
  BY <1>2 DEF Then
<1>3. Idle.part = "idle"
  BY DEF Idle
<1>4. ASSUME request' => request, UNCHANGED next, call'.part \notin {"request", "compare", "store"}
      PROVE  Requests'
  BY <1>4 DEF Requests
<1>5. CASE PlaySFX
  <2>1. UNCHANGED <<request, next>>
    BY <1>5 DEF PlaySFX, sfx
  <2>2. CASE \E n \in DOMAIN Effects : Begins(IF request THEN "compare" ELSE "store", 0, n)
    <3>1. PICK n \in DOMAIN Effects : Begins(IF request THEN "compare" ELSE "store", 0, n)
      BY <2>2
    <3>2. call'.part \in {"compare", "store"} /\ call'.n = n
      BY <1>1, <3>1
    <3> QED
      BY <2>1, <3>1, <3>2 DEF Requests
  <2>3. CASE Runs("compare") /\ (call' = Idle \/ Then("store"))
    <3>1. CASE call' = Idle
      BY <1>3, <1>4, <2>1, <3>1
    <3>2. CASE Then("store")
      BY <1>2, <2>1, <2>3, <3>2 DEF Requests, Runs
    <3> QED
      BY <2>3, <3>1, <3>2
  <2> QED
    BY <1>5, <2>2, <2>3 DEF PlaySFX
<1>6. CASE StoreNext
  BY <1>2, <1>6 DEF StoreNext, Runs, Requests
<1>7. CASE StoreRequest
  BY <1>3, <1>7 DEF StoreRequest, Runs, Requests
<1>8. ASSUME NEW last, Downwards(last) PROVE call' = last \/ call'.part = call.part
  BY <1>8 DEF Downwards
<1>9. TracksDone.part \in {"idle", "channels"}
  BY DEF TracksDone, Idle
<1>10. CASE StopSoundEffect
  <2>1. UNCHANGED <<request, next>> /\ call'.part \notin {"request", "compare", "store"}
    BY <1>1, <1>3, <1>8, <1>10 DEF StopSoundEffect, Runs, sfx
  <2> QED
    BY <1>4, <2>1
<1>11. CASE StopMusic
  <2>1. UNCHANGED <<request, next>> /\ call'.part \notin {"request", "compare", "store"}
    BY <1>1, <1>11 DEF StopMusic, sfx
  <2> QED
    BY <1>4, <2>1
<1>12. CASE StopTrack
  <2>1. UNCHANGED <<request, next>> /\ call'.part \notin {"request", "compare", "store"}
    BY <1>8, <1>9, <1>12 DEF StopTrack, Runs, sfx, tracksOnly
  <2> QED
    BY <1>4, <2>1
<1>13. CASE StopChannel
  <2>1. request' = FALSE /\ UNCHANGED next /\ call'.part \notin {"request", "compare", "store"}
    BY <1>3, <1>8, <1>13 DEF StopChannel, Runs
  <2> QED
    BY <1>4, <2>1
<1>14. CASE PlayMusic
  <2>1. UNCHANGED <<request, next>>
    BY <1>14 DEF PlayMusic, sfx
  <2>2. Begins("play_music", 0, 0) \/ call' = Idle
    BY <1>14 DEF PlayMusic
  <2>3. call'.part \notin {"request", "compare", "store"}
    BY <1>1, <1>3, <2>2
  <2> QED
    BY <1>4, <2>1, <2>3
<1>15. CASE Pause \/ UnPause
  <2>1. (request' => request) /\ UNCHANGED next /\ call'.part \notin {"request", "compare", "store"}
    BY <1>1, <1>15 DEF Pause, UnPause, sfx
  <2> QED
    BY <1>4, <2>1
<1>16. CASE Samples
  <2>1. UNCHANGED <<request, next>>
    BY <1>16 DEF Samples, sfx
  <2>2. call'.part \notin {"request", "compare", "store"}
    BY <1>1, <1>2, <1>3, <1>16 DEF Samples, PlayPcm, RegisterPcm, Mute
  <2> QED
    BY <1>4, <2>1, <2>2
<1> QED
  BY <1>5, <1>6, <1>7, <1>10, <1>11, <1>12, <1>13, <1>14, <1>15, <1>16 DEF Program

\* The calls start the song's tracks, end tracks and free channels.
LEMMA ProgramFits ==
    ASSUME NEW notes, NEW tracks, WellNested(notes, tracks), NoteInv(notes), TrackInv(tracks), Program
    PROVE  NoteInv(notes)' /\ TrackInv(tracks)' /\ Active'
<1>1. UNCHANGED <<at, chanLoops, trackLoops>> /\ at.part = "idle"
  BY DEF Program, PlaySFX, StoreNext, StoreRequest, StopSoundEffect, StopMusic, StopTrack, StopChannel,
         PlayMusic, Pause, UnPause, Samples, PlayPcm, RegisterPcm, Mute, Begins, Runs, In, tracksOnly, scripts
<1>2. Active'
  BY <1>1 DEF Active
<1>3. NoteInv(notes)'
  <2>1. UNCHANGED chan \/ \E c : FreeChannel(c)
    BY DEF Program, PlaySFX, StoreNext, StoreRequest, StopSoundEffect, StopMusic, StopTrack, StopChannel,
           PlayMusic, Pause, UnPause, Samples, scripts
  <2>2. CASE UNCHANGED chan
    BY <1>1, <2>2 DEF NoteInv
  <2>3. CASE \E c : FreeChannel(c)
    BY <1>1, <2>3, FreeFits
  <2> QED
    BY <2>1, <2>2, <2>3
<1>4. TrackInv(tracks)'
  <2>1. CASE UNCHANGED track
    BY <1>1, <2>1 DEF TrackInv
  <2>2. CASE StopTrack
    <3> DEFINE x == call.x
               q == [track[x] EXCEPT !.prio = 0]
    <3>1. CASE x \notin Channels
      <4>1. DOMAIN track' = Channels /\ \A c \in Channels : track'[c] = track[c]
        BY <2>2, <3>1 DEF StopTrack, TrackInv
      <4> QED
        BY <1>1, <4>1, TracksStay
    <3>2. CASE x \in Channels
      <4>1. track' = [track EXCEPT ![x] = q]
        BY <2>2, <3>2 DEF StopTrack, TrackInv
      <4>2. /\ DOMAIN track[x] = TrackFields /\ FitsTrack(tracks, trackLoops, x, track[x])
            /\ LoopTypes(trackLoops)
        BY <3>2 DEF TrackInv
      <4>3. /\ DOMAIN q = TrackFields /\ q.prio = 0 /\ q.depth = track[x].depth /\ q.ptr = track[x].ptr
            /\ q.instr = track[x].instr
        BY <4>2 DEF TrackFields
      <4> HIDE DEF q
      <4>4. FitsTrack(tracks, trackLoops, x, q)
        BY <4>2, <4>3, SameTrack
      <4> QED
        BY <1>1, <3>2, <4>1, <4>2, <4>3, <4>4, OneTrack, SameSlots
    <3> QED
      BY <3>1, <3>2
  <2>3. CASE PlayMusic
    <3> DEFINE q(x) == [NoTrack EXCEPT !.prio = Song[x].prio, !.ptr = Song[x].start, !.instr = track[x].instr]
    <3>1. CASE track' = [x \in Channels |-> q(x)]
      <4>1. ASSUME NEW x \in Channels
            PROVE  DOMAIN track'[x] = TrackFields /\ FitsTrack(tracks, trackLoops, x, track'[x])
        <5>1. /\ DOMAIN q(x) = TrackFields /\ q(x).prio = Song[x].prio /\ q(x).ptr = Song[x].start
              /\ q(x).depth = 0
          BY DEF NoTrack, TrackFields
        <5>2. track'[x] = q(x)
          BY <3>1
        <5> DEFINE p == Song[x].start
        <5> HIDE DEF q
        <5>3. <<p, <<>>, 0>> \in tracks /\ Nested(tracks)
          BY DEF WellNested, Entered, Begun
        <5>4. p \in Int /\ <<>> \in Stacks
          <6> HIDE DEF p
          <6> QED
            BY <5>3, LeadsOn
        <5>5. Len(<<>>) = 0
          BY EmptySeq
        <5>6. Holds(trackLoops, x, <<>>)
          BY <5>5 DEF Holds
        <5> QED
          BY <5>1, <5>2, <5>3, <5>4, <5>5, <5>6, AtPlace
      <4> QED
        BY <1>1, <3>1, <4>1 DEF TrackInv
    <3> QED
      BY <2>1, <2>3, <3>1 DEF PlayMusic, scripts
  <2>4. CASE ~StopTrack /\ ~PlayMusic
    BY <2>1, <2>4 DEF Program, PlaySFX, StoreNext, StoreRequest, StopSoundEffect, StopMusic, StopChannel,
           Pause, UnPause, Samples, scripts
  <2> QED
    BY <2>2, <2>3, <2>4
<1> QED
  BY <1>2, <1>3, <1>4

-----------------------------------------------------------------------------
(* Loops within their slots.                                               *)

LoopInv(notes, tracks) == /\ NoteInv(notes) /\ TrackInv(tracks) /\ Requests /\ Active
                          /\ DOMAIN call = {"part", "x", "n"}

\* Every step keeps channels and tracks at places of their scripts.
LEMMA LoopStep ==
    ASSUME NEW notes, NEW tracks, WellNested(notes, tracks), Types, LoopInv(notes, tracks), Next
    PROVE  LoopInv(notes, tracks)'
<1>1. /\ NoteInv(notes) /\ TrackInv(tracks) /\ Requests /\ Active /\ Nested(tracks)
      /\ \A off \in DOMAIN notes : Nested(notes[off])
      /\ DOMAIN call = {"part", "x", "n"}
  BY DEF LoopInv, WellNested
<1>2. ASSUME UNCHANGED <<chan, chanLoops>> PROVE NoteInv(notes)'
  BY <1>1, <1>2 DEF NoteInv
<1>3. ASSUME UNCHANGED <<track, trackLoops>> PROVE TrackInv(tracks)'
  BY <1>1, <1>3 DEF TrackInv
<1>4. ASSUME request' => request, UNCHANGED <<next, call>> 
       PROVE  Requests' /\ DOMAIN call' = {"part", "x", "n"}
  BY <1>1, <1>4 DEF Requests
<1>5. CASE Vbl
  <2>1. at'.part = "update"
    BY <1>5 DEF Vbl
  <2>2. Active'
    BY <2>1 DEF Active
  <2>3. UNCHANGED <<chan, chanLoops, track, trackLoops, request, next, call>>
    BY <1>5 DEF Vbl, scripts, sfx, program
  <2> QED
    BY <1>2, <1>3, <1>4, <2>2, <2>3 DEF LoopInv
<1>6. CASE PcmIrq
  <2>1. UNCHANGED <<chan, chanLoops, track, trackLoops, request, next, call, at>>
    BY <1>6 DEF PcmIrq, scripts, sfx, program
  <2>2. Active'
    BY <1>1, <2>1 DEF Active
  <2> QED
    BY <1>2, <1>3, <1>4, <2>1, <2>2 DEF LoopInv
<1>7. CASE UpdateChannel
  <2>1. NoteInv(notes)'
    BY <1>1, <1>7, UpdateFits
  <2>2. UNCHANGED <<track, trackLoops, request, next, call>>
    BY <1>7 DEF UpdateChannel, UpdateFree, UpdateWaits, UpdateWait, UpdateStop, UpdateSet,
                UpdateSetLoop, UpdateLoop, updated, sfx, program
  <2>3. Active'
    <3>1. (at' = at /\ at.part = "update") \/ NextChannel(at.x)
      BY <1>7 DEF UpdateChannel, UpdateFree, UpdateWaits, UpdateWait, UpdateStop, UpdateSet,
                  UpdateSetLoop, UpdateLoop, Due, In
    <3>2. at.part = "update" /\ DOMAIN at = {"part", "x", "n"}
      BY <1>7 DEF Types, UpdateChannel, UpdateFree, UpdateWaits, UpdateWait, UpdateStop, UpdateSet,
                  UpdateSetLoop, UpdateLoop, Due, In
    <3>3. at'.part \in {"update", "effect"}
      BY <3>1, <3>2 DEF NextChannel
    <3> QED
      BY <3>3 DEF Active
  <2> QED
    BY <1>3, <1>4, <2>1, <2>2, <2>3 DEF LoopInv
<1>8. CASE EnqueueSFX
  <2>1. NoteInv(notes)'
    BY <1>1, <1>8, EnqueueFits
  <2>2. UNCHANGED <<track, trackLoops, next, call>> /\ request' = FALSE
    BY <1>8 DEF EnqueueSFX, program
  <2>3. Active'
    <3>1. at'.part \in {"track", "idle"}
      BY <1>8 DEF EnqueueSFX, BehindEffects, Idle
    <3> QED
      BY <3>1 DEF Active
  <2> QED
    BY <1>3, <1>4, <2>1, <2>2, <2>3 DEF LoopInv
<1>9. CASE DecodeMusic
  <2>1. NoteInv(notes)'
    BY <1>1, <1>9, DecodeFitsNotes
  <2>2. TrackInv(tracks)' /\ Active'
    BY <1>1, <1>9, DecodeFitsTracks
  <2>3. UNCHANGED <<request, next, call>>
    BY <1>9 DEF DecodeMusic, TrackRests, TrackDecodes, SetPri, NoteOn, NoteOff, Wait, SetLoop, Loop,
                Call, Ret, Break, Sampl, SamplHi, SamplPlay, decoded, sfx, program
  <2> QED
    BY <1>4, <2>1, <2>2, <2>3 DEF LoopInv
<1>10. CASE Program
  BY <1>1, <1>10, ProgramFits, RequestsKept, CallShape DEF LoopInv
<1> QED
  BY <1>5, <1>6, <1>7, <1>8, <1>9, <1>10 DEF Next, Main

\* What the invariant says of the depths.
LEMMA LoopInvBounds ==
    ASSUME NEW notes, NEW tracks, LoopInv(notes, tracks) PROVE LoopsInBounds
<1> SUFFICES ASSUME NEW c \in Channels
             PROVE  chan[c].depth \in 0 .. Depth /\ track[c].depth \in 0 .. Depth
  BY DEF LoopsInBounds
<1>1. chan[c].depth \in 0 .. Depth
  BY DEF LoopInv, NoteInv, FitsNote
<1>2. PICK s \in Stacks : track[c].depth = Len(s)
  BY DEF LoopInv, TrackInv, FitsTrack
<1>3. Len(s) \in Nat /\ Len(s) <= Depth
  BY LenProperties DEF Stacks
<1> QED
  BY <1>1, <1>2, <1>3, HandyMusicAssumption

\* Whatever scripts that are each for themselves nested, and in whatever order
\* notes, note-offs, effects, Pattern Breaks and calls come between their
\* commands: no channel and no track leaves the slots of its loops.
THEOREM LoopsStayInSlots ==
    ASSUME NEW notes, NEW tracks, WellNested(notes, tracks)
    PROVE  Spec => []LoopsInBounds
<1>1. Init => LoopInv(notes, tracks)
  <2> SUFFICES ASSUME Init PROVE LoopInv(notes, tracks)
    OBVIOUS
  <2>1. LoopTypes(chanLoops) /\ LoopTypes(trackLoops)
    BY DEF Init, LoopTypes
  <2>2. <<>> \in Stacks /\ Len(<<>>) = 0 /\ 0 \in Channels /\ 0 \in 0 .. Depth
    BY EmptySeq, HandyMusicAssumption DEF Stacks, Channels
  <2>3. DOMAIN Free = NoteFields /\ Free.prio = 0 /\ Free.depth = 0
    BY DEF Free, NoteFields
  <2>4. DOMAIN NoTrack = TrackFields /\ NoTrack.prio = 0 /\ NoTrack.depth = 0
    BY DEF NoTrack, TrackFields
  <2>5. \A c \in Channels : chan[c] = Free /\ track[c] = NoTrack
    BY DEF Init
  <2>6. DOMAIN chan = Channels /\ DOMAIN track = Channels
    BY DEF Init
  <2>7. NoteInv(notes)
    <3> HIDE DEF Free
    <3> QED
      BY <2>1, <2>2, <2>3, <2>5, <2>6 DEF NoteInv, FitsNote
  <2>8. \E p \in Int : <<p, <<>>, 0>> \in tracks
    <3> DEFINE p == Song[0].start
    <3>1. <<p, <<>>, 0>> \in tracks /\ Nested(tracks)
      BY <2>2 DEF WellNested, Entered, Begun
    <3> HIDE DEF p
    <3> QED
      BY <3>1, LeadsOn
  <2>9. \A x \in Channels : Holds(trackLoops, x, <<>>)
    BY <2>2 DEF Holds
  <2>10. TrackInv(tracks)
    <3> HIDE DEF NoTrack
    <3>1. ASSUME NEW x \in Channels PROVE FitsTrack(tracks, trackLoops, x, track[x])
      BY <2>2, <2>4, <2>5, <2>8, <2>9, AtPlace
    <3> QED
      BY <2>1, <2>4, <2>5, <2>6, <3>1 DEF TrackInv
  <2>11. at = Idle /\ call = Idle /\ request = FALSE
    BY DEF Init
  <2>12. Requests /\ Active /\ DOMAIN call = {"part", "x", "n"}
    BY <2>11 DEF Requests, Active, Idle
  <2> QED
    BY <2>7, <2>10, <2>12 DEF LoopInv
<1>2. HInv /\ [Next]_vars => HInv'
  <2> SUFFICES ASSUME HInv, UNCHANGED vars PROVE HInv'
    BY StepHInv
  <2> QED
    BY DEF HInv, Types, Quiet, vars, scripts
<1>3. HInv /\ LoopInv(notes, tracks) /\ [Next]_vars => LoopInv(notes, tracks)'
  <2>1. CASE UNCHANGED vars
    BY <2>1 DEF LoopInv, NoteInv, TrackInv, Requests, Active, vars, scripts, sfx, program
  <2>2. CASE Next
    BY <2>2, LoopStep DEF HInv
  <2> QED
    BY <2>1, <2>2
<1>4. LoopInv(notes, tracks) => LoopsInBounds
  BY LoopInvBounds
<1> QED
  BY <1>1, <1>2, <1>3, <1>4, InitHInv, PTL DEF Spec
=============================================================================
