----------------------------- MODULE HandyMusic -----------------------------
(***************************************************************************)
(* The HandyMusic driver, libraries/audio/handymusic.  On every vertical   *)
(* blank HandyMusic_Main walks over the channels' scripts, starts a        *)
(* requested effect and walks over the song's tracks, with interrupts      *)
(* enabled; the main program stands still meanwhile, but the timer-3       *)
(* interrupt that streams a sample may come between any two steps of the   *)
(* walk and of the main program.  A step is one script command, or what    *)
(* one store to the sample's length or the request separates.              *)
(*                                                                         *)
(* Of a channel's hardware the model keeps whether its timer runs, that    *)
(* is, whether it is heard.  Volumes and panning are left out; whether an  *)
(* envelope has moved the frequency is a choice.                           *)
(***************************************************************************)
EXTENDS Integers, FiniteSetsExt

CONSTANTS Voices,      \* number of channels and tracks, 4 in the code
          Depth,       \* nested loops of a script, 4 in the code
          Byte,        \* values of a byte, 256 in the code
          Script,      \* the commands of instruments, effects and tracks, by address
          Instruments, \* by number: where the script starts and its note-off section
          Effects,     \* by number: the same and the priority
          Song,        \* the header of the song: priority and start of each track
          Slots,       \* the numbers of registered samples
          Lengths,     \* the lengths of samples the program plays or registers
          MaxCalls     \* bound: calls the program makes

ASSUME HandyMusicAssumption ==
    /\ Voices \in Nat \ {0} /\ Depth \in Nat \ {0} /\ Byte \in Nat \ {0, 1}
    /\ Lengths \subseteq 0 .. Byte * Byte - 1
    /\ MaxCalls \in Nat

VARIABLES enable,    \* HandyMusic_Enable
          request,   \* HandyMusic_SFX_PlayRequest
          next,      \* HandyMusic_SFX_EnqueueNext
          bgm,       \* HandyMusic_BGMPlaying
          chan,      \* the HandyMusic_Channel_ arrays
          chanLoops, \* their loop slots, one array for all channels
          track,     \* the HandyMusic_Music_ arrays
          trackLoops,
          on,        \* the channel's timer counts
          saved,     \* HandyMusic_Pause_TimerBack
          note,      \* history: the channel was started by a track
          noWrite,   \* HandyMusic_Channel_NoWriteBack of channel 0
          playing,   \* HandyMusic_Sample_Playing, and timer 3 counts
          lo, hi,    \* HandyMusic_Sample_LenLo, LenHi
          mute,      \* HandyMusic_Disable_Samples
          slot,      \* HandyMusic_Sample_TblLenLo, TblLenHi
          at,        \* where HandyMusic_Main is
          call,      \* where the main program is
          calls      \* how many calls it has made

sample  == <<noWrite, playing, lo, hi>>
scripts == <<chan, chanLoops, track, trackLoops, note>>
sfx     == <<request, next>>
program == <<call, calls>>
vars == <<enable, sfx, bgm, scripts, on, saved, sample, mute, slot, at, program>>

Channels == 0 .. Voices - 1
LoopSlots == 0 .. Voices * Depth - 1
Infinite == -1   \* a negative loop count
Called == -2     \* $80, the tag of a pattern call

Free == [prio |-> 0, depth |-> 0, delay |-> 0, ptr |-> 0, off |-> 0, force |-> FALSE]
NoTrack == [prio |-> 0, depth |-> 0, delay |-> 0, ptr |-> 0, instr |-> 0]
Idle == [part |-> "idle", x |-> 0, n |-> 0]

\* Behind handymusic_init.
Init == /\ enable = TRUE /\ request = FALSE /\ next = 0 /\ bgm = FALSE
        /\ chan = [c \in Channels |-> Free]
        /\ chanLoops = [s \in LoopSlots |-> [addr |-> 0, count |-> 0]]
        /\ track = [c \in Channels |-> NoTrack]
        /\ trackLoops = chanLoops
        /\ on = [c \in Channels |-> FALSE] /\ saved = on /\ note = on
        /\ noWrite = FALSE /\ playing = FALSE /\ lo = 0 /\ hi = 0
        /\ mute = FALSE /\ slot = [s \in Slots |-> [lo |-> 0, hi |-> 0]]
        /\ at = Idle /\ call = Idle /\ calls = 0

-----------------------------------------------------------------------------
(* Samples.                                                                *)

\* Mutant: the channel is captured before the length is looked at.
PlayPCMCapturesFirst ==
    IF mute THEN UNCHANGED <<noWrite, playing, on>>
    ELSE /\ noWrite' = TRUE
         /\ on' = [on EXCEPT ![0] = FALSE]
         /\ playing' = (playing \/ lo # 0 \/ hi # 0)

\* HandyMusic_PlayPCM, with interrupts disabled.
PlayPCM ==
    IF mute \/ (lo = 0 /\ hi = 0) THEN UNCHANGED <<noWrite, playing, on>>
    ELSE /\ noWrite' = TRUE /\ playing' = TRUE
         /\ on' = [on EXCEPT ![0] = FALSE]

\* handymusic_pcm_irq: one byte is output, a 16-bit count goes down.
PcmIrq ==
    /\ playing
    /\ hi' = IF lo = 0 THEN (hi + Byte - 1) % Byte ELSE hi
    /\ lo' = (lo + Byte - 1) % Byte
    /\ IF lo' = 0 /\ hi' = 0
       THEN noWrite' = FALSE /\ playing' = FALSE
       ELSE UNCHANGED <<noWrite, playing>>
    /\ UNCHANGED <<enable, sfx, bgm, scripts, on, saved, mute, slot, at, program>>

-----------------------------------------------------------------------------
(* Loops.  l is the array of loop slots, r the channel or track record.    *)

SlotOf(x, depth) == x * Depth + depth - 1

\* Behind SetLoop or Call the record is one level deeper; r.ptr is kept.
Push(l, x, r, count) == [l EXCEPT ![SlotOf(x, r.depth + 1)] = [addr |-> r.ptr + 1, count |-> count]]

\* The Loop command: back to the loop's start, or on behind it.
Counted(l, x, r) == l[SlotOf(x, r.depth)].count > 0
Again(l, x, r) == l[SlotOf(x, r.depth)].count # 1
LoopBack(l, x, r) == IF Again(l, x, r) THEN [r EXCEPT !.ptr = l[SlotOf(x, r.depth)].addr]
                     ELSE [r EXCEPT !.ptr = @ + 1, !.depth = @ - 1]
LoopCount(l, x, r) == IF Counted(l, x, r) THEN [l EXCEPT ![SlotOf(x, r.depth)].count = @ - 1] ELSE l

-----------------------------------------------------------------------------
(* HandyMusic_UpdateChannel.                                               *)

\* HandyMusic_FreeChannel
FreeChannel(c) == /\ chan' = [chan EXCEPT ![c].prio = 0]
                  /\ on' = [on EXCEPT ![c] = FALSE]
                  /\ note' = [note EXCEPT ![c] = FALSE]

NextChannel(x) == at' = IF x = 0 THEN [part |-> "effect", x |-> 0, n |-> 0]
                        ELSE [at EXCEPT !.x = x - 1]

In(part) == at.part = part

\* The vertical blank: Main does nothing while it is disabled.
Vbl == /\ In("idle") /\ enable
       /\ at' = [part |-> "update", x |-> Voices - 1, n |-> 0]
       /\ UNCHANGED <<enable, sfx, bgm, scripts, on, saved, sample, mute, slot, program>>

updated == <<enable, sfx, bgm, track, trackLoops, saved, sample, mute, slot, program>>

\* Mutant: only the end of a script stops a timer.
UpdateFreeSkipped == LET x == at.x
                     IN  /\ In("update") /\ chan[x].prio = 0
                         /\ NextChannel(x)
                         /\ UNCHANGED <<updated, chan, chanLoops, note, on>>

\* The timer of a free channel is stopped on every tick.
UpdateFree == LET x == at.x
              IN  /\ In("update") /\ chan[x].prio = 0
                  /\ on' = [on EXCEPT ![x] = FALSE]
                  /\ NextChannel(x)
                  /\ UNCHANGED <<updated, chan, chanLoops, note>>

\* The end of the update of r: the timer is started again if an envelope or
\* a command has changed the frequency.  Channel 0 may be lent to a sample.
WriteBack(x, r) ==
    \/ /\ (x = 0 /\ noWrite) \/ ~r.force
       /\ chan' = [chan EXCEPT ![x] = r] /\ UNCHANGED on
    \/ /\ ~(x = 0 /\ noWrite)
       /\ chan' = [chan EXCEPT ![x] = [r EXCEPT !.force = FALSE]]
       /\ on' = [on EXCEPT ![x] = TRUE]

UpdateWaits == LET x == at.x  r == chan[x]
               IN  /\ In("update") /\ r.prio # 0 /\ r.delay # 0
                   /\ WriteBack(x, [r EXCEPT !.delay = @ - 1])
                   /\ NextChannel(x)
                   /\ UNCHANGED <<updated, chanLoops, note>>

Due(x) == In("update") /\ chan[x].prio # 0 /\ chan[x].delay = 0

\* Wait: the frame is done unless it waits for none.
UpdateWait == LET x == at.x  r == chan[x]  cmd == Script[r.ptr]
                  w == [r EXCEPT !.delay = cmd.frames, !.ptr = @ + 1]
              IN  /\ Due(x) /\ cmd.op = "wait"
                  /\ IF cmd.frames = 0 THEN chan' = [chan EXCEPT ![x] = w] /\ UNCHANGED <<on, at>>
                     ELSE WriteBack(x, w) /\ NextChannel(x)
                  /\ UNCHANGED <<updated, chanLoops, note>>

UpdateStop == LET x == at.x
              IN  /\ Due(x) /\ Script[chan[x].ptr].op = "stop"
                  /\ FreeChannel(x)
                  /\ NextChannel(x)
                  /\ UNCHANGED <<updated, chanLoops>>

\* SetSFB stops the timer, SetFrequency and SetSFB have it started again.
UpdateSet == LET x == at.x  cmd == Script[chan[x].ptr]
             IN  /\ Due(x) /\ cmd.op \in {"sfb", "frequency"}
                 /\ chan' = [chan EXCEPT ![x].force = TRUE, ![x].ptr = @ + 1]
                 /\ on' = [on EXCEPT ![x] = @ /\ cmd.op # "sfb"]
                 /\ UNCHANGED <<updated, chanLoops, note, at>>

UpdateSetLoop == LET x == at.x  r == chan[x]  cmd == Script[r.ptr]
                 IN  /\ Due(x) /\ cmd.op = "setloop"
                     /\ chanLoops' = Push(chanLoops, x, r, cmd.count)
                     /\ chan' = [chan EXCEPT ![x].depth = @ + 1, ![x].ptr = @ + 1]
                     /\ UNCHANGED <<updated, on, note, at>>

UpdateLoop == LET x == at.x  r == chan[x]
              IN  /\ Due(x) /\ Script[r.ptr].op = "loop"
                  /\ chanLoops' = LoopCount(chanLoops, x, r)
                  /\ chan' = [chan EXCEPT ![x] = LoopBack(chanLoops, x, r)]
                  /\ UNCHANGED <<updated, on, note, at>>

UpdateChannel == \/ UpdateFree \/ UpdateWaits \/ UpdateWait \/ UpdateStop
                 \/ UpdateSet \/ UpdateSetLoop \/ UpdateLoop

-----------------------------------------------------------------------------
(* HandyMusic_EnqueueSFX.                                                  *)

\* What a note and an effect set up, from the header of their script on.
Started(s, prio) == [Free EXCEPT !.prio = prio, !.ptr = s.start, !.off = s.off, !.force = TRUE]

Begin(c, s, prio, isNote) == /\ chan' = [chan EXCEPT ![c] = Started(s, prio)]
                             /\ on' = [on EXCEPT ![c] = FALSE]
                             /\ note' = [note EXCEPT ![c] = isNote]

\* A free channel, else one the effect's priority suffices for.
Open == {c \in Channels : chan[c].prio = 0}
Weaker(prio) == {c \in Channels : chan[c].prio <= prio}

BehindEffects == at' = IF bgm THEN [part |-> "track", x |-> Voices - 1, n |-> 0] ELSE Idle

EnqueueSFX == LET e == Effects[next]
                  found == IF Open # {} THEN Open ELSE Weaker(e.prio)
              IN  /\ In("effect")
                  /\ request' = FALSE
                  /\ IF request /\ found # {} THEN Begin(Max(found), e, e.prio, FALSE)
                     ELSE UNCHANGED <<chan, on, note>>
                  /\ BehindEffects
                  /\ UNCHANGED <<enable, next, bgm, chanLoops, track, trackLoops, saved, sample,
                                 mute, slot, program>>

-----------------------------------------------------------------------------
(* HandyMusic_DecodeMusic.                                                 *)

NextTrack(x) == at' = IF x = 0 THEN Idle ELSE [part |-> "track", x |-> x - 1, n |-> 0]

decoded == <<enable, sfx, bgm, chanLoops, saved, mute, slot, program>>

\* A track that has nothing to do in this frame.
TrackRests == LET x == at.x
              IN  /\ In("track") /\ (track[x].prio = 0 \/ track[x].delay > 1)
                  /\ track' = IF track[x].prio = 0 THEN track ELSE [track EXCEPT ![x].delay = @ - 1]
                  /\ NextTrack(x)
                  /\ UNCHANGED <<decoded, sample, chan, note, on, trackLoops>>

TrackDecodes == LET x == at.x
                IN  /\ In("track") /\ track[x].prio # 0 /\ track[x].delay <= 1
                    /\ track' = [track EXCEPT ![x].delay = 0]
                    /\ at' = [at EXCEPT !.part = "command"]
                    /\ UNCHANGED <<decoded, sample, chan, note, on, trackLoops>>

Command(op) == In("command") /\ Script[track[at.x].ptr].op = op
\* Behind a command that left the track as r: the next one, or the next track.
Goes(r) == IF r.prio = 0 \/ r.delay # 0 THEN NextTrack(at.x) ELSE UNCHANGED at
Leaves(r) == track' = [track EXCEPT ![at.x] = r] /\ Goes(r)

SetPri == LET r == track[at.x]
          IN  /\ Command("priority")
              /\ Leaves([r EXCEPT !.prio = Script[r.ptr].prio, !.ptr = @ + 1])
              /\ UNCHANGED <<decoded, sample, chan, note, on, trackLoops>>

\* Mutant: a note leaves the loop depth of the script it takes over from.
BeginInLoop(c, s, prio) == /\ chan' = [chan EXCEPT ![c] = [Started(s, prio) EXCEPT !.depth = chan[c].depth]]
                           /\ on' = [on EXCEPT ![c] = FALSE]
                           /\ note' = [note EXCEPT ![c] = TRUE]
BeginNote(c, s, prio) == Begin(c, s, prio, TRUE)

\* Note On and Short Note On, on the same channel as the track, unless an
\* effect of higher priority sounds there.
NoteOn == LET x == at.x  r == track[x]  cmd == Script[r.ptr]
              i == IF cmd.instr = 0 THEN r.instr ELSE cmd.instr
          IN  /\ Command("note")
              /\ IF r.prio >= chan[x].prio THEN BeginNote(x, Instruments[i], r.prio)
                 ELSE UNCHANGED <<chan, note, on>>
              /\ Leaves([r EXCEPT !.delay = cmd.frames, !.ptr = @ + 1, !.instr = i])
              /\ UNCHANGED <<decoded, sample, trackLoops>>

\* A note still sounding goes to its note-off section, at whatever loop
\* depth it is.
NoteOff == LET x == at.x  r == track[x]  cmd == Script[r.ptr]
           IN  /\ Command("noteoff")
               /\ chan' = IF r.prio # chan[x].prio THEN chan
                          ELSE [chan EXCEPT ![x].ptr = chan[x].off, ![x].delay = 0]
               /\ Leaves([r EXCEPT !.delay = cmd.frames, !.ptr = @ + 1])
               /\ UNCHANGED <<decoded, sample, note, on, trackLoops>>

Wait == LET r == track[at.x]
        IN  /\ Command("wait")
            /\ Leaves([r EXCEPT !.delay = Script[r.ptr].frames, !.ptr = @ + 1])
            /\ UNCHANGED <<decoded, sample, chan, note, on, trackLoops>>

SetLoop == LET r == track[at.x]
           IN  /\ Command("setloop")
               /\ trackLoops' = Push(trackLoops, at.x, r, Script[r.ptr].count)
               /\ Leaves([r EXCEPT !.depth = @ + 1, !.ptr = @ + 1])
               /\ UNCHANGED <<decoded, sample, chan, note, on>>

Loop == LET r == track[at.x]
        IN  /\ Command("loop")
            /\ trackLoops' = LoopCount(trackLoops, at.x, r)
            /\ Leaves(LoopBack(trackLoops, at.x, r))
            /\ UNCHANGED <<decoded, sample, chan, note, on>>

Call == LET r == track[at.x]
        IN  /\ Command("call")
            /\ trackLoops' = Push(trackLoops, at.x, r, Called)
            /\ Leaves([r EXCEPT !.depth = @ + 1, !.ptr = Script[r.ptr].to])
            /\ UNCHANGED <<decoded, sample, chan, note, on>>

\* "Loop" to the return address, and one level up.
Returned(l, x, r) == [LoopBack(l, x, r) EXCEPT !.depth = @ - 1]

Ret == LET r == track[at.x]
       IN  /\ Command("ret")
           /\ trackLoops' = LoopCount(trackLoops, at.x, r)
           /\ Leaves(Returned(trackLoops, at.x, r))
           /\ UNCHANGED <<decoded, sample, chan, note, on>>

\* Pattern Break: every track returns from its outermost call.
Calls(x) == {d \in 1 .. track[x].depth : trackLoops[SlotOf(x, d)].count = Called}

Broken(x, r) == IF Calls(x) = {} THEN r
                ELSE [Returned(trackLoops, x, [r EXCEPT !.depth = Min(Calls(x))]) EXCEPT !.delay = 0]

Break == /\ Command("break")
         /\ track' = [x \in Channels |->
                        Broken(x, IF x = at.x THEN [track[x] EXCEPT !.ptr = @ + 1] ELSE track[x])]
         /\ UNCHANGED <<decoded, sample, chan, note, on, trackLoops, at>>

\* Play Sample.  The low byte of the length is stored before an empty slot is
\* noticed, and a sample may be streaming.
Sampl == LET r == track[at.x]  s == slot[Script[r.ptr].num]
         IN  /\ Command("sample")
             /\ lo' = s.lo
             /\ at' = IF s.lo = 0 /\ s.hi = 0 THEN at ELSE [at EXCEPT !.part = "length", !.n = s.hi]
             /\ track' = [track EXCEPT ![at.x].ptr = @ + 1]
             /\ UNCHANGED <<decoded, chan, note, on, trackLoops, hi, noWrite, playing>>

SamplHi == /\ In("length")
           /\ hi' = at.n
           /\ at' = [at EXCEPT !.part = "pcm"]
           /\ UNCHANGED <<decoded, chan, note, on, track, trackLoops, lo, noWrite, playing>>

SamplPlay == /\ In("pcm")
             /\ PlayPCM
             /\ at' = [at EXCEPT !.part = "command", !.n = 0]
             /\ UNCHANGED <<decoded, chan, note, track, trackLoops, lo, hi>>

DecodeMusic == \/ TrackRests \/ TrackDecodes \/ SetPri \/ NoteOn \/ NoteOff \/ Wait
               \/ SetLoop \/ Loop \/ Call \/ Ret \/ Break
               \/ Sampl \/ SamplHi \/ SamplPlay

-----------------------------------------------------------------------------
(* The calls of the program.  A tick may come between any two steps.       *)

Begins(part, x, n) == /\ In("idle") /\ call.part = "idle" /\ calls < MaxCalls
                      /\ calls' = calls + 1
                      /\ call' = [part |-> part, x |-> x, n |-> n]
Runs(part) == In("idle") /\ call.part = part /\ UNCHANGED calls
Then(part) == call' = [call EXCEPT !.part = part]
Downwards(last) == call' = IF call.x = 0 THEN last ELSE [call EXCEPT !.x = @ - 1]

\* HandyMusic_PlaySFX(n): an earlier request of the same priority stays.
PlaySFX ==
    /\ \/ \E n \in DOMAIN Effects : Begins(IF request THEN "compare" ELSE "store", 0, n)
       \/ /\ Runs("compare")
          /\ IF Effects[next].prio >= Effects[call.n].prio THEN call' = Idle ELSE Then("store")
    /\ UNCHANGED <<enable, sfx, bgm, scripts, on, saved, sample, mute, slot, at>>

StoreNext == /\ Runs("store")
             /\ next' = call.n /\ Then("request")
             /\ UNCHANGED <<enable, request, bgm, scripts, on, saved, sample, mute, slot, at>>

StoreRequest == /\ Runs("request")
                /\ request' = TRUE /\ call' = Idle
                /\ UNCHANGED <<enable, next, bgm, scripts, on, saved, sample, mute, slot, at>>

\* HandyMusic_StopSoundEffect(prio): the first channel of that priority.
StopSoundEffect ==
    /\ \/ /\ \E e \in DOMAIN Effects : Begins("stop_sfx", Voices - 1, Effects[e].prio)
          /\ UNCHANGED <<chan, on, note>>
       \/ /\ Runs("stop_sfx")
          /\ IF chan[call.x].prio = call.n THEN FreeChannel(call.x) /\ call' = Idle
             ELSE Downwards(Idle) /\ UNCHANGED <<chan, on, note>>
    /\ UNCHANGED <<enable, sfx, bgm, chanLoops, track, trackLoops, saved, sample, mute, slot, at>>

\* HandyMusic_StopMusic, alone or as the first part of StopAll and Init.
MusicOnly == 0
Everything == 1
Initialise == 2

StopMusic == /\ \E what \in {MusicOnly, Everything, Initialise} : Begins("tracks", Voices - 1, what)
             /\ bgm' = FALSE
             /\ UNCHANGED <<enable, sfx, scripts, on, saved, sample, mute, slot, at>>

\* Behind the last track; StopAll goes on with all channels.
TracksDone == IF call.n = MusicOnly THEN Idle
              ELSE [part |-> "channels", x |-> Voices - 1, n |-> call.n]

tracksOnly == <<enable, sfx, bgm, chanLoops, trackLoops, saved, sample, mute, slot, at>>

\* Mutant: the track is forgotten before its note is looked for.
StopTrackForgets == LET x == call.x
                    IN  /\ Runs("tracks")
                        /\ IF chan[x].prio = 0 THEN FreeChannel(x) ELSE UNCHANGED <<chan, on, note>>
                        /\ track' = [track EXCEPT ![x].prio = 0]
                        /\ Downwards(TracksDone)
                        /\ UNCHANGED tracksOnly

\* A channel of the track's priority is taken for its note.
StopTrack == LET x == call.x
             IN  /\ Runs("tracks")
                 /\ IF chan[x].prio = track[x].prio THEN FreeChannel(x) ELSE UNCHANGED <<chan, on, note>>
                 /\ track' = [track EXCEPT ![x].prio = 0]
                 /\ Downwards(TracksDone)
                 /\ UNCHANGED tracksOnly

StopChannel == /\ Runs("channels")
               /\ FreeChannel(call.x) /\ request' = FALSE
               /\ Downwards(Idle)
               /\ enable' = (enable \/ (call.x = 0 /\ call.n = Initialise))
               /\ UNCHANGED <<next, bgm, chanLoops, track, trackLoops, saved, sample, mute, slot, at>>

\* HandyMusic_PlayMusic: a song is only loaded while none plays.
PlayMusic ==
    \/ /\ ~bgm /\ Begins("play_music", 0, 0)
       /\ track' = [x \in Channels |-> [NoTrack EXCEPT !.prio = Song[x].prio, !.ptr = Song[x].start,
                                                    !.instr = track[x].instr]]
       /\ UNCHANGED <<enable, sfx, bgm, chan, chanLoops, trackLoops, note, on, saved, sample, mute, slot, at>>
    \/ /\ Runs("play_music")
       /\ bgm' = TRUE /\ call' = Idle
       /\ UNCHANGED <<enable, sfx, scripts, on, saved, sample, mute, slot, at>>

\* HandyMusic_Pause and HandyMusic_UnPause, with interrupts disabled.
Pause == /\ Begins("idle", 0, 0) /\ enable
         /\ enable' = FALSE /\ saved' = on
         /\ on' = [c \in Channels |-> FALSE]
         /\ UNCHANGED <<sfx, bgm, scripts, sample, mute, slot, at>>

UnPause == /\ Begins("idle", 0, 0) /\ ~enable
           /\ enable' = TRUE /\ on' = saved /\ request' = FALSE
           /\ UNCHANGED <<next, bgm, scripts, saved, sample, mute, slot, at>>

\* handymusic_play_pcm: the length may be that of a streaming sample.
PlayPcm ==
    \/ /\ \E len \in Lengths : Begins("pcm_hi", 0, len) /\ lo' = len % Byte
       /\ UNCHANGED <<noWrite, playing, on, hi>>
    \/ /\ Runs("pcm_hi")
       /\ hi' = call.n \div Byte /\ Then("pcm_play")
       /\ UNCHANGED <<noWrite, playing, on, lo>>
    \/ /\ Runs("pcm_play")
       /\ PlayPCM /\ call' = Idle
       /\ UNCHANGED <<lo, hi>>

\* handymusic_register_pcm: a tick may see half of the length.
RegisterPcm ==
    \/ \E s \in Slots, len \in Lengths :
         /\ Begins("register", s, len)
         /\ slot' = [slot EXCEPT ![s].lo = len % Byte]
    \/ /\ Runs("register")
       /\ slot' = [slot EXCEPT ![call.x].hi = call.n \div Byte]
       /\ call' = Idle

\* The program stores to handymusic_disable_pcm.
Mute == Begins("idle", 0, 0) /\ mute' = ~mute

Samples == \/ /\ PlayPcm
              /\ UNCHANGED <<enable, sfx, bgm, scripts, saved, mute, slot, at>>
           \/ /\ RegisterPcm
              /\ UNCHANGED <<enable, sfx, bgm, scripts, on, saved, sample, mute, at>>
           \/ /\ Mute
              /\ UNCHANGED <<enable, sfx, bgm, scripts, on, saved, sample, slot, at>>

Program == \/ PlaySFX \/ StoreNext \/ StoreRequest \/ StopSoundEffect
           \/ StopMusic \/ StopTrack \/ StopChannel \/ PlayMusic
           \/ Pause \/ UnPause \/ Samples

\* HandyMusic_Main
Main == Vbl \/ UpdateChannel \/ EnqueueSFX \/ DecodeMusic

Next == Main \/ PcmIrq \/ Program

Spec == Init /\ [][Next]_vars
\* Timer 3 goes on while a sample streams.
FairSpec == Spec /\ WF_vars(PcmIrq)

-----------------------------------------------------------------------------
(* Correctness properties.                                                 *)

\* Scripts nest loops within the slots of their own channel and track: a note
\* and an effect start outside of all loops, whatever was sounding before,
\* and calls, returns and breaks are balanced (HandyMusic_Enqueue_IS,
\* HandyMusic_Mus_Break).
LoopsInBounds == \A c \in Channels : chan[c].depth \in 0 .. Depth /\ track[c].depth \in 0 .. Depth

\* Once stop_music, stop_all or init has returned no note of the song is
\* left, though ticks and effects came in between (HandyMusic_StopMusic).
SongStops == ~bgm /\ call.part # "tracks" => \A c \in Channels : ~note[c]

\* A tick leaves no free channel sounding, also if it was freed while the
\* driver was paused and unpausing has restored its timer.
NoHangingNote == [][at # Idle /\ at' = Idle => \A c \in Channels : chan'[c].prio = 0 => ~on'[c]]_vars

\* Channel 0 is handed back to the music after a sample, whatever lengths are
\* stored over the running one's, and then nothing streams (handymusic_pcm_irq).
HandedBack == noWrite ~> ~noWrite /\ ~playing
=============================================================================
