------------------------------- MODULE Sound -------------------------------
(***************************************************************************)
(* The sound engine of libraries/audio/lynx-snd.s.  The main program starts *)
(* and stops channels; on every tick of the sound timer an interrupt runs   *)
(* the engine once over all channels.  The main program stands still during *)
(* the tick, and a pass nested in it is turned away (module Irq), so a tick *)
(* is one action; the calls of the main program are one action for each of  *)
(* the instructions between which a tick may fall.                          *)
(*                                                                         *)
(* A stream is a table of commands.  The model keeps their durations,       *)
(* volumes, addresses, pitches and volume envelopes; a frequency envelope   *)
(* may move the pitch on any tick, and wave forms and stereo, which go to   *)
(* registers nobody reads back, are left out.                               *)
(***************************************************************************)
EXTENDS Integers, Sequences, FiniteSetsExt

CONSTANTS Voices,     \* number of channels, 4 in the code
          Byte,       \* values of a counter byte, 256 in the code
          Memory,     \* the commands of all streams, by address
          Streams,    \* the addresses the program may pass to snd_play
          Envelopes,  \* volume envelopes: parts <<count, increment>>, loop part or 0
          Pitches,    \* reload values of the tone generators
          MaxCalls,   \* bound: calls the program makes
          MaxCommands \* most commands a stream holds before the one that takes time

ASSUME SoundAssumption == /\ Voices \in Nat \ {0, 1}
                          /\ Byte \in Nat \ {0, 1}
                          /\ Streams \subseteq DOMAIN Memory
                          /\ MaxCommands \in Nat /\ MaxCalls \in Nat

VARIABLES active,   \* SndActive
          reqStop,  \* SndReqStop
          voice,    \* what the engine keeps of a channel beside
          hwVol,    \* the volume registers of the chip
          hwFrq,    \* its reload registers ($fd24)
          retAFlag, \* SndRetAFlag, a ReturnAll is due
          retMask,  \* SndRetAFlag2, the channels that have yet to return
          beat,     \* history: the parity of the ticks so far
          timer,    \* the sound timer runs (STIMCTLA)
          saved,    \* what snd_continue would store there (SndPauseOff1)
          pc,       \* what the main program does
          call,     \* the call it does it for
          calls     \* how many calls it has made

engine == <<active, reqStop, voice, hwVol, hwFrq, retAFlag, retMask, beat>>
program == <<pc, call, calls>>
vars == <<engine, timer, saved, program>>

Channels == 0 .. Voices - 1
FadeStep == 32
Decrement(n) == IF n = 0 THEN Byte - 1 ELSE n - 1

Silent == [ptr |-> 0, delay |-> 0, ret |-> 0, loopCnt |-> 0, loopPtr |-> 0,
           vol |-> 0, ownVol |-> 0, maxVol |-> 0, playing |-> FALSE,
           env |-> 0, done |-> FALSE, part |-> 0, cnt |-> 0, inc |-> 0,
           frq |-> 0, sweep |-> FALSE, flag |-> 0]

NoCall == [name |-> "none", chan |-> 0, start |-> 0]

Init == /\ active = [c \in Channels |-> FALSE]
        /\ reqStop = [c \in Channels |-> 0]
        /\ voice = [c \in Channels |-> Silent]
        /\ hwVol = [c \in Channels |-> 0]
        /\ hwFrq = [c \in Channels |-> 0]
        /\ retAFlag = FALSE
        /\ retMask = {}
        /\ beat = 0
        /\ timer = TRUE
        /\ saved = FALSE
        /\ pc = "idle"
        /\ call = NoCall
        /\ calls = 0

-----------------------------------------------------------------------------
(* The commands.  A step of the parser holds the voice v, whether the parser *)
(* goes on in this tick, and whether the stream has ended.                   *)

RestartEnvelope(v) == IF v.env = 0 THEN [v EXCEPT !.done = FALSE]
                      ELSE [v EXCEPT !.done = FALSE, !.part = 0, !.cnt = 0]

NewNote(v, cmd) ==
    RestartEnvelope([v EXCEPT !.playing = TRUE, !.delay = cmd.dur, !.vol = v.ownVol,
                              !.frq = cmd.pitch, !.flag = -1, !.ptr = @ + 1])

NoteOff(v) == [v EXCEPT !.playing = FALSE, !.done = TRUE, !.vol = 0,
                        !.frq = 0, !.flag = -1, !.ptr = @ + 1]

\* Loop and Do: the address kept is the one of the Loop command itself.
StartLoop(v, n) == [v EXCEPT !.loopCnt = n, !.loopPtr = v.ptr, !.ptr = @ + 1]
\* Mutant: Do goes back to the Loop command, which counts anew.
DoLoopRestarts(v) == LET left == Decrement(v.loopCnt)
                     IN  [v EXCEPT !.loopCnt = left,
                                   !.ptr = IF left # 0 THEN v.loopPtr ELSE @ + 1]
DoLoop(v) == LET left == Decrement(v.loopCnt)
             IN  [v EXCEPT !.loopCnt = left,
                           !.ptr = (IF left # 0 THEN v.loopPtr ELSE @) + 1]

Moved(v, cmd) ==
    CASE cmd.op = "note"   -> NewNote(v, cmd)
      [] cmd.op = "pause"  -> [v EXCEPT !.delay = cmd.dur, !.ptr = @ + 1]
      [] cmd.op = "off"    -> NoteOff(v)
      [] cmd.op = "instr"  -> [v EXCEPT !.ownVol = cmd.vol, !.maxVol = cmd.max, !.ptr = @ + 1]
      [] cmd.op = "env"    -> RestartEnvelope([v EXCEPT !.env = cmd.env, !.ptr = @ + 1])
      [] cmd.op = "sweep"  -> [v EXCEPT !.sweep = cmd.on, !.ptr = @ + 1]
      [] cmd.op = "loop"   -> StartLoop(v, cmd.count)
      [] cmd.op = "do"     -> DoLoop(v)
      [] cmd.op = "call"   -> [v EXCEPT !.ret = v.ptr + 1, !.ptr = cmd.to]
      [] cmd.op = "ret"    -> [v EXCEPT !.ptr = v.ret]
      [] cmd.op = "retall" -> [v EXCEPT !.delay = 1]
      [] OTHER             -> v   \* the end of the stream

\* After these the voice waits, or has ended; after any other command the
\* parser reads the next one in the same tick.
Yields(cmd) == cmd.op \in {"pause", "retall", "end"} \/ (cmd.op = "note" /\ cmd.dur # 0)

Command(s) == LET cmd == Memory[s.v.ptr]
              IN  [v |-> Moved(s.v, cmd), go |-> ~Yields(cmd), end |-> cmd.op = "end"]

\* Commands are done in one tick up to the one that takes time and with it; the
\* code's loop has no bound.
Parse(v) ==
    LET after[n \in 0 .. MaxCommands + 1] ==
          IF n = 0 THEN [v |-> v, go |-> TRUE, end |-> FALSE]
          ELSE LET s == after[n - 1] IN IF s.go THEN Command(s) ELSE s
    IN  after[MaxCommands + 1]

-----------------------------------------------------------------------------
(* One tick of one channel: SndChangeVol, then SndGetCmd.                    *)

Flagged(v) == [v EXCEPT !.flag = IF @ = 0 THEN 1 ELSE @]

LoadPart(v, part) ==
    [v EXCEPT !.part = part, !.cnt = Envelopes[v.env].parts[part][1],
              !.inc = Envelopes[v.env].parts[part][2]]

\* The count of a part has run out: the next part, the loop part, or the end.
NextPart(v) == LET e == Envelopes[v.env]
               IN  IF v.part < Len(e.parts) THEN LoadPart(v, v.part + 1)
                   ELSE IF e.loop # 0 THEN LoadPart(v, e.loop)
                   ELSE [v EXCEPT !.done = TRUE]

Raise(v) == LET sum == v.vol + v.inc
            IN  IF sum >= v.maxVol \/ sum > 127
                THEN Flagged([v EXCEPT !.vol = Min({v.maxVol, 127}), !.inc = 0])
                ELSE Flagged([v EXCEPT !.vol = sum])

Sink(v) == IF v.vol + v.inc < 0
           THEN Flagged([v EXCEPT !.vol = 0, !.inc = 0, !.playing = FALSE])
           ELSE Flagged([v EXCEPT !.vol = @ + v.inc])

ChangeVol(v) ==
    IF v.env = 0 \/ v.done \/ ~v.playing THEN v
    ELSE IF v.cnt = 0 THEN NextPart(v)
    ELSE LET w == [v EXCEPT !.cnt = @ - 1]
         IN  IF w.inc > 0 THEN Raise(w) ELSE IF w.inc < 0 THEN Sink(w) ELSE w

\* SndChangeFrq, to whatever its envelope comes to.
ChangeFrq(v, pitch) == IF pitch = v.frq \/ ~v.playing THEN v
                       ELSE Flagged([v EXCEPT !.frq = pitch])

FadeEnds(v) == v.vol < FadeStep
\* Mutant: the fade starts from the instrument's volume again on each tick.
FadedFromInstrument(v) == [v EXCEPT !.vol = v.ownVol - FadeStep, !.flag = 1]
Faded(v) == [v EXCEPT !.vol = @ - FadeStep, !.flag = 1]
\* Mutant: the silence is not flagged for the chip.
StoppedUnflagged(v) == [Silent EXCEPT !.ret = v.ret, !.ownVol = v.ownVol,
                                      !.maxVol = v.maxVol, !.playing = v.playing, !.frq = v.frq]
\* What no later stream reads before it has written it is forgotten.
Stopped(v) == [Silent EXCEPT !.flag = 1, !.ret = v.ret, !.ownVol = v.ownVol,
                             !.maxVol = v.maxVol, !.playing = v.playing, !.frq = v.frq]

\* What SndGetCmd makes of a voice: its new state and whether it has ended.
GetCmd(v, stop, returns) ==
    IF stop THEN [v |-> IF FadeEnds(v) THEN v ELSE Faded(v), end |-> FadeEnds(v)]
    ELSE IF returns THEN Parse([v EXCEPT !.ptr = v.ret])
    ELSE LET w == [v EXCEPT !.delay = Decrement(@)]
         IN  IF w.delay = 0 THEN Parse(w) ELSE [v |-> w, end |-> FALSE]

\* The look ahead: the next command is a ReturnAll and the voice comes to it
\* on the next tick.
ReturnDue(s) == ~s.end /\ s.v.delay = 1 /\ Memory[s.v.ptr].op = "retall"

\* SndSetValues: volumes of all flagged channels, the rest of those flagged
\* for reprogramming.
SetValues == /\ hwVol' = [c \in Channels |-> IF voice[c].flag # 0 THEN voice[c].vol ELSE hwVol[c]]
             /\ hwFrq' = [c \in Channels |-> IF voice[c].flag < 0 THEN voice[c].frq ELSE hwFrq[c]]

Sounding == {c \in Channels : active[c]}
Sweeping == {c \in Sounding : voice[c].sweep /\ voice[c].playing}

\* The channels a ReturnAll sends back that have not gone yet.
Due == IF retAFlag THEN Channels ELSE retMask

\* A sounding channel's part of the tick, its frequency envelope at p.
Ticked(c, p) ==
    LET v == ChangeVol([voice[c] EXCEPT !.flag = 0])
        w == IF c \in Sweeping THEN ChangeFrq(v, p) ELSE v
    IN  GetCmd(w, reqStop[c] # 0, c \in Due)

Tick ==
    /\ timer
    /\ SetValues
    /\ \E pitch \in [Sweeping -> Pitches] :
       \E got \in {[c \in Sounding |-> Ticked(c, IF c \in Sweeping THEN pitch[c] ELSE 0)]} :
         LET ends == {c \in Sounding : got[c].end}
         IN  /\ active' = [c \in Channels |-> active[c] /\ c \notin ends]
             /\ reqStop' = [c \in Channels |-> IF c \in ends THEN 0 ELSE reqStop[c]]
             /\ voice' = [c \in Channels |-> IF c \notin Sounding THEN [voice[c] EXCEPT !.flag = 0]
                                             ELSE IF c \in ends THEN Stopped(got[c].v)
                                             ELSE got[c].v]
             /\ retAFlag' = \E c \in Sounding : reqStop[c] = 0 /\ ReturnDue(got[c])
    /\ retMask' = {c \in Due : ~active[c] \/ reqStop[c] # 0}
    /\ beat' = 1 - beat
    /\ UNCHANGED <<timer, saved, program>>

-----------------------------------------------------------------------------
(* The main program.  A tick may fall between any two of these actions.      *)

\* The program makes another call.
NewCall == /\ pc = "idle"
           /\ calls < MaxCalls
           /\ calls' = calls + 1

\* snd_play: an idle channel starts at once, a sounding one is stopped first.
Play(c, a) == /\ NewCall
              /\ pc' = IF active[c] THEN "request" ELSE "start"
              /\ call' = [name |-> "play", chan |-> c, start |-> a]
              /\ UNCHANGED <<engine, timer, saved>>

\* snd_stop_channel
StopChannel(c) == /\ NewCall
                  /\ active[c]
                  /\ pc' = "request"
                  /\ call' = [name |-> "stop_channel", chan |-> c, start |-> 0]
                  /\ UNCHANGED <<engine, timer, saved>>

\* snd_stop: only the first channel is asked whether it sounds, since the
\* loop runs back to behind that test.
Stop == /\ NewCall
        /\ pc' = "request"
        /\ call' = [name |-> "stop", start |-> 0,
                    chan |-> IF active[Voices - 1] THEN Voices - 1 ELSE Voices - 2]
        /\ UNCHANGED <<engine, timer, saved>>

\* dec SndReqStop,x
Request == /\ pc = "request"
           /\ reqStop' = [reqStop EXCEPT ![call.chan] = Decrement(@)]
           /\ pc' = "hurry"
           /\ UNCHANGED <<active, voice, hwVol, hwFrq, retAFlag, retMask, beat, timer, saved, call, calls>>

\* sta SndDelay,x
Hurry == /\ pc = "hurry"
         /\ voice' = [voice EXCEPT ![call.chan].delay = 1]
         /\ pc' = "wait"
         /\ UNCHANGED <<active, reqStop, hwVol, hwFrq, retAFlag, retMask, beat, timer, saved, call, calls>>

\* lda SndActive,x / bne, until it is clear
WaitOver == /\ pc = "wait"
            /\ ~active[call.chan]
            /\ IF call.name = "stop" /\ call.chan # 0
               THEN /\ pc' = "request"
                    /\ call' = [name |-> "stop", chan |-> call.chan - 1, start |-> 0]
               ELSE IF call.name = "play" THEN pc' = "start" /\ UNCHANGED call
               ELSE pc' = "idle" /\ call' = NoCall
            /\ UNCHANGED <<engine, timer, saved, calls>>

\* Mutant: a request that snd_stop left at a silent channel stays.
StartKeepsRequest == LET c == call.chan
                     IN  /\ pc = "start"
                         /\ pc' = "idle"
                         /\ call' = NoCall
                         /\ voice' = [voice EXCEPT ![c].ptr = call.start, ![c].delay = 1, ![c].env = 0,
                                                   ![c].done = FALSE, ![c].sweep = FALSE]
                         /\ active' = [active EXCEPT ![c] = TRUE]
                         /\ UNCHANGED <<reqStop, hwVol, hwFrq, retAFlag, retMask, beat, timer, saved, calls>>

\* start1, with interrupts disabled
Start == LET c == call.chan
         IN  /\ pc = "start"
             /\ pc' = "idle"
             /\ call' = NoCall
             /\ voice' = [voice EXCEPT ![c].ptr = call.start, ![c].delay = 1, ![c].env = 0,
                                       ![c].done = FALSE, ![c].sweep = FALSE]
             /\ active' = [active EXCEPT ![c] = TRUE]
             /\ reqStop' = [reqStop EXCEPT ![c] = 0]
             /\ UNCHANGED <<hwVol, hwFrq, retAFlag, retMask, beat, timer, saved, calls>>

Pause == /\ NewCall
         /\ saved' = timer
         /\ timer' = FALSE
         /\ UNCHANGED <<engine, pc, call>>

Continue == /\ NewCall
            /\ timer' = saved
            /\ UNCHANGED <<engine, saved, pc, call>>

\* snd_init called again
Reinit == /\ NewCall
          /\ timer' = TRUE
          /\ hwVol' = [c \in Channels |-> 0]
          /\ active' = [c \in Channels |-> FALSE]
          /\ reqStop' = [c \in Channels |-> 0]
          /\ voice' = [c \in Channels |-> [voice[c] EXCEPT !.env = 0, !.done = FALSE,
                                                          !.sweep = FALSE, !.flag = 0]]
          /\ retAFlag' = FALSE
          /\ retMask' = {}
          /\ UNCHANGED <<hwFrq, beat, saved, pc, call>>

Next == \/ Tick \/ Request \/ Hurry \/ WaitOver \/ Start
        \/ \E c \in Channels : StopChannel(c) \/ \E a \in Streams : Play(c, a)
        \/ Stop \/ Pause \/ Continue \/ Reinit

Spec == Init /\ [][Next]_vars

\* The sound timer keeps interrupting while it runs (only Tick moves beat),
\* and the main program, once in a call, keeps executing it.
FairSpec == /\ Spec
            /\ WF_beat(timer /\ beat' = 1 - beat)
            /\ WF_vars(Request \/ Hurry \/ WaitOver \/ Start)

-----------------------------------------------------------------------------
(* Properties.                                                               *)

Bytes == 0 .. Byte - 1

\* A sounding channel carries a stop request exactly while the main program
\* waits for that channel: no request of snd_stop or snd_play is lost to a
\* tick between its instructions, which would leave the busy-wait spinning,
\* and none is left over to kill the next stream, although snd_stop also
\* counts down the requests of channels that are silent.
StopsAsAsked ==
    \A c \in Channels :
        active[c] => (reqStop[c] # 0 <=> pc \in {"hurry", "wait"} /\ call.chan = c)

\* A channel that does not sound is silent on the chip, or will be with the
\* next tick: however its stream ended, no note hangs.
Silenced == \A c \in Channels :
               ~active[c] => hwVol[c] = 0 \/ (voice[c].flag # 0 /\ voice[c].vol = 0)

\* While the sound timer runs, the busy-wait of snd_play, snd_stop and
\* snd_stop_channel comes to its end.
WaitEnds == (pc = "wait" /\ timer) ~> pc # "wait"

\* Streams whose loops are counted end: when the program leaves the engine
\* alone, every channel falls silent, ReturnAlls that send it back included.
StreamsEnd == <>[](pc = "idle" /\ timer) => <>[](\A c \in Channels : ~active[c])

\* A frequency envelope is heard: the pitch of a sounding channel that was
\* flagged as changed is in the chip's reload register after the next tick.
SweepHeard == [][Tick => \A c \in Sounding : voice[c].flag # 0 => hwFrq'[c] = voice[c].frq]_vars
=============================================================================
