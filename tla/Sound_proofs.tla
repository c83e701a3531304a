---------------------------- MODULE Sound_proofs ----------------------------
(* The stop requests of the sound engine are never lost and never left over, *)
(* and a channel that has ended is silent, for any number of channels, any   *)
(* streams and any envelopes.                                                *)
EXTENDS Sound, WellFoundedInduction, TLAPS

\* The bytes the requests live in and what the main program is about.
RequestTypes ==
    /\ active \in [Channels -> BOOLEAN]
    /\ reqStop \in [Channels -> Bytes]
    /\ pc \in {"idle", "request", "hurry", "wait", "start"}
    /\ call.chan \in Channels

SInv == RequestTypes /\ StopsAsAsked

LEMMA SInvInit == Init => SInv
  BY SoundAssumption DEF Init, SInv, RequestTypes, StopsAsAsked, Channels, Bytes, NoCall

\* A tick only ends channels, and clears the request of those it ends.
LEMMA TickStep == SInv /\ Tick => SInv'
<1> SUFFICES ASSUME SInv, Tick PROVE SInv'
  OBVIOUS
<1>1. PICK ends \in SUBSET Sounding :
        /\ active' = [c \in Channels |-> active[c] /\ c \notin ends]
        /\ reqStop' = [c \in Channels |-> IF c \in ends THEN 0 ELSE reqStop[c]]
  <2>1. PICK pitch \in [Sweeping -> Pitches] :
        \E got \in {[c \in Sounding |-> Ticked(c, IF c \in Sweeping THEN pitch[c] ELSE 0)]} :
         LET ends == {c \in Sounding : got[c].end}
         IN  /\ active' = [c \in Channels |-> active[c] /\ c \notin ends]
             /\ reqStop' = [c \in Channels |-> IF c \in ends THEN 0 ELSE reqStop[c]]
    BY DEF Tick
  <2>2. PICK got \in {[c \in Sounding |-> Ticked(c, IF c \in Sweeping THEN pitch[c] ELSE 0)]} :
         LET ends == {c \in Sounding : got[c].end}
         IN  /\ active' = [c \in Channels |-> active[c] /\ c \notin ends]
             /\ reqStop' = [c \in Channels |-> IF c \in ends THEN 0 ELSE reqStop[c]]
    BY <2>1
  <2>3. {c \in Sounding : got[c].end} \in SUBSET Sounding
    OBVIOUS
  <2> QED
    BY <2>2, <2>3
<1>2. UNCHANGED <<pc, call>>
  BY DEF Tick, program
<1>3. active' \in [Channels -> BOOLEAN]
  BY <1>1, Zenon
<1>4. reqStop' \in [Channels -> Bytes]
  BY <1>1, SoundAssumption DEF SInv, RequestTypes, Bytes
<1>5. ASSUME NEW c \in Channels, active'[c]
      PROVE  active[c] /\ reqStop'[c] = reqStop[c]
  BY <1>1, <1>5
<1> QED
  BY <1>2, <1>3, <1>4, <1>5 DEF SInv, RequestTypes, StopsAsAsked

\* dec SndReqStop makes a request where there was none.
LEMMA RequestStep == SInv /\ Request => SInv'
<1> SUFFICES ASSUME SInv, Request PROVE SInv'
  OBVIOUS
<1>1. /\ pc = "request" /\ pc' = "hurry"
      /\ UNCHANGED <<active, call>>
      /\ reqStop' = [reqStop EXCEPT ![call.chan] = Decrement(@)]
  BY DEF Request
<1>2. reqStop[call.chan] \in Bytes
  BY DEF SInv, RequestTypes
<1>3. /\ Decrement(reqStop[call.chan]) \in Bytes
      /\ reqStop[call.chan] = 0 => Decrement(reqStop[call.chan]) # 0
  BY <1>2, SoundAssumption DEF Decrement, Bytes
<1> QED
  BY <1>1, <1>3 DEF SInv, RequestTypes, StopsAsAsked

\* The wait for one channel ends when it is silent; no other has a request.
LEMMA WaitOverStep == SInv /\ WaitOver => SInv'
<1> SUFFICES ASSUME SInv, WaitOver PROVE SInv'
  OBVIOUS
<1>1. /\ pc = "wait" /\ ~active[call.chan]
      /\ UNCHANGED <<active, reqStop>>
      /\ pc' \in {"request", "start", "idle"}
  BY DEF WaitOver, engine
<1>2. call'.chan \in Channels
  <2>1. CASE call.name = "stop" /\ call.chan # 0
    <3>1. call.chan - 1 \in Channels
      BY <2>1, SoundAssumption DEF SInv, RequestTypes, Channels
    <3> QED
      BY <2>1, <3>1 DEF WaitOver
  <2>2. CASE ~(call.name = "stop" /\ call.chan # 0)
    BY <2>2, SoundAssumption DEF WaitOver, SInv, RequestTypes, NoCall, Channels
  <2> QED
    BY <2>1, <2>2
<1> QED
  BY <1>1, <1>2 DEF SInv, RequestTypes, StopsAsAsked

\* A call begins with no request standing at any sounding channel.
LEMMA CallStep ==
  ASSUME SInv, pc = "idle", UNCHANGED <<active, reqStop>>,
         pc' \in {"idle", "request", "start"}, call'.chan \in Channels
  PROVE  SInv'
  BY DEF SInv, RequestTypes, StopsAsAsked

LEMMA StartStep == SInv /\ Start => SInv'
<1> SUFFICES ASSUME SInv, Start PROVE SInv'
  OBVIOUS
<1>1. /\ pc = "start" /\ pc' = "idle" /\ call' = NoCall
      /\ active' = [active EXCEPT ![call.chan] = TRUE]
      /\ reqStop' = [reqStop EXCEPT ![call.chan] = 0]
  BY DEF Start
<1>2. 0 \in Bytes /\ call'.chan \in Channels
  BY <1>1, SoundAssumption DEF Bytes, NoCall, Channels
<1> QED
  BY <1>1, <1>2 DEF SInv, RequestTypes, StopsAsAsked

LEMMA SInvStep == SInv /\ [Next]_vars => SInv'
<1> SUFFICES ASSUME SInv, [Next]_vars PROVE SInv'
  OBVIOUS
<1> USE DEF NewCall, engine, program
<1>1. CASE Tick
  BY <1>1, TickStep
<1>2. CASE Request
  BY <1>2, RequestStep
<1>3. CASE Hurry
  BY <1>3 DEF Hurry, SInv, RequestTypes, StopsAsAsked
<1>4. CASE WaitOver
  BY <1>4, WaitOverStep
<1>5. CASE Start
  BY <1>5, StartStep
<1>6. ASSUME NEW c \in Channels, StopChannel(c) PROVE SInv'
  BY <1>6, CallStep DEF StopChannel
<1>7. ASSUME NEW c \in Channels, NEW a \in Streams, Play(c, a) PROVE SInv'
  <2>1. pc = "idle" /\ UNCHANGED <<active, reqStop>> /\ call'.chan = c
    BY <1>7 DEF Play
  <2>2. pc' \in {"request", "start"}
    BY <1>7 DEF Play
  <2> QED
    BY <2>1, <2>2, CallStep
<1>8. CASE Stop
  <2>1. /\ pc = "idle" /\ pc' = "request" /\ UNCHANGED <<active, reqStop>>
        /\ call'.chan \in {Voices - 1, Voices - 2}
    BY <1>8 DEF Stop
  <2>2. call'.chan \in Channels
    BY <2>1, SoundAssumption DEF Channels
  <2> QED
    BY <2>1, <2>2, CallStep
<1>9. CASE Pause
  BY <1>9, CallStep DEF Pause, SInv, RequestTypes
<1>10. CASE Continue
  BY <1>10, CallStep DEF Continue, SInv, RequestTypes
<1>11. CASE Reinit
  <2>1. /\ active' = [c \in Channels |-> FALSE]
        /\ reqStop' = [c \in Channels |-> 0]
        /\ UNCHANGED <<pc, call>>
    BY <1>11 DEF Reinit
  <2>2. active' \in [Channels -> BOOLEAN] /\ \A c \in Channels : ~active'[c]
    BY <2>1
  <2>3. 0 \in Bytes
    BY SoundAssumption DEF Bytes
  <2> QED
    BY <2>1, <2>2, <2>3 DEF SInv, RequestTypes, StopsAsAsked
<1>12. CASE UNCHANGED vars
  BY <1>12 DEF vars, SInv, RequestTypes, StopsAsAsked
<1> QED
  BY <1>1, <1>2, <1>3, <1>4, <1>5, <1>6, <1>7, <1>8, <1>9, <1>10, <1>11, <1>12 DEF Next

\* No stop request of snd_play, snd_stop or snd_stop_channel is lost to a tick
\* between its instructions, and none is left over for the next stream: a
\* sounding channel carries one exactly while the main program waits for it.
THEOREM RequestsExact == Spec => []StopsAsAsked
<1>1. SInv => StopsAsAsked
  BY DEF SInv
<1> QED
  BY SInvInit, SInvStep, <1>1, PTL DEF Spec
-----------------------------------------------------------------------------
(* Silence.                                                                *)

\* What holds of 0 and passes from each number to the next holds of all.
LEMMA NatSetInduction ==
    ASSUME NEW S, 0 \in S, \A n \in Nat : n \in S => n + 1 \in S
    PROVE  Nat \subseteq S
<1> PICK R : R = OpToRel(<, Nat)
  OBVIOUS
<1>1. R = {ss \in Nat \X Nat : ss[1] < ss[2]}
  BY DEF OpToRel
<1>2. IsWellFoundedOn(R, Nat)
  BY NatLessThanWellFounded
<1> PICK T : T = {n \in Nat : n \notin S}
  OBVIOUS
<1> SUFFICES ASSUME T # {} PROVE FALSE
  OBVIOUS
<1>3. PICK x \in T : \A y \in T : ~ (<<y, x>> \in R)
  BY <1>2, WFMin
<1>4. x \in Nat /\ x # 0 /\ x \notin S
  OBVIOUS
<1>5. x - 1 \in Nat /\ x - 1 < x /\ (x - 1) + 1 = x
  BY ONLY <1>4
<1>6. x - 1 \notin S
  BY <1>4, <1>5
<1> QED
  BY <1>1, <1>3, <1>5, <1>6

\* Every command is an update of the voice's fields.
LEMMA MovedKeeps == ASSUME NEW v, NEW cmd PROVE DOMAIN Moved(v, cmd) = DOMAIN v
<1>1. \A w : DOMAIN RestartEnvelope(w) = DOMAIN w
  BY DEF RestartEnvelope
<1>2. DOMAIN NewNote(v, cmd) = DOMAIN v
  BY <1>1 DEF NewNote
<1>3. DOMAIN NoteOff(v) = DOMAIN v
  BY DEF NoteOff
<1>4. DOMAIN StartLoop(v, cmd.count) = DOMAIN v
  BY DEF StartLoop
<1>5. DOMAIN DoLoop(v) = DOMAIN v
  BY DEF DoLoop
<1> QED
  BY <1>1, <1>2, <1>3, <1>4, <1>5 DEF Moved

\* The stretch of commands that Parse goes through, as far as m of them.
After(v, f, n) == IF n = 0 THEN [v |-> v, go |-> TRUE, end |-> FALSE]
                  ELSE IF f[n - 1].go THEN Command(f[n - 1]) ELSE f[n - 1]

Stretch(v, m, f) == f = [n \in 0 .. m |-> After(v, f, n)]

\* It can be gone through, whatever the commands are.
LEMMA StretchExists == ASSUME NEW v PROVE \A m \in Nat : \E f : Stretch(v, m, f)
<1> PICK S : S = {m \in Nat : \E f : Stretch(v, m, f)}
  OBVIOUS
<1>1. 0 \in S
  <2>1. PICK f : f = [n \in 0 .. 0 |-> [v |-> v, go |-> TRUE, end |-> FALSE]]
    OBVIOUS
  <2>2. \A n \in 0 .. 0 : After(v, f, n) = [v |-> v, go |-> TRUE, end |-> FALSE]
    BY DEF After
  <2>3. Stretch(v, 0, f)
    BY <2>1, <2>2 DEF Stretch
  <2> QED
    BY <2>3
<1>2. ASSUME NEW m \in Nat, m \in S PROVE m + 1 \in S
  <2>1. PICK f : Stretch(v, m, f)
    BY <1>2
  <2>2. PICK g : g = [n \in 0 .. m + 1 |-> After(v, f, n)]
    OBVIOUS
  <2>3. \A n \in 0 .. m : f[n] = After(v, f, n)
    BY <2>1 DEF Stretch
  <2>4. \A n \in 0 .. m + 1 : g[n] = After(v, f, n)
    BY <2>2
  <2>5. \A n \in 0 .. m : n \in 0 .. m + 1
    OBVIOUS
  <2>6. \A n \in 0 .. m : g[n] = f[n]
    BY <2>3, <2>4, <2>5
  <2>7. \A n \in 0 .. m + 1 : After(v, g, n) = After(v, f, n)
    <3> TAKE n \in 0 .. m + 1
    <3>1. CASE n = 0
      BY <3>1 DEF After
    <3>2. CASE n # 0
      <4>1. n - 1 \in 0 .. m
        BY <3>2
      <4> QED
        BY <4>1, <2>6 DEF After
    <3> QED
      BY <3>1, <3>2
  <2>8. Stretch(v, m + 1, g)
    BY <2>2, <2>7 DEF Stretch
  <2> QED
    BY <2>8
<1> QED
  BY <1>1, <1>2, NatSetInduction

\* So a stretch of commands, too, is an update of the voice's fields.
LEMMA ParseKeeps == ASSUME NEW v PROVE DOMAIN Parse(v).v = DOMAIN v
<1> DEFINE most == MaxCommands + 1
<1>0. most \in Nat
  BY SoundAssumption
<1>1. PICK f : Stretch(v, most, f) /\ Parse(v) = f[most]
  BY <1>0, StretchExists DEF Stretch, After, Parse
<1> HIDE DEF most
<1>2. PICK S : S = {m \in Nat : m <= most => DOMAIN f[m].v = DOMAIN v}
  OBVIOUS
<1>3. \A n \in 0 .. most : f[n] = After(v, f, n)
  BY <1>1 DEF Stretch
<1>4. 0 \in S
  <2>1. f[0] = After(v, f, 0)
    BY <1>0, <1>3
  <2>2. After(v, f, 0) = [v |-> v, go |-> TRUE, end |-> FALSE]
    BY DEF After
  <2> QED
    BY <2>1, <2>2, <1>2
<1>5. ASSUME NEW m \in Nat, m \in S PROVE m + 1 \in S
  <2> SUFFICES ASSUME m + 1 <= most PROVE DOMAIN f[m + 1].v = DOMAIN v
    BY <1>2
  <2>1. DOMAIN f[m].v = DOMAIN v
    BY <1>0, <1>2, <1>5
  <2>2. f[m + 1] = After(v, f, m + 1) /\ m + 1 # 0 /\ (m + 1) - 1 = m
    BY <1>0, <1>3
  <2>3. f[m + 1] = IF f[m].go THEN Command(f[m]) ELSE f[m]
    BY <2>2 DEF After
  <2>4. DOMAIN Command(f[m]).v = DOMAIN f[m].v
    BY MovedKeeps DEF Command
  <2> QED
    BY <2>1, <2>3, <2>4
<1>6. most \in S
  BY <1>0, <1>4, <1>5, NatSetInduction
<1> QED
  BY <1>0, <1>1, <1>2, <1>6

\* And so is the whole tick of a channel.
LEMMA TickedKeeps ==
    ASSUME NEW c, NEW p PROVE DOMAIN Ticked(c, p).v = DOMAIN voice[c]
<1>1. \A w : DOMAIN Flagged(w) = DOMAIN w
  BY DEF Flagged
<1>2. \A w : DOMAIN NextPart(w) = DOMAIN w
  BY DEF NextPart, LoadPart
<1>3. \A w : DOMAIN Raise(w) = DOMAIN w /\ DOMAIN Sink(w) = DOMAIN w
  BY <1>1 DEF Raise, Sink
<1>4. \A w : DOMAIN ChangeVol(w) = DOMAIN w
  BY <1>2, <1>3 DEF ChangeVol
<1>5. \A w : DOMAIN ChangeFrq(w, p) = DOMAIN w
  BY <1>1 DEF ChangeFrq
<1>6. ASSUME NEW w, NEW stop, NEW returns PROVE DOMAIN GetCmd(w, stop, returns).v = DOMAIN w
  <2>1. DOMAIN Faded(w) = DOMAIN w
    BY DEF Faded
  <2>2. DOMAIN Parse([w EXCEPT !.ptr = w.ret]).v = DOMAIN w
    BY ParseKeeps
  <2>3. DOMAIN Parse([w EXCEPT !.delay = Decrement(@)]).v = DOMAIN w
    BY ParseKeeps
  <2> QED
    BY <2>1, <2>2, <2>3 DEF GetCmd
<1> QED
  BY <1>4, <1>5, <1>6 DEF Ticked

\* What the chip plays on the channel is nothing, and the next tick will not
\* change that.
Quiet(c) == IF voice[c].flag = 0 THEN hwVol[c] = 0 ELSE voice[c].vol = 0

QuietInv == /\ active = [c \in Channels |-> active[c]]
            /\ voice = [c \in Channels |-> voice[c]]
            /\ \A c \in Channels : /\ DOMAIN voice[c] = DOMAIN Silent
                                   /\ ~active[c] => Quiet(c)

\* The voice of a channel that has ended is flagged and mute.
LEMMA StoppedMute ==
    ASSUME NEW v
    PROVE  /\ DOMAIN Stopped(v) = DOMAIN Silent
           /\ Stopped(v).flag = 1 /\ Stopped(v).vol = 0
  BY DEF Stopped, Silent

\* What an update of other fields does to a voice.
LEMMA FieldsKept ==
    ASSUME NEW v, DOMAIN v = DOMAIN Silent
    PROVE  /\ v.flag = [v EXCEPT !.delay = 1].flag /\ v.vol = [v EXCEPT !.delay = 1].vol
           /\ [v EXCEPT !.flag = 0].flag = 0
           /\ [v EXCEPT !.env = 0, !.done = FALSE, !.sweep = FALSE, !.flag = 0].flag = 0
           /\ DOMAIN [v EXCEPT !.delay = 1] = DOMAIN Silent
           /\ DOMAIN [v EXCEPT !.flag = 0] = DOMAIN Silent
           /\ DOMAIN [v EXCEPT !.env = 0, !.done = FALSE, !.sweep = FALSE, !.flag = 0] = DOMAIN Silent
  BY DEF Silent

\* A tick pushes what was flagged to the chip, and what it ends it flags.
LEMMA TickQuiet == QuietInv /\ Tick => QuietInv'
<1> SUFFICES ASSUME QuietInv, Tick PROVE QuietInv'
  OBVIOUS
<1>1. hwVol' = [c \in Channels |-> IF voice[c].flag # 0 THEN voice[c].vol ELSE hwVol[c]]
  BY DEF Tick, SetValues
<1>2. PICK pitch \in [Sweeping -> Pitches] :
        \E got \in {[c \in Sounding |-> Ticked(c, IF c \in Sweeping THEN pitch[c] ELSE 0)]} :
         LET ends == {c \in Sounding : got[c].end}
         IN  /\ active' = [c \in Channels |-> active[c] /\ c \notin ends]
             /\ voice' = [c \in Channels |-> IF c \notin Sounding THEN [voice[c] EXCEPT !.flag = 0]
                                             ELSE IF c \in ends THEN Stopped(got[c].v)
                                             ELSE got[c].v]
  BY DEF Tick
<1>3. PICK got \in {[c \in Sounding |-> Ticked(c, IF c \in Sweeping THEN pitch[c] ELSE 0)]} :
         LET ends == {c \in Sounding : got[c].end}
         IN  /\ active' = [c \in Channels |-> active[c] /\ c \notin ends]
             /\ voice' = [c \in Channels |-> IF c \notin Sounding THEN [voice[c] EXCEPT !.flag = 0]
                                             ELSE IF c \in ends THEN Stopped(got[c].v)
                                             ELSE got[c].v]
  BY <1>2
<1> DEFINE ends == {c \in Sounding : got[c].end}
<1>4. ASSUME NEW c \in Channels PROVE DOMAIN voice'[c] = DOMAIN Silent
  <2>1. DOMAIN voice[c] = DOMAIN Silent
    BY DEF QuietInv
  <2>2. CASE c \notin Sounding
    <3>1. voice'[c] = [voice[c] EXCEPT !.flag = 0]
      BY <1>3, <2>2
    <3> QED
      BY <3>1, <2>1, FieldsKept
  <2>3. CASE c \in Sounding
    <3>1. DOMAIN got[c].v = DOMAIN voice[c]
      BY <2>3, TickedKeeps
    <3>2. voice'[c] = IF c \in ends THEN Stopped(got[c].v) ELSE got[c].v
      BY <1>3, <2>3
    <3> QED
      BY <2>1, <3>1, <3>2, StoppedMute
  <2> QED
    BY <2>2, <2>3
<1>5. ASSUME NEW c \in Channels, ~active'[c] PROVE Quiet(c)'
  <2>1. CASE c \notin Sounding
    <3>1. Quiet(c)
      BY <2>1 DEF Sounding, QuietInv
    <3>2. hwVol'[c] = 0
      BY <3>1, <1>1 DEF Quiet
    <3>3. voice'[c] = [voice[c] EXCEPT !.flag = 0]
      BY <1>3, <2>1
    <3>4. voice'[c].flag = 0
      BY <3>3, FieldsKept DEF QuietInv
    <3> QED
      BY <3>2, <3>4 DEF Quiet
  <2>2. CASE c \in Sounding
    <3>1. c \in ends
      BY <2>2, <1>3, <1>5 DEF Sounding
    <3>2. voice'[c] = Stopped(got[c].v)
      BY <3>1, <2>2, <1>3
    <3> QED
      BY <3>2, StoppedMute DEF Quiet
  <2> QED
    BY <2>1, <2>2
<1>6. active' = [c \in Channels |-> active'[c]] /\ voice' = [c \in Channels |-> voice'[c]]
  BY <1>3
<1> QED
  BY <1>4, <1>5, <1>6 DEF QuietInv

\* A new delay leaves flag and volume alone.
LEMMA HurryQuiet == QuietInv /\ Hurry => QuietInv'
<1> SUFFICES ASSUME QuietInv, Hurry PROVE QuietInv'
  OBVIOUS
<1>1. voice' = [voice EXCEPT ![call.chan].delay = 1] /\ UNCHANGED <<active, hwVol>>
  BY DEF Hurry
<1>2. ASSUME NEW c \in Channels
      PROVE  voice'[c] = IF c = call.chan THEN [voice[c] EXCEPT !.delay = 1] ELSE voice[c]
  BY <1>1 DEF QuietInv
<1>3. ASSUME NEW c \in Channels
      PROVE  /\ DOMAIN voice'[c] = DOMAIN Silent
             /\ voice'[c].flag = voice[c].flag /\ voice'[c].vol = voice[c].vol
  BY <1>2, FieldsKept DEF QuietInv
<1>4. voice' = [c \in Channels |-> voice'[c]]
  BY <1>1 DEF QuietInv
<1> QED
  BY <1>1, <1>3, <1>4 DEF QuietInv, Quiet

\* A new stream makes the channel sound.
LEMMA StartQuiet == QuietInv /\ Start => QuietInv'
<1> SUFFICES ASSUME QuietInv, Start PROVE QuietInv'
  OBVIOUS
<1> DEFINE k == call.chan
<1>1. /\ active' = [active EXCEPT ![k] = TRUE]
      /\ UNCHANGED hwVol
      /\ voice' = [voice EXCEPT ![k].ptr = call.start, ![k].delay = 1, ![k].env = 0,
                                ![k].done = FALSE, ![k].sweep = FALSE]
  BY DEF Start
<1>2. ASSUME NEW c \in Channels, ~active'[c] PROVE Quiet(c)'
  <2>1. c # k /\ ~active[c]
    BY <1>1, <1>2 DEF QuietInv
  <2>2. voice'[c] = voice[c]
    BY <2>1, <1>1 DEF QuietInv
  <2> QED
    BY <2>1, <2>2, <1>1 DEF QuietInv, Quiet
<1>3. ASSUME NEW c \in Channels PROVE DOMAIN voice'[c] = DOMAIN voice[c]
  BY <1>1 DEF QuietInv
<1>4. voice' = [c \in Channels |-> voice'[c]] /\ active' = [c \in Channels |-> active'[c]]
  BY <1>1 DEF QuietInv
<1> QED
  BY <1>2, <1>3, <1>4 DEF QuietInv

\* snd_init silences the chip and unflags all voices.
LEMMA ReinitQuiet == QuietInv /\ Reinit => QuietInv'
<1> SUFFICES ASSUME QuietInv, Reinit PROVE QuietInv'
  OBVIOUS
<1>1. /\ active' = [c \in Channels |-> FALSE]
      /\ hwVol' = [c \in Channels |-> 0]
      /\ voice' = [c \in Channels |-> [voice[c] EXCEPT !.env = 0, !.done = FALSE,
                                                      !.sweep = FALSE, !.flag = 0]]
  BY DEF Reinit
<1>2. ASSUME NEW c \in Channels
      PROVE  DOMAIN voice'[c] = DOMAIN Silent /\ voice'[c].flag = 0 /\ hwVol'[c] = 0
  BY <1>1, FieldsKept DEF QuietInv
<1>3. active' = [c \in Channels |-> active'[c]] /\ voice' = [c \in Channels |-> voice'[c]]
  BY <1>1
<1> QED
  BY <1>2, <1>3 DEF QuietInv, Quiet

LEMMA QuietStep == QuietInv /\ [Next]_vars => QuietInv'
<1> SUFFICES ASSUME QuietInv, [Next]_vars PROVE QuietInv'
  OBVIOUS
<1>1. CASE UNCHANGED <<active, voice, hwVol>>
  BY <1>1 DEF QuietInv, Quiet
<1>2. CASE Request \/ WaitOver \/ Stop \/ Pause \/ Continue \/ UNCHANGED vars
  BY <1>1, <1>2 DEF Request, WaitOver, Stop, Pause, Continue, vars, engine
<1>3. ASSUME NEW c \in Channels, StopChannel(c) PROVE QuietInv'
  BY <1>1, <1>3 DEF StopChannel, engine
<1>4. ASSUME NEW c \in Channels, NEW a \in Streams, Play(c, a) PROVE QuietInv'
  BY <1>1, <1>4 DEF Play, engine
<1> QED
  BY <1>2, <1>3, <1>4, TickQuiet, HurryQuiet, StartQuiet, ReinitQuiet DEF Next

\* However its stream ended - at its end, by a fade, stopped in any of the
\* three ways, or by a second snd_init - a channel that does not sound is
\* silent on the chip, or will be with the next tick.
THEOREM NoNoteHangs == Spec => []Silenced
<1>1. Init => QuietInv
  BY DEF Init, QuietInv, Quiet, Silent
<1>2. QuietInv => Silenced
  BY DEF QuietInv, Quiet, Silenced
<1> QED
  BY <1>1, QuietStep, <1>2, PTL DEF Spec
=============================================================================
