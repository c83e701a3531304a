---------------------------------- MODULE Irq ----------------------------------
(***************************************************************************)
(* Interrupt dispatch: IRQStub of src/runtime/lynx, callirq of             *)
(* src/runtime/rt, which calls the interruptors of the linked modules, and *)
(* the two interruptors that matter for the order of things: update_clock, *)
(* which counts vertical blanks, and snd_handler, which runs the sound     *)
(* engine with interrupts enabled and so is interrupted by the next pass.  *)
(*                                                                         *)
(* stack has one frame for each activation of IRQStub, the running one     *)
(* last.  A call of an interruptor is one step, because interrupts are     *)
(* off, but for the engine's body.  The main program is idle: it neither   *)
(* reads nor writes this state.                                            *)
(***************************************************************************)
EXTENDS Integers, Sequences, SequencesExt

CONSTANTS Table,     \* the interruptors in the order callirq calls them
          MaxVbl     \* bound: how many vertical blanks occur

Handlers == {"gfx_vbl_irq", "snd_handler", "update_clock", "clevel_irq"}
PollVbl  == {"gfx_vbl_irq", "update_clock"}

ASSUME IrqAssumption == /\ Table \in Seq(Handlers)
                        /\ Len(Table) > 0 /\ IsInjective(Table)
                        /\ MaxVbl \in Nat

\* The priorities of the .interruptor declarations, 7 if none is given.
Priority == [gfx_vbl_irq |-> 7, snd_handler |-> 7, update_clock |-> 2, clevel_irq |-> 1]

\* The linker sorts the table by priority (ConDesCompare in ld65/condes.c) and
\* callirq walks it from the end.
ASSUME SortedAssumption ==
    \A i, j \in DOMAIN Table : i < j => Priority[Table[i]] >= Priority[Table[j]]

VARIABLES intset,    \* the pending bits of INTSET
          stack,     \* activations: where each is and how many calls it has left
          index,     \* the operand callirq patches at index: calls left after this one
          sema,      \* SndSema
          clock,     \* clock_count
          nvbl,      \* vertical blanks so far
          seen,      \* interruptors that saw the pending vertical blank
          late       \* it arrived with interrupts disabled

ghosts == <<nvbl, seen, late>>
vars == <<intset, stack, index, sema, clock, ghosts>>

Count == Len(Table)

Init == /\ intset = {}
        /\ stack = <<>>
        /\ index = Count
        /\ sema = FALSE
        /\ clock = 0
        /\ nvbl = 0 /\ seen = {} /\ late = FALSE

Top == Last(stack)
Running(at) == stack # <<>> /\ Top.at = at
Continue(frame) == stack' = Front(stack) \o <<frame>>

\* Interrupts are enabled in the main program and in the engine's body.
Enabled == stack = <<>> \/ Running("engine")

-----------------------------------------------------------------------------
(* Timers.  A frame is longer than any pass: a vertical blank is never     *)
(* raised on top of one that still is pending.                             *)

Vbl == /\ "VBL" \notin intset /\ nvbl < MaxVbl
       /\ intset' = intset \cup {"VBL"}
       /\ nvbl' = nvbl + 1
       /\ seen' = {}
       /\ late' = ~Enabled
       /\ UNCHANGED <<stack, index, sema, clock>>

Tick == /\ \E bit \in {"SND", "TIMER"} \ intset : intset' = intset \cup {bit}
        /\ UNCHANGED <<stack, index, sema, clock, ghosts>>

-----------------------------------------------------------------------------
(* IRQStub and callirq. *)

Enter == /\ Enabled /\ intset # {}
         /\ stack' = stack \o <<[at |-> "callirq", y |-> Count]>>
         /\ UNCHANGED <<intset, index, sema, clock, ghosts>>

\* The interruptor the pass comes to next.
Next1 == Table[Count - Top.y + 1]

\* Behind a call callirq goes on with the index it patched, unless the
\* interruptor returned carry set.
Return(left) == Continue([at |-> IF left = 0 THEN "ack" ELSE "callirq", y |-> left])

Called(h) == Running("callirq") /\ Next1 = h

UpdateClock == /\ Called("update_clock")
               /\ clock' = IF "VBL" \in intset THEN clock + 1 ELSE clock
               /\ seen' = IF "VBL" \in intset THEN seen \cup {"update_clock"} ELSE seen
               /\ index' = Top.y - 1
               /\ Return(index')
               /\ UNCHANGED <<intset, sema, nvbl, late>>

GfxVblIrq == /\ Called("gfx_vbl_irq")
             /\ seen' = IF "VBL" \in intset THEN seen \cup {"gfx_vbl_irq"} ELSE seen
             /\ index' = Top.y - 1
             /\ Return(index')
             /\ UNCHANGED <<intset, sema, clock, nvbl, late>>

\* The C handler may claim the interrupt, which ends the pass.
ClevelIrq == /\ Called("clevel_irq")
             /\ index' = Top.y - 1
             /\ Return(index') \/ Return(0)
             /\ UNCHANGED <<intset, sema, clock, ghosts>>

\* Mutant: the interrupt is claimed while the engine is busy.
SndTurnedAwayClaims == /\ "SND" \notin intset \/ sema
                       /\ Return(IF sema THEN 0 ELSE Top.y - 1)
                       /\ UNCHANGED sema

\* No sound interrupt, or the engine is busy in the pass this one interrupted.
SndTurnedAway == /\ "SND" \notin intset \/ sema
                 /\ Return(Top.y - 1)
                 /\ UNCHANGED sema

\* Mutant: the engine starts whoever is in it.
SndStartAnyway == /\ "SND" \in intset
                  /\ sema' = TRUE
                  /\ Continue([at |-> "engine", y |-> Top.y])

SndStart == /\ "SND" \in intset /\ ~sema
            /\ sema' = TRUE
            /\ Continue([at |-> "engine", y |-> Top.y])

SndHandler == /\ Called("snd_handler")
              /\ SndTurnedAway \/ SndStart
              /\ index' = Top.y - 1
              /\ UNCHANGED <<intset, clock, ghosts>>

\* Mutant: SndSema stays set.
SndEndLocked == /\ Running("engine") /\ intset = {}
                /\ Return(index)
                /\ UNCHANGED <<intset, index, sema, clock, ghosts>>

\* The body ends when nothing is pending that would interrupt it first.  The
\* pass goes on with index, which the passes in between have patched.
SndEnd == /\ Running("engine") /\ intset = {}
          /\ sema' = FALSE
          /\ Return(index)
          /\ UNCHANGED <<intset, index, clock, ghosts>>

\* Mutant: only the sound interrupt is acknowledged.
AckSoundOnly == /\ Running("ack")
                /\ intset' = intset \ {"SND"}
                /\ stack' = Front(stack)
                /\ UNCHANGED <<index, sema, clock, ghosts>>

\* IRQStub clears every bit that is pending by now.
Ack == /\ Running("ack")
       /\ intset' = {}
       /\ stack' = Front(stack)
       /\ UNCHANGED <<index, sema, clock, ghosts>>

Pass == UpdateClock \/ GfxVblIrq \/ ClevelIrq \/ SndHandler \/ Ack

Next == Vbl \/ Tick \/ Enter \/ Pass \/ SndEnd

Spec == Init /\ [][Next]_vars

\* A pass runs on, a pending interrupt is taken, and the engine's body gets
\* its share of the processor between interrupts.
Fairness == WF_vars(Enter) /\ WF_vars(Pass) /\ SF_vars(SndEnd)

FairSpec == Spec /\ Fairness

-----------------------------------------------------------------------------
\* The stack of a program is sized for one pass within another: however the
\* timers fire, the handlers never nest deeper, and the engine is entered
\* once at a time.
NestsOnce == /\ Len(stack) <= 2
             /\ sema = \E i \in DOMAIN stack : stack[i].at = "engine"

\* A vertical blank that arrived with interrupts enabled is seen by every
\* interruptor before it is acknowledged, although a pass interrupted in the
\* engine skips the rest of the table: the pass in between leaves index at
\* its end.
LostOnlyLate ==
    [][ "VBL" \in intset /\ "VBL" \notin intset'
            => late \/ PollVbl \cap ToSet(Table) \subseteq seen ]_vars

\* No vertical blank is counted twice, by the interrupted pass and by the
\* one in between, which both find its bit set.
CountedOnce == [][clock' # clock => "update_clock" \notin seen]_vars

\* The engine always comes free again, so that the next sound interrupt
\* advances the music.
EngineComesFree == sema ~> ~sema

\* Every vertical blank is counted by the time it is acknowledged: clock.s
\* says that the handler increments a counter at every vertical-blanking time.
EveryVblCounted ==
    [][ "VBL" \in intset /\ "VBL" \notin intset' => "update_clock" \in seen ]_vars
=============================================================================
