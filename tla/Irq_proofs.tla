------------------------------- MODULE Irq_proofs -------------------------------
(***************************************************************************)
(* Interrupt passes nest once, and a vertical blank that is raised while   *)
(* interrupts are enabled is seen by every interruptor and counted once,   *)
(* for any table the linker sorts by priority and any number of blanks.    *)
(***************************************************************************)
EXTENDS Irq, SequenceTheorems, TLAPS

Frame == [at : {"callirq", "engine", "ack"}, y : 0 .. Count]

Types ==
    /\ intset \subseteq {"VBL", "SND", "TIMER"}
    /\ stack \in Seq(Frame)
    /\ index \in 0 .. Count
    /\ sema \in BOOLEAN
    /\ seen \subseteq PollVbl
    /\ late \in BOOLEAN

\* Only the engine is interrupted, and it does not run in the pass on top.
Nesting ==
    /\ NestsOnce
    /\ \A i \in DOMAIN stack : stack[i].at = "callirq" => stack[i].y > 0
    /\ Len(stack) = 2 => stack[1].at = "engine" /\ stack[2].at # "engine"

\* A vertical blank that interrupts were enabled for: either no pass has begun
\* since, or the pass on top has shown it to every interruptor it has called.
Shown(n) == \A i \in 1 .. n : Table[i] \in PollVbl => Table[i] \in seen
ShownInv ==
    "VBL" \in intset /\ ~late =>
        \/ Enabled
        \/ Running("callirq") /\ Shown(Count - Top.y)
        \/ Running("ack") /\ Shown(Count)

\* Once the clock has seen it, the pass on top comes to an end without calling
\* the clock again or starting the engine.
OnceInv ==
    "VBL" \in intset /\ "update_clock" \in seen =>
        \/ Running("ack")
        \/ /\ Running("callirq")
           /\ \A i \in Count - Top.y + 1 .. Count : Table[i] \notin {"update_clock", "snd_handler"}

IInv == Types /\ Nesting /\ ShownInv /\ OnceInv

-----------------------------------------------------------------------------
(* Facts about the table and the stack.                                    *)

LEMMA TableFacts ==
    /\ Count \in Nat \ {0}
    /\ DOMAIN Table = 1 .. Count
    /\ \A i \in 1 .. Count : Table[i] \in Handlers
    /\ \A i, j \in 1 .. Count : i < j => /\ Table[i] # Table[j]
                                         /\ Table[i] = "clevel_irq" => Table[j] \notin PollVbl
                                         /\ Table[i] = "update_clock" => Table[j] # "snd_handler"
<1>1. Table \in Seq(Handlers) /\ Len(Table) > 0
  BY IrqAssumption
<1>2. Count \in Nat \ {0} /\ DOMAIN Table = 1 .. Count
  BY <1>1, LenProperties DEF Count
<1>3. \A i \in 1 .. Count : Table[i] \in Handlers
  BY <1>1, <1>2, ElementOfSeq DEF Count
<1>4. ASSUME NEW i \in 1 .. Count, NEW j \in 1 .. Count, i < j
      PROVE  /\ Table[i] # Table[j]
             /\ Table[i] = "clevel_irq" => Table[j] \notin PollVbl
             /\ Table[i] = "update_clock" => Table[j] # "snd_handler"
  <2>1. Table[i] # Table[j]
    BY <1>2, <1>4, IrqAssumption DEF IsInjective
  <2>2. Priority[Table[i]] >= Priority[Table[j]]
    BY <1>2, <1>4, SortedAssumption
  <2> QED
    BY <2>1, <2>2 DEF Priority, PollVbl
<1> QED
  BY <1>2, <1>3, <1>4

\* A pass goes on: only the frame on top changes.
LEMMA ContinueFacts ==
    ASSUME Types, stack # <<>>, NEW f \in Frame, Continue(f)
    PROVE  /\ stack' \in Seq(Frame) /\ Len(stack') = Len(stack)
           /\ Len(stack) \in Nat /\ Len(stack) > 0
           /\ stack' # <<>> /\ Top' = f
           /\ DOMAIN stack = 1 .. Len(stack) /\ DOMAIN stack' = 1 .. Len(stack)
           /\ \A i \in 1 .. Len(stack) : stack'[i] = IF i = Len(stack) THEN f ELSE stack[i]
<1> DEFINE q == <<f>>
           p == Front(stack)
           n == Len(stack)
<1>1. n \in Nat /\ n > 0
  BY EmptySeq, LenProperties DEF Types
<1>2. DOMAIN stack = 1 .. n
  BY LenProperties DEF Types
<1>3. p \in Seq(Frame) /\ Len(p) = n - 1 /\ \A i \in 1 .. n - 1 : p[i] = stack[i]
  BY <1>1, <1>2, SubSeqProperties DEF Front, Types
<1>4. q \in Seq(Frame) /\ Len(q) = 1 /\ q[1] = f
  OBVIOUS
<1>5. stack' = p \o q
  BY DEF Continue
<1> HIDE DEF p, q, n
<1>6. stack' \in Seq(Frame) /\ Len(stack') = Len(p) + Len(q)
  BY <1>3, <1>4, <1>5, ConcatProperties
<1>7. \A i \in 1 .. Len(p) + Len(q) : stack'[i] = IF i <= Len(p) THEN p[i] ELSE q[i - Len(p)]
  BY <1>3, <1>4, <1>5, ConcatProperties
<1>8. \A i \in 1 .. n : stack'[i] = IF i = n THEN f ELSE stack[i]
  BY <1>1, <1>3, <1>4, <1>7
<1>9. Len(stack') = n
  BY <1>1, <1>3, <1>4, <1>6
<1>10. DOMAIN stack' = 1 .. n
  BY <1>6, <1>9, LenProperties
<1>11. stack' # <<>>
  BY <1>1, <1>9, EmptySeq
<1>12. Top' = stack'[n]
  BY <1>9 DEF Top, Last
<1>13. Top' = f
  BY <1>1, <1>8, <1>12
<1> QED
  BY <1>1, <1>2, <1>6, <1>8, <1>9, <1>10, <1>11, <1>13 DEF n

\* The length of the stack and the semaphore tell the same.
LEMMA SemaFacts ==
    ASSUME Types, Nesting, stack # <<>>
    PROVE  /\ Len(stack) \in {1, 2} /\ DOMAIN stack = 1 .. Len(stack)
           /\ Top = stack[Len(stack)] /\ Top \in Frame
           /\ Running("engine") => Len(stack) = 1 /\ sema
           /\ ~Running("engine") => (sema <=> Len(stack) = 2)
<1>1. Len(stack) \in Nat /\ Len(stack) > 0
  BY EmptySeq, LenProperties DEF Types
<1>2. Len(stack) \in {1, 2}
  <2> DEFINE n == Len(stack)
  <2>1. n <= 2
    BY DEF Nesting, NestsOnce
  <2>2. n \in Nat /\ n > 0
    BY <1>1
  <2> HIDE DEF n
  <2>3. n = 1 \/ n = 2
    BY <2>1, <2>2
  <2> QED
    BY <2>3 DEF n
<1>3. DOMAIN stack = 1 .. Len(stack)
  BY LenProperties DEF Types
<1>4. Top = stack[Len(stack)]
  BY DEF Top, Last
<1>5. Top \in Frame
  BY <1>2, <1>4, ElementOfSeq DEF Types
<1>6. CASE Len(stack) = 1
  <2>1. DOMAIN stack = {1}
    BY <1>3, <1>6
  <2>2. sema = \E i \in DOMAIN stack : stack[i].at = "engine"
    BY DEF Nesting, NestsOnce
  <2>3. sema <=> Top.at = "engine"
    BY <1>4, <1>6, <2>1, <2>2
  <2>4. Running("engine") <=> Top.at = "engine"
    BY DEF Running
  <2>5. Len(stack) # 2
    BY <1>6
  <2> QED
    BY <1>2, <1>3, <1>4, <1>5, <1>6, <2>3, <2>4, <2>5
<1>7. CASE Len(stack) = 2
  <2>1. 1 \in DOMAIN stack
    BY <1>3, <1>7
  <2>2. stack[1].at = "engine" /\ Top.at # "engine"
    BY <1>4, <1>7 DEF Nesting
  <2>3. sema = \E i \in DOMAIN stack : stack[i].at = "engine"
    BY DEF Nesting, NestsOnce
  <2>4. sema
    BY <2>1, <2>2, <2>3
  <2>5. ~Running("engine")
    BY <2>2 DEF Running
  <2> QED
    BY <1>2, <1>3, <1>4, <1>5, <1>7, <2>4, <2>5
<1> QED
  BY <1>2, <1>6, <1>7

\* The pass on top goes on to f.
LEMMA NestingStep ==
    ASSUME Types, Nesting, stack # <<>>, NEW f \in Frame, Continue(f),
           f.at = "callirq" => f.y > 0,
           f.at = "engine" => Len(stack) = 1,
           sema' \in BOOLEAN, sema' <=> f.at = "engine" \/ Len(stack) = 2
    PROVE  Nesting'
<1>1. /\ Len(stack) \in {1, 2} /\ DOMAIN stack = 1 .. Len(stack)
      /\ Len(stack) = 2 => stack[1].at = "engine"
      /\ \A i \in DOMAIN stack : stack[i].at = "callirq" => stack[i].y > 0
  BY SemaFacts DEF Nesting
<1>2. /\ Len(stack') = Len(stack) /\ DOMAIN stack' = 1 .. Len(stack)
      /\ \A i \in 1 .. Len(stack) : stack'[i] = IF i = Len(stack) THEN f ELSE stack[i]
  BY ContinueFacts
<1>3. CASE Len(stack) = 1
  <2>1. DOMAIN stack' = {1} /\ stack'[1] = f
    BY <1>2, <1>3
  <2>2. sema' <=> \E i \in DOMAIN stack' : stack'[i].at = "engine"
    BY <1>3, <2>1
  <2>3. sema' = \E i \in DOMAIN stack' : stack'[i].at = "engine"
    BY <2>2
  <2>4. Len(stack') <= 2 /\ ~(Len(stack') = 2)
    BY <1>2, <1>3
  <2> QED
    BY <2>1, <2>3, <2>4 DEF Nesting, NestsOnce
<1>4. CASE Len(stack) = 2
  <2>1. DOMAIN stack' = {1, 2} /\ stack'[1] = stack[1] /\ stack'[2] = f
    BY <1>2, <1>4
  <2>2. stack[1].at = "engine" /\ f.at # "engine"
    BY <1>1, <1>4
  <2>3. sema'
    BY <1>4
  <2>4. \E i \in DOMAIN stack' : stack'[i].at = "engine"
    BY <2>1, <2>2
  <2>5. sema' = \E i \in DOMAIN stack' : stack'[i].at = "engine"
    BY <2>3, <2>4
  <2>6. Len(stack') <= 2
    BY <1>2, <1>4
  <2> QED
    BY <2>1, <2>2, <2>5, <2>6 DEF Nesting, NestsOnce
<1> QED
  BY <1>1, <1>3, <1>4

\* What an interruptor is called with.
LEMMA CalledFacts ==
    ASSUME IInv, NEW h, Called(h)
    PROVE  /\ stack # <<>> /\ Top.y \in 1 .. Count /\ Count - Top.y + 1 \in 1 .. Count
           /\ Table[Count - Top.y + 1] = h
           /\ Top.at = "callirq" /\ (sema <=> Len(stack) = 2) /\ Len(stack) \in {1, 2}
           /\ ~Enabled /\ ~Running("ack")
           /\ "VBL" \in intset /\ ~late => Shown(Count - Top.y)
           /\ "VBL" \in intset /\ "update_clock" \in seen =>
                 \A i \in Count - Top.y + 1 .. Count : Table[i] \notin {"update_clock", "snd_handler"}
<1>1. stack # <<>> /\ Top.at = "callirq" /\ Table[Count - Top.y + 1] = h
  BY DEF Called, Running, Next1
<1>2. ~Running("engine") /\ ~Running("ack") /\ ~Enabled
  BY <1>1 DEF Running, Enabled
<1>3. /\ Len(stack) \in {1, 2} /\ DOMAIN stack = 1 .. Len(stack) /\ Top = stack[Len(stack)]
      /\ Top \in Frame /\ (sema <=> Len(stack) = 2)
  BY <1>1, <1>2, SemaFacts DEF IInv
<1>4. Top.y > 0
  BY <1>1, <1>3 DEF IInv, Nesting
<1>5. Top.y \in 1 .. Count /\ Count - Top.y + 1 \in 1 .. Count
  BY <1>3, <1>4, TableFacts DEF Frame
<1> QED
  BY <1>1, <1>2, <1>3, <1>5 DEF IInv, ShownInv, OnceInv

-----------------------------------------------------------------------------
(* Every step preserves the invariant.                                     *)

LEMMA InitIInv == Init => IInv
<1> SUFFICES ASSUME Init PROVE IInv
  OBVIOUS
<1>1. Types
  <2>1. stack \in Seq(Frame)
    BY DEF Init
  <2>2. index \in 0 .. Count
    BY TableFacts DEF Init
  <2> QED
    BY <2>1, <2>2 DEF Init, Types
<1>2. Nesting
  <2>1. Len(stack) = 0 /\ DOMAIN stack = {} /\ sema = FALSE
    BY DEF Init
  <2>2. ~\E i \in DOMAIN stack : stack[i].at = "engine"
    BY <2>1
  <2>3. sema = \E i \in DOMAIN stack : stack[i].at = "engine"
    BY <2>1, <2>2
  <2>4. Len(stack) <= 2 /\ Len(stack) # 2
    BY <2>1
  <2> QED
    BY <2>1, <2>3, <2>4 DEF Nesting, NestsOnce
<1>3. ShownInv /\ OnceInv
  BY DEF Init, ShownInv, OnceInv
<1> QED
  BY <1>1, <1>2, <1>3 DEF IInv

\* With the stack and the semaphore as they are nothing changes about passes.
LEMMA SameStack ==
    ASSUME Nesting, UNCHANGED <<stack, sema>>
    PROVE  /\ Nesting' /\ Enabled' = Enabled /\ Top' = Top
           /\ \A at : Running(at)' = Running(at)
<1>1. Nesting'
  BY DEF Nesting, NestsOnce
<1> QED
  BY <1>1 DEF Enabled, Running, Top, Last

LEMMA VblStep == IInv /\ Vbl => IInv'
<1> SUFFICES ASSUME IInv, Vbl PROVE IInv'
  OBVIOUS
<1>1. Nesting' /\ Enabled' = Enabled
  BY SameStack DEF IInv, Vbl
<1>2. Types'
  BY DEF IInv, Types, Vbl, Enabled
<1>3. ShownInv'
  BY <1>1 DEF ShownInv, Vbl
<1>4. OnceInv'
  BY DEF OnceInv, Vbl
<1> QED
  BY <1>1, <1>2, <1>3, <1>4 DEF IInv

LEMMA TickStep == IInv /\ Tick => IInv'
<1> SUFFICES ASSUME IInv, Tick PROVE IInv'
  OBVIOUS
<1>1. /\ Nesting' /\ Enabled' = Enabled /\ Top' = Top
      /\ \A at : Running(at)' = Running(at)
  BY SameStack DEF IInv, Tick
<1>2. "VBL" \in intset' <=> "VBL" \in intset
  BY DEF Tick
<1>3. Types'
  BY DEF IInv, Types, Tick, ghosts
<1>4. seen' = seen /\ late' = late
  BY DEF Tick, ghosts
<1>5. ShownInv'
  BY <1>1, <1>2, <1>4 DEF IInv, ShownInv, Shown
<1>6. OnceInv'
  BY <1>1, <1>2, <1>4 DEF IInv, OnceInv
<1> QED
  BY <1>1, <1>3, <1>5, <1>6 DEF IInv

\* The pass that begins has called nobody yet.
LEMMA EnterStep == IInv /\ Enter => IInv'
<1> SUFFICES ASSUME IInv, Enter PROVE IInv'
  OBVIOUS
<1> DEFINE f == [at |-> "callirq", y |-> Count]
           q == <<f>>
<1>1. f \in Frame /\ f.at = "callirq" /\ f.y = Count /\ Count \in Nat /\ Count > 0
  BY TableFacts DEF Frame
<1>2. q \in Seq(Frame) /\ Len(q) = 1 /\ q[1] = f
  BY <1>1
<1>3. stack' = stack \o q /\ UNCHANGED <<intset, index, sema, clock, nvbl, seen, late>>
  BY DEF Enter, ghosts
<1>4. stack \in Seq(Frame) /\ Len(stack) \in {0, 1}
      /\ (Len(stack) = 1 => stack[1].at = "engine" /\ sema) /\ (Len(stack) = 0 => ~sema)
  <2>1. CASE stack = <<>>
    <3>1. Len(stack) = 0 /\ DOMAIN stack = {}
      BY <2>1
    <3>2. sema = \E i \in DOMAIN stack : stack[i].at = "engine"
      BY DEF IInv, Nesting, NestsOnce
    <3> QED
      BY <3>1, <3>2 DEF IInv, Types
  <2>2. CASE stack # <<>>
    <3>1. Running("engine")
      BY <2>2 DEF Enter, Enabled
    <3>2. Len(stack) = 1 /\ sema /\ Top = stack[Len(stack)]
      BY <2>2, <3>1, SemaFacts DEF IInv
    <3> QED
      BY <3>1, <3>2 DEF IInv, Types, Running
  <2> QED
    BY <2>1, <2>2
<1> HIDE DEF f, q
<1>5. stack' \in Seq(Frame) /\ Len(stack') = Len(stack) + 1
  BY <1>2, <1>3, <1>4, ConcatProperties
<1>6. \A i \in 1 .. Len(stack) + Len(q) : stack'[i] = IF i <= Len(stack) THEN stack[i] ELSE q[i - Len(stack)]
  BY <1>2, <1>3, <1>4, ConcatProperties
<1>7. DOMAIN stack' = 1 .. Len(stack')
  BY <1>5, LenProperties
<1>8. Top' = stack'[Len(stack')]
  BY DEF Top, Last
<1>9. Nesting' /\ stack' # <<>> /\ Top' = f
  <2>1. CASE Len(stack) = 0
    <3>1. Len(stack') = 1 /\ DOMAIN stack' = {1}
      BY <1>5, <1>7, <2>1
    <3>2. stack'[1] = f
      BY <1>2, <1>6, <2>1
    <3>3. ~\E i \in DOMAIN stack' : stack'[i].at = "engine"
      BY <1>1, <3>1, <3>2
    <3>4. sema' = \E i \in DOMAIN stack' : stack'[i].at = "engine"
      BY <1>3, <1>4, <2>1, <3>3 DEF IInv, Types
    <3>5. \A i \in DOMAIN stack' : stack'[i].at = "callirq" => stack'[i].y > 0
      BY <1>1, <3>1, <3>2
    <3>6. Len(stack') <= 2 /\ Len(stack') # 2
      BY <3>1
    <3> QED
      BY <1>8, <3>1, <3>2, <3>4, <3>5, <3>6 DEF Nesting, NestsOnce
  <2>2. CASE Len(stack) = 1
    <3>1. Len(stack') = 2 /\ DOMAIN stack' = {1, 2}
      BY <1>5, <1>7, <2>2
    <3>2. stack'[1] = stack[1] /\ stack'[2] = f
      BY <1>2, <1>6, <2>2
    <3>3. \E i \in DOMAIN stack' : stack'[i].at = "engine"
      BY <1>4, <2>2, <3>1, <3>2
    <3>4. sema' = \E i \in DOMAIN stack' : stack'[i].at = "engine"
      BY <1>3, <1>4, <2>2, <3>3 DEF IInv, Types
    <3>5. \A i \in DOMAIN stack' : stack'[i].at = "callirq" => stack'[i].y > 0
      BY <1>1, <1>4, <2>2, <3>1, <3>2
    <3>6. Len(stack') <= 2 /\ stack'[1].at = "engine" /\ stack'[2].at # "engine"
      BY <1>1, <1>4, <2>2, <3>1, <3>2
    <3> QED
      BY <1>8, <3>1, <3>2, <3>4, <3>5, <3>6 DEF Nesting, NestsOnce
  <2> QED
    BY <1>4, <2>1, <2>2
<1>10. Types'
  BY <1>3, <1>5 DEF IInv, Types
<1>11. Running("callirq")' /\ Top'.y = Count
  BY <1>1, <1>9 DEF Running
<1>12. ShownInv'
  BY <1>1, <1>11 DEF ShownInv, Shown
<1>13. "VBL" \in intset => "update_clock" \notin seen
  BY DEF IInv, OnceInv, Enter, Enabled, Running
<1>14. OnceInv'
  BY <1>3, <1>13 DEF OnceInv
<1> QED
  BY <1>9, <1>10, <1>12, <1>14 DEF IInv

\* An interruptor returns: with carry clear the pass goes on behind it, and
\* only the C handler, behind which nobody polls, may end the pass.
LEMMA ReturnStep ==
    ASSUME IInv, NEW h, Called(h), NEW left \in {Top.y - 1, 0}, Return(left),
           index' = Top.y - 1, UNCHANGED <<intset, sema, late>>,
           left # Top.y - 1 => h = "clevel_irq",
           seen \subseteq seen', seen' \subseteq PollVbl,
           "VBL" \in intset /\ h \in PollVbl => h \in seen',
           "update_clock" \in seen' => "update_clock" \in seen \/ h = "update_clock"
    PROVE  IInv'
<1> DEFINE k == Count - Top.y + 1
           f == [at |-> IF left = 0 THEN "ack" ELSE "callirq", y |-> left]
<1>1. /\ stack # <<>> /\ Top.y \in 1 .. Count /\ k \in 1 .. Count /\ Table[k] = h
      /\ (sema <=> Len(stack) = 2) /\ Len(stack) \in {1, 2} /\ ~Enabled /\ ~Running("ack")
  BY CalledFacts
<1>2. Count \in Nat /\ left \in 0 .. Count /\ Top.y - 1 \in 0 .. Count
  BY <1>1, TableFacts
<1>3. f \in Frame /\ f.y = left /\ f.at = IF left = 0 THEN "ack" ELSE "callirq"
  BY <1>2 DEF Frame
<1>4. Continue(f)
  BY DEF Return
<1> HIDE DEF f
<1>5. /\ stack' \in Seq(Frame) /\ stack' # <<>> /\ Top' = f
  BY <1>1, <1>3, <1>4, ContinueFacts DEF IInv
<1>6. Types'
  BY <1>2, <1>5 DEF IInv, Types
<1>7. Nesting'
  <2>1. sema' \in BOOLEAN /\ (sema' <=> f.at = "engine" \/ Len(stack) = 2)
    BY <1>1, <1>3 DEF IInv, Types
  <2>2. (f.at = "callirq" => f.y > 0) /\ f.at # "engine"
    BY <1>2, <1>3
  <2> QED
    BY <1>1, <1>3, <1>4, <2>1, <2>2, NestingStep DEF IInv
<1>8. ShownInv'
  <2> SUFFICES ASSUME "VBL" \in intset, ~late
               PROVE  \/ Running("callirq")' /\ Shown(Count - Top.y)'
                      \/ Running("ack")' /\ Shown(Count)'
    BY DEF ShownInv
  <2>1. \A i \in 1 .. Count - Top.y : Table[i] \in PollVbl => Table[i] \in seen
    BY CalledFacts DEF Shown
  <2>2. \A i \in 1 .. k : Table[i] \in PollVbl => Table[i] \in seen'
    <3>1. TAKE i \in 1 .. k
    <3>2. CASE i = k
      BY <1>1, <3>2
    <3>3. CASE i # k
      <4>1. i \in 1 .. Count - Top.y
        BY <1>1, <1>2, <3>3
      <4> QED
        BY <2>1, <4>1
    <3> QED
      BY <3>2, <3>3
  <2>3. CASE left = 0
    <3>1. \A i \in 1 .. Count : Table[i] \in PollVbl => Table[i] \in seen'
      <4>1. TAKE i \in 1 .. Count
      <4>2. CASE i \in 1 .. k
        BY <2>2, <4>2
      <4>3. CASE i \notin 1 .. k
        <5>1. i > k
          BY <1>1, <1>2, <4>3
        <5>2. left # Top.y - 1
          BY <1>1, <1>2, <2>3, <5>1
        <5>3. Table[k] = "clevel_irq"
          BY <1>1, <5>2
        <5> QED
          BY <1>1, <5>1, <5>3, TableFacts
      <4> QED
        BY <4>2, <4>3
    <3>2. Running("ack")'
      BY <1>3, <1>5, <2>3 DEF Running
    <3> QED
      BY <3>1, <3>2 DEF Shown, Count
  <2>4. CASE left # 0
    <3>1. Top'.y = Top.y - 1 /\ Running("callirq")'
      BY <1>3, <1>5, <2>4 DEF Running
    <3>2. Count - Top'.y = k
      BY <1>1, <1>2, <3>1
    <3> QED
      BY <2>2, <3>1, <3>2 DEF Shown, Count
  <2> QED
    BY <2>3, <2>4
<1>9. OnceInv'
  <2> SUFFICES ASSUME "VBL" \in intset, "update_clock" \in seen'
               PROVE  \/ Running("ack")'
                      \/ /\ Running("callirq")'
                         /\ \A i \in Count - Top'.y + 1 .. Count : Table[i] \notin {"update_clock", "snd_handler"}
    BY DEF OnceInv, Count
  <2>1. CASE left = 0
    BY <1>3, <1>5, <2>1 DEF Running
  <2>2. CASE left # 0
    <3>1. Top'.y = Top.y - 1 /\ Running("callirq")'
      BY <1>3, <1>5, <2>2 DEF Running
    <3>2. \A i \in k + 1 .. Count : Table[i] \notin {"update_clock", "snd_handler"}
      <4>1. TAKE i \in k + 1 .. Count
      <4>2. i \in 1 .. Count /\ k < i /\ i \in k .. Count
        BY <1>1, <1>2
      <4>3. CASE "update_clock" \in seen
        BY <4>2, <4>3, CalledFacts
      <4>4. CASE h = "update_clock"
        BY <1>1, <4>2, <4>4, TableFacts
      <4> QED
        BY <4>3, <4>4
    <3>3. Count - Top'.y + 1 = k + 1
      BY <1>1, <1>2, <3>1
    <3> QED
      BY <3>1, <3>2, <3>3
  <2> QED
    BY <2>1, <2>2
<1> QED
  BY <1>6, <1>7, <1>8, <1>9 DEF IInv

LEMMA UpdateClockStep == IInv /\ UpdateClock => IInv'
<1> SUFFICES ASSUME IInv, UpdateClock PROVE IInv'
  OBVIOUS
<1>1. /\ Called("update_clock") /\ index' = Top.y - 1 /\ Return(Top.y - 1)
      /\ UNCHANGED <<intset, sema, late>>
      /\ seen' = IF "VBL" \in intset THEN seen \cup {"update_clock"} ELSE seen
  BY DEF UpdateClock
<1>2. seen \subseteq seen' /\ seen' \subseteq PollVbl
  BY <1>1 DEF IInv, Types, PollVbl
<1> QED
  BY <1>1, <1>2, ReturnStep

LEMMA GfxVblIrqStep == IInv /\ GfxVblIrq => IInv'
<1> SUFFICES ASSUME IInv, GfxVblIrq PROVE IInv'
  OBVIOUS
<1>1. /\ Called("gfx_vbl_irq") /\ index' = Top.y - 1 /\ Return(Top.y - 1)
      /\ UNCHANGED <<intset, sema, late>>
      /\ seen' = IF "VBL" \in intset THEN seen \cup {"gfx_vbl_irq"} ELSE seen
  BY DEF GfxVblIrq
<1>2. seen \subseteq seen' /\ seen' \subseteq PollVbl
  BY <1>1 DEF IInv, Types, PollVbl
<1>3. "update_clock" \in seen' => "update_clock" \in seen
  BY <1>1
<1> QED
  BY <1>1, <1>2, <1>3, ReturnStep

LEMMA ClevelIrqStep == IInv /\ ClevelIrq => IInv'
<1> SUFFICES ASSUME IInv, ClevelIrq PROVE IInv'
  OBVIOUS
<1>1. /\ Called("clevel_irq") /\ index' = Top.y - 1
      /\ Return(Top.y - 1) \/ Return(0)
      /\ UNCHANGED <<intset, sema, late>> /\ seen' = seen
  BY DEF ClevelIrq, ghosts
<1>2. seen' \subseteq PollVbl /\ "clevel_irq" \notin PollVbl
  BY <1>1 DEF IInv, Types, PollVbl
<1>3. CASE Return(Top.y - 1)
  BY <1>1, <1>2, <1>3, ReturnStep
<1>4. CASE Return(0)
  BY <1>1, <1>2, <1>4, ReturnStep
<1> QED
  BY <1>1, <1>3, <1>4

LEMMA SndHandlerStep == IInv /\ SndHandler => IInv'
<1> SUFFICES ASSUME IInv, SndHandler PROVE IInv'
  OBVIOUS
<1>1. /\ Called("snd_handler") /\ index' = Top.y - 1
      /\ SndTurnedAway \/ SndStart
      /\ UNCHANGED <<intset, late>> /\ seen' = seen
  BY DEF SndHandler, ghosts
<1>2. seen' \subseteq PollVbl /\ "snd_handler" \notin PollVbl
  BY <1>1 DEF IInv, Types, PollVbl
<1>3. CASE SndTurnedAway
  <2>1. Return(Top.y - 1) /\ sema' = sema
    BY <1>3 DEF SndTurnedAway
  <2> QED
    BY <1>1, <1>2, <2>1, ReturnStep
<1>4. CASE SndStart
  <2> DEFINE f == [at |-> "engine", y |-> Top.y]
  <2>1. /\ stack # <<>> /\ Top.y \in 1 .. Count /\ Count - Top.y + 1 \in 1 .. Count
        /\ Table[Count - Top.y + 1] = "snd_handler"
        /\ (sema <=> Len(stack) = 2) /\ Len(stack) \in {1, 2}
        /\ "VBL" \in intset /\ "update_clock" \in seen =>
              \A i \in Count - Top.y + 1 .. Count : Table[i] \notin {"update_clock", "snd_handler"}
    BY <1>1, CalledFacts
  <2>2. ~sema /\ sema' = TRUE /\ Continue(f)
    BY <1>4 DEF SndStart
  <2>3. f \in Frame /\ f.at = "engine" /\ Count \in Nat /\ Top.y - 1 \in 0 .. Count
    BY <2>1, TableFacts DEF Frame
  <2> HIDE DEF f
  <2>4. Len(stack) = 1
    BY <2>1, <2>2
  <2>5. stack' \in Seq(Frame) /\ stack' # <<>> /\ Top' = f
    BY <2>1, <2>2, <2>3, ContinueFacts DEF IInv
  <2>6. Types'
    BY <1>1, <2>2, <2>3, <2>5 DEF IInv, Types
  <2>7. Nesting'
    <3>1. sema' \in BOOLEAN /\ (sema' <=> f.at = "engine" \/ Len(stack) = 2)
      BY <2>2, <2>3
    <3>2. f.at # "callirq"
      BY <2>3
    <3> QED
      BY <2>1, <2>2, <2>3, <2>4, <3>1, <3>2, NestingStep DEF IInv
  <2>8. Enabled'
    BY <2>3, <2>5 DEF Enabled, Running
  <2>9. ~("VBL" \in intset /\ "update_clock" \in seen)
    <3>1. Count - Top.y + 1 \in Count - Top.y + 1 .. Count
      BY <2>1
    <3> QED
      BY <2>1, <3>1
  <2> QED
    BY <1>1, <2>6, <2>7, <2>8, <2>9 DEF IInv, ShownInv, OnceInv
<1> QED
  BY <1>1, <1>3, <1>4

LEMMA SndEndStep == IInv /\ SndEnd => IInv'
<1> SUFFICES ASSUME IInv, SndEnd PROVE IInv'
  OBVIOUS
<1> DEFINE f == [at |-> IF index = 0 THEN "ack" ELSE "callirq", y |-> index]
<1>1. stack # <<>> /\ Running("engine") /\ sema' = FALSE /\ Continue(f)
      /\ intset' = {} /\ index' = index /\ seen' = seen /\ late' = late
  BY DEF SndEnd, Running, Return, ghosts
<1>2. Len(stack) = 1
  BY <1>1, SemaFacts DEF IInv
<1>3. index \in 0 .. Count /\ Count \in Nat
  BY TableFacts DEF IInv, Types
<1>4. f \in Frame /\ (f.at = "callirq" => f.y > 0) /\ f.at # "engine"
  BY <1>3 DEF Frame
<1> HIDE DEF f
<1>5. stack' \in Seq(Frame)
  BY <1>1, <1>4, ContinueFacts DEF IInv
<1>6. Types'
  BY <1>1, <1>5 DEF IInv, Types
<1>7. Nesting'
  <2>1. Len(stack) # 2
    BY <1>2
  <2>2. sema' \in BOOLEAN /\ (sema' <=> f.at = "engine" \/ Len(stack) = 2)
    BY <1>1, <1>4, <2>1
  <2> QED
    BY <1>1, <1>4, <2>2, NestingStep DEF IInv
<1> QED
  BY <1>1, <1>6, <1>7 DEF IInv, ShownInv, OnceInv

LEMMA AckStep == IInv /\ Ack => IInv'
<1> SUFFICES ASSUME IInv, Ack PROVE IInv'
  OBVIOUS
<1> DEFINE n == Len(stack)
<1>1. stack # <<>> /\ Top.at = "ack" /\ stack' = Front(stack) /\ intset' = {}
      /\ UNCHANGED <<index, sema, seen, late>>
  BY DEF Ack, Running, ghosts
<1>2. n \in {1, 2} /\ DOMAIN stack = 1 .. n /\ Top = stack[n] /\ (sema <=> n = 2)
  BY <1>1, SemaFacts DEF IInv, Running
<1>3. n = 2 => stack[1].at = "engine"
  BY DEF IInv, Nesting
<1>4. \A i \in 1 .. n : stack[i] \in Frame
  BY <1>2, ElementOfSeq DEF IInv, Types
<1> HIDE DEF n
<1>5. stack' = SubSeq(stack, 1, n - 1)
  BY <1>1 DEF Front, n
<1>6. stack' \in Seq(Frame) /\ Len(stack') = n - 1 /\ \A i \in 1 .. n - 1 : stack'[i] = stack[i]
  <2>1. \A i \in 1 .. n - 1 : stack[i] \in Frame
    BY <1>2, <1>4
  <2>2. /\ SubSeq(stack, 1, n - 1) \in Seq(Frame)
        /\ Len(SubSeq(stack, 1, n - 1)) = IF 1 <= n - 1 THEN n - 1 - 1 + 1 ELSE 0
        /\ \A i \in 1 .. n - 1 - 1 + 1 : SubSeq(stack, 1, n - 1)[i] = stack[1 + i - 1]
    BY <1>2, <2>1, SubSeqProperties
  <2> QED
    BY <1>2, <1>5, <2>2
<1>7. DOMAIN stack' = 1 .. Len(stack')
  BY <1>6, LenProperties
<1>8. Types'
  BY <1>1, <1>6 DEF IInv, Types
<1>9. Nesting'
  <2>1. CASE n = 1
    <3>1. Len(stack') = 0 /\ DOMAIN stack' = {}
      BY <1>6, <1>7, <2>1
    <3>2. ~\E i \in DOMAIN stack' : stack'[i].at = "engine"
      BY <3>1
    <3>3. sema' = \E i \in DOMAIN stack' : stack'[i].at = "engine"
      <4>1. n # 2
        BY <2>1
      <4>2. sema' = FALSE
        BY <1>1, <1>2, <4>1 DEF IInv, Types
      <4> QED
        BY <3>2, <4>2
    <3>4. Len(stack') <= 2 /\ Len(stack') # 2
      BY <3>1
    <3> QED
      BY <3>1, <3>3, <3>4 DEF Nesting, NestsOnce
  <2>2. CASE n = 2
    <3>1. Len(stack') = 1 /\ DOMAIN stack' = {1} /\ stack'[1] = stack[1]
      BY <1>6, <1>7, <2>2
    <3>2. \E i \in DOMAIN stack' : stack'[i].at = "engine"
      BY <1>3, <2>2, <3>1
    <3>3. sema' = \E i \in DOMAIN stack' : stack'[i].at = "engine"
      BY <1>1, <1>2, <2>2, <3>2 DEF IInv, Types
    <3>4. Len(stack') <= 2 /\ Len(stack') # 2
      BY <3>1
    <3>5. \A i \in DOMAIN stack' : stack'[i].at # "callirq"
      BY <1>3, <2>2, <3>1
    <3> QED
      BY <3>3, <3>4, <3>5 DEF Nesting, NestsOnce
  <2> QED
    BY <1>2, <2>1, <2>2
<1> QED
  BY <1>1, <1>8, <1>9 DEF IInv, ShownInv, OnceInv

LEMMA StepIInv == IInv /\ [Next]_vars => IInv'
<1> SUFFICES ASSUME IInv, [Next]_vars PROVE IInv'
  OBVIOUS
<1>1. CASE Vbl
  BY <1>1, VblStep
<1>2. CASE Tick
  BY <1>2, TickStep
<1>3. CASE Enter
  BY <1>3, EnterStep
<1>4. CASE Pass
  BY <1>4, UpdateClockStep, GfxVblIrqStep, ClevelIrqStep, SndHandlerStep, AckStep DEF Pass
<1>5. CASE SndEnd
  BY <1>5, SndEndStep
<1>6. CASE UNCHANGED vars
  <2>1. UNCHANGED <<intset, stack, index, sema, seen, late>>
    BY <1>6 DEF vars, ghosts
  <2>2. /\ Nesting' /\ Enabled' = Enabled /\ Top' = Top
        /\ \A at : Running(at)' = Running(at)
    BY <2>1, SameStack DEF IInv
  <2> QED
    BY <2>1, <2>2 DEF IInv, Types, ShownInv, Shown, OnceInv
<1> QED
  BY <1>1, <1>2, <1>3, <1>4, <1>5, <1>6 DEF Next

-----------------------------------------------------------------------------
(* The theorems.                                                           *)

\* The invariant holds in every reachable state.
THEOREM Inductive == Spec => []IInv
BY InitIInv, StepIInv, PTL DEF Spec

\* Interrupt passes never nest deeper than one within another, and the sound
\* engine is entered once at a time: SndSema is the truth about it (IRQStub,
\* snd_handler).
THEOREM NestingBounded == Spec => []NestsOnce
<1>1. IInv => NestsOnce
  BY DEF IInv, Nesting
<1> QED
  BY <1>1, Inductive, PTL

\* The stub acknowledges no vertical blank that was raised while interrupts
\* were enabled before every interruptor has seen it (IRQStub, callirq).
THEOREM OnlyLateLost == Spec => LostOnlyLate
<1>1. IInv /\ [Next]_vars =>
        ("VBL" \in intset /\ "VBL" \notin intset' => late \/ PollVbl \cap ToSet(Table) \subseteq seen)
  <2> SUFFICES ASSUME IInv, [Next]_vars, "VBL" \in intset, "VBL" \notin intset', ~late
               PROVE  PollVbl \cap ToSet(Table) \subseteq seen
    BY DEF IInv, Types
  <2>1. Running("ack")
    BY DEF Next, Pass, Vbl, Tick, Enter, UpdateClock, GfxVblIrq, ClevelIrq, SndHandler, SndEnd, Ack,
           vars, ghosts
  <2>2. Shown(Count)
    BY <2>1 DEF IInv, ShownInv, Enabled, Running
  <2> QED
    BY <2>2, TableFacts DEF Shown, ToSet
<1>2. IInv /\ [Next]_vars =>
        [ "VBL" \in intset /\ "VBL" \notin intset' => late \/ PollVbl \cap ToSet(Table) \subseteq seen ]_vars
  BY <1>1
<1> QED
  BY <1>2, Inductive, PTL DEF Spec, LostOnlyLate

\* No vertical blank is counted twice (update_clock).
THEOREM ClockedOnce == Spec => CountedOnce
<1>1. IInv /\ [Next]_vars => (clock' # clock => "update_clock" \notin seen)
  <2> SUFFICES ASSUME IInv, [Next]_vars, clock' # clock
               PROVE  "update_clock" \notin seen
    OBVIOUS
  <2>1. UpdateClock /\ "VBL" \in intset
    BY DEF Next, Pass, Vbl, Tick, Enter, UpdateClock, GfxVblIrq, ClevelIrq, SndHandler, SndEnd, Ack,
           vars, ghosts
  <2>2. /\ Count - Top.y + 1 \in 1 .. Count /\ Table[Count - Top.y + 1] = "update_clock"
        /\ "update_clock" \in seen =>
              \A i \in Count - Top.y + 1 .. Count : Table[i] \notin {"update_clock", "snd_handler"}
    BY <2>1, CalledFacts DEF UpdateClock
  <2>3. Count - Top.y + 1 \in Count - Top.y + 1 .. Count
    BY <2>2
  <2> QED
    BY <2>2, <2>3
<1>2. IInv /\ [Next]_vars => [clock' # clock => "update_clock" \notin seen]_vars
  BY <1>1
<1> QED
  BY <1>2, Inductive, PTL DEF Spec, CountedOnce
=============================================================================
