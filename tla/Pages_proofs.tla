---------------------------- MODULE Pages_proofs ----------------------------
(***************************************************************************)
(* Proofs about double buffering, for every set of calls a program may     *)
(* make and with a swap between any two accesses: where sprites are        *)
(* rendered, what is displayed and how the pages are exchanged.  They are  *)
(* shared byte by byte with an interruptor: the proofs follow both bytes   *)
(* of an address.                                                          *)
(***************************************************************************)
EXTENDS Pages, SequenceTheorems, TLAPS

-----------------------------------------------------------------------------
(* The invariant.                                                          *)

\* The addresses of the two pages.
Two == {Page(0), Page(1)}

\* What a call of each kind has left to do.
ViewHalf    == <<"view_hi", "load_lo", "load_hi", "disp_lo", "disp_hi">>
ViewTodos   == {<<"view_lo", "view_hi", "load_lo", "load_hi", "disp_lo", "disp_hi">>, ViewHalf}
Loaded      == {<<"disp_lo", "disp_hi">>, <<"disp_hi">>}
DispTodos   == {SetDispadr, <<"load_hi", "disp_lo", "disp_hi">>} \cup Loaded
DrawTodos   == {<<"draw_lo", "draw_hi">>, <<"draw_hi">>}
InitHeads   == {InitPages, <<"draw_lo", "disp_hi", "draw_hi">>, <<"disp_hi", "draw_hi">>}
SpriteTodos == {<<"base_lo", "base_hi", "go", "wait">>, <<"base_hi", "go", "wait">>,
                <<"go", "wait">>, <<"wait">>}
Todos == {<<>>} \cup ViewTodos \cup DispTodos \cup DrawTodos \cup InitHeads \cup SpriteTodos

\* What a swap may spoil.
Spoilable == {"display", "view", "draw", "target", "shown"}

TypeInv == /\ viewpage \in Nat /\ drawpage \in Nat /\ dispadr \in Nat
           /\ vidbas \in Nat /\ yx \in Nat
           /\ drawpagenum \in {0, 1}
           /\ swaprequest \in BOOLEAN /\ lefthand \in BOOLEAN
           /\ byhand \subseteq {"view", "draw"} /\ spoiled \subseteq Spoilable
           /\ viddma \in [flipped : BOOLEAN, bpp : {2, 4}]
           /\ todo \in Todos

\* Two addresses share their low byte, or their high one.
SameLo(a, b) == a % 256 = b % 256
SameHi(a, b) == a \div 256 = b \div 256

\* The view page is one of the two, except while its bytes are stored.
ViewInv ==
    /\ todo \in ViewTodos => yx \in Two
    /\ "view" \notin spoiled =>
          /\ todo = ViewHalf => SameLo(viewpage, yx)
          /\ todo \notin ViewTodos => viewpage \in Two

\* And so is the draw page.
Drawing   == todo \in DrawTodos \cup InitHeads
HalfDrawn == todo \in {<<"disp_hi", "draw_hi">>, <<"draw_hi">>}
DrawInv ==
    /\ Drawing => yx \in Two
    /\ "draw" \notin spoiled =>
          /\ HalfDrawn => SameLo(drawpage, yx)
          /\ ~Drawing => drawpage \in Two

\* gfx_sprite carries it to Suzy, the low byte first.
TargetInv == "target" \notin spoiled =>
    /\ todo = <<"base_lo", "base_hi", "go", "wait">> => drawpage \in Two
    /\ todo = <<"base_hi", "go", "wait">> => drawpage \in Two /\ SameLo(yx, drawpage)
    /\ todo = <<"go", "wait">> => yx \in Two
    /\ todo = <<"wait">> => vidbas \in Two

\* The high byte is the draw page's until a swap comes behind it.
ShownInv == "shown" \notin spoiled =>
    /\ todo = <<"go", "wait">> => SameHi(yx, drawpage)
    /\ todo = <<"wait">> => SameHi(vidbas, drawpage)

\* A page that a swap has set is the one of the page number; the first
\* gfx_init sets the draw page to page 0, with no swap requested.
SwapInv ==
    /\ "draw" \notin byhand =>
          \/ /\ Drawing /\ ~swaprequest /\ drawpagenum = 0 /\ yx = Page(0)
             /\ HalfDrawn => SameLo(drawpage, yx)
          \/ ~Drawing /\ drawpage = Page(drawpagenum)
    /\ "view" \notin byhand => todo \notin ViewTodos /\ viewpage = Page(1 - drawpagenum)

\* A call that sets DISPADR carries the view page there byte by byte, and other
\* calls leave it there.
DispInv == "display" \notin spoiled =>
    /\ todo \in {<<>>} \cup DrawTodos \cup SpriteTodos => dispadr = Displayed(viewpage)
    /\ todo = <<"load_hi", "disp_lo", "disp_hi">> => SameLo(yx, viewpage)
    /\ todo \in Loaded \cup InitHeads => yx = Displayed(viewpage)
    /\ todo \in {<<"disp_hi">>, <<"draw_lo", "disp_hi", "draw_hi">>, <<"disp_hi", "draw_hi">>}
          => SameLo(dispadr, yx)

\* The inductive invariant.
PInv == TypeInv /\ ViewInv /\ DrawInv /\ TargetInv /\ ShownInv /\ SwapInv /\ DispInv

-----------------------------------------------------------------------------
(* Addresses and their bytes.                                              *)

\* An address is its high and its low byte.
LEMMA Parts == \A x \in Nat : /\ x \div 256 \in Nat /\ x % 256 \in Nat /\ x % 256 < 256
                              /\ x = 256 * (x \div 256) + (x % 256)
BY Z3

\* The bytes of two bytes put together.
LEMMA PartsOf ==
    ASSUME NEW q \in Nat, NEW r \in Nat, r < 256
    PROVE  /\ q * 256 + r \in Nat
           /\ (q * 256 + r) % 256 = r /\ (q * 256 + r) \div 256 = q
<1> DEFINE y == q * 256 + r
<1>1. y \in Nat
  BY Z3
<1> DEFINE d == y \div 256  m == y % 256
<1>2. d \in Nat /\ m \in Nat /\ m < 256 /\ y = 256 * d + m
  BY <1>1, Parts, ZenonT(60)
<1> HIDE DEF d, m
<1>3. q * 256 + r = 256 * d + m
  BY <1>2
<1>4. m = r /\ d = q
  BY <1>2, <1>3
<1> QED BY <1>1, <1>4 DEF m, d

\* Storing the low and then the high byte of an address stores the address.
LEMMA Halves ==
    ASSUME NEW a \in Nat, NEW b \in Nat
    PROVE  /\ SetLo(a, b) \in Nat /\ SetHi(a, b) \in Nat
           /\ SameLo(SetLo(a, b), b) /\ SameHi(SetHi(a, b), b)
           /\ SameLo(a, b) => SetHi(a, b) = b
<1> DEFINE q == a \div 256  r == a % 256  u == b \div 256  v == b % 256
<1>1. q \in Nat /\ r \in Nat /\ r < 256 /\ a = 256 * q + r
  BY Parts, ZenonT(60)
<1>2. u \in Nat /\ v \in Nat /\ v < 256 /\ b = 256 * u + v
  BY Parts, ZenonT(60)
<1> HIDE DEF q, r, u, v
<1>3. /\ (q * 256 + v) % 256 = v /\ (u * 256 + r) \div 256 = u
      /\ q * 256 + v \in Nat /\ u * 256 + r \in Nat
  BY <1>1, <1>2, PartsOf
<1>4. r = v => u * 256 + r = b
  BY <1>1, <1>2
<1>5. SetLo(a, b) = q * 256 + v /\ SetHi(a, b) = u * 256 + r /\ (SameLo(a, b) <=> r = v)
  BY Zenon DEF SetLo, SetHi, SameLo, q, r, u, v
<1>6. SameLo(q * 256 + v, b) /\ SameHi(u * 256 + r, b)
  BY <1>3, Zenon DEF SameLo, SameHi, u, v
<1> QED BY <1>3, <1>4, <1>5, <1>6, ZenonT(60)

\* The pages are two addresses, with high bytes of their own.
LEMMA PageType == Page(0) \in Nat /\ Page(1) \in Nat /\ ~SameHi(Page(0), Page(1))
<1>1. Page(1) = 192 * 256 + 56 /\ Page(0) = 224 * 256 + 24
  BY DEF Page
<1>2. Page(1) \div 256 = 192 /\ Page(0) \div 256 = 224
  BY <1>1, PartsOf
<1> QED BY <1>1, <1>2 DEF SameHi

\* What is displayed is an address.
LEMMA DisplayedType == \A v \in Nat : Displayed(v) \in Nat
BY DEF Displayed

\* A page that is not flipped is displayed from its own address.
LEMMA DisplayedHome == ~viddma.flipped => Displayed(Page(0)) = Page(0)
BY DEF Displayed, Page

-----------------------------------------------------------------------------
(* The windows.                                                            *)

\* The steps of a list of one.
LEMMA Steps1 == \A a : Range(<<a>>) = {a}
<1> TAKE a
<1> DEFINE t == <<a>>
<1>1. DOMAIN t = 1 .. 1 /\ t[1] = a
  OBVIOUS
<1>2. \A i \in 1 .. 1 : i \in {1}
  OBVIOUS
<1>3. \A i \in {1} : i \in 1 .. 1
  OBVIOUS
<1> HIDE DEF t
<1>4. Range(t) = {a}
  BY <1>1, <1>2, <1>3 DEF Range
<1> QED BY <1>4 DEF t

\* The steps of a list of two.
LEMMA Steps2 == \A a, b : Range(<<a, b>>) = {a, b}
<1> TAKE a, b
<1> DEFINE t == <<a, b>>
<1>1. DOMAIN t = 1 .. 2 /\ t[1] = a /\ t[2] = b
  OBVIOUS
<1>2. \A i \in 1 .. 2 : i \in {1, 2}
  OBVIOUS
<1>3. \A i \in {1, 2} : i \in 1 .. 2
  OBVIOUS
<1> HIDE DEF t
<1>4. Range(t) = {a, b}
  BY <1>1, <1>2, <1>3 DEF Range
<1> QED BY <1>4 DEF t

\* The steps of a list of three.
LEMMA Steps3 == \A a, b, c : Range(<<a, b, c>>) = {a, b, c}
<1> TAKE a, b, c
<1> DEFINE t == <<a, b, c>>
<1>1. DOMAIN t = 1 .. 3 /\ t[1] = a /\ t[2] = b /\ t[3] = c
  OBVIOUS
<1>2. \A i \in 1 .. 3 : i \in {1, 2, 3}
  OBVIOUS
<1>3. \A i \in {1, 2, 3} : i \in 1 .. 3
  OBVIOUS
<1> HIDE DEF t
<1>4. Range(t) = {a, b, c}
  BY <1>1, <1>2, <1>3 DEF Range
<1> QED BY <1>4 DEF t

\* The steps of a list of four.
LEMMA Steps4 == \A a, b, c, d : Range(<<a, b, c, d>>) = {a, b, c, d}
<1> TAKE a, b, c, d
<1> DEFINE t == <<a, b, c, d>>
<1>1. DOMAIN t = 1 .. 4 /\ t[1] = a /\ t[2] = b /\ t[3] = c /\ t[4] = d
  OBVIOUS
<1>2. \A i \in 1 .. 4 : i \in {1, 2, 3, 4}
  OBVIOUS
<1>3. \A i \in {1, 2, 3, 4} : i \in 1 .. 4
  OBVIOUS
<1> HIDE DEF t
<1>4. Range(t) = {a, b, c, d}
  BY <1>1, <1>2, <1>3 DEF Range
<1> QED BY <1>4 DEF t

\* The steps of a list of five.
LEMMA Steps5 == \A a, b, c, d, e : Range(<<a, b, c, d, e>>) = {a, b, c, d, e}
<1> TAKE a, b, c, d, e
<1> DEFINE t == <<a, b, c, d, e>>
<1>1. DOMAIN t = 1 .. 5 /\ t[1] = a /\ t[2] = b /\ t[3] = c /\ t[4] = d /\ t[5] = e
  OBVIOUS
<1>2. \A i \in 1 .. 5 : i \in {1, 2, 3, 4, 5}
  OBVIOUS
<1>3. \A i \in {1, 2, 3, 4, 5} : i \in 1 .. 5
  OBVIOUS
<1> HIDE DEF t
<1>4. Range(t) = {a, b, c, d, e}
  BY <1>1, <1>2, <1>3 DEF Range
<1> QED BY <1>4 DEF t

\* The steps of a list of six.
LEMMA Steps6 == \A a, b, c, d, e, f : Range(<<a, b, c, d, e, f>>) = {a, b, c, d, e, f}
<1> TAKE a, b, c, d, e, f
<1> DEFINE t == <<a, b, c, d, e, f>>
<1>1. DOMAIN t = 1 .. 6 /\ t[1] = a /\ t[2] = b /\ t[3] = c /\ t[4] = d /\ t[5] = e /\ t[6] = f
  OBVIOUS
<1>2. \A i \in 1 .. 6 : i \in {1, 2, 3, 4, 5, 6}
  OBVIOUS
<1>3. \A i \in {1, 2, 3, 4, 5, 6} : i \in 1 .. 6
  OBVIOUS
<1> HIDE DEF t
<1>4. Range(t) = {a, b, c, d, e, f}
  BY <1>1, <1>2, <1>3 DEF Range
<1> QED BY <1>4 DEF t

\* What a call has left to do is one of sixteen lists.
LEMMA TodoIs == todo \in Todos <=>
    \/ todo = <<>>
    \/ todo = <<"view_lo", "view_hi", "load_lo", "load_hi", "disp_lo", "disp_hi">>
    \/ todo = <<"view_hi", "load_lo", "load_hi", "disp_lo", "disp_hi">>
    \/ todo = <<"load_lo", "load_hi", "disp_lo", "disp_hi">>
    \/ todo = <<"load_hi", "disp_lo", "disp_hi">>
    \/ todo = <<"disp_lo", "disp_hi">>
    \/ todo = <<"disp_hi">>
    \/ todo = <<"disp_lo", "draw_lo", "disp_hi", "draw_hi">>
    \/ todo = <<"draw_lo", "disp_hi", "draw_hi">>
    \/ todo = <<"disp_hi", "draw_hi">>
    \/ todo = <<"draw_lo", "draw_hi">>
    \/ todo = <<"draw_hi">>
    \/ todo = <<"base_lo", "base_hi", "go", "wait">>
    \/ todo = <<"base_hi", "go", "wait">>
    \/ todo = <<"go", "wait">>
    \/ todo = <<"wait">>
BY DEF Todos, ViewTodos, ViewHalf, DispTodos, Loaded, DrawTodos, InitHeads, SpriteTodos, SetDispadr,
        InitPages

\* Which windows each of them lies in.
LEMMA Windows ==
    ASSUME todo \in Todos
    PROVE  /\ ToCome("view_hi") <=> todo \in ViewTodos
           /\ ToCome("draw_hi") <=> Drawing
           /\ ToCome("base_lo") <=> todo = <<"base_lo", "base_hi", "go", "wait">>
           /\ Within("load_lo", "disp_hi") <=>
                 todo \in {<<"load_hi", "disp_lo", "disp_hi">>} \cup Loaded \cup InitHeads
           /\ Within("view_lo", "view_hi") <=> todo = ViewHalf
           /\ Within("draw_lo", "draw_hi") <=> HalfDrawn
           /\ Within("base_lo", "base_hi") <=> todo = <<"base_hi", "go", "wait">>
           /\ Within("base_hi", "wait") <=> todo \in {<<"go", "wait">>, <<"wait">>}
<1> DEFINE steps == Range(todo)
<1>0. \A s : ToCome(s) <=> s \in steps
  BY DEF ToCome
<1> HIDE DEF steps
<1>1. CASE todo = <<>>
  <2>1. steps = {}
    BY <1>1 DEF steps, Range
  <2> QED BY <1>0, <1>1, <2>1 DEF Within, HalfDrawn, Drawing, ViewTodos, ViewHalf, DispTodos,
          Loaded, DrawTodos, InitHeads, SpriteTodos, SetDispadr, InitPages
<1>2. CASE todo = <<"view_lo", "view_hi", "load_lo", "load_hi", "disp_lo", "disp_hi">>
  <2>1. steps = {"view_lo", "view_hi", "load_lo", "load_hi", "disp_lo", "disp_hi"}
    BY <1>2, Steps6 DEF steps
  <2> QED BY <1>0, <1>2, <2>1 DEF Within, HalfDrawn, Drawing, ViewTodos, ViewHalf, DispTodos,
          Loaded, DrawTodos, InitHeads, SpriteTodos, SetDispadr, InitPages
<1>3. CASE todo = <<"view_hi", "load_lo", "load_hi", "disp_lo", "disp_hi">>
  <2>1. steps = {"view_hi", "load_lo", "load_hi", "disp_lo", "disp_hi"}
    BY <1>3, Steps5 DEF steps
  <2> QED BY <1>0, <1>3, <2>1 DEF Within, HalfDrawn, Drawing, ViewTodos, ViewHalf, DispTodos,
          Loaded, DrawTodos, InitHeads, SpriteTodos, SetDispadr, InitPages
<1>4. CASE todo = <<"load_lo", "load_hi", "disp_lo", "disp_hi">>
  <2>1. steps = {"load_lo", "load_hi", "disp_lo", "disp_hi"}
    BY <1>4, Steps4 DEF steps
  <2> QED BY <1>0, <1>4, <2>1 DEF Within, HalfDrawn, Drawing, ViewTodos, ViewHalf, DispTodos,
          Loaded, DrawTodos, InitHeads, SpriteTodos, SetDispadr, InitPages
<1>5. CASE todo = <<"load_hi", "disp_lo", "disp_hi">>
  <2>1. steps = {"load_hi", "disp_lo", "disp_hi"}
    BY <1>5, Steps3 DEF steps
  <2> QED BY <1>0, <1>5, <2>1 DEF Within, HalfDrawn, Drawing, ViewTodos, ViewHalf, DispTodos,
          Loaded, DrawTodos, InitHeads, SpriteTodos, SetDispadr, InitPages
<1>6. CASE todo = <<"disp_lo", "disp_hi">>
  <2>1. steps = {"disp_lo", "disp_hi"}
    BY <1>6, Steps2 DEF steps
  <2> QED BY <1>0, <1>6, <2>1 DEF Within, HalfDrawn, Drawing, ViewTodos, ViewHalf, DispTodos,
          Loaded, DrawTodos, InitHeads, SpriteTodos, SetDispadr, InitPages
<1>7. CASE todo = <<"disp_hi">>
  <2>1. steps = {"disp_hi"}
    BY <1>7, Steps1 DEF steps
  <2> QED BY <1>0, <1>7, <2>1 DEF Within, HalfDrawn, Drawing, ViewTodos, ViewHalf, DispTodos,
          Loaded, DrawTodos, InitHeads, SpriteTodos, SetDispadr, InitPages
<1>8. CASE todo = <<"disp_lo", "draw_lo", "disp_hi", "draw_hi">>
  <2>1. steps = {"disp_lo", "draw_lo", "disp_hi", "draw_hi"}
    BY <1>8, Steps4 DEF steps
  <2> QED BY <1>0, <1>8, <2>1 DEF Within, HalfDrawn, Drawing, ViewTodos, ViewHalf, DispTodos,
          Loaded, DrawTodos, InitHeads, SpriteTodos, SetDispadr, InitPages
<1>9. CASE todo = <<"draw_lo", "disp_hi", "draw_hi">>
  <2>1. steps = {"draw_lo", "disp_hi", "draw_hi"}
    BY <1>9, Steps3 DEF steps
  <2> QED BY <1>0, <1>9, <2>1 DEF Within, HalfDrawn, Drawing, ViewTodos, ViewHalf, DispTodos,
          Loaded, DrawTodos, InitHeads, SpriteTodos, SetDispadr, InitPages
<1>10. CASE todo = <<"disp_hi", "draw_hi">>
  <2>1. steps = {"disp_hi", "draw_hi"}
    BY <1>10, Steps2 DEF steps
  <2> QED BY <1>0, <1>10, <2>1 DEF Within, HalfDrawn, Drawing, ViewTodos, ViewHalf, DispTodos,
          Loaded, DrawTodos, InitHeads, SpriteTodos, SetDispadr, InitPages
<1>11. CASE todo = <<"draw_lo", "draw_hi">>
  <2>1. steps = {"draw_lo", "draw_hi"}
    BY <1>11, Steps2 DEF steps
  <2> QED BY <1>0, <1>11, <2>1 DEF Within, HalfDrawn, Drawing, ViewTodos, ViewHalf, DispTodos,
          Loaded, DrawTodos, InitHeads, SpriteTodos, SetDispadr, InitPages
<1>12. CASE todo = <<"draw_hi">>
  <2>1. steps = {"draw_hi"}
    BY <1>12, Steps1 DEF steps
  <2> QED BY <1>0, <1>12, <2>1 DEF Within, HalfDrawn, Drawing, ViewTodos, ViewHalf, DispTodos,
          Loaded, DrawTodos, InitHeads, SpriteTodos, SetDispadr, InitPages
<1>13. CASE todo = <<"base_lo", "base_hi", "go", "wait">>
  <2>1. steps = {"base_lo", "base_hi", "go", "wait"}
    BY <1>13, Steps4 DEF steps
  <2> QED BY <1>0, <1>13, <2>1 DEF Within, HalfDrawn, Drawing, ViewTodos, ViewHalf, DispTodos,
          Loaded, DrawTodos, InitHeads, SpriteTodos, SetDispadr, InitPages
<1>14. CASE todo = <<"base_hi", "go", "wait">>
  <2>1. steps = {"base_hi", "go", "wait"}
    BY <1>14, Steps3 DEF steps
  <2> QED BY <1>0, <1>14, <2>1 DEF Within, HalfDrawn, Drawing, ViewTodos, ViewHalf, DispTodos,
          Loaded, DrawTodos, InitHeads, SpriteTodos, SetDispadr, InitPages
<1>15. CASE todo = <<"go", "wait">>
  <2>1. steps = {"go", "wait"}
    BY <1>15, Steps2 DEF steps
  <2> QED BY <1>0, <1>15, <2>1 DEF Within, HalfDrawn, Drawing, ViewTodos, ViewHalf, DispTodos,
          Loaded, DrawTodos, InitHeads, SpriteTodos, SetDispadr, InitPages
<1>16. CASE todo = <<"wait">>
  <2>1. steps = {"wait"}
    BY <1>16, Steps1 DEF steps
  <2> QED BY <1>0, <1>16, <2>1 DEF Within, HalfDrawn, Drawing, ViewTodos, ViewHalf, DispTodos,
          Loaded, DrawTodos, InitHeads, SpriteTodos, SetDispadr, InitPages
<1> QED BY TodoIs, <1>1, <1>2, <1>3, <1>4, <1>5, <1>6, <1>7, <1>8, <1>9, <1>10, <1>11, <1>12, <1>13,
        <1>14, <1>15, <1>16

-----------------------------------------------------------------------------
(* The steps.                                                              *)

\* What no access changes.
Rest == UNCHANGED <<drawpagenum, swaprequest, viddma, lefthand, byhand, spoiled>>

\* Every access of every call keeps the invariant.
LEMMA AccessStep == PInv /\ Access => PInv'
<1> SUFFICES ASSUME PInv, Access PROVE PInv'
  OBVIOUS
<1> USE DEF Rest, SetDispadr, InitPages
<1>0. {viewpage, drawpage, dispadr, vidbas, yx} \subseteq Nat /\ todo \in Todos
  BY DEF PInv, TypeInv
<1>1. CASE todo = <<"view_lo", "view_hi", "load_lo", "load_hi", "disp_lo", "disp_hi">>
  <2>1. /\ todo' = <<"view_hi", "load_lo", "load_hi", "disp_lo", "disp_hi">> /\ Rest
        /\ UNCHANGED <<drawpage, dispadr, vidbas, yx>> /\ viewpage' = SetLo(viewpage, yx)
    BY <1>1 DEF Access, StoreView, StoreDraw, LoadView, StoreDispadr, Render, Do
  <2>2. viewpage' \in Nat /\ SameLo(viewpage', yx)
    BY <1>0, <2>1, Halves
  <2> QED BY <1>1, <2>1, <2>2, PageType DEF PInv, TypeInv, ViewInv, DrawInv, Drawing, HalfDrawn,
          TargetInv, ShownInv, SwapInv, DispInv, Displayed, Two, Todos, ViewTodos, ViewHalf,
          DispTodos, Loaded, DrawTodos, InitHeads, SpriteTodos
<1>2. CASE todo = <<"view_hi", "load_lo", "load_hi", "disp_lo", "disp_hi">>
  <2>1. /\ todo' = <<"load_lo", "load_hi", "disp_lo", "disp_hi">> /\ Rest
        /\ UNCHANGED <<drawpage, dispadr, vidbas, yx>> /\ viewpage' = SetHi(viewpage, yx)
    BY <1>2 DEF Access, StoreView, StoreDraw, LoadView, StoreDispadr, Render, Do
  <2>2. viewpage' \in Nat /\ (SameLo(viewpage, yx) => viewpage' = yx)
    BY <1>0, <2>1, Halves
  <2> QED BY <1>2, <2>1, <2>2, PageType DEF PInv, TypeInv, ViewInv, DrawInv, Drawing, HalfDrawn,
          TargetInv, ShownInv, SwapInv, DispInv, Displayed, Two, Todos, ViewTodos, ViewHalf,
          DispTodos, Loaded, DrawTodos, InitHeads, SpriteTodos
<1>3. CASE todo = <<"load_lo", "load_hi", "disp_lo", "disp_hi">>
  <2>1. /\ todo' = <<"load_hi", "disp_lo", "disp_hi">> /\ Rest
        /\ UNCHANGED <<viewpage, drawpage, dispadr, vidbas>> /\ yx' = SetLo(yx, viewpage)
    BY <1>3 DEF Access, StoreView, StoreDraw, LoadView, StoreDispadr, Render, Do
  <2>2. yx' \in Nat /\ SameLo(yx', viewpage)
    BY <1>0, <2>1, Halves
  <2> QED BY <1>3, <2>1, <2>2, PageType DEF PInv, TypeInv, ViewInv, DrawInv, Drawing, HalfDrawn,
          TargetInv, ShownInv, SwapInv, DispInv, Displayed, Two, Todos, ViewTodos, ViewHalf,
          DispTodos, Loaded, DrawTodos, InitHeads, SpriteTodos
<1>4. CASE todo = <<"load_hi", "disp_lo", "disp_hi">>
  <2>1. /\ todo' = <<"disp_lo", "disp_hi">> /\ Rest
        /\ UNCHANGED <<viewpage, drawpage, dispadr, vidbas>> /\ yx' = Displayed(SetHi(yx, viewpage))
    BY <1>4 DEF Access, StoreView, StoreDraw, LoadView, StoreDispadr, Render, Do
  <2>2. yx' \in Nat /\ (SameLo(yx, viewpage) => yx' = Displayed(viewpage))
    BY <1>0, <2>1, Halves, DisplayedType
  <2> QED BY <1>4, <2>1, <2>2, PageType DEF PInv, TypeInv, ViewInv, DrawInv, Drawing, HalfDrawn,
          TargetInv, ShownInv, SwapInv, DispInv, Displayed, Two, Todos, ViewTodos, ViewHalf,
          DispTodos, Loaded, DrawTodos, InitHeads, SpriteTodos
<1>5. CASE todo = <<"disp_lo", "disp_hi">>
  <2>1. /\ todo' = <<"disp_hi">> /\ Rest
        /\ UNCHANGED <<viewpage, drawpage, vidbas, yx>> /\ dispadr' = SetLo(dispadr, yx)
    BY <1>5 DEF Access, StoreView, StoreDraw, LoadView, StoreDispadr, Render, Do
  <2>2. dispadr' \in Nat /\ SameLo(dispadr', yx)
    BY <1>0, <2>1, Halves
  <2> QED BY <1>5, <2>1, <2>2, PageType DEF PInv, TypeInv, ViewInv, DrawInv, Drawing, HalfDrawn,
          TargetInv, ShownInv, SwapInv, DispInv, Displayed, Two, Todos, ViewTodos, ViewHalf,
          DispTodos, Loaded, DrawTodos, InitHeads, SpriteTodos
<1>6. CASE todo = <<"disp_hi">>
  <2>1. /\ todo' = <<>> /\ Rest
        /\ UNCHANGED <<viewpage, drawpage, vidbas, yx>> /\ dispadr' = SetHi(dispadr, yx)
    BY <1>6 DEF Access, StoreView, StoreDraw, LoadView, StoreDispadr, Render, Do
  <2>2. dispadr' \in Nat /\ (SameLo(dispadr, yx) => dispadr' = yx)
    BY <1>0, <2>1, Halves
  <2> QED BY <1>6, <2>1, <2>2, PageType DEF PInv, TypeInv, ViewInv, DrawInv, Drawing, HalfDrawn,
          TargetInv, ShownInv, SwapInv, DispInv, Displayed, Two, Todos, ViewTodos, ViewHalf,
          DispTodos, Loaded, DrawTodos, InitHeads, SpriteTodos
<1>7. CASE todo = <<"disp_lo", "draw_lo", "disp_hi", "draw_hi">>
  <2>1. /\ todo' = <<"draw_lo", "disp_hi", "draw_hi">> /\ Rest
        /\ UNCHANGED <<viewpage, drawpage, vidbas, yx>> /\ dispadr' = SetLo(dispadr, yx)
    BY <1>7 DEF Access, StoreView, StoreDraw, LoadView, StoreDispadr, Render, Do
  <2>2. dispadr' \in Nat /\ SameLo(dispadr', yx)
    BY <1>0, <2>1, Halves
  <2> QED BY <1>7, <2>1, <2>2, PageType DEF PInv, TypeInv, ViewInv, DrawInv, Drawing, HalfDrawn,
          TargetInv, ShownInv, SwapInv, DispInv, Displayed, Two, Todos, ViewTodos, ViewHalf,
          DispTodos, Loaded, DrawTodos, InitHeads, SpriteTodos
<1>8. CASE todo = <<"draw_lo", "disp_hi", "draw_hi">>
  <2>1. /\ todo' = <<"disp_hi", "draw_hi">> /\ Rest
        /\ UNCHANGED <<viewpage, dispadr, vidbas, yx>> /\ drawpage' = SetLo(drawpage, yx)
    BY <1>8 DEF Access, StoreView, StoreDraw, LoadView, StoreDispadr, Render, Do
  <2>2. drawpage' \in Nat /\ SameLo(drawpage', yx)
    BY <1>0, <2>1, Halves
  <2> QED BY <1>8, <2>1, <2>2, PageType DEF PInv, TypeInv, ViewInv, DrawInv, Drawing, HalfDrawn,
          TargetInv, ShownInv, SwapInv, DispInv, Displayed, Two, Todos, ViewTodos, ViewHalf,
          DispTodos, Loaded, DrawTodos, InitHeads, SpriteTodos
<1>9. CASE todo = <<"disp_hi", "draw_hi">>
  <2>1. /\ todo' = <<"draw_hi">> /\ Rest
        /\ UNCHANGED <<viewpage, drawpage, vidbas, yx>> /\ dispadr' = SetHi(dispadr, yx)
    BY <1>9 DEF Access, StoreView, StoreDraw, LoadView, StoreDispadr, Render, Do
  <2>2. dispadr' \in Nat /\ (SameLo(dispadr, yx) => dispadr' = yx)
    BY <1>0, <2>1, Halves
  <2> QED BY <1>9, <2>1, <2>2, PageType DEF PInv, TypeInv, ViewInv, DrawInv, Drawing, HalfDrawn,
          TargetInv, ShownInv, SwapInv, DispInv, Displayed, Two, Todos, ViewTodos, ViewHalf,
          DispTodos, Loaded, DrawTodos, InitHeads, SpriteTodos
<1>10. CASE todo = <<"draw_lo", "draw_hi">>
  <2>1. /\ todo' = <<"draw_hi">> /\ Rest
        /\ UNCHANGED <<viewpage, dispadr, vidbas, yx>> /\ drawpage' = SetLo(drawpage, yx)
    BY <1>10 DEF Access, StoreView, StoreDraw, LoadView, StoreDispadr, Render, Do
  <2>2. drawpage' \in Nat /\ SameLo(drawpage', yx)
    BY <1>0, <2>1, Halves
  <2> QED BY <1>10, <2>1, <2>2, PageType DEF PInv, TypeInv, ViewInv, DrawInv, Drawing, HalfDrawn,
          TargetInv, ShownInv, SwapInv, DispInv, Displayed, Two, Todos, ViewTodos, ViewHalf,
          DispTodos, Loaded, DrawTodos, InitHeads, SpriteTodos
<1>11. CASE todo = <<"draw_hi">>
  <2>1. /\ todo' = <<>> /\ Rest
        /\ UNCHANGED <<viewpage, dispadr, vidbas, yx>> /\ drawpage' = SetHi(drawpage, yx)
    BY <1>11 DEF Access, StoreView, StoreDraw, LoadView, StoreDispadr, Render, Do
  <2>2. drawpage' \in Nat /\ (SameLo(drawpage, yx) => drawpage' = yx)
    BY <1>0, <2>1, Halves
  <2> QED BY <1>11, <2>1, <2>2, PageType DEF PInv, TypeInv, ViewInv, DrawInv, Drawing, HalfDrawn,
          TargetInv, ShownInv, SwapInv, DispInv, Displayed, Two, Todos, ViewTodos, ViewHalf,
          DispTodos, Loaded, DrawTodos, InitHeads, SpriteTodos
<1>12. CASE todo = <<"base_lo", "base_hi", "go", "wait">>
  <2>1. /\ todo' = <<"base_hi", "go", "wait">> /\ Rest
        /\ UNCHANGED <<viewpage, drawpage, dispadr, vidbas>> /\ yx' = SetLo(yx, drawpage)
    BY <1>12 DEF Access, StoreView, StoreDraw, LoadView, StoreDispadr, Render, Do
  <2>2. yx' \in Nat /\ SameLo(yx', drawpage)
    BY <1>0, <2>1, Halves
  <2> QED BY <1>12, <2>1, <2>2, PageType DEF PInv, TypeInv, ViewInv, DrawInv, Drawing, HalfDrawn,
          TargetInv, ShownInv, SwapInv, DispInv, Displayed, Two, Todos, ViewTodos, ViewHalf,
          DispTodos, Loaded, DrawTodos, InitHeads, SpriteTodos
<1>13. CASE todo = <<"base_hi", "go", "wait">>
  <2>1. /\ todo' = <<"go", "wait">> /\ Rest
        /\ UNCHANGED <<viewpage, drawpage, dispadr, vidbas>> /\ yx' = SetHi(yx, drawpage)
    BY <1>13 DEF Access, StoreView, StoreDraw, LoadView, StoreDispadr, Render, Do
  <2>2. yx' \in Nat /\ SameHi(yx', drawpage) /\ (SameLo(yx, drawpage) => yx' = drawpage)
    BY <1>0, <2>1, Halves
  <2> QED BY <1>13, <2>1, <2>2, PageType DEF PInv, TypeInv, ViewInv, DrawInv, Drawing, HalfDrawn,
          TargetInv, ShownInv, SwapInv, DispInv, Displayed, Two, Todos, ViewTodos, ViewHalf,
          DispTodos, Loaded, DrawTodos, InitHeads, SpriteTodos
<1>14. CASE todo = <<"go", "wait">>
  <2>1. /\ todo' = <<"wait">> /\ Rest
        /\ UNCHANGED <<viewpage, drawpage, dispadr, yx>> /\ vidbas' = yx
    BY <1>14 DEF Access, StoreView, StoreDraw, LoadView, StoreDispadr, Render, Do
  <2> QED BY <1>14, <2>1, PageType DEF PInv, TypeInv, ViewInv, DrawInv, Drawing, HalfDrawn,
          TargetInv, ShownInv, SwapInv, DispInv, Displayed, Two, Todos, ViewTodos, ViewHalf,
          DispTodos, Loaded, DrawTodos, InitHeads, SpriteTodos
<1>15. CASE todo = <<"wait">>
  <2>1. /\ todo' = <<>> /\ Rest
        /\ UNCHANGED <<viewpage, drawpage, dispadr, vidbas, yx>>
    BY <1>15 DEF Access, StoreView, StoreDraw, LoadView, StoreDispadr, Render, Do
  <2> QED BY <1>15, <2>1, PageType DEF PInv, TypeInv, ViewInv, DrawInv, Drawing, HalfDrawn,
          TargetInv, ShownInv, SwapInv, DispInv, Displayed, Two, Todos, ViewTodos, ViewHalf,
          DispTodos, Loaded, DrawTodos, InitHeads, SpriteTodos
<1> QED BY <1>0, TodoIs, <1>1, <1>2, <1>3, <1>4, <1>5, <1>6, <1>7, <1>8, <1>9, <1>10, <1>11, <1>12,
        <1>13, <1>14, <1>15
        DEF Access, StoreView, StoreDraw, LoadView, StoreDispadr, Render, Do

\* What gfx_setviewpage has to do, written out.
LEMMA ViewTodo == <<"view_lo", "view_hi">> \o SetDispadr
                    = <<"view_lo", "view_hi", "load_lo", "load_hi", "disp_lo", "disp_hi">>
<1> DEFINE S == {"view_lo", "view_hi", "load_lo", "load_hi", "disp_lo", "disp_hi"}
           v == <<"view_lo", "view_hi">>
           t == <<"view_lo", "view_hi", "load_lo", "load_hi", "disp_lo", "disp_hi">>
<1>1. v \in Seq(S) /\ SetDispadr \in Seq(S) /\ t \in Seq(S)
  <2>1. v \in Seq(S)
    OBVIOUS
  <2>2. SetDispadr \in Seq(S)
    BY DEF SetDispadr
  <2>3. t \in Seq(S)
    OBVIOUS
  <2> QED BY <2>1, <2>2, <2>3
<1>2. Len(v) = 2 /\ Len(SetDispadr) = 4 /\ Len(t) = 6
  BY DEF SetDispadr
<1>3. /\ v[1] = t[1] /\ v[2] = t[2]
      /\ SetDispadr[1] = t[3] /\ SetDispadr[2] = t[4] /\ SetDispadr[3] = t[5] /\ SetDispadr[4] = t[6]
  BY DEF SetDispadr
<1> HIDE DEF S, v, t
<1>4. /\ v \o SetDispadr \in Seq(S) /\ Len(v \o SetDispadr) = Len(v) + Len(SetDispadr)
      /\ \A i \in 1 .. Len(v) + Len(SetDispadr) :
            (v \o SetDispadr)[i] = IF i <= Len(v) THEN v[i] ELSE SetDispadr[i - Len(v)]
  BY <1>1, ConcatProperties, Zenon
<1>5. ASSUME NEW i \in 1 .. 6 PROVE (v \o SetDispadr)[i] = t[i]
  <2>1. i \in {1, 2, 3, 4, 5, 6}
    OBVIOUS
  <2> QED BY <1>2, <1>3, <1>4, <2>1, SMTT(60)
<1>6. Len(v \o SetDispadr) = 6
  BY <1>2, <1>4
<1>7. v \o SetDispadr = t
  BY <1>1, <1>2, <1>4, <1>5, <1>6, SeqEqual
<1> QED BY <1>7 DEF v, t

\* What holds between two calls.
Settled == /\ TypeInv /\ todo = <<>>
           /\ "view" \notin spoiled => viewpage \in Two
           /\ "draw" \notin spoiled => drawpage \in Two
           /\ "draw" \notin byhand => drawpage = Page(drawpagenum)
           /\ "view" \notin byhand => viewpage = Page(1 - drawpagenum)
           /\ "display" \notin spoiled => dispadr = Displayed(viewpage)

\* It is what the invariant says there.
LEMMA SettledIs == PInv /\ todo = <<>> => Settled
BY DEF PInv, TypeInv, ViewInv, DrawInv, Drawing, HalfDrawn, TargetInv, ShownInv, SwapInv, DispInv,
        Settled, Todos, ViewTodos, ViewHalf, DispTodos, Loaded, DrawTodos, InitHeads, SpriteTodos,
        SetDispadr, InitPages

\* Every call starts from there.
LEMMA CallStep ==
    ASSUME PInv
    PROVE  SetViewPage \/ SetDrawPage \/ Flip \/ SetBpp \/ UpdateDisplay \/ GfxInit \/ Sprite
           => PInv'
<1>1. ASSUME NEW f, Call(f) PROVE Settled
  BY <1>1, SettledIs DEF Call, PInv, TypeInv
<1>2. \A n \in {0, 1} : Page(n) \in Two /\ Page(n) \in Nat
  BY PageType DEF Two
<1> USE DEF PInv, TypeInv, ViewInv, DrawInv, Drawing, HalfDrawn, TargetInv, ShownInv, SwapInv,
        DispInv, Settled, Spoilable, Todos, ViewTodos, ViewHalf, DispTodos, Loaded, DrawTodos,
        InitHeads, SpriteTodos, SetDispadr, InitPages
<1>3. CASE SetViewPage
  <2>1. Settled
    BY <1>1, <1>3, Zenon DEF SetViewPage
  <2>2. /\ todo' = <<"view_lo", "view_hi", "load_lo", "load_hi", "disp_lo", "disp_hi">>
        /\ yx' \in Nat /\ yx' \in Two
        /\ byhand' = byhand \cup {"view"} /\ spoiled' = spoiled \ {"view", "display"}
        /\ UNCHANGED <<viewpage, drawpage, drawpagenum, swaprequest, viddma, lefthand, dispadr, vidbas>>
    BY <1>2, <1>3, ViewTodo DEF SetViewPage
  <2>3. TypeInv'
    BY <2>1, <2>2
  <2>4. ViewInv' /\ DrawInv' /\ TargetInv' /\ ShownInv'
    BY <2>1, <2>2
  <2>5. SwapInv' /\ DispInv'
    BY <2>1, <2>2 DEF Displayed
  <2> QED BY <2>3, <2>4, <2>5, Zenon
<1>4. CASE SetDrawPage
  <2>1. Settled
    BY <1>1, <1>4, Zenon DEF SetDrawPage
  <2>2. yx' \in Nat /\ yx' \in Two
    BY <1>2, <1>4 DEF SetDrawPage
  <2>3. TypeInv'
    BY <1>4, <2>1, <2>2 DEF SetDrawPage
  <2>4. ViewInv' /\ DrawInv' /\ TargetInv' /\ ShownInv'
    BY <1>4, <2>1, <2>2 DEF SetDrawPage
  <2>5. SwapInv' /\ DispInv'
    BY <1>4, <2>1, <2>2 DEF SetDrawPage, Displayed
  <2> QED BY <2>3, <2>4, <2>5, Zenon
<1>5. CASE Flip
  <2>1. Settled
    BY <1>1, <1>5, Zenon DEF Flip
  <2>2. viddma' \in [flipped : BOOLEAN, bpp : {2, 4}] /\ lefthand' \in BOOLEAN
    BY <1>5, <2>1 DEF Flip
  <2>3. TypeInv'
    BY <1>5, <2>1, <2>2 DEF Flip
  <2>4. ViewInv' /\ DrawInv' /\ TargetInv' /\ ShownInv'
    BY <1>5, <2>1, <2>2 DEF Flip
  <2>5. SwapInv' /\ DispInv'
    BY <1>5, <2>1, <2>2 DEF Flip, Displayed
  <2> QED BY <2>3, <2>4, <2>5, Zenon
<1>6. CASE SetBpp
  <2>1. Settled
    BY <1>1, <1>6, Zenon DEF SetBpp
  <2>3. TypeInv'
    BY <1>6, <2>1 DEF SetBpp
  <2>4. ViewInv' /\ DrawInv' /\ TargetInv' /\ ShownInv'
    BY <1>6, <2>1 DEF SetBpp
  <2>5. SwapInv' /\ DispInv'
    BY <1>6, <2>1 DEF SetBpp, Displayed
  <2> QED BY <2>3, <2>4, <2>5, Zenon
<1>7. CASE UpdateDisplay
  <2>1. Settled
    BY <1>1, <1>7, Zenon DEF UpdateDisplay
  <2>3. TypeInv'
    BY <1>7, <2>1 DEF UpdateDisplay
  <2>4. ViewInv' /\ DrawInv' /\ TargetInv' /\ ShownInv'
    BY <1>7, <2>1 DEF UpdateDisplay
  <2>5. SwapInv' /\ DispInv'
    BY <1>7, <2>1 DEF UpdateDisplay, Displayed
  <2> QED BY <2>3, <2>4, <2>5, Zenon
<1>8. CASE GfxInit
  <2>1. Settled
    BY <1>1, <1>8, Zenon DEF GfxInit
  <2>2. yx' \in Nat /\ yx' \in Two
    BY <1>2, <1>8 DEF GfxInit
  <2>3. TypeInv'
    BY <1>8, <2>1, <2>2 DEF GfxInit
  <2>4. ViewInv' /\ DrawInv' /\ TargetInv' /\ ShownInv'
    BY <1>8, <2>1, <2>2 DEF GfxInit
  <2>5. SwapInv' /\ DispInv'
    BY <1>8, <2>1, <2>2 DEF GfxInit, Displayed
  <2> QED BY <2>3, <2>4, <2>5, Zenon
<1>9. CASE Sprite
  <2>1. Settled
    BY <1>1, <1>9, Zenon DEF Sprite
  <2>3. TypeInv'
    BY <1>9, <2>1 DEF Sprite
  <2>4. ViewInv' /\ DrawInv' /\ TargetInv' /\ ShownInv'
    BY <1>9, <2>1 DEF Sprite
  <2>5. SwapInv' /\ DispInv'
    BY <1>9, <2>1 DEF Sprite, Displayed
  <2> QED BY <2>3, <2>4, <2>5, Zenon
<1> QED BY <1>3, <1>4, <1>5, <1>6, <1>7, <1>8, <1>9, Zenon

\* gfx_init starts from the static data.
LEMMA InitPInv == Init => PInv
<1> SUFFICES ASSUME Init PROVE PInv
  OBVIOUS
<1>1. todo = <<"disp_lo", "draw_lo", "disp_hi", "draw_hi">>
  BY DEF Init, InitPages
<1>2. TypeInv
  BY PageType DEF Init, TypeInv, Todos, InitHeads
<1>3. ViewInv /\ DrawInv /\ TargetInv /\ ShownInv
  BY <1>1 DEF Init, Two, ViewInv, DrawInv, Drawing, HalfDrawn, TargetInv, ShownInv, ViewTodos,
          ViewHalf, DrawTodos, InitHeads, InitPages
<1>4. SwapInv
  BY <1>1 DEF Init, SwapInv, Drawing, HalfDrawn, DrawTodos, InitHeads, InitPages
<1>5. DispInv
  <2>1. yx = Displayed(viewpage)
    BY DisplayedHome DEF Init
  <2> QED BY <1>1, <2>1 DEF DispInv, DrawTodos, SpriteTodos, InitHeads, InitPages
<1> QED BY <1>2, <1>3, <1>4, <1>5 DEF PInv

\* What a swap leaves in the history.
LEMMA Remembered ==
    ASSUME todo \in Todos, Remember
    PROVE  /\ byhand' \subseteq {"view", "draw"} /\ spoiled' \subseteq Spoilable
           /\ "view" \in byhand' <=> todo \in ViewTodos
           /\ "draw" \in byhand' <=> Drawing
           /\ "display" \in spoiled' <=>
                 todo \in {<<"load_hi", "disp_lo", "disp_hi">>} \cup Loaded \cup InitHeads
           /\ "view" \in spoiled' <=> todo = ViewHalf
           /\ "draw" \in spoiled' <=> HalfDrawn
           /\ "target" \in spoiled' <=>
                 \/ todo = <<"base_hi", "go", "wait">>
                 \/ "target" \in spoiled /\ todo # <<"base_lo", "base_hi", "go", "wait">>
           /\ "shown" \in spoiled' <=> todo \in {<<"go", "wait">>, <<"wait">>}
<1>1. /\ byhand' = {w \in {"view", "draw"} : ToCome(IF w = "view" THEN "view_hi" ELSE "draw_hi")}
      /\ spoiled' = Spoils \cup (IF ToCome("base_lo") THEN {} ELSE spoiled \cap {"target"})
  BY DEF Remember
<1>2. /\ Spoils \subseteq Spoilable
      /\ "display" \in Spoils <=> Within("load_lo", "disp_hi")
      /\ "view" \in Spoils <=> Within("view_lo", "view_hi")
      /\ "draw" \in Spoils <=> Within("draw_lo", "draw_hi")
      /\ "target" \in Spoils <=> Within("base_lo", "base_hi")
      /\ "shown" \in Spoils <=> Within("base_hi", "wait")
  BY DEF Spoils, Spoilable
<1>3. /\ byhand' \subseteq {"view", "draw"} /\ spoiled' \subseteq Spoilable
      /\ "view" \in byhand' <=> ToCome("view_hi")
      /\ "draw" \in byhand' <=> ToCome("draw_hi")
  BY <1>1, <1>2 DEF Spoilable
<1>4. /\ \A w \in Spoilable \ {"target"} : w \in spoiled' <=> w \in Spoils
      /\ "target" \in spoiled' <=> "target" \in Spoils \/ ("target" \in spoiled /\ ~ToCome("base_lo"))
  BY <1>1
<1>5. {"display", "view", "draw", "shown"} \subseteq Spoilable \ {"target"}
  BY DEF Spoilable
<1> QED BY <1>2, <1>3, <1>4, <1>5, Windows, Zenon

\* A swap keeps the invariant wherever it comes.
LEMMA SwapStep == PInv /\ VblSwap => PInv'
<1> SUFFICES ASSUME PInv, VblSwap PROVE PInv'
  OBVIOUS
<1>1. todo \in Todos /\ todo' = todo /\ swaprequest /\ ~swaprequest' /\ UNCHANGED <<yx, vidbas, viddma>>
  BY DEF VblSwap, PInv, TypeInv
<1>2. /\ drawpagenum' \in {0, 1} /\ 1 - drawpagenum' = drawpagenum
      /\ viewpage' = Page(1 - drawpagenum') /\ drawpage' = Page(drawpagenum')
      /\ viewpage' \in Nat /\ viewpage' \in Two /\ drawpage' \in Nat /\ drawpage' \in Two
  BY PageType DEF VblSwap, PInv, TypeInv, Two
<1>3. dispadr' = Displayed(viewpage') /\ dispadr' \in Nat
  BY <1>2, DisplayedType DEF VblSwap
<1>4. dispadr' = Displayed(viewpage)'
  BY <1>1, <1>3 DEF Displayed
<1>5. Remember
  BY DEF VblSwap
<1>6. /\ byhand' \subseteq {"view", "draw"} /\ spoiled' \subseteq Spoilable
      /\ "view" \in byhand' <=> todo \in ViewTodos
      /\ "draw" \in byhand' <=> Drawing
      /\ "display" \in spoiled' <=>
            todo \in {<<"load_hi", "disp_lo", "disp_hi">>} \cup Loaded \cup InitHeads
      /\ "view" \in spoiled' <=> todo = ViewHalf
      /\ "draw" \in spoiled' <=> HalfDrawn
      /\ "target" \in spoiled' <=>
            \/ todo = <<"base_hi", "go", "wait">>
            \/ "target" \in spoiled /\ todo # <<"base_lo", "base_hi", "go", "wait">>
      /\ "shown" \in spoiled' <=> todo \in {<<"go", "wait">>, <<"wait">>}
  BY <1>1, <1>5, Remembered
<1>7. TypeInv'
  BY <1>1, <1>2, <1>3, <1>6 DEF VblSwap, PInv, TypeInv
<1>8. ViewInv'
  BY <1>1, <1>2, <1>6 DEF PInv, ViewInv
<1>9. DrawInv'
  BY <1>1, <1>2, <1>6 DEF PInv, DrawInv, Drawing, HalfDrawn
<1>10. TargetInv'
  BY <1>1, <1>2, <1>6 DEF PInv, TargetInv
<1>11. ShownInv'
  BY <1>1, <1>6 DEF ShownInv
<1>12. SwapInv'
  BY <1>1, <1>2, <1>6 DEF SwapInv, Drawing
<1>13. DispInv'
  BY <1>1, <1>4, <1>6 DEF DispInv, Loaded, InitHeads
<1> QED BY <1>7, <1>8, <1>9, <1>10, <1>11, <1>12, <1>13 DEF PInv

\* Every step of the program and of the interruptor keeps the invariant.
LEMMA PagesStep == PInv /\ [Next]_vars => PInv'
<1> SUFFICES ASSUME PInv, [Next]_vars PROVE PInv'
  OBVIOUS
<1>1. CASE UNCHANGED vars
  BY <1>1 DEF vars, PInv, TypeInv, ViewInv, DrawInv, Drawing, HalfDrawn, TargetInv, ShownInv,
          SwapInv, DispInv, Displayed
<1> QED BY <1>1, AccessStep, CallStep, SwapStep DEF Next

-----------------------------------------------------------------------------
(* The theorems.                                                           *)

\* The strengthening is an invariant of every program, whatever calls it
\* makes and wherever swaps come.
THEOREM PagesInductive == Spec => []PInv
BY InitPInv, PagesStep, PTL DEF Spec

\* Suzy renders into one of the two pages and nowhere else, unless a swap came
\* between the two loads, or stores, of the draw page's address (gfx_sprite).
THEOREM IntoAPage == Spec => []RendersIntoPage
<1>1. PInv => RendersIntoPage
  <2> SUFFICES ASSUME PInv, Rendering, "target" \notin spoiled PROVE vidbas \in Two
    BY DEF RendersIntoPage, Two
  <2>1. todo = <<"wait">>
    BY TodoIs DEF PInv, TypeInv, Rendering
  <2> QED BY <2>1 DEF PInv, TargetInv
<1> QED BY PagesInductive, <1>1, PTL

\* Between calls Mikey displays the view page the way flip and depth ask for,
\* unless the last swap came between the load of the view page and the stores of
\* set_dispadr, or gfx_init was called again.
THEOREM Coherent == Spec => []DisplayCoherent
<1>1. PInv => DisplayCoherent
  BY SettledIs DEF Settled, DisplayCoherent, Two
<1> QED BY PagesInductive, <1>1, PTL

\* Suzy never renders into the page on view while swaps alone set the pages,
\* unless the swap came behind the load of the draw page.
THEOREM NeverTorn == Spec => []NoTearing
<1>1. ASSUME PInv PROVE NoTearing
  <2> SUFFICES ASSUME byhand = {}, Rendering, "shown" \notin spoiled PROVE vidbas # viewpage
    BY DEF NoTearing
  <2>1. todo = <<"wait">>
    BY <1>1, TodoIs DEF PInv, TypeInv, Rendering
  <2>2. SameHi(vidbas, drawpage)
    BY <1>1, <2>1 DEF PInv, ShownInv
  <2>3. drawpage = Page(drawpagenum) /\ viewpage = Page(1 - drawpagenum) /\ drawpagenum \in {0, 1}
    BY <1>1, <2>1 DEF PInv, TypeInv, SwapInv, Drawing, DrawTodos, InitHeads, InitPages
  <2>4. ~SameHi(viewpage, drawpage)
    BY <2>3, PageType DEF SameHi
  <2> QED BY <2>2, <2>4
<1> QED BY PagesInductive, <1>1, PTL

\* A swap leaves drawing in another page than the one on view, and shows the page
\* drawn into, but for the first after gfx_setdrawpage or gfx_init.
THEOREM SwapsPages == Spec => SwapExchanges
<1> DEFINE Exchange == Swapping => /\ "draw" \notin byhand => viewpage' = drawpage
                                   /\ drawpage' # viewpage'
<1>1. ASSUME PInv, [Next]_vars, Swapping
      PROVE  ("draw" \notin byhand => viewpage' = drawpage) /\ drawpage' # viewpage'
  <2>1. VblSwap
    BY <1>1 DEF Swapping, Next, vars, SetViewPage, SetDrawPage, Flip, SetBpp, UpdateDisplay,
            GfxInit, Sprite, Access
  <2>2. drawpagenum \in {0, 1} /\ ("draw" \notin byhand => drawpage = Page(drawpagenum))
    BY <1>1 DEF Swapping, PInv, TypeInv, SwapInv
  <2>3. Page(0) # Page(1)
    BY PageType DEF SameHi
  <2> QED BY <2>1, <2>2, <2>3 DEF VblSwap
<1>2. PInv /\ [Next]_vars => [Exchange]_vars
  BY <1>1
<1> QED BY <1>2, PagesInductive, InitPInv, PagesStep, PTL DEF Spec, SwapExchanges
=============================================================================
