--------------------------------- MODULE Pages ---------------------------------
(***************************************************************************)
(* Double buffering in libraries/graphics: the calls of gfx-page.s,        *)
(* gfx_init and gfx_sprite run in the main program, one access to a shared *)
(* byte at a time; the page swap gfx_vbl_irq may run between any two of    *)
(* them, and is one step because interrupts are off.  Registers survive    *)
(* the interrupt.  An address is a number; its bytes are stored one by one.*)
(***************************************************************************)
EXTENDS Integers, Sequences, Functions

CONSTANT Calls \* the functions the program uses, with a swap pending or not

ASSUME PagesAssumption ==
    Calls \subseteq {"gfx_setviewpage", "gfx_setdrawpage", "gfx_flip", "gfx_setbpp",
                     "gfx_updatedisplay", "gfx_init", "gfx_sprite"}

VARIABLES viewpage,     \* shadow of the address on view
          drawpage,     \* gfx_drawpage
          drawpagenum, swaprequest,
          viddma,       \* DISPCTL and its shadow: flipped, and bits per pixel
          lefthand,     \* SPRSYS and its shadow
          dispadr,      \* DISPADR, where Mikey fetches the display from
          vidbas,       \* VIDBAS, where Suzy renders to
          yx,           \* the register pair that carries an address
          todo,         \* what the current call still has to do
          byhand,       \* history: the pages set by another than the last swap
          spoiled       \* history: what a swap fell into, or gfx_init left behind

vars == <<viewpage, drawpage, drawpagenum, swaprequest, viddma, lefthand,
          dispadr, vidbas, yx, todo, byhand, spoiled>>

Page(n) == IF n = 1 THEN 49208 ELSE 57368     \* $C038, $E018
SetLo(a, b) == (a \div 256) * 256 + (b % 256)
SetHi(a, b) == (b \div 256) * 256 + (a % 256)

\* Where the display of page view starts: a flipped one at its last byte.
Displayed(view) ==
    (view + IF ~viddma.flipped THEN 0 ELSE IF viddma.bpp = 4 THEN 8159 ELSE 4079) % 65536

SetDispadr == <<"load_lo", "load_hi", "disp_lo", "disp_hi">>
InitPages  == <<"disp_lo", "draw_lo", "disp_hi", "draw_hi">>

\* History.  The display is spoiled if a swap falls between the load of the view
\* page and the store of its address; either shadow, if it falls between the
\* stores of its bytes; the target of a sprite, between their loads; and a
\* target is shown if its page comes on view.
ToCome(step) == step \in Range(todo)
Within(first, last) == ~ToCome(first) /\ ToCome(last)
Spoils == {w \in {"display", "view", "draw", "target", "shown"} :
             CASE w = "display" -> Within("load_lo", "disp_hi")
               [] w = "view"    -> Within("view_lo", "view_hi")
               [] w = "draw"    -> Within("draw_lo", "draw_hi")
               [] w = "target"  -> Within("base_lo", "base_hi")
               [] w = "shown"   -> Within("base_hi", "wait")}

\* Static data, and gfx_init, the first call, come to its page addresses.
Init == /\ viewpage = Page(0) /\ drawpage = Page(0)
        /\ drawpagenum = 0 /\ swaprequest = FALSE
        /\ viddma = [flipped |-> FALSE, bpp |-> 4] /\ lefthand = FALSE
        /\ dispadr = 0 /\ vidbas = 0
        /\ yx = Page(0) /\ todo = InitPages
        /\ byhand = {"view"} /\ spoiled = {}

-----------------------------------------------------------------------------
(* Calls: what happens before the first access to state the swap shares.   *)

Call(f) == f \in Calls /\ todo = <<>>

SetViewPage == /\ Call("gfx_setviewpage")
               /\ \E n \in {0, 1} : yx' = Page(n)
               /\ todo' = <<"view_lo", "view_hi">> \o SetDispadr
               /\ byhand' = byhand \cup {"view"}
               /\ spoiled' = spoiled \ {"view", "display"}
               /\ UNCHANGED <<viewpage, drawpage, drawpagenum, swaprequest, viddma,
                              lefthand, dispadr, vidbas>>

\* Mutant: only the low byte is stored.
SetDrawPageLow == /\ Call("gfx_setdrawpage")
                  /\ \E n \in {0, 1} : yx' = Page(n)
                  /\ todo' = <<"draw_lo">>
                  /\ byhand' = byhand \cup {"draw"}
                  /\ spoiled' = spoiled \ {"draw"}
                  /\ UNCHANGED <<viewpage, drawpage, drawpagenum, swaprequest, viddma,
                                 lefthand, dispadr, vidbas>>

SetDrawPage == /\ Call("gfx_setdrawpage")
               /\ \E n \in {0, 1} : yx' = Page(n)
               /\ todo' = <<"draw_lo", "draw_hi">>
               /\ byhand' = byhand \cup {"draw"}
               /\ spoiled' = spoiled \ {"draw"}
               /\ UNCHANGED <<viewpage, drawpage, drawpagenum, swaprequest, viddma,
                              lefthand, dispadr, vidbas>>

\* Mutant: the view page is not issued again.
FlipOnly == /\ Call("gfx_flip")
            /\ lefthand' = ~lefthand
            /\ viddma' = [viddma EXCEPT !.flipped = ~@]
            /\ UNCHANGED <<viewpage, drawpage, drawpagenum, swaprequest, dispadr,
                           vidbas, yx, todo, byhand, spoiled>>

Flip == /\ Call("gfx_flip")
        /\ lefthand' = ~lefthand
        /\ viddma' = [viddma EXCEPT !.flipped = ~@]
        /\ todo' = SetDispadr
        /\ spoiled' = spoiled \ {"display"}
        /\ UNCHANGED <<viewpage, drawpage, drawpagenum, swaprequest, dispadr, vidbas,
                       yx, byhand>>

SetBpp == /\ Call("gfx_setbpp")
          /\ \E bpp \in {2, 4} : viddma' = [viddma EXCEPT !.bpp = bpp]
          /\ todo' = SetDispadr
          /\ spoiled' = spoiled \ {"display"}
          /\ UNCHANGED <<viewpage, drawpage, drawpagenum, swaprequest, lefthand,
                         dispadr, vidbas, yx, byhand>>

UpdateDisplay == /\ Call("gfx_updatedisplay")
                 /\ swaprequest' = TRUE
                 /\ UNCHANGED <<viewpage, drawpage, drawpagenum, viddma, lefthand,
                                dispadr, vidbas, yx, todo, byhand, spoiled>>

\* Neither viewpage nor drawpagenum nor swaprequest is reset, so page 0 is
\* displayed whatever the view page is.
GfxInit == /\ Call("gfx_init")
           /\ viddma' = [flipped |-> FALSE, bpp |-> 4] /\ lefthand' = FALSE
           /\ yx' = Page(0)
           /\ todo' = InitPages
           /\ byhand' = {"view", "draw"}
           /\ spoiled' = (spoiled \ {"draw"}) \cup {"display"}
           /\ UNCHANGED <<viewpage, drawpage, drawpagenum, swaprequest, dispadr, vidbas>>

Sprite == /\ Call("gfx_sprite")
          /\ todo' = <<"base_lo", "base_hi", "go", "wait">>
          /\ spoiled' = (spoiled \cap {"display", "view", "draw"})
                        \cup (IF "draw" \in spoiled THEN {"target"} ELSE {})
          /\ UNCHANGED <<viewpage, drawpage, drawpagenum, swaprequest, viddma,
                         lefthand, dispadr, vidbas, yx, byhand>>

-----------------------------------------------------------------------------
(* The accesses. *)

Do(step) == todo # <<>> /\ Head(todo) = step /\ todo' = Tail(todo)

StoreView == /\ \/ Do("view_lo") /\ viewpage' = SetLo(viewpage, yx)
                \/ Do("view_hi") /\ viewpage' = SetHi(viewpage, yx)
             /\ UNCHANGED <<drawpage, dispadr, vidbas, yx>>

StoreDraw == /\ \/ Do("draw_lo") /\ drawpage' = SetLo(drawpage, yx)
                \/ Do("draw_hi") /\ drawpage' = SetHi(drawpage, yx)
             /\ UNCHANGED <<viewpage, dispadr, vidbas, yx>>

\* set_dispadr adds the offset once both bytes of the shadow are loaded.
LoadView == /\ \/ Do("load_lo") /\ yx' = SetLo(yx, viewpage)
               \/ Do("load_hi") /\ yx' = Displayed(SetHi(yx, viewpage))
            /\ UNCHANGED <<viewpage, drawpage, dispadr, vidbas>>

StoreDispadr == /\ \/ Do("disp_lo") /\ dispadr' = SetLo(dispadr, yx)
                   \/ Do("disp_hi") /\ dispadr' = SetHi(dispadr, yx)
                /\ UNCHANGED <<viewpage, drawpage, vidbas, yx>>

\* gfx_sprite starts the engine on the page it read and waits for its end.
Render == /\ \/ Do("base_lo") /\ yx' = SetLo(yx, drawpage) /\ UNCHANGED vidbas
             \/ Do("base_hi") /\ yx' = SetHi(yx, drawpage) /\ UNCHANGED vidbas
             \/ Do("go") /\ vidbas' = yx /\ UNCHANGED yx
             \/ Do("wait") /\ UNCHANGED <<vidbas, yx>>
          /\ UNCHANGED <<viewpage, drawpage, dispadr>>

Access == /\ StoreView \/ StoreDraw \/ LoadView \/ StoreDispadr \/ Render
          /\ UNCHANGED <<drawpagenum, swaprequest, viddma, lefthand, byhand, spoiled>>

-----------------------------------------------------------------------------
(* The interruptor.  Without a request it changes nothing. *)

\* What a swap leaves set by hand: a page whose store is still to come.
Remember == /\ byhand' = {w \in {"view", "draw"} :
                            ToCome(IF w = "view" THEN "view_hi" ELSE "draw_hi")}
            /\ spoiled' = Spoils \cup (IF ToCome("base_lo") THEN {} ELSE spoiled \cap {"target"})

\* Mutant: the page number is toggled before the page is viewed.
SwapToggledFirst == /\ swaprequest
                    /\ drawpagenum' = 1 - drawpagenum
                    /\ viewpage' = Page(drawpagenum')
                    /\ dispadr' = Displayed(viewpage')
                    /\ drawpage' = Page(1 - drawpagenum')
                    /\ swaprequest' = FALSE
                    /\ Remember
                    /\ UNCHANGED <<viddma, lefthand, vidbas, yx, todo>>

\* Mutant: drawing stays on the page just shown.
SwapViewOnly == /\ swaprequest
                /\ viewpage' = Page(drawpagenum)
                /\ dispadr' = Displayed(viewpage')
                /\ swaprequest' = FALSE
                /\ Remember
                /\ UNCHANGED <<drawpage, drawpagenum, viddma, lefthand, vidbas, yx, todo>>

VblSwap == /\ swaprequest
           /\ viewpage' = Page(drawpagenum)
           /\ dispadr' = Displayed(viewpage')
           /\ drawpagenum' = 1 - drawpagenum
           /\ drawpage' = Page(drawpagenum')
           /\ swaprequest' = FALSE
           /\ Remember
           /\ UNCHANGED <<viddma, lefthand, vidbas, yx, todo>>

Next == \/ SetViewPage \/ SetDrawPage \/ Flip \/ SetBpp
        \/ UpdateDisplay \/ GfxInit \/ Sprite
        \/ Access \/ VblSwap

Spec == Init /\ [][Next]_vars

-----------------------------------------------------------------------------
\* Suzy renders into one of the two pages, and nowhere else in memory, unless
\* the last swap fell between the two loads of the draw page (gfx_sprite) or, when
\* the program set the draw page, between the two stores of it.
Rendering == todo # <<>> /\ Head(todo) = "wait"
RendersIntoPage == Rendering /\ "target" \notin spoiled => vidbas \in {Page(0), Page(1)}

\* Between calls Mikey displays the view page the way flip and depth ask for
\* (set_dispadr), unless the last swap fell between its loads of the view page and
\* its stores, or gfx_init was called again; and the view page is a whole one,
\* unless a swap fell between the stores of its bytes.
DisplayCoherent ==
    todo = <<>> => /\ "display" \notin spoiled => dispadr = Displayed(viewpage)
                   /\ "view" \notin spoiled => viewpage \in {Page(0), Page(1)}

\* From one swap to the next Suzy never renders into the page on view, if the
\* program sets no page itself, unless the swap fell behind the load of the draw
\* page by the very gfx_sprite that renders.
NoTearing == byhand = {} /\ Rendering /\ "shown" \notin spoiled => vidbas # viewpage

\* A swap leaves drawing in another page than the one on view (gfx_vbl_irq); and
\* the page drawn into comes on view, but for the first swap after
\* gfx_setdrawpage or gfx_init, which know nothing of drawpagenum.
Swapping == swaprequest /\ ~swaprequest'
SwapExchanges ==
    [][Swapping => /\ "draw" \notin byhand => viewpage' = drawpage
                   /\ drawpage' # viewpage']_vars

\* gfx_sprite draws "into the draw buffer", says its comment, and the
\* documentation lets the program go on drawing while a swap is pending.
SpritesInPages == Rendering => vidbas \in {Page(0), Page(1)}
=============================================================================
