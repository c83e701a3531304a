SPECIFICATION Spec
CONSTANTS
  Calls = {"gfx_setviewpage", "gfx_setdrawpage", "gfx_flip", "gfx_setbpp",
           "gfx_updatedisplay", "gfx_init", "gfx_sprite"}
INVARIANTS RendersIntoPage DisplayCoherent NoTearing
PROPERTIES SwapExchanges
