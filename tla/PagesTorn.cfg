SPECIFICATION Spec
CONSTANTS
  Calls = {"gfx_updatedisplay", "gfx_sprite"}
INVARIANTS SpritesInPages
