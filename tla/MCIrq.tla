--------------------------------- MODULE MCIrq ---------------------------------
(***************************************************************************)
(* The interruptor table the runs check.  Both page swap and sound engine  *)
(* have the default priority 7; the linker sorts them by name and callirq  *)
(* starts at the end of the table.                                         *)
(***************************************************************************)
EXTENDS Irq

LinkedTable == <<"snd_handler", "gfx_vbl_irq", "update_clock", "clevel_irq">>
=============================================================================
