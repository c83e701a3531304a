-------------------------------- MODULE MCLinker --------------------------------
(***************************************************************************)
(* A family of small programs: the main module and three library modules,  *)
(* which define and import f and g, z the dispatcher of the interruptors.  *)
(***************************************************************************)
EXTENDS Linker

AllModules == {"main", "x", "y", "z"}
AllNames   == {"f", "g", "dispatcher", "label", "count"}

Obj == [kind |-> "obj", mods |-> <<"main">>, name |-> "f"]
Lib(mods) == [kind |-> "lib", mods |-> mods, name |-> "f"]
StartGroup == [kind |-> "start", mods |-> <<>>, name |-> "f"]
EndGroup == [kind |-> "end", mods |-> <<>>, name |-> "f"]
Wanted == [kind |-> "import", mods |-> <<>>, name |-> "f"]
Defined == [kind |-> "define", mods |-> <<>>, name |-> "g"]

\* One library, libraries in the wrong order, a group, a group with an object
\* between its libraries, options, and wrong usage.
CommandLines == {
    << Obj, Lib(<<"z", "x", "y">>) >>,
    << Obj, Lib(<<"y">>), Lib(<<"z", "x">>) >>,
    << StartGroup, Obj, Lib(<<"z">>), Lib(<<"y">>), Lib(<<"x">>), EndGroup >>,
    << Wanted, StartGroup, Lib(<<"x", "y">>), Obj, Lib(<<"z">>), EndGroup >>,
    << Defined, Defined, Obj, StartGroup, Lib(<<"z", "y">>), EndGroup, Lib(<<"x">>) >>,
    << Obj, StartGroup, Lib(<<"x", "y", "z">>) >>,
    << Obj, StartGroup, StartGroup >>, << Obj, EndGroup >>, << Lib(<<"x">>) >> }

Exports == {e \in [AllModules -> { <<>>, <<"f">>, <<"g">>, <<"f", "g">>,
                                   <<"dispatcher">>, <<"dispatcher", "g">> }] :
                /\ e["main"] = <<>>
                /\ e["x"] \in {<<"f">>, <<"f", "g">>}
                /\ e["y"] \in {<<"g">>, <<"f">>}
                /\ e["z"] \in {<<"dispatcher">>, <<"dispatcher", "g">>}}

ImportLists == {i \in [AllModules -> { <<>>, <<"f">>, <<"g">>, <<"g", "f">>, <<"count">>,
                                   <<"label">>, <<"label", "count", "f">> }] :
                /\ i["main"] \in {<<"f">>, <<"g", "f">>}
                /\ i["x"] \in {<<>>, <<"g">>, <<"count">>}
                /\ i["y"] \in {<<>>, <<"f">>}
                /\ i["z"] \in {<<"label">>, <<"label", "count", "f">>}}

AllPrograms == {p \in
    [items : CommandLines, exports : Exports, imports : ImportLists,
     condes : {{}, {<<"x", "f">>}, {<<"x", "f">>, <<"y", "g">>}}, multdef : BOOLEAN] :
        \A c \in p.condes : \E k \in DOMAIN p.exports[c[1]] : p.exports[c[1]][k] = c[2]}
=============================================================================
