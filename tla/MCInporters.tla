------------------------------ MODULE MCInporters ------------------------------
(* Two of three ranks are inporters, and three files come in up to two     *)
(* deliveries: the signal of an image, the image, and a NetCDF file of a   *)
(* single layer, of which the second inporter has none.                    *)
EXTENDS Inporters

MCIntervals == {<<1, 1>>, <<2, 5>>}
MCFiles == <<1, 2, 3>>
MCLayers == <<1, 2, 1>>
MCFormat == <<"other", "image", "netcdf">>
MCArrays == <<{}, {"w"}, {"u", "v"}>>

Paths(matches, accept) == [type |-> "paths", matches |-> matches, accept |-> accept]
Script(matches, needs) ==
    [type |-> "paths", matches |-> matches, accept |-> "script", needs |-> needs]
AnyFile(accept) == [type |-> "any", accept |-> accept]

Catalyst(variables) ==
    [type |-> "catalyst", scripts |-> <<[script |-> "p", variables |-> variables]>>]
ReadyFile(conversion) == [type |-> "readyfile", conversion |-> conversion]
Commands(arguments, commandsBy, filesBy) ==
    [type |-> "commands", commandsBy |-> commandsBy, filesBy |-> filesBy,
     commands |-> [c \in DOMAIN arguments |-> [exe |-> c, argument |-> arguments[c]]]]

Stage(input, process, out) == [input |-> input, process |-> process, out |-> out]

(* A script that waits for files 2 and 3, with a stage behind it that gets *)
(* nothing; commands on 1 and 3 together, with stages behind them; and,    *)
(* one file at a time, the signal, which becomes the image, or the image   *)
(* itself.  File 3 alone is left waiting.                                  *)
MCPipelines == <<
    <<Stage(Script({2, 3}, {2, 3}), Catalyst(<<"u", "v">>), "pipeline"),
      Stage(Paths({2}, "all"), Catalyst(<<"u">>), "done")>>,
    <<Stage(Script({1, 3}, {1, 3}), Commands(<<"filenames", "none">>, "all", "single"),
            "pipeline"),
      Stage(AnyFile("all"), Catalyst(<<"u">>), "pipeline"),
      Stage(AnyFile("all"), Commands(<<"none", "filename">>, "separate", "single"), "done")>>,
    <<Stage(Paths({1, 2}, "first"), ReadyFile(1 :> 2 @@ 2 :> 2), "pipeline"),
      Stage(Paths({2}, "all"), Catalyst(<<"u">>), "done")>> >>

(* A pipeline that takes whatever there is, and nothing if there is none. *)
MCTakesAny == <<
    <<Stage(AnyFile("all"), Commands(<<"none", "filename">>, "separate", "single"), "done")>> >>
=============================================================================
