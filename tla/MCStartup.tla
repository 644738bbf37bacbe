------------------------------- MODULE MCStartup -------------------------------
(* Each setting is given as an option, in the tree, as both or not at all, *)
(* next to pipelines of every kind, well-formed or not.                    *)
EXTENDS Startup

(* Directory "log" holds the done file "log.done", "gone" does not exist.  *)
MCDirectories == {"data", "run", "log"}
MCFilesIn == [data |-> {1, 2}, run |-> {3}, log |-> {4}, gone |-> {}]
MCMatches == [vti |-> {1, 3, 4}, pvti |-> {2, 3}]
MCDoneFiles == {"stop", "log.done"}
MCDirectoryOf == [f \in MCDoneFiles \cup {"", "lost"} |->
                    IF f = "log.done" THEN "log" ELSE "home"]

Paths(directory, regex, accept) ==
    [type |-> "InputSpecPaths", watch |-> TRUE, directory_path |-> directory,
     files_regex |-> regex, accept |-> accept, needs |-> {2}]
AnyFile(accept) == [type |-> "InputSpecAny", watch |-> FALSE, accept |-> accept]

Command(exe) == [exe |-> exe, argument |-> "filename"]
Run(exe, commandType, filesType) ==
    [type |-> "ProcessingSpecCommands", commands |-> <<Command(""), Command(exe)>>,
     commandType |-> commandType, filesType |-> filesType]
Ready(format) ==
    [type |-> "ProcessingSpecReadyFile", match_regex |-> "rdy", replace_formatstr |-> format]
Script(scripts) == [type |-> "ProcessingSpecCatalyst", scripts |-> scripts]

JsonStage(input, process, output) == [input |-> input, process |-> process, output |-> output]
One(input, process, output) == <<<<JsonStage(input, process, output)>>>>

WellFormed == {
    <<>>,
    One(Paths("data", "", ""), Run("x", "separate", "single"), "OutputSpecDone"),
    <<<<JsonStage(Paths("data", "vti", "all"), Ready("out"), "OutputSpecPipeline"),
        JsonStage(AnyFile("all"), Run("x", "separate", ""), "OutputSpecDone")>>,
      <<JsonStage(Paths("data", "pvti", "script"), Script(<<"p", "">>), "OutputSpecDone")>>,
      <<JsonStage(Paths("gone", "vti", "first"), Script(<<"p">>), "OutputSpecDone")>>,
      <<JsonStage(Paths("log", "", "first"), Script(<<"p">>), "OutputSpecDone")>>>> }

Malformed == {
    <<<<>>>>,
    One([Paths("data", "", "") EXCEPT !.watch = FALSE], Script(<<"p">>), "OutputSpecDone"),
    One(AnyFile("script"), Script(<<"p">>), "OutputSpecDone"),
    One(AnyFile("all"), Script(<<>>), "OutputSpecDone"),
    One(AnyFile("all"), Ready(""), "OutputSpecDone"),
    One(AnyFile("all"), Run("", "all", "all"), "OutputSpecDone"),
    One(AnyFile("all"), Run("x", "all", "all"), "OutputSpecElse") }

Opts ==
    [help : {FALSE}, watch : {"", "data"}, done : {"", "stop"}, files : {"", "vti"},
     initial : {<<>>, <<1, 3>>}, scripts : {<<>>, <<"s1">>},
     variables : {<<<<"u", "v">>>>},
     external_commands : {<<>>, <<Command("y")>>}, nodes : {<<>>}, catalyst_lib : {"", "lib"}]

Tree ==
    [readable : {TRUE}, directory_path : {"", "run"}, done_watchfile : {"", "log.done", "lost"},
     files_regex : {"", "pvti"}, initial_files : {<<>>, <<2>>}, scripts : {<<>>, <<"s2">>},
     variables : {<<>>},
     commands : {<<Command("")>>}, nodes : {<<>>}, catalyst_lib : {""}, pipelines : WellFormed]

UsualOpts == [help |-> FALSE, watch |-> "", done |-> "", files |-> "", initial |-> <<1, 3>>,
              scripts |-> <<"s1">>, variables |-> <<<<"u">>>>, external_commands |-> <<>>, nodes |-> <<>>,
              catalyst_lib |-> "lib"]
UsualTree == [readable |-> TRUE, directory_path |-> "", done_watchfile |-> "",
              files_regex |-> "", initial_files |-> <<>>, scripts |-> <<>>,
              variables |-> <<>>, commands |-> <<>>, nodes |-> <<<<0, 1>>, <<3, 3>>>>, catalyst_lib |-> "", pipelines |-> <<>>]

(* One script, two, and two of the same name, with one set of two variables, *)
(* a set for each, and none.                                                 *)
MCFileNameOf == [s1 |-> "a.py", s2 |-> "b.py", s3 |-> "a.py"]
WithScripts ==
    LET scriptSets == {<<>>, <<"s1">>, <<"s1", "s2">>, <<"s1", "s3">>}
        variableSets == {<<>>, <<<<"u", "v">>>>, <<<<"u">>, <<"v">>>>}
    IN  [opts : [help : {FALSE}, watch : {""}, done : {""}, files : {""}, initial : {<<1, 3>>},
                 scripts : scriptSets, variables : variableSets, external_commands : {<<>>},
                 nodes : {<<>>}, catalyst_lib : {"lib"}],
         tree : {[UsualTree EXCEPT !.scripts = s, !.variables = v] :
                    s \in scriptSets, v \in variableSets}]

MCConfigurations ==
    [opts : Opts, tree : Tree] \cup WithScripts
    \cup [opts : {UsualOpts}, tree : {[UsualTree EXCEPT !.pipelines = p] : p \in Malformed}]
    \cup {[opts |-> UsualOpts, tree |-> UsualTree],
          [opts |-> UsualOpts, tree |-> [UsualTree EXCEPT !.readable = FALSE]],
          [opts |-> [UsualOpts EXCEPT !.help = TRUE], tree |-> UsualTree],
          [opts |-> [UsualOpts EXCEPT !.nodes = <<<<2, 2>>>>], tree |-> UsualTree],
          [opts |-> [UsualOpts EXCEPT !.nodes = <<<<>>>>], tree |-> UsualTree]}
=============================================================================
