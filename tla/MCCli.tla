--------------------------------- MODULE MCCli ---------------------------------
(***************************************************************************)
(* An instance of Cli for TLC: a module with a test of a named and an       *)
(* unnamed test case and a test without test cases, one with a single test  *)
(* case, one without tests, one that is no suite and one that is no module. *)
(***************************************************************************)
EXTENDS Cli

MCModule(kind, tests) == [kind |-> kind, tests |-> tests]
MCModules ==
    [file \in {"two", "one", "empty", "old", "text"} |->
        CASE file = "two" -> MCModule("suite", <<<<TRUE, FALSE>>, <<>>>>)
          [] file = "one" -> MCModule("suite", <<<<FALSE>>>>)
          [] file = "empty" -> MCModule("suite", <<>>)
          [] file = "old" -> MCModule("bad_version", <<<<FALSE>>>>)
          [] OTHER -> MCModule("unreadable", <<>>)]

MCArgVectors ==
    {<<>>, <<"two">>, <<"empty">>, <<"one", "one">>, <<"one", "two">>,
     <<"two", "old">>, <<"one", "text">>}

\* Descriptions that end at, before and behind a multiple of the word size, and
\* one that vsnprintf() could not make.
MCFailures ==
    [stage : {"EXECUTION"},
     description : {<<>>, <<"d", 0>>, <<"d", 3>>},
     location : {<<>>, <<<<>>, 1>>, <<<<"f", 2>>, 7>>},
     stacktrace : {<<>>, <<<<>>>>,
                   <<<<<<<<"g", 2>>, 5>>, <<<<>>, 0>>, <<<<"h", 1>>, 0>>>>>>}]
    \union [stage : {"SETUP", "TEARDOWN"}, description : {<<"d", 4>>},
            location : {<<>>}, stacktrace : {<<>>}]
===============================================================================
