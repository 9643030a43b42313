--------------------------- MODULE MCConfigReload ---------------------------
EXTENDS ConfigReload
CONSTANTS a, b, s, f1, f2
MCApps == {a, b}
MCPaths == {f1, f2}
MCItems == <<"x", "y">>
MCContents == {1, 2}

Op(names, from) == [op : names, from : {from}]

\* The file is switched while auto-reload is disabled elsewhere or from the callback.
Repointing == [ops |-> Op({"load"}, a) \cup Op({"load", "disable"}, b)
                         \cup Op({"disable", "load"}, "callback"),
               calls |-> 2, events |-> 1, kinds |-> {}, faults |-> 0]
\* A Logic DLL is unloaded while changes and presses come in, and the next one loads.
Unloading  == [ops |-> Op({"unload"}, a) \cup Op({"load"}, b),
               calls |-> 2, events |-> 1, kinds |-> {}, faults |-> 0]
\* A Logic DLL is unloaded while more changes and presses come in.
Leaving    == [ops |-> Op({"unload"}, a), calls |-> 2, events |-> 2, kinds |-> {}, faults |-> 0]
\* One thread makes any calls, and something fails.
Failing    == [ops |-> Op({"load", "enable", "disable", "hotkey", "bind", "clear", "reload"}, a),
               calls |-> 2, events |-> 1, kinds |-> {"setter", "parse", "start"}, faults |-> 1]
\* Changes and presses only, with a failure.
Reloading  == [ops |-> {}, calls |-> 0, events |-> 3, kinds |-> {"setter", "parse", "start"}, faults |-> 1]

MCScenarios == {Repointing, Unloading, Leaving, Failing, Reloading}
=============================================================================
