--------------------------------- MODULE MCRepl -------------------------------
(* Command names in short: one that begins another (/daemon, /daemons), two  *)
(* with a common beginning (/tui, /tools), one that needs an argument.        *)
EXTENDS Repl
quit    == <<"q", "u">>
tui_    == <<"t", "u">>
Names   == {quit, tui_, <<"t", "o">>, <<"d">>, <<"d", "s">>, <<"n">>}
WithArg == {<<"n">>}
Tokens  == {<<>>, <<"q">>, <<"t">>, <<"t", "u">>, <<"d">>, <<"n">>, <<"x">>}
=============================================================================
