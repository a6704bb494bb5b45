----------------------------- MODULE MCLineEditor -----------------------------
(* Values for LineEditor: commands of which one is the beginning of another *)
(* (as /daemon is of /daemons), a directory in the working directory, and   *)
(* letters with two pages of candidates, then one.                          *)
EXTENDS LineEditor

MCCommands == << <<"/", "a">>, <<"/", "b">>, <<"/", "a", "a">> >>
MCListing  == [d \in {<<>>, <<"a", "/">>} |->
                IF d = <<>> THEN << <<"a", "/">>, <<"b">> >> ELSE << <<"a">> >>]
MCDict     == <<3, 1>>
MCCaps     == {6, 12, 24}
=============================================================================
