------------------------------ MODULE MCExplorer ------------------------------
(* Bounds for the model checking of Explorer.                                *)
EXTENDS Explorer

MCNames == <<"..", "d", "f", "g">>
MCDirs == {<<>>, <<"d">>}
MCFiles == {<<"f">>, <<"g">>, <<"d", "f">>}
MCTyped == {<<"d">>, <<"f">>, <<"d", "g">>}
=============================================================================
