---------------------------- MODULE MCWebServer ----------------------------
(* WebServer for TLC: a string and a number, files of one to three blocks, *)
(* and a request buffer that the longest file does not fit.                *)
EXTENDS WebServer

Set(f, v) == [field |-> f, value |-> v]

MCText   == {"callsign"}
MCNumber == {"powerDbm"}
MCValue  == {"a", "b"}
MCBlock  == {"x", "y"}
MCConfigBodies == {<<Set("callsign", "a"), Set("powerDbm", "b")>>, <<Set("powerDbm", "a")>>}
MCFileBodies   == {<<"x", "x", "x">>, <<"y", "y">>, <<"x">>}
=============================================================================
