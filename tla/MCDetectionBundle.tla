-------------------------- MODULE MCDetectionBundle --------------------------
(* DetectionBundle for TLC: a new image may have the name of an old one, but   *)
(* for the suffix.                                                            *)
EXTENDS DetectionBundle

MCStemmings == {<<"a", "b", "c", "d">>, <<"a", "b", "a", "d">>}
=============================================================================
