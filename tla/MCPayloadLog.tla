---------------------------- MODULE MCPayloadLog ----------------------------
(* Three requests, of one session or of none: a conversation that goes on  *)
(* with the answer or without it, is retried, or begins anew.  The first   *)
(* message and the one that begins the longer body differ in an image only.*)
EXTENDS PayloadLog, TLC

CONSTANTS a, image, b, x, doc

MCBodies  == {<<a>>, <<image, x, b>>}
MCShort   == {<<a>>}
MCAnswers == {<<>>, <<x>>}
MCHash    == [m \in {a, image, b, x} |-> IF m = image THEN a ELSE m]
MCCarries == [m \in {a, image, b, x} |-> IF m \in {a, image} THEN {doc} ELSE {}]
MCKept    == {Parts, {"attempt"}}
MCSymmetry == Permutations(Requests)
=============================================================================
