-------------------------- MODULE MCChannelCircuit --------------------------
(* Two models, three mapping ids (one model can be mapped twice in turn).  *)
EXTENDS ChannelCircuit, TLC

CONSTANTS chat, image, m1, m2, m3

MCModels   == {chat, image}
MCMappings == {m1, m2, m3}
MCModelOf  == m1 :> chat @@ m2 :> chat @@ m3 :> image
MCSymmetry == Permutations(Attempts)
=============================================================================
