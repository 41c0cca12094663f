--------------------------- MODULE MCChannelFixture ---------------------------
(* Small instances of ChannelFixture for TLC. *)
EXTENDS ChannelFixture, TLC

ScriptSymmetry == Permutations(Scripts)
=============================================================================
