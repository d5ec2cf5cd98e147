----------------------------- MODULE MCPhoenixd -----------------------------
(* Two files of different length and contents, and a name that is no file. *)
EXTENDS Phoenixd, TLC

MCDisk == ("plo" :> <<0, 1>>) @@ ("psh" :> <<1>>)
=============================================================================
