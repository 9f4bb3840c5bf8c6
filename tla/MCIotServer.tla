----------------------------- MODULE MCIotServer -----------------------------
(* Small instances of IotServer for TLC. *)
EXTENDS IotServer, TLC

OneId == <<"SQL">>
TwoIds == <<"SQL", "BT">>

ConnSymmetry == Permutations(Conns)
=============================================================================
