---------------------------- MODULE MCBroadcast ----------------------------
(* Instances of Broadcast for TLC. *)
EXTENDS Broadcast

BackupFails == {2}
Second == {2}
=============================================================================
