---------------------------- MODULE MCCheckpoint ----------------------------
(* One checkout with two files, each present or absent, on a machine with  *)
(* either diff.noprefix setting.                                           *)
EXTENDS Checkpoint

Paths == {"a", "b"}
Present == {"none", "text"}
BothConfigs == BOOLEAN
=============================================================================
