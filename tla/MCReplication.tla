---------------------------- MODULE MCReplication ----------------------------
(* Small instances of Replication for TLC.                                  *)
EXTENDS Replication, TLC

CONSTANTS s1, s2

TwoSlaves == {s1, s2}
TwoDBs == {0, 1}
=============================================================================
