---------------------------- MODULE MCBackfill ----------------------------
(***************************************************************************)
(* Instances of Backfill for TLC.                                          *)
(***************************************************************************)
EXTENDS Backfill

MCSidecars == {{"blobs", "columns"}}
=============================================================================
