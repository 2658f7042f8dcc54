---------------------------- MODULE MCStoredSeries ----------------------------
(***************************************************************************)
(* Small instances of StoredSeries for TLC: segments of two, buckets of    *)
(* two seconds, words of 16.  Second 15 is the word of a time just before  *)
(* 1970: uint64(-1).                                                       *)
(***************************************************************************)
EXTENDS StoredSeries

MCTime == 0..3 \cup {15}
MCReplica == {2}
MCValue == {0}
MCCutoff == {2, 3}

=============================================================================
