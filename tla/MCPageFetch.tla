---------------------------- MODULE MCPageFetch ----------------------------
(* Three scrapes, named for TLC. *)
EXTENDS PageFetch

CONSTANTS s1, s2, s3

ThreeScrapes == {s1, s2, s3}
=============================================================================
