------------------------------ MODULE MCDownload ------------------------------
(***************************************************************************)
(* Two images of different lengths, a URL that is meant to serve each, and *)
(* a target whose URL is the wrong one as long as nobody swaps the images. *)
(***************************************************************************)
EXTENDS Download

CONSTANTS v1, v2, u1, u2

MCImages == {v1, v2}
MCLength == [img \in {v1, v2} |-> IF img = v1 THEN 2 ELSE 3]
MCUrls == {u1, u2}
MCSpecs ==
  { [checksum |-> v1, url |-> u1],
    [checksum |-> v2, url |-> u2],
    [checksum |-> v2, url |-> u1] }
=============================================================================
