--------------------------- MODULE MCKeysetPaging ---------------------------
(* Three rows on two instants, so that keys tie on the time, and pages of one  *)
(* or two rows, so that a walk takes several requests; page_size unset, in     *)
(* range and over the cap.                                                     *)
EXTENDS KeysetPaging
=============================================================================
