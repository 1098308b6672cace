----------------------------- MODULE MCSessions -----------------------------
(* Two requests at a time over one contributor and one seat. *)
EXTENDS SessionProperties
=============================================================================
