------------------------------ MODULE MCWriter ------------------------------
(***************************************************************************)
(* Writer on a small instance: two-byte buffers over a sink of two bytes,  *)
(* so that writes are short, the sink fills up and drains are cut off.     *)
(***************************************************************************)
EXTENDS Writer

\* The kind is only passed on.
OneKind == {"CorruptStream"}

=============================================================================
