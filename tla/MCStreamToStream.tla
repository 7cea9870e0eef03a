-------------------------- MODULE MCStreamToStream --------------------------
(***************************************************************************)
(* StreamToStream on a small instance: the sink has room for one byte less *)
(* than the source and the trailer can need, so that fits and overflows of *)
(* every kind happen.                                                      *)
(***************************************************************************)
EXTENDS StreamToStream

\* The kind is only passed on.
OneKind == {"CorruptStream"}

=============================================================================
