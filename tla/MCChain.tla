------------------------------ MODULE MCChain ------------------------------
(***************************************************************************)
(* Chain on a small instance: buffers of up to two bytes, so that a codec  *)
(* call can be partial and staging can be drained in two steps.            *)
(***************************************************************************)
EXTENDS Chain

\* Two kinds, so that the error of `second` can differ from that of `first`.
TwoKinds == {"CorruptStream", "UnexpectedEnd"}

=============================================================================
