------------------------------ MODULE MCReader ------------------------------
(***************************************************************************)
(* Reader on a small instance: the scratch buffer is shorter than the      *)
(* source, the read buffers are shorter than what the codec writes.        *)
(***************************************************************************)
EXTENDS Reader

\* Two kinds that the backends report differently.
TwoKinds == {"CorruptStream", "UnexpectedEnd"}

=============================================================================
