------------------------------ MODULE MCSinks -------------------------------
(***************************************************************************)
(* Sinks on a small instance: spaces of two and three bytes, so that a     *)
(* commit takes several raw writes, and a vec that has to grow twice.      *)
(***************************************************************************)
EXTENDS Sinks

\* No codec is here.
OneKind == {"CorruptStream"}

=============================================================================
