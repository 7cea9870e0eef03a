------------------------------- MODULE MCPump -------------------------------
(***************************************************************************)
(* Pump on a small instance.  The totals wrap at 2 and both endpoints see  *)
(* more, so they wrap; chunks of 1 and 2 bytes and spaces of 0, 1 and 2    *)
(* bytes are the smallest at which a call can be partial.                  *)
(***************************************************************************)
EXTENDS Pump

\* Two kinds, so that "the same error again" is not the only error.
TwoKinds == {"CorruptStream", "UnexpectedEnd"}

=============================================================================
