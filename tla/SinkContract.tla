---------------------------- MODULE SinkContract ----------------------------
(***************************************************************************)
(* What a sink promises the drivers (trait Sink of protocol.rs, and what   *)
(* Pump makes of it): it lends space that is never empty, and only a full  *)
(* destination lends none; a commit that succeeds appends exactly the      *)
(* first bytes of the space, once; one that fails has appended only some   *)
(* of them, and its error is no mere interruption; nothing else touches    *)
(* the destination; every commit returns.                                  *)
(***************************************************************************)
EXTENDS Naturals, Sequences, SequencesExt

VARIABLES
  content,     \* what the destination holds
  full,        \* it can hold no more
  space,       \* what the caller wrote into the space lent to it
  asked,       \* the amount of the last commit
  committing,  \* the bytes of a commit that are not yet in the destination
  busy,        \* a commit is in progress
  result       \* what the last call returned

vars == <<content, full, space, asked, committing, busy, result>>

Init == content = <<>> /\ space = <<>> /\ committing = <<>> /\ busy = FALSE

Lend ==
  /\ ~busy /\ UNCHANGED <<content, full, committing, busy>>
  /\ IF full THEN result'.tag = "None" ELSE result'.tag = "Some" /\ space' # <<>>

\* The bytes of a commit: all of the space when more was asked than it has.
Asked == SubSeq(space, 1, IF asked' < Len(space) THEN asked' ELSE Len(space))

\* A commit to memory is one step.
Append1 ==
  /\ ~busy /\ content' = content \o Asked
  /\ result'.tag = "Ok" /\ space' = <<>>
  /\ UNCHANGED <<committing, busy>>

Begin ==
  /\ ~busy /\ busy' = TRUE /\ committing' = Asked
  /\ UNCHANGED <<content, full, space, result>>

Store ==
  /\ busy /\ committing' # committing /\ IsSuffix(committing', committing)
  /\ content' \o committing' = content \o committing
  /\ UNCHANGED <<full, space, asked, busy, result>>

\* After a failure the space stays lent: it could be committed again.
Return ==
  /\ busy /\ busy' = FALSE /\ committing' = <<>>
  /\ IF committing = <<>> THEN result'.tag = "Ok" /\ space' = <<>>
     ELSE result'.tag = "Err" /\ result'.kind # "Interrupted" /\ space' = space
  /\ UNCHANGED <<content, full, asked>>

Next == Lend \/ Append1 \/ Begin \/ Store \/ Return

CommitsReturn == busy ~> ~busy

Spec == Init /\ [][Next]_vars /\ CommitsReturn

=============================================================================
