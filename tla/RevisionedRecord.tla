-------------------------- MODULE RevisionedRecord --------------------------
(***************************************************************************)
(* What the session repository promises of the runtime record: a register  *)
(* that changes only by a compare-and-swap to the next revision, and that  *)
(* a loss of power may take back to an update nobody has confirmed yet,    *)
(* never to anything else.                                                 *)
(*                                                                         *)
(* Source: internal/session/repository.go (RuntimeState, UpdateRuntime).   *)
(***************************************************************************)
EXTENDS Integers

CONSTANTS Callers, Nobody

VARIABLES
  record,   \* [revision, by]: its revision and who wrote it
  exposed   \* what a loss of power may leave in its place

vars == <<record, exposed>>

Init ==
  /\ record = [revision |-> 1, by |-> Nobody]
  /\ exposed = {record}

Commit(c) ==
  /\ record' = [revision |-> record.revision + 1, by |-> c]
  /\ exposed' = exposed \cup {record'}

Confirm ==
  /\ exposed' = {record}
  /\ UNCHANGED record

LosePower ==
  /\ record' \in exposed
  /\ exposed' = {record'}

Next == (\E c \in Callers : Commit(c)) \/ Confirm \/ LosePower

Spec == Init /\ [][Next]_vars
=============================================================================
