------------------------------ MODULE PathLock ------------------------------
(***************************************************************************)
(* The in-process lock of one path, as pathLockManager builds it: a lock   *)
(* object with a one-place token channel and a reference count, created on *)
(* the first request and forgotten with the last reference.  A caller may  *)
(* give up waiting when its context ends.                                  *)
(*                                                                         *)
(* Source: internal/filesystem/update.go.                                  *)
(***************************************************************************)
EXTENDS Integers, FiniteSets

CONSTANTS
  Callers,
  Locks,    \* lock objects; one nobody refers to is garbage and may be reused
  NoLock

ASSUME LockAssumption ==
  /\ IsFiniteSet(Callers)
  /\ NoLock \notin Locks

VARIABLES
  current,  \* what the manager's map holds for the path
  refs,     \* lock object -> its reference count
  token,    \* lock object -> the token is in the channel
  mine,     \* caller -> the lock object it has a reference to
  pc        \* caller -> "out", "waiting", "inside" or "leaving"

vars == <<current, refs, token, mine, pc>>

Init ==
  /\ current = NoLock
  /\ refs = [l \in Locks |-> 0]
  /\ token = [l \in Locks |-> FALSE]
  /\ mine = [c \in Callers |-> NoLock]
  /\ pc = [c \in Callers |-> "out"]

\* Under the manager's mutex: find or create the lock and count a reference.
Register(c) ==
  /\ pc[c] = "out"
  /\ \E l \in Locks :
       /\ IF current = NoLock THEN refs[l] = 0 ELSE l = current
       /\ token' = IF current = NoLock THEN [token EXCEPT ![l] = TRUE] ELSE token
       /\ current' = l
       /\ refs' = [refs EXCEPT ![l] = @ + 1]
       /\ mine' = [mine EXCEPT ![c] = l]
  /\ pc' = [pc EXCEPT ![c] = "waiting"]

\* Defect: the token is looked at but left in the channel.
SeeToken(c) ==
  /\ pc[c] = "waiting"
  /\ token[mine[c]]
  /\ pc' = [pc EXCEPT ![c] = "inside"]
  /\ UNCHANGED <<current, refs, token, mine>>

TakeToken(c) ==
  /\ pc[c] = "waiting"
  /\ token[mine[c]]
  /\ token' = [token EXCEPT ![mine[c]] = FALSE]
  /\ pc' = [pc EXCEPT ![c] = "inside"]
  /\ UNCHANGED <<current, refs, mine>>

\* dropReference, under the manager's mutex.
DropReference(c) ==
  /\ refs' = [refs EXCEPT ![mine[c]] = @ - 1]
  /\ current' = IF refs[mine[c]] = 1 THEN NoLock ELSE current
  /\ mine' = [mine EXCEPT ![c] = NoLock]
  /\ pc' = [pc EXCEPT ![c] = "out"]
  /\ UNCHANGED token

\* The context ends before the token arrives.
GiveUp(c) == pc[c] = "waiting" /\ DropReference(c)

\* Defect: the token is put back only when nobody else has a reference.
PutTokenAlone(c) ==
  /\ pc[c] = "inside"
  /\ token' = [token EXCEPT ![mine[c]] = refs[mine[c]] = 1]
  /\ pc' = [pc EXCEPT ![c] = "leaving"]
  /\ UNCHANGED <<current, refs, mine>>

PutToken(c) ==
  /\ pc[c] = "inside"
  /\ token' = [token EXCEPT ![mine[c]] = TRUE]
  /\ pc' = [pc EXCEPT ![c] = "leaving"]
  /\ UNCHANGED <<current, refs, mine>>

Leave(c) == pc[c] = "leaving" /\ DropReference(c)

Next ==
  \E c \in Callers :
    Register(c) \/ TakeToken(c) \/ GiveUp(c) \/ PutToken(c) \/ Leave(c)

\* A holder releases (the release is deferred), and waiters on a channel are
\* served in turn.
Fairness ==
  \A c \in Callers : WF_vars(PutToken(c)) /\ WF_vars(Leave(c)) /\ SF_vars(TakeToken(c))

Spec == Init /\ [][Next]_vars /\ Fairness

-----------------------------------------------------------------------------
(* Properties.                                                             *)

\* Types of the lock's state.
TypeOK ==
  /\ current \in Locks \cup {NoLock}
  /\ refs \in [Locks -> Nat]
  /\ token \in [Locks -> BOOLEAN]
  /\ mine \in [Callers -> Locks \cup {NoLock}]
  /\ pc \in [Callers -> {"out", "waiting", "inside", "leaving"}]

\* Two callers never replace the same path at the same time, although the
\* lock object is thrown away and made again while callers come and go.
MutualExclusion ==
  \A c, d \in Callers : pc[c] = "inside" /\ pc[d] = "inside" => c = d

\* Lock entries are removed when no caller references them, and only then:
\* whoever holds a reference shares the one object the map still knows.
NoStrayLock ==
  /\ \A c \in Callers : pc[c] # "out" => mine[c] = current /\ current # NoLock
  /\ (\A c \in Callers : pc[c] = "out") => current = NoLock

\* A caller that keeps waiting gets in.
WaitersServed ==
  \A c \in Callers : pc[c] = "waiting" ~> pc[c] # "waiting"

=============================================================================
