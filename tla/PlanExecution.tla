---------------------------- MODULE PlanExecution ----------------------------
(***************************************************************************)
(* Creation plans: an ordered list of directories and files that a caller  *)
(* creates one after the other.  A path that exists is never replaced: it  *)
(* is skipped when it is what the plan wants, and a conflict otherwise, and*)
(* the plan goes on after a conflict.  Nothing is locked, so a path may    *)
(* appear between the look at it and its creation.  Files are published    *)
(* whole, with a link; no directory is synchronised, so a loss of power may*)
(* take back what was created.  Components start plans; they name the paths*)
(* (sequences of comparable components) and the documents.                 *)
(*                                                                         *)
(* Source: internal/filesystem/{plan,execute}.go.                          *)
(***************************************************************************)
EXTENDS Integers, Sequences

CONSTANTS Callers

VARIABLES
  tree,      \* existing path -> what is there
  unsynced,  \* paths a loss of power may take back
  plan,      \* caller -> the operations of the plan it executes
  at,        \* caller -> the operation it has come to
  absent,    \* caller -> it has looked, and the path was not there
  report     \* caller -> the results so far, in plan order

planVars == <<tree, unsynced, plan, at, absent, report>>

Directory == [kind |-> "directory"]

Statuses == {"created", "skipped", "conflict"}

Parent(p) == SubSeq(p, 1, Len(p) - 1)

Within(root, p) == Len(root) <= Len(p) /\ SubSeq(p, 1, Len(root)) = root

With(path, content) ==
  [p \in DOMAIN tree \cup {path} |-> IF p = path THEN content ELSE tree[p]]

PlanInit ==
  /\ unsynced = {}
  /\ plan = [c \in Callers |-> <<>>]
  /\ at = [c \in Callers |-> 1]
  /\ absent = [c \in Callers |-> FALSE]
  /\ report = [c \in Callers |-> <<>>]

\* Plan.Validate: the root is created as a directory, every path lies in it,
\* and none is named twice.
Valid(root, ops) ==
  /\ \E i \in DOMAIN ops : ops[i].path = root /\ ops[i].content = Directory
  /\ \A i \in DOMAIN ops : Within(root, ops[i].path)
  /\ \A i, j \in DOMAIN ops : ops[i].path = ops[j].path => i = j

Begin(c, root, ops) ==
  /\ Valid(root, ops)
  /\ plan' = [plan EXCEPT ![c] = ops]
  /\ at' = [at EXCEPT ![c] = 1]
  /\ absent' = [absent EXCEPT ![c] = FALSE]
  /\ report' = [report EXCEPT ![c] = <<>>]
  /\ UNCHANGED <<tree, unsynced>>

Executed(c) == at[c] > Len(plan[c])

HasConflicts(c) == \E i \in DOMAIN report[c] : report[c][i] = "conflict"

ParentAvailable(p) ==
  \A n \in 1 .. Len(p) - 1 :
    SubSeq(p, 1, n) \in DOMAIN tree /\ tree[SubSeq(p, 1, n)] = Directory

\* Defect: whatever is at the path is taken for what the plan wants.
JudgeKind(op) == "skipped"

\* What is found at the path of an operation.
Judge(op) == IF tree[op.path] = op.content THEN "skipped" ELSE "conflict"

Result(c, status) ==
  /\ report' = [report EXCEPT ![c] = Append(@, status)]
  /\ at' = [at EXCEPT ![c] = @ + 1]
  /\ absent' = [absent EXCEPT ![c] = FALSE]
  /\ UNCHANGED plan

\* A directory is made at once: one that appeared in between is as good.
Look(c) ==
  /\ ~Executed(c) /\ ~absent[c]
  /\ LET op == plan[c][at[c]] IN
       \/ /\ ~ParentAvailable(op.path)
          /\ Result(c, "conflict")
          /\ UNCHANGED <<tree, unsynced>>
       \/ /\ ParentAvailable(op.path) /\ op.path \in DOMAIN tree
          /\ Result(c, Judge(op))
          /\ UNCHANGED <<tree, unsynced>>
       \/ /\ ParentAvailable(op.path) /\ op.path \notin DOMAIN tree
          /\ op.content = Directory
          /\ tree' = With(op.path, Directory)
          /\ unsynced' = unsynced \cup {op.path}
          /\ Result(c, "created")
       \/ /\ ParentAvailable(op.path) /\ op.path \notin DOMAIN tree
          /\ op.content # Directory
          /\ absent' = [absent EXCEPT ![c] = TRUE]
          /\ UNCHANGED <<tree, unsynced, plan, at, report>>

\* Defect: the document is moved into place and replaces one that appeared.
MakeOver(c) ==
  /\ absent[c]
  /\ LET op == plan[c][at[c]] IN
       /\ tree' = With(op.path, op.content)
       /\ unsynced' = unsynced \cup {op.path}
       /\ Result(c, "created")

\* Link creates exclusively; a path that appeared is judged again.
Make(c) ==
  /\ absent[c]
  /\ LET op == plan[c][at[c]] IN
       \/ /\ op.path \notin DOMAIN tree
          /\ tree' = With(op.path, op.content)
          /\ unsynced' = unsynced \cup {op.path}
          /\ Result(c, "created")
       \/ /\ op.path \in DOMAIN tree
          /\ Result(c, Judge(op))
          /\ UNCHANGED <<tree, unsynced>>

Execute(c) == Look(c) \/ Make(c)

\* The plan is over or given up: an I/O failure, the death of the caller.
Forget(who) ==
  /\ plan' = [c \in Callers |-> IF c \in who THEN <<>> ELSE plan[c]]
  /\ at' = [c \in Callers |-> IF c \in who THEN 1 ELSE at[c]]
  /\ absent' = [c \in Callers |-> absent[c] /\ c \notin who]
  /\ report' = [c \in Callers |-> IF c \in who THEN <<>> ELSE report[c]]

\* A loss of power takes an unsynchronised path and all below it, or nothing.
TakeBack ==
  \E left \in {DOMAIN tree} \cup
              {{p \in DOMAIN tree : ~Within(q, p)} : q \in unsynced} :
    /\ tree' = [p \in left |-> tree[p]]
    /\ unsynced' = {}
    /\ Forget(Callers)

-----------------------------------------------------------------------------
Operation(p, content) == [path |-> p, content |-> content]

PlanTypeOK ==
  /\ unsynced \subseteq DOMAIN tree
  /\ absent \in [Callers -> BOOLEAN]
  /\ \A c \in Callers :
       /\ at[c] \in 1 .. Len(plan[c]) + 1
       /\ report[c] \in Seq(Statuses) /\ Len(report[c]) = at[c] - 1
       /\ absent[c] => ~Executed(c)

=============================================================================
