------------------------- MODULE PlanExecution_proofs -------------------------
(***************************************************************************)
(* Machine-checked proofs about the two components that execute creation   *)
(* plans.  Each theorem is about the specification of one of them; the     *)
(* other's variables do not occur in it.                                   *)
(*                                                                         *)
(* Library: for any callers, names, titles, repeated metadata, calls and   *)
(* losses of power.  What a plan reports follows from what plans are made  *)
(* of.  That acknowledged sessions are listed takes the creation lock: the *)
(* one call that scanned under it adds metadata, and what it adds differs  *)
(* in number and identity from what it saw, which nobody has added to.     *)
(*                                                                         *)
(* WorkspaceSetup: for any roots, servers, commands and contract, and any  *)
(* number of kills, losses of power and changes by the user.  Three        *)
(* arguments share the shape of a call: the file holds what its last       *)
(* writer chose, a flag bars every call to another root, and whatever is   *)
(* about to be served was verified when nothing but a loss of power could  *)
(* take it away.                                                           *)
(***************************************************************************)
EXTENDS Library, WorkspaceSetup, SequenceTheorems, WellFoundedInduction, TLAPS

-----------------------------------------------------------------------------
(* Numbers and sequences.                                                  *)

LEMMA LeastExists ==
  ASSUME NEW S, S \subseteq Nat, S # {}
  PROVE  \E x \in S : \A y \in S : x <= y
  <1>1. PICK x \in S : \A y \in S : <<y, x>> \notin OpToRel(<, Nat)
    BY NatLessThanWellFounded, WFMin
  <1>2. \A y \in S : ~(y < x)
    BY <1>1 DEF OpToRel
  <1> QED
    BY <1>2

\* A bounded set of numbers has a greatest: the least of its bounds.
LEMMA GreatestExists ==
  ASSUME NEW S, S \subseteq Nat, S # {}, NEW b \in Nat, \A x \in S : x <= b
  PROVE  \E x \in S : \A y \in S : y <= x
  <1> DEFINE U == {u \in Nat : \A x \in S : x <= u}
  <1>1. PICK u \in U : \A v \in U : u <= v
    BY LeastExists
  <1>2. u \in S
    <2> SUFFICES ASSUME u \notin S
                 PROVE  FALSE
      OBVIOUS
    <2>1. \A x \in S : x < u
      BY <1>1
    <2>2. u - 1 \in U
      <3>1. PICK x \in S : x < u
        BY <2>1
      <3>2. u \in Nat /\ u > 0
        BY <3>1
      <3>3. \A y \in S : y \in Nat /\ y <= u - 1
        BY <2>1, <3>2
      <3> QED
        BY <3>2, <3>3
    <2> QED
      BY <1>1, <2>2
  <1> QED
    BY <1>1, <1>2

LEMMA TwoAndTwo ==
  ASSUME NEW a, NEW b, NEW c, NEW d
  PROVE  <<a, b>> \o <<c, d>> = <<a, b, c, d>>
  <1> DEFINE S == {a, b, c, d}
             s == <<a, b>>
             t == <<c, d>>
             st == s \o t
  <1>1. /\ s \in Seq(S) /\ t \in Seq(S) /\ <<a, b, c, d>> \in Seq(S)
        /\ Len(s) = 2 /\ Len(t) = 2 /\ Len(<<a, b, c, d>>) = 4
    OBVIOUS
  <1>2. /\ st \in Seq(S) /\ Len(st) = 4
        /\ \A i \in 1 .. 4 : st[i] = IF i <= 2 THEN s[i] ELSE t[i - 2]
    BY <1>1, ConcatProperties
  <1> HIDE DEF st
  <1>3. \A i \in 1 .. 4 : st[i] = <<a, b, c, d>>[i]
    BY <1>2
  <1> QED
    BY <1>1, <1>2, <1>3, SeqEqual DEF st

-----------------------------------------------------------------------------
(* Paths.                                                                  *)

\* What the paths of the plans are made of.
Components ==
  {Named(name) : name \in Courses \cup {Home, "01 Courses", "Modules", "Sessions",
                                        "metadata", "second"}}
  \cup {[number |-> m.number, name |-> m.name] : m \in Modules \cup {First}} \cup {First}
  \cup [number : Nat, name : Titles \cup {m.name : m \in Given}]

Paths == Seq(Components)

LEMMA PathBelow ==
  ASSUME NEW p \in Paths, NEW x \in Components
  PROVE  /\ Append(p, x) \in Paths /\ Len(Append(p, x)) = Len(p) + 1 /\ Len(p) \in Nat
         /\ Parent(Append(p, x)) = p /\ Append(p, x)[Len(p) + 1] = x
  <1>1. /\ Append(p, x) \in Paths /\ Len(Append(p, x)) = Len(p) + 1 /\ Len(p) \in Nat
        /\ Append(p, x)[Len(p) + 1] = x
    BY AppendProperties DEF Paths
  <1>2. Parent(Append(p, x)) = p
    BY <1>1, AppendProperties, SubSeqProperties DEF Parent, Paths
  <1> QED
    BY <1>1, <1>2

LEMMA ParentKnown ==
  ASSUME NEW p \in Paths, Len(p) > 0
  PROVE  Parent(p) \in Paths /\ Len(Parent(p)) = Len(p) - 1
  <1>1. Len(p) \in Nat /\ \A i \in 1 .. Len(p) - 1 : p[i] \in Components
    BY LenProperties DEF Paths
  <1> DEFINE n == Len(p) - 1
  <1>2. /\ Parent(p) \in Seq(Components)
        /\ Len(Parent(p)) = IF 1 <= n THEN n - 1 + 1 ELSE 0
    BY <1>1, SubSeqProperties DEF Parent
  <1>3. n \in Nat
    BY <1>1
  <1> HIDE DEF n
  <1>4. Len(Parent(p)) = n
    BY <1>2, <1>3
  <1> QED
    BY <1>2, <1>4 DEF Paths, n

\* What is below the parent is below.
LEMMA WithinParent ==
  ASSUME NEW q, NEW p \in Paths, Len(p) > 0, Len(q) \in Nat, Within(q, Parent(p))
  PROVE  Within(q, p)
  <1>1. Len(p) \in Nat /\ Len(Parent(p)) = Len(p) - 1
    BY ParentKnown, LenProperties DEF Paths
  <1>2. Len(q) <= Len(p) - 1 /\ SubSeq(Parent(p), 1, Len(q)) = q
    BY <1>1 DEF Within
  <1>3. SubSeq(SubSeq(p, 1, Len(p) - 1), 1, Len(q)) = SubSeq(p, 1, Len(q))
    BY <1>1, <1>2, SubSeqProperties, LenProperties DEF Paths
  <1> QED
    BY <1>1, <1>2, <1>3 DEF Within, Parent

LEMMA DocumentsBelow ==
  ASSUME NEW e \in Paths
  PROVE  /\ MetadataOf(e) \in Paths /\ Len(MetadataOf(e)) = Len(e) + 1
         /\ Parent(MetadataOf(e)) = e
         /\ SecondOf(e) \in Paths /\ Len(SecondOf(e)) = Len(e) + 1
         /\ Parent(SecondOf(e)) = e
         /\ \A d \in Paths : MetadataOf(e) # SecondOf(d)
  <1>1. Named("metadata") \in Components /\ Named("second") \in Components
    BY DEF Components
  <1>2. Named("metadata") # Named("second")
    BY DEF Named
  <1>3. /\ MetadataOf(e) \in Paths /\ Len(MetadataOf(e)) = Len(e) + 1
        /\ Parent(MetadataOf(e)) = e /\ MetadataOf(e)[Len(MetadataOf(e))] = Named("metadata")
    BY <1>1, PathBelow DEF MetadataOf
  <1>4. ASSUME NEW d \in Paths
        PROVE  /\ SecondOf(d) \in Paths /\ Len(SecondOf(d)) = Len(d) + 1
               /\ Parent(SecondOf(d)) = d /\ SecondOf(d)[Len(SecondOf(d))] = Named("second")
    BY <1>1, PathBelow DEF SecondOf
  <1> QED
    BY <1>2, <1>3, <1>4

LEMMA ContainersKnown ==
  /\ CoursesRoot \in Paths /\ Len(CoursesRoot) = 1
  /\ \A name \in Courses \cup {Home} :
       /\ CourseRoot(name) \in Paths /\ Len(CourseRoot(name)) = 2
       /\ ModulesRoot(name) \in Paths /\ Len(ModulesRoot(name)) = 3
  /\ SessionsRoot \in Paths /\ Len(SessionsRoot) = 5
  /\ Parent(SessionsRoot) \in Paths /\ Len(Parent(SessionsRoot)) = 4
  <1>1. CoursesRoot \in Paths /\ Len(CoursesRoot) = 1
    <2> DEFINE vault == Named("01 Courses")
    <2>1. vault \in Components
      BY DEF Components
    <2>2. CoursesRoot = <<vault>>
      BY DEF CoursesRoot
    <2> HIDE DEF vault
    <2> QED
      BY <2>1, <2>2 DEF Paths
  <1>2. ASSUME NEW name \in Courses \cup {Home}
        PROVE  /\ CourseRoot(name) \in Paths /\ Len(CourseRoot(name)) = 2
               /\ ModulesRoot(name) \in Paths /\ Len(ModulesRoot(name)) = 3
    <2>1. Named(name) \in Components /\ Named("Modules") \in Components
      BY DEF Components
    <2>2. /\ Append(CoursesRoot, Named(name)) \in Paths
          /\ Len(Append(CoursesRoot, Named(name))) = 1 + 1
      BY <1>1, <2>1, PathBelow
    <2>3. CourseRoot(name) \in Paths /\ Len(CourseRoot(name)) = 2
      BY <2>2 DEF CourseRoot
    <2>4. /\ Append(CourseRoot(name), Named("Modules")) \in Paths
          /\ Len(Append(CourseRoot(name), Named("Modules"))) = 2 + 1
      BY <2>1, <2>3, PathBelow
    <2> QED
      BY <2>3, <2>4 DEF ModulesRoot
  <1>3. SessionsRoot \in Paths /\ Len(SessionsRoot) = 5
    <2>1. First \in Components /\ Named("Sessions") \in Components
      BY DEF Components
    <2>2. <<First, Named("Sessions")>> \in Seq(Components)
          /\ Len(<<First, Named("Sessions")>>) = 2
      BY <2>1
    <2>3. ModulesRoot(Home) \in Seq(Components) /\ Len(ModulesRoot(Home)) = 3
      BY <1>2 DEF Paths
    <2> DEFINE s == ModulesRoot(Home)
               t == <<First, Named("Sessions")>>
    <2> HIDE DEF s, t
    <2>4. s \o t \in Seq(Components) /\ Len(s \o t) = Len(s) + Len(t)
      BY <2>2, <2>3, ConcatProperties DEF s, t
    <2>5. SessionsRoot = s \o t /\ Len(s) = 3 /\ Len(t) = 2
      BY <2>2, <2>3 DEF SessionsRoot, s, t
    <2> QED
      BY <2>4, <2>5 DEF Paths
  <1>4. Parent(SessionsRoot) \in Paths /\ Len(Parent(SessionsRoot)) = 4
    <2>1. Len(SessionsRoot) > 0
      BY <1>3
    <2>2. Parent(SessionsRoot) \in Paths /\ Len(Parent(SessionsRoot)) = Len(SessionsRoot) - 1
      BY <1>3, <2>1, ParentKnown
    <2> QED
      BY <1>3, <2>2
  <1> QED
    BY <1>1, <1>2, <1>3, <1>4

-----------------------------------------------------------------------------
(* What is in the vault, and the plans under way.                          *)

IsMetadata(d) == d = Metadata(d.id, d.number, d.name)
IsSecond(d) == d = Second(d.id, d.revision)
IsDocument(d) == d = Directory \/ IsMetadata(d) \/ IsSecond(d)

TreeSound == \A p \in DOMAIN tree : p \in Paths /\ IsDocument(tree[p])

\* Whatever a plan is for, its operations create documents at paths of the vault.
OperationsSound(ops) ==
  /\ Len(ops) \in Nat /\ DOMAIN ops = 1 .. Len(ops)
  /\ \A i \in DOMAIN ops : ops[i].path \in Paths /\ IsDocument(ops[i].content)

PlanSound(c) ==
  /\ OperationsSound(plan[c])
  /\ at[c] \in 1 .. Len(plan[c]) + 1
  /\ Len(report[c]) = at[c] - 1
  /\ absent[c] => at[c] <= Len(plan[c])

PlanRanges ==
  /\ DOMAIN plan = Callers
  /\ at \in [Callers -> Nat] /\ absent \in [Callers -> BOOLEAN]
  /\ report \in [Callers -> Seq(Statuses)]

\* What ReportHonest says of one operation that was not refused.
OperationHolds(op) ==
  /\ op.path \in DOMAIN tree
  /\ tree[op.path].kind = op.content.kind
  /\ op.content.kind = "metadata" => tree[op.path] = op.content
  /\ op.content.kind = "second" => tree[op.path].id = op.content.id

ReportsHold(c) ==
  \A i \in DOMAIN report[c] : report[c][i] # "conflict" => OperationHolds(plan[c][i])

PlansInvariant ==
  TreeSound /\ PlanRanges /\ \A c \in Callers : PlanSound(c) /\ ReportsHold(c)

\* Nothing that is there goes or is replaced, but by a later version of itself.
TreeKept ==
  \A p \in DOMAIN tree :
    /\ p \in DOMAIN tree'
    /\ \/ tree'[p] = tree[p]
       \/ /\ IsSecond(tree[p]) /\ IsSecond(tree'[p]) /\ tree'[p].id = tree[p].id
          /\ tree'[p] = [tree[p] EXCEPT !.revision = @ + 1]

LEMMA KindsApart ==
  /\ Directory.kind = "directory"
  /\ \A d : IsMetadata(d) => d.kind = "metadata"
  /\ \A d : IsSecond(d) => d.kind = "second"
  /\ \A id, number, name :
       LET d == Metadata(id, number, name) IN
       IsMetadata(d) /\ d.id = id /\ d.number = number /\ d.name = name
  /\ \A id, revision :
       LET d == Second(id, revision) IN IsSecond(d) /\ d.id = id /\ d.revision = revision
  BY DEF Directory, IsMetadata, IsSecond, Metadata, Second

LEMMA HoldsStill ==
  ASSUME NEW op, OperationHolds(op), TreeKept
  PROVE  OperationHolds(op)'
  <1> DEFINE d == tree[op.path]
             e == tree'[op.path]
  <1>1. /\ op.path \in DOMAIN tree /\ op.path \in DOMAIN tree'
        /\ d.kind = op.content.kind
        /\ op.content.kind = "metadata" => d = op.content
        /\ op.content.kind = "second" => d.id = op.content.id
        /\ e = d \/ (IsSecond(d) /\ IsSecond(e) /\ e.id = d.id)
    BY DEF OperationHolds, TreeKept
  <1> HIDE DEF d, e
  <1>2. /\ e.kind = op.content.kind
        /\ op.content.kind = "metadata" => e = op.content
        /\ op.content.kind = "second" => e.id = op.content.id
    BY <1>1, KindsApart
  <1> QED
    BY <1>1, <1>2 DEF OperationHolds, e

\* A caller whose plan is as it was.
LEMMA CallerStays ==
  ASSUME NEW c \in Callers, PlanSound(c), ReportsHold(c), TreeKept,
         plan'[c] = plan[c], at'[c] = at[c], report'[c] = report[c],
         absent'[c] => absent[c]
  PROVE  PlanSound(c)' /\ ReportsHold(c)'
  <1>1. PlanSound(c)'
    BY DEF PlanSound
  <1>2. ASSUME NEW i \in DOMAIN report[c], report[c][i] # "conflict"
        PROVE  OperationHolds(plan[c][i])'
    <2> DEFINE op == plan[c][i]
    <2>1. OperationHolds(op)
      BY <1>2 DEF ReportsHold
    <2>2. \A o : OperationHolds(o) => OperationHolds(o)'
      BY HoldsStill
    <2>3. plan'[c][i] = op
      OBVIOUS
    <2> HIDE DEF op
    <2> QED
      BY <2>1, <2>2, <2>3 DEF OperationHolds
  <1> QED
    BY <1>1, <1>2 DEF ReportsHold, OperationHolds

-----------------------------------------------------------------------------
(* One step of an execution.                                               *)

\* It looks and finds nothing, or comes to a result.
Finds(c) ==
  /\ at[c] <= Len(plan[c]) /\ ~absent[c] /\ tree' = tree
  /\ ParentAvailable(plan[c][at[c]].path)
  /\ plan[c][at[c]].content # Directory
  /\ at'[c] = at[c] /\ report'[c] = report[c] /\ absent'[c]

Comes(c, op, status) ==
  /\ at[c] <= Len(plan[c]) /\ op = plan[c][at[c]]
  /\ at'[c] = at[c] + 1 /\ report'[c] = Append(report[c], status) /\ ~absent'[c]
  /\ \/ status = "conflict" /\ tree' = tree
     \/ status = "skipped" /\ tree' = tree
        /\ op.path \in DOMAIN tree /\ tree[op.path] = op.content
     \/ status = "created" /\ op.path \notin DOMAIN tree
        /\ tree' = With(op.path, op.content)
        /\ \/ absent[c]
           \/ op.content = Directory /\ ParentAvailable(op.path)

LEMMA ExecuteEffect ==
  ASSUME NEW c \in Callers, PlanRanges, PlanSound(c), Execute(c)
  PROVE  /\ plan' = plan
         /\ PlanRanges'
         /\ \A d \in Callers \ {c} :
              at'[d] = at[d] /\ report'[d] = report[d] /\ absent'[d] = absent[d]
         /\ Finds(c) \/ \E op, status : status \in Statuses /\ Comes(c, op, status)
  <1> DEFINE op == plan[c][at[c]]
  <1>1. ASSUME NEW status \in Statuses, Result(c, status)
        PROVE  /\ plan' = plan /\ PlanRanges'
               /\ \A d \in Callers \ {c} :
                    at'[d] = at[d] /\ report'[d] = report[d] /\ absent'[d] = absent[d]
               /\ at'[c] = at[c] + 1 /\ report'[c] = Append(report[c], status) /\ ~absent'[c]
    <2>1. Append(report[c], status) \in Seq(Statuses)
      BY AppendProperties DEF PlanRanges
    <2> QED
      BY <1>1, <2>1 DEF Result, PlanRanges
  <1>2. Judge(op) \in Statuses /\ (Judge(op) = "skipped" => tree[op.path] = op.content)
        /\ Judge(op) \in {"skipped", "conflict"}
    BY DEF Judge, Statuses
  <1>3. absent[c] => at[c] <= Len(plan[c])
    BY DEF PlanSound
  <1>4. ~Executed(c) => at[c] <= Len(plan[c])
    BY DEF Executed, PlanSound, OperationsSound
  <1>5. "conflict" \in Statuses /\ "created" \in Statuses
    BY DEF Statuses
  <1>6. CASE absent[c] /\ Make(c)
    <2>1. CASE op.path \notin DOMAIN tree /\ tree' = With(op.path, op.content)
               /\ Result(c, "created")
      <3>1. Comes(c, op, "created")
        BY <1>1, <1>3, <1>5, <1>6, <2>1 DEF Comes
      <3> QED
        BY <1>1, <1>5, <2>1, <3>1
    <2>2. CASE op.path \in DOMAIN tree /\ Result(c, Judge(op)) /\ tree' = tree
      <3>1. Comes(c, op, Judge(op))
        BY <1>1, <1>2, <1>3, <1>6, <2>2 DEF Comes
      <3> QED
        BY <1>1, <1>2, <2>2, <3>1
    <2> QED
      BY <1>6, <2>1, <2>2 DEF Make
  <1>7. CASE Look(c)
    <2>1. CASE Result(c, "conflict") /\ tree' = tree
      <3>1. Comes(c, op, "conflict")
        BY <1>1, <1>4, <1>5, <1>7, <2>1 DEF Comes, Look
      <3> QED
        BY <1>1, <1>5, <2>1, <3>1
    <2>2. CASE op.path \in DOMAIN tree /\ Result(c, Judge(op)) /\ tree' = tree
      <3>1. Comes(c, op, Judge(op))
        BY <1>1, <1>2, <1>4, <1>7, <2>2 DEF Comes, Look
      <3> QED
        BY <1>1, <1>2, <2>2, <3>1
    <2>3. CASE /\ ParentAvailable(op.path) /\ op.path \notin DOMAIN tree
               /\ op.content = Directory
               /\ tree' = With(op.path, Directory)
               /\ Result(c, "created")
      <3>1. Comes(c, op, "created")
        BY <1>1, <1>4, <1>5, <1>7, <2>3 DEF Comes, Look
      <3> QED
        BY <1>1, <1>5, <2>3, <3>1
    <2>4. CASE /\ ParentAvailable(op.path) /\ op.content # Directory
               /\ absent' = [absent EXCEPT ![c] = TRUE]
               /\ UNCHANGED <<tree, plan, at, report>>
      BY <1>4, <1>7, <2>4 DEF Finds, PlanRanges, Look
    <2> QED
      BY <1>7, <2>1, <2>2, <2>3, <2>4 DEF Look
  <1> QED
    BY <1>6, <1>7 DEF Execute, Make

LEMMA ComesKeepsTree ==
  ASSUME NEW c \in Callers, NEW op, NEW status, PlanSound(c), TreeSound,
         Comes(c, op, status)
  PROVE  TreeSound' /\ TreeKept
  <1>1. op.path \in Paths /\ IsDocument(op.content)
    BY DEF Comes, PlanSound, OperationsSound
  <1>2. CASE tree' = tree
    BY <1>2 DEF TreeSound, TreeKept
  <1>3. CASE op.path \notin DOMAIN tree /\ tree' = With(op.path, op.content)
    <2> DEFINE t == With(op.path, op.content)
    <2>1. /\ DOMAIN t = DOMAIN tree \cup {op.path} /\ t[op.path] = op.content
          /\ \A p \in DOMAIN tree : p # op.path => t[p] = tree[p]
      BY DEF With
    <2> HIDE DEF t
    <2>2. tree' = t
      BY <1>3 DEF t
    <2> QED
      BY <1>1, <1>3, <2>1, <2>2 DEF TreeSound, TreeKept
  <1> QED
    BY <1>2, <1>3 DEF Comes

LEMMA ExecuteKeeps ==
  ASSUME NEW c \in Callers, PlansInvariant, Execute(c)
  PROVE  PlansInvariant' /\ TreeKept
  <1>1. PlanRanges /\ TreeSound /\ \A d \in Callers : PlanSound(d) /\ ReportsHold(d)
    BY DEF PlansInvariant
  <1>2. /\ plan' = plan /\ PlanRanges'
        /\ \A d \in Callers \ {c} :
             at'[d] = at[d] /\ report'[d] = report[d] /\ absent'[d] = absent[d]
        /\ Finds(c) \/ \E op, status : status \in Statuses /\ Comes(c, op, status)
    BY <1>1, ExecuteEffect
  <1>3. TreeSound' /\ TreeKept
    <2>1. CASE Finds(c)
      BY <1>1, <2>1 DEF Finds, TreeSound, TreeKept
    <2>2. CASE \E op, status : status \in Statuses /\ Comes(c, op, status)
      BY <1>1, <2>2, ComesKeepsTree
    <2> QED
      BY <1>2, <2>1, <2>2
  <1>4. ASSUME NEW d \in Callers \ {c}
        PROVE  PlanSound(d)' /\ ReportsHold(d)'
    BY <1>1, <1>2, <1>3, CallerStays
  <1>5. PlanSound(c)' /\ ReportsHold(c)'
    <2>1. CASE Finds(c)
      <3>1. PlanSound(c)'
        BY <1>1, <1>2, <2>1 DEF PlanSound, Finds
      <3>2. ReportsHold(c)'
        BY <1>1, <1>2, <2>1 DEF ReportsHold, OperationHolds, Finds
      <3> QED
        BY <3>1, <3>2
    <2>2. CASE \E op, status : status \in Statuses /\ Comes(c, op, status)
      <3>1. PICK op, status : status \in Statuses /\ Comes(c, op, status)
        BY <2>2
      <3> DEFINE n == at[c]
                 r == report[c]
      <3>2. /\ OperationsSound(plan[c]) /\ n \in Nat /\ n >= 1 /\ Len(r) = n - 1
            /\ r \in Seq(Statuses) /\ n <= Len(plan[c]) /\ Len(plan[c]) \in Nat
            /\ op = plan[c][n]
        BY <1>1, <3>1 DEF PlanSound, PlanRanges, Comes, OperationsSound
      <3>3. report'[c] = Append(r, status) /\ at'[c] = n + 1 /\ ~absent'[c]
        BY <3>1 DEF Comes
      <3>4. /\ Len(Append(r, status)) = Len(r) + 1
            /\ \A i \in 1 .. Len(r) : Append(r, status)[i] = r[i]
            /\ Append(r, status)[Len(r) + 1] = status
            /\ DOMAIN Append(r, status) = 1 .. Len(Append(r, status))
            /\ DOMAIN r = 1 .. Len(r)
        BY <3>1, <3>2, AppendProperties, LenProperties
      <3> HIDE DEF n, r
      <3>5. PlanSound(c)'
        <4>1. Len(Append(r, status)) = n /\ n + 1 \in 1 .. Len(plan[c]) + 1
          BY <3>2, <3>4
        <4>2. n = (n + 1) - 1
          BY <3>2
        <4> QED
          BY <1>2, <3>2, <3>3, <4>1, <4>2 DEF PlanSound
      <3>6. status # "conflict" => OperationHolds(op)'
        <4>1. CASE status = "skipped" /\ tree' = tree
                   /\ op.path \in DOMAIN tree /\ tree[op.path] = op.content
          BY <4>1 DEF OperationHolds
        <4>2. CASE status = "created" /\ tree' = With(op.path, op.content)
          BY <4>2 DEF OperationHolds, With
        <4>3. \/ status = "conflict"
              \/ status = "skipped" /\ tree' = tree
                 /\ op.path \in DOMAIN tree /\ tree[op.path] = op.content
              \/ status = "created" /\ tree' = With(op.path, op.content)
          BY <3>1 DEF Comes
        <4> QED
          BY <4>1, <4>2, <4>3
      <3>7. ASSUME NEW i \in DOMAIN Append(r, status), Append(r, status)[i] # "conflict"
            PROVE  OperationHolds(plan[c][i])'
        <4>1. CASE i = n
          <5>1. plan[c][i] = op /\ Append(r, status)[i] = status
            BY <3>2, <3>4, <4>1
          <5> DEFINE o == plan[c][i]
          <5>2. plan'[c][i] = op
            BY <1>2, <5>1
          <5> QED
            BY <3>6, <3>7, <5>1, <5>2 DEF OperationHolds
        <4>2. CASE i # n
          <5>1. i \in DOMAIN r /\ r[i] # "conflict"
            BY <3>2, <3>4, <3>7, <4>2
          <5> DEFINE o == plan[c][i]
          <5>2. OperationHolds(o)
            BY <1>1, <5>1 DEF ReportsHold, r
          <5>3. \A x : OperationHolds(x) => OperationHolds(x)'
            BY <1>3, HoldsStill
          <5>4. plan'[c][i] = o
            BY <1>2
          <5> HIDE DEF o
          <5> QED
            BY <5>2, <5>3, <5>4 DEF OperationHolds
        <4> QED
          BY <4>1, <4>2
      <3>8. ReportsHold(c)'
        BY <3>3, <3>7 DEF ReportsHold, OperationHolds
      <3> QED
        BY <3>5, <3>8
    <2> QED
      BY <1>2, <2>1, <2>2
  <1> QED
    BY <1>2, <1>3, <1>4, <1>5 DEF PlansInvariant

-----------------------------------------------------------------------------
(* The other steps.                                                        *)

LEMMA NoPlanSound ==
  ASSUME NEW c, plan'[c] = <<>>, at'[c] = 1, report'[c] = <<>>, ~absent'[c]
  PROVE  PlanSound(c)' /\ ReportsHold(c)'
  BY DEF PlanSound, ReportsHold, OperationsSound

LEMMA SameTree ==
  ASSUME TreeSound, tree' = tree
  PROVE  TreeSound' /\ TreeKept
  BY DEF TreeSound, TreeKept

LEMMA ForgetRanges ==
  ASSUME NEW who, PlanRanges, Forget(who)
  PROVE  /\ PlanRanges'
         /\ \A c \in Callers : c \in who =>
              plan'[c] = <<>> /\ at'[c] = 1 /\ report'[c] = <<>> /\ ~absent'[c]
         /\ \A c \in Callers : c \notin who =>
              /\ plan'[c] = plan[c] /\ at'[c] = at[c] /\ report'[c] = report[c]
              /\ absent'[c] = absent[c]
  <1>1. <<>> \in Seq(Statuses)
    OBVIOUS
  <1> QED
    BY <1>1 DEF Forget, PlanRanges

LEMMA ForgetKeeps ==
  ASSUME NEW who, PlansInvariant, Forget(who), tree' = tree
  PROVE  PlansInvariant' /\ TreeKept
  <1>1. PlanRanges /\ TreeSound /\ \A d \in Callers : PlanSound(d) /\ ReportsHold(d)
    BY DEF PlansInvariant
  <1>2. TreeSound' /\ TreeKept
    BY <1>1, SameTree
  <1>3. ASSUME NEW c \in Callers
        PROVE  PlanSound(c)' /\ ReportsHold(c)'
    BY <1>1, <1>2, NoPlanSound, CallerStays, ForgetRanges
  <1> QED
    BY <1>1, <1>2, <1>3, ForgetRanges DEF PlansInvariant

LEMMA BeginKeeps ==
  ASSUME NEW c \in Callers, NEW root, NEW ops, PlansInvariant, Begin(c, root, ops),
         OperationsSound(ops)
  PROVE  PlansInvariant' /\ TreeKept
  <1>1. PlanRanges /\ TreeSound /\ \A d \in Callers : PlanSound(d) /\ ReportsHold(d)
    BY DEF PlansInvariant
  <1>2. TreeSound' /\ TreeKept
    BY <1>1, SameTree DEF Begin
  <1>3. <<>> \in Seq(Statuses)
    OBVIOUS
  <1>4. /\ PlanRanges'
        /\ plan'[c] = ops /\ at'[c] = 1 /\ report'[c] = <<>> /\ ~absent'[c]
        /\ \A d \in Callers \ {c} :
             /\ plan'[d] = plan[d] /\ at'[d] = at[d] /\ report'[d] = report[d]
             /\ absent'[d] = absent[d]
    BY <1>1, <1>3 DEF Begin, PlanRanges
  <1>5. PlanSound(c)' /\ ReportsHold(c)'
    BY <1>4 DEF PlanSound, OperationsSound, ReportsHold
  <1>6. ASSUME NEW d \in Callers \ {c}
        PROVE  PlanSound(d)' /\ ReportsHold(d)'
    BY <1>1, <1>2, <1>4, CallerStays
  <1> QED
    BY <1>2, <1>4, <1>5, <1>6 DEF PlansInvariant

LEMMA StutterKeeps ==
  ASSUME PlansInvariant, UNCHANGED planVars
  PROVE  PlansInvariant' /\ TreeKept
  <1>1. PlanRanges /\ TreeSound /\ \A d \in Callers : PlanSound(d) /\ ReportsHold(d)
    BY DEF PlansInvariant
  <1>2. TreeSound' /\ TreeKept
    BY <1>1, SameTree DEF planVars
  <1>3. ASSUME NEW c \in Callers
        PROVE  PlanSound(c)' /\ ReportsHold(c)'
    BY <1>1, <1>2, <1>3, CallerStays DEF planVars
  <1> QED
    BY <1>1, <1>2, <1>3 DEF PlansInvariant, PlanRanges, planVars

LEMMA UpdateKeeps ==
  ASSUME NEW e \in Entries(SessionsRoot), PlansInvariant, UpdateRuntime(e)
  PROVE  PlansInvariant' /\ TreeKept
  <1>1. PlanRanges /\ TreeSound /\ \A d \in Callers : PlanSound(d) /\ ReportsHold(d)
    BY DEF PlansInvariant
  <1> DEFINE s == SecondOf(e)
             old == tree[s]
             new == [old EXCEPT !.revision = 2]
  <1>2. /\ s \in DOMAIN tree /\ s \in Paths /\ IsDocument(old) /\ old.revision = 1
        /\ tree' = With(s, new)
    BY <1>1 DEF UpdateRuntime, Find, Loads, TreeSound
  <1> HIDE DEF s
  <1>3. /\ DOMAIN tree' = DOMAIN tree /\ tree'[s] = new
        /\ \A p \in DOMAIN tree : p # s => tree'[p] = tree[p]
    BY <1>2 DEF With
  <1> HIDE DEF old
  <1>4. ASSUME IsSecond(old) PROVE TreeSound' /\ TreeKept
    <2>1. old = [kind |-> "second", id |-> old.id, revision |-> 1]
      BY <1>2, <1>4 DEF IsSecond, Second
    <2>2. /\ new = [kind |-> "second", id |-> old.id, revision |-> 2]
          /\ new = [old EXCEPT !.revision = @ + 1]
      BY <2>1
    <2>3. IsSecond(new) /\ new.id = old.id
      BY <2>2 DEF IsSecond, Second
    <2> HIDE DEF new
    <2> QED
      BY <1>1, <1>2, <1>3, <1>4, <2>2, <2>3 DEF TreeSound, TreeKept, old, IsDocument
  <1>5. ASSUME old = Directory \/ IsMetadata(old) PROVE TreeSound' /\ TreeKept
    <2>1. new = old
      BY <1>5 DEF IsMetadata, Metadata, Directory
    <2> HIDE DEF new
    <2> QED
      BY <1>1, <1>2, <1>3, <2>1 DEF TreeSound, TreeKept, old
  <1>6. TreeSound' /\ TreeKept
    BY <1>2, <1>4, <1>5 DEF IsDocument
  <1>7. plan' = plan /\ at' = at /\ absent' = absent /\ report' = report
    BY DEF UpdateRuntime
  <1>8. ASSUME NEW c \in Callers
        PROVE  PlanSound(c)' /\ ReportsHold(c)'
    BY <1>1, <1>6, <1>7, CallerStays
  <1> QED
    BY <1>1, <1>6, <1>7, <1>8 DEF PlansInvariant, PlanRanges

LEMMA TakeBackKeeps ==
  ASSUME PlansInvariant, TakeBack
  PROVE  PlansInvariant'
  <1>1. PlanRanges /\ TreeSound
    BY DEF PlansInvariant
  <1>2. PICK left \in {DOMAIN tree} \cup
                      {{p \in DOMAIN tree : ~Within(q, p)} : q \in unsynced} :
          tree' = [p \in left |-> tree[p]] /\ Forget(Callers)
    BY DEF TakeBack
  <1>3. TreeSound'
    BY <1>1, <1>2 DEF TreeSound
  <1>4. ASSUME NEW c \in Callers
        PROVE  PlanSound(c)' /\ ReportsHold(c)'
    BY <1>1, <1>2, NoPlanSound, ForgetRanges
  <1> QED
    BY <1>1, <1>2, <1>3, <1>4, ForgetRanges DEF PlansInvariant

-----------------------------------------------------------------------------
(* The plans.                                                              *)

LEMMA FourOperations ==
  ASSUME NEW a, NEW b, NEW c, NEW d
  PROVE  LET ops == <<a, b, c, d>> IN
         /\ Len(ops) = 4 /\ DOMAIN ops = 1 .. 4
         /\ \A i \in DOMAIN ops : ops[i] \in {a, b, c, d}
         /\ ops[1] = a /\ ops[2] = b /\ ops[3] = c /\ ops[4] = d
  OBVIOUS

LEMMA EntryPlanKnown ==
  ASSUME NEW entry \in Paths, NEW inside, Named(inside) \in Components,
         NEW d, IsDocument(d)
  PROVE  LET ops == EntryPlan(entry, inside, d) IN
         /\ OperationsSound(ops)
         /\ \A i \in DOMAIN ops : Len(ops[i].path) <= Len(entry) + 1
  <1> DEFINE below == Append(entry, Named(inside))
             a == Operation(entry, Directory)
             b == Operation(below, Directory)
             m == Operation(MetadataOf(entry), d)
             s == Operation(SecondOf(entry), Second(d.id, 1))
  <1>1. EntryPlan(entry, inside, d) = <<a, b, m, s>>
    BY TwoAndTwo DEF EntryPlan, Documents
  <1>2. below \in Paths /\ Len(below) = Len(entry) + 1 /\ Len(entry) \in Nat
    BY PathBelow
  <1>3. IsDocument(Directory) /\ IsDocument(Second(d.id, 1))
    BY KindsApart DEF IsDocument
  <1>4. \A op \in {a, b, m, s} :
          op.path \in Paths /\ Len(op.path) <= Len(entry) + 1 /\ IsDocument(op.content)
    <2> HIDE DEF below
    <2> QED
      BY <1>2, <1>3, DocumentsBelow DEF Operation
  <1> HIDE DEF a, b, m, s
  <1> QED
    BY <1>1, <1>4, FourOperations DEF OperationsSound

\* Metadata that sessions may be planned with.
Plannable(m) ==
  /\ IsMetadata(m)
  /\ m.number \in Nat /\ m.name \in Titles \cup {g.name : g \in Given}

\* An identity that was generated is not generated again.
SessionMetadata(m) ==
  /\ Plannable(m)
  /\ m.id \in Nat => m.id <= issued

LEMMA SessionRootKnown ==
  ASSUME NEW m, Plannable(m)
  PROVE  /\ SessionRoot(m) \in Paths /\ Len(SessionRoot(m)) = 6
         /\ Parent(SessionRoot(m)) = SessionsRoot
  <1> DEFINE x == [number |-> m.number, name |-> m.name]
  <1>1. x \in Components
    BY DEF Plannable, Components
  <1>2. SessionRoot(m) = Append(SessionsRoot, x)
    BY DEF SessionRoot
  <1> HIDE DEF x
  <1>3. /\ SessionRoot(m) \in Paths /\ Len(SessionRoot(m)) = Len(SessionsRoot) + 1
        /\ Parent(SessionRoot(m)) = SessionsRoot
    BY <1>1, <1>2, ContainersKnown, PathBelow
  <1> QED
    BY <1>3, ContainersKnown

LEMMA SessionPlanKnown ==
  ASSUME NEW m, Plannable(m)
  PROVE  LET ops == SessionPlan(m) IN
         /\ OperationsSound(ops) /\ DOMAIN ops = 1 .. 4
         /\ ops[1] = Operation(Parent(SessionsRoot), Directory)
         /\ ops[2] = Operation(SessionRoot(m), Directory)
         /\ ops[3] = Operation(MetadataOf(SessionRoot(m)), m)
         /\ ops[4] = Operation(SecondOf(SessionRoot(m)), Second(m.id, 1))
  <1> DEFINE a == Operation(Parent(SessionsRoot), Directory)
             b == Operation(SessionRoot(m), Directory)
             c == Operation(MetadataOf(SessionRoot(m)), m)
             s == Operation(SecondOf(SessionRoot(m)), Second(m.id, 1))
  <1>1. SessionPlan(m) = <<a, b, c, s>>
    BY TwoAndTwo DEF SessionPlan, Documents
  <1>2. IsDocument(Directory) /\ IsDocument(Second(m.id, 1)) /\ IsDocument(m)
    BY KindsApart DEF IsDocument, Plannable
  <1>3. \A op \in {a, b, c, s} : op.path \in Paths /\ IsDocument(op.content)
    BY <1>2, SessionRootKnown, ContainersKnown, DocumentsBelow DEF Operation
  <1> HIDE DEF a, b, c, s
  <1>4. Len(<<a, b, c, s>>) = 4 /\ DOMAIN <<a, b, c, s>> = 1 .. 4
        /\ \A i \in 1 .. 4 : <<a, b, c, s>>[i] \in {a, b, c, s}
    BY FourOperations
  <1> QED
    BY <1>1, <1>3, <1>4, FourOperations DEF OperationsSound, a, b, c, s

\* The plans of courses and modules end above the sessions.
Low(ops) == \A i \in DOMAIN ops : Len(ops[i].path) <= 5

LEMMA CoursePlanKnown ==
  ASSUME NEW d, IsDocument(d), d.name \in Courses \cup {Home}
  PROVE  OperationsSound(CoursePlan(d)) /\ Low(CoursePlan(d))
  <1>1. Named("Modules") \in Components
    BY DEF Components
  <1>2. CourseRoot(d.name) \in Paths /\ Len(CourseRoot(d.name)) = 2
    BY ContainersKnown
  <1>3. /\ OperationsSound(CoursePlan(d))
        /\ \A i \in DOMAIN CoursePlan(d) :
             CoursePlan(d)[i].path \in Paths /\ Len(CoursePlan(d)[i].path) <= 2 + 1
    BY <1>1, <1>2, EntryPlanKnown DEF CoursePlan, OperationsSound
  <1>4. \A p \in Paths : Len(p) <= 2 + 1 => Len(p) <= 5
    BY LenProperties DEF Paths
  <1> QED
    BY <1>3, <1>4 DEF Low

LEMMA ModulePlanKnown ==
  ASSUME NEW d, IsDocument(d), NEW m \in Modules \cup {First}, d.number = m.number,
         d.name = m.name
  PROVE  OperationsSound(ModulePlan(Home, d)) /\ Low(ModulePlan(Home, d))
  <1> DEFINE x == [number |-> d.number, name |-> d.name]
             entry == Append(ModulesRoot(Home), x)
  <1>1. Named("Sessions") \in Components /\ x \in Components
    BY DEF Components
  <1>2. ModulePlan(Home, d) = EntryPlan(entry, "Sessions", d)
    BY DEF ModulePlan
  <1> HIDE DEF x
  <1>3. entry \in Paths /\ Len(entry) = 3 + 1
    <2>1. ModulesRoot(Home) \in Paths /\ Len(ModulesRoot(Home)) = 3
      BY ContainersKnown
    <2>2. entry \in Paths /\ Len(entry) = Len(ModulesRoot(Home)) + 1
      BY <1>1, <2>1, PathBelow
    <2> QED
      BY <2>1, <2>2
  <1> HIDE DEF entry
  <1>4. /\ OperationsSound(ModulePlan(Home, d))
        /\ \A i \in DOMAIN ModulePlan(Home, d) : Len(ModulePlan(Home, d)[i].path) <= 3 + 1 + 1
    BY <1>1, <1>2, <1>3, EntryPlanKnown
  <1> QED
    BY <1>4 DEF Low

-----------------------------------------------------------------------------
(* The vaults calls start from.                                            *)

\* What may be in such a vault: nothing at a session or below.
IsEarly(pair) == pair[1] \in Paths /\ Len(pair[1]) <= 5 /\ IsDocument(pair[2])

LEMMA TreeOfKnown ==
  ASSUME NEW pairs
  PROVE  LET t == TreeOf(pairs) IN
         \A p \in DOMAIN t : \E pair \in pairs : pair[1] = p /\ t[p] = pair[2]
  <1> DEFINE t == TreeOf(pairs)
             pairAt(p) == CHOOSE pair \in pairs : pair[1] = p
  <1>1. DOMAIN t = {pair[1] : pair \in pairs}
    BY DEF TreeOf
  <1>2. ASSUME NEW p \in DOMAIN t
        PROVE  \E pair \in pairs : pair[1] = p /\ t[p] = pair[2]
    <2>1. \E pair \in pairs : pair[1] = p
      BY <1>1
    <2>2. pairAt(p) \in pairs /\ pairAt(p)[1] = p
      BY <2>1
    <2>3. t[p] = pairAt(p)[2]
      BY <1>1 DEF TreeOf
    <2> HIDE DEF pairAt
    <2> QED
      BY <2>2, <2>3
  <1> QED
    BY <1>2

LEMMA PairsEarly ==
  ASSUME NEW ops, OperationsSound(ops), Low(ops)
  PROVE  \A pair \in PairsOf(ops) : IsEarly(pair)
  BY DEF OperationsSound, Low, PairsOf, IsEarly

LEMMA FirstTree ==
  ASSUME Init
  PROVE  \A p \in DOMAIN tree : p \in Paths /\ Len(p) <= 5 /\ IsDocument(tree[p])
  <1> DEFINE course == Metadata(1, 0, Home)
             module == Metadata(2, First.number, First.name)
  <1>1. IsDocument(course) /\ course.name = Home
        /\ IsDocument(module) /\ module.number = First.number /\ module.name = First.name
    BY KindsApart DEF IsDocument
  <1> HIDE DEF course, module
  <1>2. \A pair \in PairsOf(CoursePlan(course)) : IsEarly(pair)
    BY <1>1, CoursePlanKnown, PairsEarly
  <1>3. \A pair \in PairsOf(ModulePlan(Home, module)) : IsEarly(pair)
    BY <1>1, ModulePlanKnown, PairsEarly
  <1>4. \A pair \in Vault : IsEarly(pair)
    BY ContainersKnown DEF Vault, IsEarly, IsDocument
  <1>5. /\ WithCourse = Vault \cup PairsOf(CoursePlan(course))
        /\ WithModule = WithCourse \cup PairsOf(ModulePlan(Home, module))
    BY DEF WithCourse, WithModule, course, module
  <1>6. PICK pairs \in {Vault, WithCourse, WithModule} : tree = TreeOf(pairs)
    BY DEF Init
  <1>7. \A pair \in pairs : IsEarly(pair)
    BY <1>2, <1>3, <1>4, <1>5
  <1> QED
    BY <1>6, <1>7, TreeOfKnown DEF IsEarly

-----------------------------------------------------------------------------
(* The sessions, and the calls.                                            *)

\* The directories of sessions that have metadata.
Recorded == {e \in Entries(SessionsRoot) : Managed(e)}

\* No other session has the number or the identity of m.
Fresh(m) ==
  \A e \in Recorded \ {SessionRoot(m)} :
    tree[MetadataOf(e)].number # m.number /\ tree[MetadataOf(e)].id # m.id

\* The plan c executes creates a session, and c holds the creation lock.
Creates(c, m) ==
  /\ lock = c
  /\ SessionMetadata(m) /\ Fresh(m)
  /\ plan[c] = SessionPlan(m) /\ target[c] = SessionRoot(m)

CallKnown(c) ==
  /\ pc[c] \in {"idle", "locking", "scanning", "executing"}
  /\ pc[c] \in {"locking", "scanning"} => request[c] \in Requests
  /\ pc[c] = "scanning" => lock = c
  /\ pc[c] # "executing" => plan[c] = <<>>
  /\ pc[c] = "executing" =>
       \/ request[c].kind \in {"course", "module"} /\ Low(plan[c])
       \/ request[c].kind \in {"session", "given"} /\ \E m : Creates(c, m)

\* A document of a session is in a directory, and of its kind.
SessionTree ==
  \A p \in DOMAIN tree : Len(p) = 7 =>
    /\ Parent(p) \in DOMAIN tree /\ tree[Parent(p)] = Directory
    /\ p = MetadataOf(Parent(p)) => SessionMetadata(tree[p])
    /\ p = SecondOf(Parent(p)) => IsSecond(tree[p])

\* The directory stays that a document is about to be created in.
AbsentKept(c) ==
  absent[c] =>
    LET p == plan[c][at[c]].path IN
    /\ plan[c][at[c]].content # Directory
    /\ Len(p) = 7 => Parent(p) \in DOMAIN tree /\ tree[Parent(p)] = Directory

RecordsDistinct ==
  \A d, e \in Recorded : d # e =>
    /\ tree[MetadataOf(d)].number # tree[MetadataOf(e)].number
    /\ tree[MetadataOf(d)].id # tree[MetadataOf(e)].id

RecordsBounded == \E b \in Nat : \A e \in Recorded : tree[MetadataOf(e)].number <= b

MadeThere ==
  \A m \in made : \E e \in Recorded :
    /\ tree[MetadataOf(e)] = m
    /\ SecondOf(e) \in DOMAIN tree /\ tree[SecondOf(e)].id = m.id

SessionRanges ==
  /\ DOMAIN pc = Callers /\ DOMAIN request = Callers /\ DOMAIN target = Callers
  /\ issued \in Nat /\ losses \in Nat
  /\ unsynced \subseteq Paths

SessionsInvariant ==
  /\ SessionRanges
  /\ \A c \in Callers : CallKnown(c) /\ AbsentKept(c)
  /\ SessionTree /\ RecordsDistinct /\ RecordsBounded
  /\ MadeThere

LibraryInvariant == PlansInvariant /\ SessionsInvariant

-----------------------------------------------------------------------------
(* Plans begin as they should.                                             *)

LEMMA RequestKnown ==
  ASSUME NEW what \in Requests, issued \in Nat
  PROVE  /\ what.kind \in {"session", "given"}
         /\ what.kind = "given" =>
              /\ what.metadata \in Given
              /\ SessionMetadata(what.metadata) /\ what.metadata.id \notin Nat
         /\ what.kind = "session" => what.title \in Titles /\ what.id \in {NoId, KeyId}
  <1>1. CASE what \in [kind : {"session"}, title : Titles, id : {NoId, KeyId}]
    BY <1>1
  <1>2. CASE \E m \in Given : what = [kind |-> "given", metadata |-> m]
    <2>1. PICK m \in Given : what = [kind |-> "given", metadata |-> m]
      BY <1>2
    <2>2. m.id \notin Nat /\ m.number \in Nat /\ IsMetadata(m)
      BY LibraryAssumption DEF IsMetadata, Metadata
    <2>3. what.kind = "given" /\ what.metadata = m
      BY <2>1
    <2> QED
      BY <2>2, <2>3 DEF SessionMetadata, Plannable
  <1> QED
    BY <1>1, <1>2 DEF Requests

-----------------------------------------------------------------------------
(* Steps that leave the vault as it is.                                    *)

LEMMA SameSessions ==
  ASSUME tree' = tree, issued \in Nat, issued' \in Nat, issued' >= issued
  PROVE  /\ Recorded' = Recorded
         /\ \A m : SessionMetadata(m) => SessionMetadata(m)'
         /\ \A m : Fresh(m) => Fresh(m)'
         /\ SessionTree => SessionTree'
         /\ RecordsDistinct => RecordsDistinct'
         /\ RecordsBounded => RecordsBounded'
  <1>1. Recorded' = Recorded
    BY DEF Recorded, Entries, Managed
  <1>2. ASSUME NEW m, SessionMetadata(m)
        PROVE  SessionMetadata(m)'
    BY <1>2 DEF SessionMetadata
  <1>3. ASSUME NEW m, Fresh(m)
        PROVE  Fresh(m)'
    BY <1>1, <1>3 DEF Fresh
  <1>4. ASSUME SessionTree
        PROVE  SessionTree'
    BY <1>4 DEF SessionTree, SessionMetadata
  <1> QED
    BY <1>1, <1>2, <1>3, <1>4 DEF RecordsDistinct, RecordsBounded

\* A call that another caller's step leaves alone.
CallStays(d) ==
  /\ pc'[d] = pc[d] /\ request'[d] = request[d] /\ target'[d] = target[d]
  /\ plan'[d] = plan[d]
  /\ lock = d => lock' = d

OtherStays(d) == CallStays(d) /\ at'[d] = at[d] /\ absent'[d] = absent[d]

LEMMA OtherKnown ==
  ASSUME NEW d \in Callers, CallKnown(d), CallStays(d),
         \A m : SessionMetadata(m) => SessionMetadata(m)',
         \A m : Creates(d, m) => \E n : Creates(d, n) /\ Fresh(n)'
  PROVE  CallKnown(d)'
  <1>1. ASSUME NEW m, Creates(d, m)
        PROVE  \E n : Creates(d, n)'
    BY <1>1 DEF Creates, CallStays
  <1>2. ASSUME pc[d] = "executing"
        PROVE  \/ request[d].kind \in {"course", "module"} /\ Low(plan[d])
               \/ request[d].kind \in {"session", "given"} /\ \E m : Creates(d, m)'
    BY <1>1, <1>2 DEF CallKnown
  <1> QED
    BY <1>2 DEF CallKnown, CallStays

\* A step of c that leaves the vault as it is.
CallOnly(c) ==
  /\ tree' = tree /\ unsynced' = unsynced /\ losses' = losses
  /\ issued' \in Nat /\ issued' >= issued
  /\ DOMAIN pc' = Callers /\ DOMAIN request' = Callers /\ DOMAIN target' = Callers
  /\ \A d \in Callers \ {c} : OtherStays(d)

LEMMA CallOnlyKeeps ==
  ASSUME NEW c, SessionsInvariant, CallOnly(c), MadeThere',
         c \in Callers => CallKnown(c)' /\ AbsentKept(c)'
  PROVE  SessionsInvariant'
  <1>1. SessionRanges' /\ issued \in Nat
    BY DEF SessionsInvariant, SessionRanges, CallOnly
  <1>2. /\ Recorded' = Recorded
        /\ \A m : SessionMetadata(m) => SessionMetadata(m)'
        /\ \A m : Fresh(m) => Fresh(m)'
        /\ SessionTree => SessionTree'
        /\ RecordsDistinct => RecordsDistinct'
        /\ RecordsBounded => RecordsBounded'
    BY <1>1, SameSessions DEF CallOnly
  <1>3. ASSUME NEW d \in Callers \ {c}
        PROVE  CallKnown(d)' /\ AbsentKept(d)'
    <2>1. OtherStays(d) /\ CallKnown(d) /\ AbsentKept(d) /\ tree' = tree
      BY DEF CallOnly, SessionsInvariant
    <2>2. \A m : Creates(d, m) => Fresh(m)'
      BY <1>2 DEF Creates
    <2>3. CallKnown(d)'
      BY <1>2, <2>1, <2>2, OtherKnown DEF OtherStays
    <2>4. AbsentKept(d)'
      BY <2>1 DEF AbsentKept, OtherStays, CallStays
    <2> QED
      BY <2>3, <2>4
  <1> QED
    BY <1>1, <1>2, <1>3 DEF SessionsInvariant

LEMMA SameMade ==
  ASSUME MadeThere, tree' = tree, made' = made
  PROVE  MadeThere'
  <1>1. Recorded' = Recorded
    BY DEF Recorded, Entries, Managed
  <1> QED
    BY <1>1 DEF MadeThere

LEMMA Returned ==
  ASSUME NEW c \in Callers, SessionRanges, Returns(c), plan'[c] = <<>>
  PROVE  /\ CallKnown(c)'
         /\ DOMAIN pc' = Callers /\ DOMAIN request' = Callers /\ DOMAIN target' = Callers
         /\ \A d \in Callers \ {c} :
              pc'[d] = pc[d] /\ request'[d] = request[d] /\ target'[d] = target[d]
  <1>1. /\ pc'[c] = "idle"
        /\ DOMAIN pc' = Callers /\ DOMAIN request' = Callers /\ DOMAIN target' = Callers
        /\ \A d \in Callers \ {c} :
             pc'[d] = pc[d] /\ request'[d] = request[d] /\ target'[d] = target[d]
    BY DEF Returns, SessionRanges
  <1> QED
    BY <1>1 DEF CallKnown

\* A call returns without a plan.
LEMMA LeavesKeeps ==
  ASSUME NEW c \in Callers, LibraryInvariant, UNCHANGED planVars, Returns(c),
         pc[c] # "executing", issued' = issued, losses' = losses,
         \A d \in Callers \ {c} : lock = d => lock' = d, MadeThere'
  PROVE  LibraryInvariant'
  <1>1. PlansInvariant'
    BY StutterKeeps DEF LibraryInvariant
  <1>2. SessionsInvariant /\ SessionRanges /\ CallKnown(c) /\ AbsentKept(c)
    BY DEF LibraryInvariant, SessionsInvariant
  <1>3. plan'[c] = <<>>
    BY <1>2 DEF CallKnown, planVars
  <1>4. /\ CallKnown(c)'
        /\ DOMAIN pc' = Callers /\ DOMAIN request' = Callers /\ DOMAIN target' = Callers
        /\ \A d \in Callers \ {c} :
             pc'[d] = pc[d] /\ request'[d] = request[d] /\ target'[d] = target[d]
    BY <1>2, <1>3, Returned
  <1>5. AbsentKept(c)'
    BY <1>2 DEF AbsentKept, planVars
  <1>6. CallOnly(c)
    BY <1>2, <1>4 DEF CallOnly, OtherStays, CallStays, planVars, SessionRanges
  <1>7. SessionsInvariant'
    BY <1>2, <1>4, <1>5, <1>6, CallOnlyKeeps
  <1> QED
    BY <1>1, <1>7 DEF LibraryInvariant

\* A call begins a plan.
LEMMA BeginsKeeps ==
  ASSUME NEW c \in Callers, NEW root, NEW ops, NEW entry, LibraryInvariant,
         Begin(c, root, ops), OperationsSound(ops), Executes(c, entry),
         DOMAIN request' = Callers, \A d \in Callers \ {c} : request'[d] = request[d],
         lock' = lock, losses' = losses, made' = made,
         issued' \in Nat, issued' >= issued,
         CallKnown(c)'
  PROVE  LibraryInvariant'
  <1>1. PlansInvariant'
    BY BeginKeeps DEF LibraryInvariant
  <1>2. SessionsInvariant /\ SessionRanges /\ PlanRanges /\ MadeThere
    BY DEF LibraryInvariant, SessionsInvariant, PlansInvariant
  <1>3. /\ tree' = tree /\ unsynced' = unsynced /\ ~absent'[c]
        /\ \A d \in Callers \ {c} :
             plan'[d] = plan[d] /\ at'[d] = at[d] /\ absent'[d] = absent[d]
    BY <1>2 DEF Begin, PlanRanges
  <1>4. /\ DOMAIN pc' = Callers /\ DOMAIN target' = Callers
        /\ \A d \in Callers \ {c} : pc'[d] = pc[d] /\ target'[d] = target[d]
    BY <1>2 DEF Executes, SessionRanges
  <1>5. CallOnly(c)
    BY <1>3, <1>4 DEF CallOnly, OtherStays, CallStays
  <1>6. AbsentKept(c)'
    BY <1>3 DEF AbsentKept
  <1>7. MadeThere'
    BY <1>2, <1>3, SameMade
  <1>8. SessionsInvariant'
    BY <1>2, <1>5, <1>6, <1>7, CallOnlyKeeps
  <1> QED
    BY <1>1, <1>8 DEF LibraryInvariant

\* A call that executes a plan ends.
LEMMA EndsKeeps ==
  ASSUME NEW c \in Callers, LibraryInvariant, Forget({c}), Returns(c),
         tree' = tree, unsynced' = unsynced, issued' = issued, losses' = losses,
         \A d \in Callers \ {c} : lock = d => lock' = d, MadeThere'
  PROVE  LibraryInvariant'
  <1>1. PlansInvariant'
    BY ForgetKeeps DEF LibraryInvariant
  <1>2. SessionsInvariant /\ SessionRanges /\ PlanRanges
    BY DEF LibraryInvariant, SessionsInvariant, PlansInvariant
  <1>3. /\ plan'[c] = <<>> /\ ~absent'[c]
        /\ \A d \in Callers \ {c} :
             plan'[d] = plan[d] /\ at'[d] = at[d] /\ absent'[d] = absent[d]
    BY <1>2, ForgetRanges
  <1>4. /\ CallKnown(c)'
        /\ DOMAIN pc' = Callers /\ DOMAIN request' = Callers /\ DOMAIN target' = Callers
        /\ \A d \in Callers \ {c} :
             pc'[d] = pc[d] /\ request'[d] = request[d] /\ target'[d] = target[d]
    BY <1>2, <1>3, Returned
  <1>5. AbsentKept(c)'
    BY <1>3 DEF AbsentKept
  <1>6. CallOnly(c)
    BY <1>2, <1>3, <1>4 DEF CallOnly, OtherStays, CallStays, SessionRanges
  <1>7. SessionsInvariant'
    BY <1>2, <1>4, <1>5, <1>6, CallOnlyKeeps
  <1> QED
    BY <1>1, <1>7 DEF LibraryInvariant

-----------------------------------------------------------------------------
(* Courses and modules.                                                    *)

LEMMA RecordsAreDocuments ==
  ASSUME TreeSound, NEW root
  PROVE  \A m \in Records(root) : IsDocument(m)
  BY DEF Records, Managed, TreeSound

LEMMA LowBegins ==
  ASSUME NEW c \in Callers, NEW root, NEW ops, NEW what, NEW entry, LibraryInvariant,
         Begin(c, root, ops), OperationsSound(ops), Low(ops),
         what.kind \in {"course", "module"}, Asks(c, what), Executes(c, entry),
         lock' = lock, losses' = losses, made' = made,
         issued' \in {issued, issued + 1}
  PROVE  LibraryInvariant'
  <1>1. SessionRanges /\ PlanRanges
    BY DEF LibraryInvariant, SessionsInvariant, PlansInvariant
  <1>2. /\ plan'[c] = ops
        /\ request'[c] = what /\ DOMAIN request' = Callers
        /\ \A d \in Callers \ {c} : request'[d] = request[d]
        /\ pc'[c] = "executing"
    BY <1>1 DEF Begin, Asks, Executes, SessionRanges, PlanRanges
  <1>3. CallKnown(c)'
    BY <1>2 DEF CallKnown, Low
  <1>4. issued' \in Nat /\ issued' >= issued
    BY <1>1 DEF SessionRanges
  <1> QED
    BY <1>2, <1>3, <1>4, BeginsKeeps

LEMMA LibraryFacts ==
  ASSUME LibraryInvariant
  PROVE  /\ PlansInvariant /\ SessionsInvariant /\ SessionRanges /\ PlanRanges
         /\ TreeSound /\ SessionTree /\ RecordsDistinct /\ RecordsBounded /\ MadeThere
         /\ issued \in Nat /\ NoLock \notin Callers /\ Stale \notin Callers
         /\ \A c \in Callers : CallKnown(c) /\ AbsentKept(c) /\ PlanSound(c)
  BY LibraryAssumption DEF LibraryInvariant, PlansInvariant, SessionsInvariant, SessionRanges

LEMMA CourseStep ==
  ASSUME NEW c \in Callers, NEW name \in Courses, LibraryInvariant, CreateCourse(c, name)
  PROVE  LibraryInvariant'
  <1> DEFINE same == {m \in Records(CoursesRoot) : m.name = name}
             what == [kind |-> "course"]
             new == Metadata(issued', 0, name)
  <1>1. pc[c] = "idle" /\ lock' = lock /\ losses' = losses /\ made' = made
    BY DEF CreateCourse
  <1>2. what.kind \in {"course", "module"}
    OBVIOUS
  <1>3. CASE Returns(c) /\ UNCHANGED <<planVars, issued>>
    <2>1. MadeThere'
      BY <1>1, <1>3, LibraryFacts, SameMade DEF planVars
    <2> QED
      BY <1>1, <1>3, <2>1, LeavesKeeps
  <1>4. CASE /\ issued' = issued + 1
             /\ Begin(c, CourseRoot(name), CoursePlan(new))
             /\ Asks(c, what) /\ Executes(c, CourseRoot(name))
    <2>1. IsDocument(new) /\ new.name = name
      BY KindsApart DEF IsDocument
    <2> HIDE DEF new, what
    <2>2. OperationsSound(CoursePlan(new)) /\ Low(CoursePlan(new))
      BY <2>1, CoursePlanKnown
    <2> QED
      BY <1>1, <1>2, <1>4, <2>2, LowBegins
  <1>5. CASE \E m \in same : /\ Begin(c, CourseRoot(name), CoursePlan(m))
                             /\ Asks(c, what) /\ Executes(c, CourseRoot(name))
                             /\ issued' = issued
    <2>1. PICK m \in same : /\ Begin(c, CourseRoot(name), CoursePlan(m))
                            /\ Asks(c, what) /\ Executes(c, CourseRoot(name))
                            /\ issued' = issued
      BY <1>5
    <2>2. IsDocument(m) /\ m.name = name
      BY LibraryFacts, RecordsAreDocuments
    <2> HIDE DEF what
    <2>3. OperationsSound(CoursePlan(m)) /\ Low(CoursePlan(m))
      BY <2>2, CoursePlanKnown
    <2> QED
      BY <1>1, <1>2, <2>1, <2>3, LowBegins
  <1> HIDE DEF same, what, new
  <1> QED
    BY <1>3, <1>4, <1>5 DEF CreateCourse, same, what, new

LEMMA ModuleStep ==
  ASSUME NEW c \in Callers, NEW m \in Modules, LibraryInvariant, CreateModule(c, m)
  PROVE  LibraryInvariant'
  <1> DEFINE same == {r \in Records(ModulesRoot(Home)) : r.number = m.number /\ r.name = m.name}
             what == [kind |-> "module"]
             root == Append(ModulesRoot(Home), m)
             new == Metadata(issued', m.number, m.name)
  <1>1. pc[c] = "idle" /\ lock' = lock /\ losses' = losses /\ made' = made
    BY DEF CreateModule
  <1>2. what.kind \in {"course", "module"}
    OBVIOUS
  <1>3. CASE Returns(c) /\ UNCHANGED <<planVars, issued>>
    <2>1. MadeThere'
      BY <1>1, <1>3, LibraryFacts, SameMade DEF planVars
    <2> QED
      BY <1>1, <1>3, <2>1, LeavesKeeps
  <1>4. CASE /\ issued' = issued + 1
             /\ Begin(c, root, ModulePlan(Home, new))
             /\ Asks(c, what) /\ Executes(c, root)
    <2>1. IsDocument(new) /\ new.number = m.number /\ new.name = m.name
      BY KindsApart DEF IsDocument
    <2> HIDE DEF new, what, root
    <2>2. OperationsSound(ModulePlan(Home, new)) /\ Low(ModulePlan(Home, new))
      BY <2>1, ModulePlanKnown
    <2> QED
      BY <1>1, <1>2, <1>4, <2>2, LowBegins
  <1>5. CASE \E r \in same : /\ Begin(c, root, ModulePlan(Home, r))
                             /\ Asks(c, what) /\ Executes(c, root)
                             /\ issued' = issued
    <2>1. PICK r \in same : /\ Begin(c, root, ModulePlan(Home, r))
                            /\ Asks(c, what) /\ Executes(c, root)
                            /\ issued' = issued
      BY <1>5
    <2>2. IsDocument(r) /\ r.number = m.number /\ r.name = m.name
      BY LibraryFacts, RecordsAreDocuments
    <2> HIDE DEF what, root
    <2>3. OperationsSound(ModulePlan(Home, r)) /\ Low(ModulePlan(Home, r))
      BY <2>2, ModulePlanKnown
    <2> QED
      BY <1>1, <1>2, <2>1, <2>3, LowBegins
  <1> HIDE DEF same, what, new, root
  <1> QED
    BY <1>3, <1>4, <1>5 DEF CreateModule, same, what, new, root

-----------------------------------------------------------------------------
(* Sessions, up to their plans.                                            *)

\* A call goes on without a plan.
LEMMA GoesOnKeeps ==
  ASSUME NEW c \in Callers, LibraryInvariant, UNCHANGED planVars,
         DOMAIN pc' = Callers, DOMAIN request' = Callers, target' = target,
         \A d \in Callers \ {c} : pc'[d] = pc[d] /\ request'[d] = request[d],
         pc[c] # "executing", pc'[c] \in {"locking", "scanning"}, request'[c] \in Requests,
         pc'[c] = "scanning" => lock' = c,
         \A d \in Callers \ {c} : lock = d => lock' = d,
         issued' = issued, losses' = losses, made' = made
  PROVE  LibraryInvariant'
  <1>1. PlansInvariant'
    BY StutterKeeps DEF LibraryInvariant
  <1>2. SessionsInvariant /\ SessionRanges /\ CallKnown(c) /\ AbsentKept(c) /\ MadeThere
    BY LibraryFacts
  <1>3. CallKnown(c)'
    BY <1>2 DEF CallKnown, planVars
  <1>4. AbsentKept(c)'
    BY <1>2 DEF AbsentKept, planVars
  <1>5. CallOnly(c)
    BY <1>2 DEF CallOnly, OtherStays, CallStays, planVars, SessionRanges
  <1>6. MadeThere'
    BY <1>2, SameMade DEF planVars
  <1>7. SessionsInvariant'
    BY <1>2, <1>3, <1>4, <1>5, <1>6, CallOnlyKeeps
  <1> QED
    BY <1>1, <1>7 DEF LibraryInvariant

LEMMA SessionStep ==
  ASSUME NEW c \in Callers, NEW what \in Requests, LibraryInvariant, CreateSession(c, what)
  PROVE  LibraryInvariant'
  <1>1. /\ pc[c] = "idle" /\ lock' = lock /\ losses' = losses /\ made' = made
        /\ issued' = issued /\ UNCHANGED planVars
    BY DEF CreateSession
  <1>2. SessionRanges /\ MadeThere
    BY LibraryFacts
  <1>3. MadeThere'
    BY <1>1, <1>2, SameMade DEF planVars
  <1>4. CASE Returns(c)
    BY <1>1, <1>3, <1>4, LeavesKeeps
  <1>5. CASE /\ pc' = [pc EXCEPT ![c] = "locking"]
             /\ Asks(c, what) /\ UNCHANGED target
    <2>1. /\ DOMAIN pc' = Callers /\ DOMAIN request' = Callers
          /\ pc'[c] = "locking" /\ request'[c] = what
          /\ \A d \in Callers \ {c} : pc'[d] = pc[d] /\ request'[d] = request[d]
      BY <1>2, <1>5 DEF Asks, SessionRanges
    <2> QED
      BY <1>1, <1>5, <2>1, GoesOnKeeps
  <1> QED
    BY <1>4, <1>5 DEF CreateSession

LEMMA LockStep ==
  ASSUME NEW c \in Callers, LibraryInvariant, Lock(c)
  PROVE  LibraryInvariant'
  <1>1. /\ pc[c] = "locking" /\ losses' = losses /\ made' = made
        /\ issued' = issued /\ UNCHANGED planVars
    BY DEF Lock
  <1>2. SessionRanges /\ MadeThere /\ CallKnown(c) /\ NoLock \notin Callers
    BY LibraryFacts
  <1>3. MadeThere'
    BY <1>1, <1>2, SameMade DEF planVars
  <1>4. CASE Returns(c) /\ lock' = lock
    BY <1>1, <1>3, <1>4, LeavesKeeps
  <1>5. CASE /\ lock = NoLock /\ lock' = c
             /\ pc' = [pc EXCEPT ![c] = "scanning"]
             /\ UNCHANGED <<request, target>>
    <2>1. /\ DOMAIN pc' = Callers /\ DOMAIN request' = Callers
          /\ pc'[c] = "scanning" /\ request'[c] \in Requests
          /\ \A d \in Callers \ {c} : pc'[d] = pc[d] /\ request'[d] = request[d]
      BY <1>1, <1>2, <1>5 DEF SessionRanges, CallKnown
    <2>2. \A d \in Callers \ {c} : lock = d => lock' = d
      BY <1>2, <1>5
    <2> QED
      BY <1>1, <1>5, <2>1, <2>2, GoesOnKeeps
  <1> QED
    BY <1>4, <1>5 DEF Lock

LEMMA RecordKnown ==
  ASSUME TreeSound, SessionTree
  PROVE  \A e \in Recorded :
           /\ e \in Paths /\ Len(e) = 6 /\ Len(MetadataOf(e)) = 7 /\ Len(SecondOf(e)) = 7
           /\ Parent(MetadataOf(e)) = e /\ Parent(SecondOf(e)) = e
           /\ MetadataOf(e) \in DOMAIN tree /\ SessionMetadata(tree[MetadataOf(e)])
           /\ SecondOf(e) \in DOMAIN tree => IsSecond(tree[SecondOf(e)])
           /\ tree[MetadataOf(e)] \in Records(SessionsRoot)
  <1> SUFFICES ASSUME NEW e \in Recorded
               PROVE  /\ e \in Paths /\ Len(e) = 6
                      /\ Len(MetadataOf(e)) = 7 /\ Len(SecondOf(e)) = 7
                      /\ Parent(MetadataOf(e)) = e /\ Parent(SecondOf(e)) = e
                      /\ MetadataOf(e) \in DOMAIN tree
                      /\ SessionMetadata(tree[MetadataOf(e)])
                      /\ SecondOf(e) \in DOMAIN tree => IsSecond(tree[SecondOf(e)])
                      /\ tree[MetadataOf(e)] \in Records(SessionsRoot)
    OBVIOUS
  <1>1. /\ e \in Paths /\ Len(e) = Len(SessionsRoot) + 1
        /\ MetadataOf(e) \in DOMAIN tree /\ e \in Entries(SessionsRoot) /\ Managed(e)
    BY DEF Recorded, Entries, Managed, TreeSound
  <1>2. /\ Len(MetadataOf(e)) = Len(e) + 1 /\ Parent(MetadataOf(e)) = e
        /\ Len(SecondOf(e)) = Len(e) + 1 /\ Parent(SecondOf(e)) = e
    BY <1>1, DocumentsBelow
  <1>3. Len(e) = 6 /\ Len(MetadataOf(e)) = 7 /\ Len(SecondOf(e)) = 7
    BY <1>1, <1>2, ContainersKnown
  <1>4. SessionMetadata(tree[MetadataOf(e)])
        /\ (SecondOf(e) \in DOMAIN tree => IsSecond(tree[SecondOf(e)]))
    BY <1>1, <1>2, <1>3 DEF SessionTree
  <1>5. tree[MetadataOf(e)] \in Records(SessionsRoot)
    BY <1>1 DEF Records
  <1> QED
    BY <1>1, <1>2, <1>3, <1>4, <1>5

\* The number a session is given is above those of the others.
LEMMA NextNumberKnown ==
  ASSUME SessionTree, RecordsBounded, TreeSound
  PROVE  /\ NextNumber \in Nat
         /\ \A e \in Recorded : tree[MetadataOf(e)].number < NextNumber
  <1> DEFINE numbers == {0} \cup {m.number : m \in Records(SessionsRoot)}
             top == CHOOSE n \in numbers : \A k \in numbers : k <= n
  <1>1. PICK b \in Nat : \A e \in Recorded : tree[MetadataOf(e)].number <= b
    BY DEF RecordsBounded
  <1>2. ASSUME NEW e \in Recorded
        PROVE  tree[MetadataOf(e)].number \in Nat /\ tree[MetadataOf(e)].number \in numbers
    BY RecordKnown DEF SessionMetadata, Plannable
  <1>3. \A n \in numbers : n \in Nat /\ n <= b
    <2>1. \A m \in Records(SessionsRoot) : \E e \in Recorded : m = tree[MetadataOf(e)]
      BY DEF Records, Recorded
    <2> QED
      BY <1>1, <1>2, <2>1
  <1>4. 0 \in numbers
    OBVIOUS
  <1>5. NextNumber = 1 + top
    BY DEF NextNumber
  <1> HIDE DEF numbers
  <1>6. \E n \in numbers : \A k \in numbers : k <= n
    BY <1>3, <1>4, GreatestExists
  <1>7. top \in numbers /\ \A k \in numbers : k <= top
    BY <1>6
  <1> HIDE DEF top
  <1>8. top \in Nat
    BY <1>3, <1>7
  <1> QED
    BY <1>2, <1>5, <1>7, <1>8

LEMMA PlansKeeps ==
  ASSUME NEW c \in Callers, NEW m, LibraryInvariant, pc[c] = "scanning", Plans(c, m),
         issued' \in Nat, issued' >= issued, SessionMetadata(m)', Fresh(m),
         losses' = losses, made' = made
  PROVE  LibraryInvariant'
  <1>1. /\ SessionRanges /\ PlanRanges /\ CallKnown(c) /\ issued \in Nat
    BY LibraryFacts
  <1> DEFINE root == Parent(SessionsRoot)
  <1>2. /\ Begin(c, root, SessionPlan(m)) /\ Executes(c, SessionRoot(m))
        /\ lock' = lock /\ request' = request
    BY DEF Plans
  <1>3. OperationsSound(SessionPlan(m))
    BY SessionPlanKnown DEF SessionMetadata
  <1>4. /\ plan'[c] = SessionPlan(m) /\ target'[c] = SessionRoot(m) /\ pc'[c] = "executing"
        /\ tree' = tree
    BY <1>1, <1>2 DEF Begin, Executes, PlanRanges, SessionRanges
  <1>5. Fresh(m)'
    BY <1>1, <1>4, SameSessions
  <1>6. lock = c /\ request[c].kind \in {"session", "given"}
    BY <1>1, RequestKnown DEF CallKnown
  <1>7. Creates(c, m)'
    BY <1>2, <1>4, <1>5, <1>6 DEF Creates
  <1>8. CallKnown(c)'
    BY <1>2, <1>4, <1>6, <1>7 DEF CallKnown
  <1> HIDE DEF root
  <1> QED
    BY <1>1, <1>2, <1>3, <1>8, BeginsKeeps DEF SessionRanges

LEMMA DecideStep ==
  ASSUME NEW c \in Callers, LibraryInvariant, Decide(c)
  PROVE  LibraryInvariant'
  <1> DEFINE what == request[c]
             repeated == Repeated(what)
  <1>1. /\ pc[c] = "scanning" /\ losses' = losses
        /\ TreeSound /\ SessionTree /\ RecordsBounded /\ RecordsDistinct /\ MadeThere
        /\ issued \in Nat /\ CallKnown(c)
    BY LibraryFacts DEF Decide
  <1>2. lock = c /\ what \in Requests
    BY <1>1 DEF CallKnown
  <1>3. /\ what.kind \in {"session", "given"}
        /\ what.kind = "given" =>
             /\ what.metadata \in Given
             /\ SessionMetadata(what.metadata) /\ what.metadata.id \notin Nat
        /\ what.kind = "session" => what.title \in Titles /\ what.id \in {NoId, KeyId}
    BY <1>1, <1>2, RequestKnown
  <1>4. NextNumber \in Nat /\ \A e \in Recorded : tree[MetadataOf(e)].number < NextNumber
    BY <1>1, NextNumberKnown
  <1>5. \A e \in Recorded : tree[MetadataOf(e)].number \in Nat
    BY <1>1, RecordKnown DEF SessionMetadata, Plannable
  <1>6. \A d \in Callers \ {c} : lock = d => lock' = d
    BY <1>2
  <1>7. CASE Returns(c) /\ UNCHANGED <<planVars, issued, made>>
    <2>1. MadeThere'
      BY <1>1, <1>7, SameMade DEF planVars
    <2> QED
      BY <1>1, <1>6, <1>7, <2>1, LeavesKeeps
  <1>8. CASE \E e \in repeated : /\ Loads(e) /\ Returns(c)
                                 /\ made' = made \cup {tree[MetadataOf(e)]}
                                 /\ UNCHANGED <<planVars, issued>>
    <2>1. PICK e \in repeated : /\ Loads(e) /\ Returns(c)
                                /\ made' = made \cup {tree[MetadataOf(e)]}
                                /\ UNCHANGED <<planVars, issued>>
      BY <1>8
    <2>2. /\ e \in Recorded /\ SecondOf(e) \in DOMAIN tree
          /\ tree[SecondOf(e)].id = tree[MetadataOf(e)].id
      BY <2>1 DEF Repeated, Recorded, Loads
    <2>3. Recorded' = Recorded /\ tree' = tree
      BY <2>1 DEF Recorded, Entries, Managed, planVars
    <2>4. MadeThere'
      BY <1>1, <2>1, <2>2, <2>3 DEF MadeThere
    <2> QED
      BY <1>1, <1>6, <2>1, <2>4, LeavesKeeps
  <1>9. CASE /\ ~NumberTaken(what) /\ repeated = {} /\ what.kind = "given"
             /\ Plans(c, what.metadata) /\ UNCHANGED <<issued, made>>
    <2> PICK m \in Given : m = what.metadata
      BY <1>3, <1>9
    <2>1. SessionMetadata(m)'
      BY <1>3, <1>9 DEF SessionMetadata, Plannable
    <2>2. ASSUME NEW e \in Recorded
          PROVE  tree[MetadataOf(e)].id # m.id /\ tree[MetadataOf(e)].number # m.number
      <3>1. tree[MetadataOf(e)].id # m.id
        BY <1>9 DEF Repeated, Recorded
      <3>2. tree[MetadataOf(e)] \in Records(SessionsRoot)
        BY <1>1, RecordKnown
      <3> QED
        BY <1>9, <3>1, <3>2 DEF NumberTaken
    <2>3. Fresh(m)
      BY <2>2 DEF Fresh
    <2> QED
      BY <1>1, <1>9, <2>1, <2>3, PlansKeeps
  <1>10. ASSUME NEW id, NEW n, NEW title, n = NextNumber, title = what.title,
                \A e \in Recorded : tree[MetadataOf(e)].id # id,
                Plans(c, Metadata(id, n, title)), what.kind = "session",
                issued' \in Nat, issued' >= issued, id \in Nat => id <= issued',
                made' = made
         PROVE  LibraryInvariant'
    <2> DEFINE m == Metadata(id, n, title)
    <2>1. title \in Titles /\ n \in Nat
      BY <1>3, <1>4, <1>10
    <2>2. IsMetadata(m) /\ m.id = id /\ m.number = n /\ m.name = title
      BY KindsApart
    <2>3. Plans(c, m)
      BY <1>10
    <2>4. \A e \in Recorded : tree[MetadataOf(e)].number < n
      BY <1>4, <1>10
    <2> HIDE DEF m
    <2>5. SessionMetadata(m)'
      BY <1>10, <2>1, <2>2 DEF SessionMetadata, Plannable
    <2>6. Fresh(m)
      BY <1>5, <1>10, <2>1, <2>2, <2>4 DEF Fresh
    <2> QED
      BY <1>1, <1>10, <2>3, <2>5, <2>6, PlansKeeps
  <1>11. CASE /\ repeated = {} /\ what.kind = "session" /\ what.id = KeyId
              /\ Plans(c, Metadata(KeyId, NextNumber, what.title))
              /\ UNCHANGED <<issued, made>>
    <2>1. ASSUME NEW e \in Recorded
          PROVE  tree[MetadataOf(e)].id # KeyId
      BY <1>11, LibraryAssumption DEF Repeated, Recorded
    <2>2. KeyId \notin Nat /\ KeyId # NoId
      BY LibraryAssumption
    <2> QED
      BY <1>1, <1>10, <1>11, <2>1, <2>2
  <1>12. CASE /\ repeated = {} /\ what.kind = "session" /\ what.id = NoId
              /\ issued' = issued + 1
              /\ Plans(c, Metadata(issued', NextNumber, what.title))
              /\ UNCHANGED made
    <2>1. \A e \in Recorded : tree[MetadataOf(e)].id # issued + 1
      BY <1>1, RecordKnown DEF SessionMetadata
    <2> QED
      BY <1>1, <1>10, <1>12, <2>1
  <1> QED
    BY <1>7, <1>8, <1>9, <1>11, <1>12 DEF Decide

-----------------------------------------------------------------------------
(* The ends of calls.                                                      *)

LEMMA ReportStep ==
  ASSUME NEW c \in Callers, LibraryInvariant, Report(c) \/ Fails(c) \/ Die(c)
  PROVE  LibraryInvariant'
  <1>1. /\ Forget({c}) /\ Returns(c) /\ tree' = tree /\ unsynced' = unsynced
        /\ issued' = issued /\ losses' = losses /\ made' = made
        /\ \A d \in Callers \ {c} : lock = d => lock' = d
    BY DEF Report, Fails, Die, Release
  <1>2. MadeThere'
    BY <1>1, LibraryFacts, SameMade
  <1> QED
    BY <1>1, <1>2, EndsKeeps

LEMMA AcknowledgeStep ==
  ASSUME NEW c \in Callers, LibraryInvariant, Acknowledge(c)
  PROVE  LibraryInvariant'
  <1> DEFINE e == target[c]
  <1>1. /\ Forget({c}) /\ Returns(c) /\ tree' = tree /\ unsynced' = unsynced
        /\ issued' = issued /\ losses' = losses
        /\ pc[c] = "executing" /\ request[c].kind \in {"session", "given"}
        /\ \A d \in Callers \ {c} : lock = d => lock' = d
        /\ \/ made' = made
           \/ Loads(e) /\ made' = made \cup {tree[MetadataOf(e)]}
    BY DEF Acknowledge, Release
  <1>2. TreeSound /\ SessionTree /\ MadeThere /\ CallKnown(c)
    BY LibraryFacts
  <1>3. PICK m : Creates(c, m)
    <2>1. ~(request[c].kind \in {"course", "module"})
      BY <1>1
    <2> QED
      BY <1>1, <1>2, <2>1 DEF CallKnown
  <1>4. e = SessionRoot(m) /\ e \in Paths /\ Len(e) = 6 /\ Parent(e) = SessionsRoot
    BY <1>3, SessionRootKnown DEF Creates, SessionMetadata
  <1> HIDE DEF e
  <1>5. Len(MetadataOf(e)) = 6 + 1 /\ Parent(MetadataOf(e)) = e
    BY <1>4, DocumentsBelow
  <1>6. ASSUME Loads(e)
        PROVE  /\ e \in Recorded /\ SecondOf(e) \in DOMAIN tree
               /\ tree[SecondOf(e)].id = tree[MetadataOf(e)].id
    <2>1. /\ MetadataOf(e) \in DOMAIN tree /\ SecondOf(e) \in DOMAIN tree
          /\ tree[SecondOf(e)].id = tree[MetadataOf(e)].id
      BY <1>6 DEF Loads, Managed
    <2>2. e \in DOMAIN tree /\ tree[e] = Directory
      BY <1>2, <1>5, <2>1 DEF SessionTree
    <2>3. Len(e) = Len(SessionsRoot) + 1
      BY <1>4, ContainersKnown
    <2> QED
      BY <1>4, <2>1, <2>2, <2>3 DEF Recorded, Entries, Managed
  <1>7. Recorded' = Recorded
    BY <1>1 DEF Recorded, Entries, Managed
  <1>8. MadeThere'
    BY <1>1, <1>2, <1>6, <1>7 DEF MadeThere
  <1> QED
    BY <1>1, <1>8, EndsKeeps

LEMMA StaleStep ==
  ASSUME LibraryInvariant, RemoveStaleLock
  PROVE  LibraryInvariant'
  <1>1. /\ lock = Stale /\ UNCHANGED planVars /\ issued' = issued /\ losses' = losses
        /\ made' = made /\ pc' = pc /\ request' = request /\ target' = target
    BY DEF RemoveStaleLock
  <1>2. SessionsInvariant /\ SessionRanges /\ MadeThere /\ Stale \notin Callers
    BY LibraryFacts
  <1>3. PlansInvariant'
    BY <1>1, StutterKeeps DEF LibraryInvariant
  <1>4. MadeThere'
    BY <1>1, <1>2, SameMade DEF planVars
  <1>5. CallOnly(NoLock)
    BY <1>1, <1>2 DEF CallOnly, OtherStays, CallStays, planVars, SessionRanges
  <1>6. SessionsInvariant'
    BY <1>2, <1>4, <1>5, LibraryAssumption, CallOnlyKeeps
  <1> QED
    BY <1>3, <1>6 DEF LibraryInvariant

LEMMA LibraryStutters ==
  ASSUME LibraryInvariant, UNCHANGED vars
  PROVE  LibraryInvariant'
  <1>1. /\ UNCHANGED planVars /\ issued' = issued /\ losses' = losses /\ lock' = lock
        /\ made' = made /\ pc' = pc /\ request' = request /\ target' = target
    BY DEF vars
  <1>2. SessionsInvariant /\ SessionRanges /\ MadeThere
    BY LibraryFacts
  <1>3. PlansInvariant'
    BY <1>1, StutterKeeps DEF LibraryInvariant
  <1>4. MadeThere'
    BY <1>1, <1>2, SameMade DEF planVars
  <1>5. CallOnly(NoLock)
    BY <1>1, <1>2 DEF CallOnly, OtherStays, CallStays, planVars, SessionRanges
  <1>6. SessionsInvariant'
    BY <1>2, <1>4, <1>5, LibraryAssumption, CallOnlyKeeps
  <1> QED
    BY <1>3, <1>6 DEF LibraryInvariant

-----------------------------------------------------------------------------
(* A loss of power.                                                        *)

LEMMA PowerStep ==
  ASSUME LibraryInvariant, PowerFails
  PROVE  LibraryInvariant'
  <1>1. PlansInvariant'
    BY TakeBackKeeps DEF LibraryInvariant, PowerFails
  <1>2. /\ SessionRanges /\ PlanRanges /\ TreeSound /\ SessionTree /\ RecordsDistinct
        /\ RecordsBounded /\ issued \in Nat
    BY LibraryFacts
  <1>3. PICK left \in {DOMAIN tree} \cup
                      {{p \in DOMAIN tree : ~Within(q, p)} : q \in unsynced} :
          /\ tree' = [p \in left |-> tree[p]] /\ Forget(Callers) /\ unsynced' = {}
    BY DEF PowerFails, TakeBack
  <1>4. /\ issued' = issued /\ losses' = losses + 1 /\ made' = {}
        /\ pc' = [c \in Callers |-> "idle"]
        /\ request' = [c \in Callers |-> Idle]
        /\ target' = [c \in Callers |-> <<>>]
    BY DEF PowerFails
  <1>5. \A c \in Callers : plan'[c] = <<>> /\ ~absent'[c]
    BY <1>2, <1>3, ForgetRanges
  <1>6. \A c \in Callers : CallKnown(c)' /\ AbsentKept(c)'
    BY <1>4, <1>5 DEF CallKnown, AbsentKept
  <1>7. SessionRanges'
    BY <1>2, <1>3, <1>4 DEF SessionRanges
  <1>8. left \subseteq DOMAIN tree /\ DOMAIN tree' = left /\ \A p \in left : tree'[p] = tree[p]
    BY <1>3
  <1>9. Recorded' \subseteq Recorded
        /\ \A e \in Recorded' : tree'[MetadataOf(e)] = tree[MetadataOf(e)]
    BY <1>8 DEF Recorded, Entries, Managed
  <1>10. ASSUME NEW p \in left, Len(p) = 7
         PROVE  Parent(p) \in left /\ tree[Parent(p)] = Directory
    <2>1. p \in Paths /\ Parent(p) \in DOMAIN tree /\ tree[Parent(p)] = Directory
      BY <1>2, <1>8, <1>10 DEF SessionTree, TreeSound
    <2>2. ASSUME NEW q \in unsynced, left = {x \in DOMAIN tree : ~Within(q, x)}
          PROVE  Parent(p) \in left
      <3>1. Len(q) \in Nat
        BY <1>2, LenProperties DEF SessionRanges, Paths
      <3>2. Len(p) > 0
        BY <1>10
      <3>3. ~Within(q, p)
        BY <1>10, <2>2
      <3>4. ~Within(q, Parent(p))
        BY <2>1, <3>1, <3>2, <3>3, WithinParent
      <3> QED
        BY <2>1, <2>2, <3>4
    <2> QED
      BY <2>1, <2>2
  <1>11. SessionTree'
    BY <1>2, <1>4, <1>8, <1>10 DEF SessionTree, SessionMetadata
  <1>12. RecordsDistinct'
    BY <1>2, <1>9 DEF RecordsDistinct
  <1>13. RecordsBounded'
    BY <1>2, <1>9 DEF RecordsBounded
  <1>14. MadeThere'
    BY <1>4 DEF MadeThere
  <1> QED
    BY <1>1, <1>6, <1>7, <1>11, <1>12, <1>13, <1>14 DEF LibraryInvariant, SessionsInvariant

-----------------------------------------------------------------------------
(* Steps that add to the vault.                                            *)

LEMMA RecordsKept ==
  ASSUME TreeKept, TreeSound, SessionTree
  PROVE  \A e \in Recorded :
           /\ e \in Recorded' /\ tree'[MetadataOf(e)] = tree[MetadataOf(e)]
           /\ SecondOf(e) \in DOMAIN tree =>
                SecondOf(e) \in DOMAIN tree' /\ tree'[SecondOf(e)].id = tree[SecondOf(e)].id
  <1>1. \A p \in DOMAIN tree :
          /\ p \in DOMAIN tree'
          /\ tree'[p] = tree[p] \/ (IsSecond(tree[p]) /\ tree'[p].id = tree[p].id)
    BY DEF TreeKept
  <1> SUFFICES ASSUME NEW e \in Recorded
               PROVE  /\ e \in Recorded' /\ tree'[MetadataOf(e)] = tree[MetadataOf(e)]
                      /\ SecondOf(e) \in DOMAIN tree =>
                           /\ SecondOf(e) \in DOMAIN tree'
                           /\ tree'[SecondOf(e)].id = tree[SecondOf(e)].id
    OBVIOUS
  <1>2. /\ e \in DOMAIN tree /\ tree[e] = Directory
        /\ MetadataOf(e) \in DOMAIN tree /\ IsMetadata(tree[MetadataOf(e)])
        /\ Len(e) = Len(SessionsRoot) + 1 /\ Parent(e) = SessionsRoot
    BY RecordKnown DEF Recorded, Entries, Managed, SessionMetadata, Plannable
  <1>3. ~IsSecond(Directory) /\ ~IsSecond(tree[MetadataOf(e)])
    BY <1>2, KindsApart
  <1>4. tree'[e] = Directory /\ tree'[MetadataOf(e)] = tree[MetadataOf(e)]
    BY <1>1, <1>2, <1>3
  <1>5. e \in Recorded'
    BY <1>1, <1>2, <1>4 DEF Recorded, Entries, Managed
  <1> QED
    BY <1>1, <1>4, <1>5

LEMMA MadeKept ==
  ASSUME TreeKept, TreeSound, SessionTree, MadeThere, made' = made
  PROVE  MadeThere'
  <1> SUFFICES ASSUME NEW m \in made
               PROVE  \E e \in Recorded' :
                        /\ tree'[MetadataOf(e)] = m
                        /\ SecondOf(e) \in DOMAIN tree' /\ tree'[SecondOf(e)].id = m.id
    BY DEF MadeThere
  <1>1. PICK e \in Recorded : /\ tree[MetadataOf(e)] = m
                              /\ SecondOf(e) \in DOMAIN tree /\ tree[SecondOf(e)].id = m.id
    BY DEF MadeThere
  <1> QED
    BY <1>1, RecordsKept

LEMMA AbsentStays ==
  ASSUME NEW c \in Callers, TreeKept, PlanSound(c), AbsentKept(c),
         plan'[c] = plan[c], at'[c] = at[c], absent'[c] => absent[c]
  PROVE  AbsentKept(c)'
  <1>1. ASSUME NEW p \in DOMAIN tree, tree[p] = Directory
        PROVE  p \in DOMAIN tree' /\ tree'[p] = Directory
    BY <1>1, KindsApart DEF TreeKept
  <1> QED
    BY <1>1 DEF AbsentKept

\* A step that adds no metadata.
LEMMA NoNewRecords ==
  ASSUME TreeKept, TreeSound, SessionTree, \A e \in Recorded' : e \in Recorded,
         RecordsDistinct, RecordsBounded
  PROVE  RecordsDistinct' /\ RecordsBounded' /\ \A m : Fresh(m) => Fresh(m)'
  <1>1. /\ Recorded' = Recorded
        /\ \A e \in Recorded : tree'[MetadataOf(e)] = tree[MetadataOf(e)]
    BY RecordsKept
  <1>2. RecordsDistinct'
    BY <1>1 DEF RecordsDistinct
  <1>3. RecordsBounded'
    BY <1>1 DEF RecordsBounded
  <1>4. ASSUME NEW m, Fresh(m)
        PROVE  Fresh(m)'
    BY <1>1, <1>4 DEF Fresh
  <1> QED
    BY <1>2, <1>3, <1>4

LEMMA UpdateStep ==
  ASSUME NEW e \in Entries(SessionsRoot), LibraryInvariant, UpdateRuntime(e)
  PROVE  LibraryInvariant'
  <1>1. PlansInvariant' /\ TreeKept
    BY UpdateKeeps DEF LibraryInvariant
  <1>2. /\ SessionsInvariant /\ SessionRanges /\ TreeSound /\ SessionTree
        /\ RecordsDistinct /\ RecordsBounded /\ MadeThere
    BY LibraryFacts
  <1> DEFINE s == SecondOf(e)
             new == [tree[s] EXCEPT !.revision = 2]
  <1>3. /\ e \in Recorded /\ s \in DOMAIN tree /\ tree' = With(s, new)
        /\ plan' = plan /\ at' = at /\ absent' = absent /\ lock' = lock /\ issued' = issued
        /\ pc' = pc /\ request' = request /\ target' = target /\ losses' = losses
        /\ made' = made /\ unsynced' \subseteq unsynced
    BY DEF UpdateRuntime, Find, Loads, Recorded
  <1>4. /\ e \in Paths /\ Len(e) = 6 /\ Len(s) = 7 /\ Parent(s) = e /\ IsSecond(tree[s])
    BY <1>2, <1>3, RecordKnown
  <1>5. \A d \in Paths : MetadataOf(d) # s
    BY <1>4, DocumentsBelow
  <1> HIDE DEF s
  <1>6. /\ DOMAIN tree' = DOMAIN tree
        /\ \A p \in DOMAIN tree : p # s => tree'[p] = tree[p]
    BY <1>3 DEF With
  <1>7. IsSecond(tree'[s])
    BY <1>1, <1>3, <1>4 DEF TreeKept
  <1>8. \A d \in Recorded' : d \in Recorded
    <2>1. ASSUME NEW d \in Recorded'
          PROVE  /\ d \in DOMAIN tree /\ Len(d) = Len(SessionsRoot) + 1
                 /\ Parent(d) = SessionsRoot /\ tree'[d] = Directory
                 /\ MetadataOf(d) \in DOMAIN tree
      BY <1>6 DEF Recorded, Entries, Managed
    <2>2. \A d \in Recorded' : d # s
      BY <1>4, <2>1, ContainersKnown
    <2> QED
      BY <1>6, <2>1, <2>2 DEF Recorded, Entries, Managed
  <1>9. RecordsDistinct' /\ RecordsBounded' /\ \A m : Fresh(m) => Fresh(m)'
    BY <1>1, <1>2, <1>8, NoNewRecords
  <1>10. MadeThere'
    BY <1>1, <1>2, <1>3, MadeKept
  <1>11. SessionTree'
    <2>1. ASSUME NEW p \in DOMAIN tree, Len(p) = 7
          PROVE  /\ Parent(p) \in DOMAIN tree /\ tree'[Parent(p)] = Directory
                 /\ p = MetadataOf(Parent(p)) => SessionMetadata(tree'[p])
                 /\ p = SecondOf(Parent(p)) => IsSecond(tree'[p])
      <3>1. /\ p \in Paths /\ Parent(p) \in DOMAIN tree /\ tree[Parent(p)] = Directory
            /\ p = MetadataOf(Parent(p)) => SessionMetadata(tree[p])
            /\ p = SecondOf(Parent(p)) => IsSecond(tree[p])
        BY <1>2, <2>1 DEF SessionTree, TreeSound
      <3>2. Parent(p) \in Paths /\ Len(Parent(p)) = 7 - 1
        <4>1. Len(p) > 0
          BY <2>1
        <4>2. Parent(p) \in Paths /\ Len(Parent(p)) = Len(p) - 1
          BY <3>1, <4>1, ParentKnown
        <4> QED
          BY <2>1, <4>2
      <3>3. Parent(p) # s
        BY <1>4, <3>2
      <3>4. p = MetadataOf(Parent(p)) => p # s
        BY <1>5, <3>2
      <3> QED
        BY <1>6, <1>7, <3>1, <3>3, <3>4
    <2> QED
      BY <1>3, <1>6, <2>1 DEF SessionTree, SessionMetadata
  <1>12. ASSUME NEW c \in Callers
         PROVE  CallKnown(c)' /\ AbsentKept(c)'
    <2>1. CallKnown(c) /\ AbsentKept(c) /\ PlanSound(c)
      BY LibraryFacts
    <2>2. AbsentKept(c)'
      BY <1>1, <1>3, <2>1, AbsentStays
    <2>3. \A m : SessionMetadata(m) => SessionMetadata(m)'
      BY <1>3 DEF SessionMetadata
    <2>4. \A m : Creates(c, m) => Fresh(m)'
      BY <1>9 DEF Creates
    <2>5. CallKnown(c)'
      BY <1>3, <2>1, <2>3, <2>4, OtherKnown DEF CallStays
    <2> QED
      BY <2>2, <2>5
  <1>13. SessionRanges'
    BY <1>2, <1>3 DEF SessionRanges
  <1> QED
    BY <1>1, <1>9, <1>10, <1>11, <1>12, <1>13 DEF LibraryInvariant, SessionsInvariant

\* What a plan comes to is above the sessions, or one of their directories, or
\* a document of the session that is created.
LEMMA ComesTo ==
  ASSUME NEW c \in Callers, NEW op, NEW status, CallKnown(c), PlanSound(c),
         Comes(c, op, status), pc[c] = "executing"
  PROVE  \/ op.path \in Paths /\ Len(op.path) <= 6
         \/ \E m : /\ Creates(c, m)
                   /\ Len(op.path) = 7 /\ Parent(op.path) = SessionRoot(m)
                   /\ op.content # Directory
                   /\ \/ op.path = MetadataOf(SessionRoot(m)) /\ op.content = m
                      \/ op.path = SecondOf(SessionRoot(m)) /\ IsSecond(op.content)
  <1>1. /\ OperationsSound(plan[c]) /\ at[c] \in DOMAIN plan[c] /\ op = plan[c][at[c]]
        /\ op.path \in Paths
    BY DEF PlanSound, Comes, OperationsSound
  <1>2. CASE Low(plan[c])
    <2>1. Len(op.path) \in Nat /\ Len(op.path) <= 5
      BY <1>1, <1>2, LenProperties DEF Low, Paths
    <2> QED
      BY <1>1, <2>1
  <1>3. CASE \E m : Creates(c, m)
    <2>1. PICK m : Creates(c, m)
      BY <1>3
    <2> DEFINE root == SessionRoot(m)
               ops == SessionPlan(m)
    <2>2. Plannable(m) /\ plan[c] = ops
      BY <2>1 DEF Creates, SessionMetadata
    <2>3. root \in Paths /\ Len(root) = 6
      BY <2>2, SessionRootKnown
    <2>4. /\ DOMAIN ops = 1 .. 4
          /\ ops[1] = Operation(Parent(SessionsRoot), Directory)
          /\ ops[2] = Operation(root, Directory)
          /\ ops[3] = Operation(MetadataOf(root), m)
          /\ ops[4] = Operation(SecondOf(root), Second(m.id, 1))
      BY <2>2, SessionPlanKnown
    <2> HIDE DEF root, ops
    <2>5. /\ Len(MetadataOf(root)) = 7 /\ Parent(MetadataOf(root)) = root
          /\ Len(SecondOf(root)) = 7 /\ Parent(SecondOf(root)) = root
      <3>1. /\ Len(MetadataOf(root)) = Len(root) + 1 /\ Parent(MetadataOf(root)) = root
            /\ Len(SecondOf(root)) = Len(root) + 1 /\ Parent(SecondOf(root)) = root
        BY <2>3, DocumentsBelow
      <3> QED
        BY <2>3, <3>1
    <2>6. m # Directory /\ IsSecond(Second(m.id, 1)) /\ Second(m.id, 1) # Directory
      BY <2>2, KindsApart DEF Plannable
    <2>7. at[c] \in 1 .. 4 /\ op = ops[at[c]]
      BY <1>1, <2>2, <2>4
    <2>8. CASE at[c] = 1
      <3>1. op.path = Parent(SessionsRoot)
        BY <2>4, <2>7, <2>8 DEF Operation
      <3>2. op.path \in Paths /\ Len(op.path) = 4
        BY <3>1, ContainersKnown
      <3>3. Len(op.path) <= 6
        BY <3>2
      <3> QED
        BY <3>2, <3>3
    <2>9. CASE at[c] = 2
      <3>1. op.path = root
        BY <2>4, <2>7, <2>9 DEF Operation
      <3>2. op.path \in Paths /\ Len(op.path) = 6
        BY <2>3, <3>1
      <3>3. Len(op.path) <= 6
        BY <3>2
      <3> QED
        BY <3>2, <3>3
    <2>10. CASE at[c] = 3
      <3>1. op.path = MetadataOf(root) /\ op.content = m
        BY <2>4, <2>7, <2>10 DEF Operation
      <3>2. /\ Len(op.path) = 7 /\ Parent(op.path) = root /\ op.content # Directory
        BY <2>5, <2>6, <3>1
      <3> QED
        BY <2>1, <3>1, <3>2 DEF root
    <2>11. CASE at[c] = 4
      <3>1. op.path = SecondOf(root) /\ op.content = Second(m.id, 1)
        BY <2>4, <2>7, <2>11 DEF Operation
      <3>2. /\ Len(op.path) = 7 /\ Parent(op.path) = root /\ op.content # Directory
            /\ IsSecond(op.content)
        BY <2>5, <2>6, <3>1
      <3> QED
        BY <2>1, <3>1, <3>2 DEF root
    <2> QED
      BY <2>7, <2>8, <2>9, <2>10, <2>11
  <1> QED
    BY <1>2, <1>3 DEF CallKnown

LEMMA ExecuteUnsynced ==
  ASSUME NEW c \in Callers, PlanSound(c), at[c] <= Len(plan[c]), Execute(c),
         unsynced \subseteq Paths
  PROVE  unsynced' \subseteq Paths
  <1>1. plan[c][at[c]].path \in Paths
    BY DEF PlanSound, OperationsSound
  <1>2. unsynced' = unsynced \/ unsynced' = unsynced \cup {plan[c][at[c]].path}
    BY DEF Execute, Look, Make
  <1> QED
    BY <1>1, <1>2

LEMMA GrownRecords ==
  ASSUME TreeSound, SessionTree, NEW path, NEW content, path \notin DOMAIN tree,
         path \in Paths, tree' = With(path, content), NEW e \in Recorded', e \notin Recorded
  PROVE  e \in Paths /\ Len(e) = 6 /\ MetadataOf(e) = path
  <1>1. /\ DOMAIN tree' = DOMAIN tree \cup {path}
        /\ \A p \in DOMAIN tree : tree'[p] = tree[p]
    BY DEF With
  <1>2. /\ e \in DOMAIN tree' /\ Len(e) = Len(SessionsRoot) + 1 /\ Parent(e) = SessionsRoot
        /\ tree'[e] = Directory /\ MetadataOf(e) \in DOMAIN tree'
    BY DEF Recorded, Entries, Managed
  <1>3. e \in Paths /\ Len(e) = 6
    BY <1>1, <1>2, ContainersKnown DEF TreeSound
  <1>4. Len(MetadataOf(e)) = Len(e) + 1 /\ Parent(MetadataOf(e)) = e
    BY <1>3, DocumentsBelow
  <1>5. Len(MetadataOf(e)) = 7
    BY <1>3, <1>4
  <1>6. ASSUME MetadataOf(e) \in DOMAIN tree
        PROVE  FALSE
    <2>1. e \in DOMAIN tree
      BY <1>4, <1>5, <1>6 DEF SessionTree
    <2>2. tree[e] = Directory
      BY <1>1, <1>2, <2>1
    <2> QED
      BY <1>2, <1>6, <2>1, <2>2 DEF Recorded, Entries, Managed
  <1> QED
    BY <1>1, <1>2, <1>3, <1>6

\* The sessions of the vault after the step of an execution.
SessionsGo(c) ==
  /\ SessionTree' /\ RecordsDistinct' /\ RecordsBounded'
  /\ \A d \in Callers : \A m : Creates(d, m) => \E n : Creates(d, n) /\ Fresh(n)'

\* Nothing has been added that is metadata of a session.
LEMMA NoMetadataAdded ==
  ASSUME NEW c, TreeKept, TreeSound, SessionTree, RecordsDistinct, RecordsBounded,
         \A e \in Recorded' : e \in Recorded, SessionTree'
  PROVE  SessionsGo(c)
  <1>1. RecordsDistinct' /\ RecordsBounded' /\ \A m : Fresh(m) => Fresh(m)'
    BY NoNewRecords
  <1> QED
    BY <1>1 DEF SessionsGo, Creates

\* The metadata of the session that c creates has been added.
LEMMA MetadataAdded ==
  ASSUME NEW c \in Callers, NEW m, Creates(c, m),
         TreeKept, TreeSound, SessionTree, RecordsDistinct, RecordsBounded, SessionTree',
         \A e \in Recorded' : e \in Recorded \/ e = SessionRoot(m),
         MetadataOf(SessionRoot(m)) \notin DOMAIN tree,
         tree'[MetadataOf(SessionRoot(m))] = m
  PROVE  SessionsGo(c)
  <1> DEFINE root == SessionRoot(m)
  <1>1. lock = c /\ Fresh(m) /\ m.number \in Nat
    BY DEF Creates, SessionMetadata, Plannable
  <1>2. /\ \A e \in Recorded : e # root
        /\ tree'[MetadataOf(root)] = m
        /\ \A e \in Recorded' : e \in Recorded \/ e = root
    BY DEF Recorded, Managed
  <1>3. \A e \in Recorded : tree'[MetadataOf(e)] = tree[MetadataOf(e)]
    BY RecordsKept
  <1>4. \A e \in Recorded :
          tree[MetadataOf(e)].number # m.number /\ tree[MetadataOf(e)].id # m.id
    BY <1>1, <1>2 DEF Fresh
  <1> HIDE DEF root
  <1>5. RecordsDistinct'
    BY <1>2, <1>3, <1>4 DEF RecordsDistinct
  <1>6. RecordsBounded'
    <2>1. PICK b \in Nat : \A e \in Recorded : tree[MetadataOf(e)].number <= b
      BY DEF RecordsBounded
    <2>2. b + m.number \in Nat /\ b <= b + m.number /\ m.number <= b + m.number
      BY <1>1, <2>1
    <2>3. \A e \in Recorded : tree[MetadataOf(e)].number \in Nat
      BY RecordKnown DEF SessionMetadata, Plannable
    <2>4. \A e \in Recorded : tree[MetadataOf(e)].number <= b + m.number
      BY <1>1, <2>1, <2>3
    <2>5. \A e \in Recorded' : tree'[MetadataOf(e)].number <= b + m.number
      BY <1>2, <1>3, <2>2, <2>4
    <2> QED
      BY <2>2, <2>5 DEF RecordsBounded
  <1>7. Fresh(m)'
    BY <1>2, <1>3, <1>4 DEF Fresh, root
  <1>8. ASSUME NEW d \in Callers, NEW o, Creates(d, o)
        PROVE  \E n : Creates(d, n) /\ Fresh(n)'
    <2>1. d = c
      BY <1>1, <1>8 DEF Creates
    <2> QED
      BY <1>7, <2>1
  <1> QED
    BY <1>5, <1>6, <1>8 DEF SessionsGo

\* A path is added to the vault.
LEMMA CreatedGo ==
  ASSUME NEW c \in Callers, NEW op, NEW status, LibraryInvariant, TreeKept,
         pc[c] = "executing", Comes(c, op, status), issued' = issued,
         op.path \notin DOMAIN tree, tree' = With(op.path, op.content),
         absent[c] \/ op.content = Directory
  PROVE  SessionsGo(c)
  <1> DEFINE p == op.path
             x == op.content
  <1>1. /\ TreeSound /\ SessionTree /\ RecordsDistinct /\ RecordsBounded
        /\ CallKnown(c) /\ AbsentKept(c) /\ PlanSound(c)
    BY LibraryFacts
  <1>2. p \in Paths /\ op = plan[c][at[c]]
    BY <1>1 DEF Comes, PlanSound, OperationsSound
  <1>3. \/ Len(p) <= 6
        \/ \E m : /\ Creates(c, m)
                  /\ Len(p) = 7 /\ Parent(p) = SessionRoot(m)
                  /\ x # Directory
                  /\ \/ p = MetadataOf(SessionRoot(m)) /\ x = m
                     \/ p = SecondOf(SessionRoot(m)) /\ IsSecond(x)
    BY <1>1, ComesTo
  <1>4. /\ DOMAIN tree' = DOMAIN tree \cup {p} /\ tree'[p] = x
        /\ \A q \in DOMAIN tree : tree'[q] = tree[q]
    BY DEF With
  <1>5. ASSUME NEW e \in Recorded', e \notin Recorded
        PROVE  e \in Paths /\ Len(p) = 7 /\ MetadataOf(e) = p
    <2>1. e \in Paths /\ Len(e) = 6 /\ MetadataOf(e) = p
      BY <1>1, <1>2, <1>5, GrownRecords
    <2>2. Len(MetadataOf(e)) = Len(e) + 1
      BY <2>1, DocumentsBelow
    <2> QED
      BY <2>1, <2>2
  <1>6. ASSUME Len(p) = 7 => /\ Parent(p) \in DOMAIN tree /\ tree[Parent(p)] = Directory
                             /\ p = MetadataOf(Parent(p)) => SessionMetadata(x)
                             /\ p = SecondOf(Parent(p)) => IsSecond(x)
        PROVE  SessionTree'
    BY <1>1, <1>4, <1>6 DEF SessionTree, SessionMetadata
  <1>7. CASE Len(p) <= 6
    <2>1. Len(p) # 7
      <3>1. Len(p) \in Nat
        BY <1>2, LenProperties DEF Paths
      <3>2. \A n \in Nat : n <= 6 => n # 7
        OBVIOUS
      <3> QED
        BY <1>7, <3>1, <3>2
    <2>2. SessionTree' /\ \A e \in Recorded' : e \in Recorded
      BY <1>5, <1>6, <2>1
    <2> QED
      BY <1>1, <2>2, NoMetadataAdded
  <1>8. ASSUME NEW m, Creates(c, m), Len(p) = 7, Parent(p) = SessionRoot(m), x # Directory,
               \/ p = MetadataOf(SessionRoot(m)) /\ x = m
               \/ p = SecondOf(SessionRoot(m)) /\ IsSecond(x)
        PROVE  SessionsGo(c)
    <2>1. SessionMetadata(m) /\ SessionRoot(m) \in Paths
      BY <1>8, SessionRootKnown DEF Creates, SessionMetadata
    <2>2. MetadataOf(SessionRoot(m)) # SecondOf(SessionRoot(m))
      BY <2>1, DocumentsBelow
    <2>3. Parent(p) \in DOMAIN tree /\ tree[Parent(p)] = Directory
      BY <1>1, <1>2, <1>8 DEF AbsentKept
    <2>4. SessionTree'
      BY <1>6, <1>8, <2>1, <2>2, <2>3
    <2>5. \A e \in Paths : Parent(MetadataOf(e)) = e /\ MetadataOf(e) # SecondOf(SessionRoot(m))
      BY <2>1, DocumentsBelow
    <2>6. CASE p = MetadataOf(SessionRoot(m)) /\ x = m
      <3>1. \A e \in Recorded' : e \in Recorded \/ e = SessionRoot(m)
        BY <1>5, <2>1, <2>5, <2>6
      <3>2. /\ MetadataOf(SessionRoot(m)) \notin DOMAIN tree
            /\ tree'[MetadataOf(SessionRoot(m))] = m
        BY <1>4, <2>6
      <3> QED
        BY <1>1, <1>8, <2>4, <3>1, <3>2, MetadataAdded
    <2>7. CASE p = SecondOf(SessionRoot(m))
      <3>1. \A e \in Recorded' : e \in Recorded
        BY <1>5, <2>5, <2>7
      <3> QED
        BY <1>1, <2>4, <3>1, NoMetadataAdded
    <2> QED
      BY <1>8, <2>6, <2>7
  <1> QED
    BY <1>3, <1>7, <1>8

LEMMA ExecutionStep ==
  ASSUME NEW c \in Callers, LibraryInvariant, Step(c)
  PROVE  LibraryInvariant'
  <1>1. /\ pc[c] = "executing" /\ Execute(c) /\ lock' = lock /\ issued' = issued
        /\ pc' = pc /\ request' = request /\ target' = target /\ losses' = losses
        /\ made' = made
    BY DEF Step
  <1>2. PlansInvariant' /\ TreeKept
    BY <1>1, ExecuteKeeps DEF LibraryInvariant
  <1>3. /\ SessionRanges /\ PlanRanges /\ TreeSound /\ SessionTree
        /\ RecordsDistinct /\ RecordsBounded /\ MadeThere /\ issued \in Nat
        /\ CallKnown(c) /\ AbsentKept(c) /\ PlanSound(c)
    BY LibraryFacts
  <1>4. /\ plan' = plan
        /\ \A d \in Callers \ {c} :
             at'[d] = at[d] /\ report'[d] = report[d] /\ absent'[d] = absent[d]
        /\ Finds(c) \/ \E op, status : status \in Statuses /\ Comes(c, op, status)
    BY <1>1, <1>3, ExecuteEffect
  <1>5. at[c] <= Len(plan[c])
    BY <1>4 DEF Finds, Comes
  <1>6. SessionRanges'
    BY <1>1, <1>3, <1>5, ExecuteUnsynced DEF SessionRanges
  <1>7. MadeThere'
    BY <1>1, <1>2, <1>3, MadeKept
  <1>8. SessionsGo(c)
    <2>1. ASSUME tree' = tree
          PROVE  SessionsGo(c)
      <3>1. SessionTree' /\ \A e \in Recorded' : e \in Recorded
        BY <1>1, <1>3, <2>1, SameSessions DEF SessionRanges
      <3> QED
        BY <1>2, <1>3, <3>1, NoMetadataAdded
    <2>2. CASE Finds(c)
      BY <2>1, <2>2 DEF Finds
    <2>3. ASSUME NEW op, NEW status, Comes(c, op, status)
          PROVE  SessionsGo(c)
      <3>1. CASE op.path \notin DOMAIN tree /\ tree' = With(op.path, op.content)
                 /\ (absent[c] \/ op.content = Directory)
        BY <1>1, <1>2, <2>3, <3>1, CreatedGo
      <3> QED
        BY <2>1, <2>3, <3>1 DEF Comes
    <2> QED
      BY <1>4, <2>2, <2>3
  <1>9. ASSUME NEW d \in Callers
        PROVE  CallKnown(d)'
    <2>1. CallKnown(d) /\ CallStays(d)
      BY <1>1, <1>4, LibraryFacts DEF CallStays
    <2>2. \A m : SessionMetadata(m) => SessionMetadata(m)'
      BY <1>1 DEF SessionMetadata
    <2> QED
      BY <1>8, <2>1, <2>2, OtherKnown DEF SessionsGo
  <1>10. ASSUME NEW d \in Callers
         PROVE  AbsentKept(d)'
    <2>1. AbsentKept(d) /\ PlanSound(d)
      BY LibraryFacts
    <2>2. CASE d # c
      BY <1>2, <1>4, <2>1, <2>2, AbsentStays
    <2>3. CASE d = c /\ Finds(c)
      <3> DEFINE p == plan[c][at[c]].path
      <3>1. /\ tree' = tree /\ plan'[c][at'[c]] = plan[c][at[c]]
            /\ ParentAvailable(p) /\ plan[c][at[c]].content # Directory
        BY <1>4, <2>3 DEF Finds
      <3> HIDE DEF p
      <3>2. Len(p) = 7 => Parent(p) \in DOMAIN tree /\ tree[Parent(p)] = Directory
        BY <3>1 DEF ParentAvailable, Parent
      <3> QED
        BY <2>3, <3>1, <3>2 DEF AbsentKept, p
    <2>4. CASE d = c /\ ~absent'[c]
      BY <2>4 DEF AbsentKept
    <2> QED
      BY <1>4, <2>2, <2>3, <2>4 DEF Comes
  <1> QED
    BY <1>2, <1>6, <1>7, <1>8, <1>9, <1>10
       DEF LibraryInvariant, SessionsInvariant, SessionsGo

-----------------------------------------------------------------------------
(* The invariant, and what follows from it.                                *)

LEMMA LibraryInit ==
  ASSUME Init
  PROVE  LibraryInvariant
  <1>1. \A p \in DOMAIN tree : p \in Paths /\ Len(p) <= 5 /\ IsDocument(tree[p])
    BY FirstTree
  <1>2. /\ unsynced = {} /\ plan = [c \in Callers |-> <<>>] /\ at = [c \in Callers |-> 1]
        /\ absent = [c \in Callers |-> FALSE] /\ report = [c \in Callers |-> <<>>]
        /\ lock = NoLock /\ pc = [c \in Callers |-> "idle"]
        /\ request = [c \in Callers |-> Idle] /\ target = [c \in Callers |-> <<>>]
        /\ issued \in {0, 1, 2} /\ losses = 0 /\ made = {}
    BY DEF Init, PlanInit
  <1>3. \A p \in DOMAIN tree : Len(p) # 7
    <2>1. \A n \in Nat : n <= 5 => n # 7
      OBVIOUS
    <2>2. \A p \in DOMAIN tree : Len(p) \in Nat
      BY <1>1, LenProperties DEF Paths
    <2> QED
      BY <1>1, <2>1, <2>2
  <1>4. PlansInvariant
    <2>1. TreeSound
      BY <1>1 DEF TreeSound
    <2>2. <<>> \in Seq(Statuses)
      OBVIOUS
    <2>3. PlanRanges
      BY <1>2, <2>2 DEF PlanRanges
    <2>4. \A c \in Callers : PlanSound(c) /\ ReportsHold(c)
      <3> SUFFICES ASSUME NEW c \in Callers
                   PROVE  PlanSound(c) /\ ReportsHold(c)
        OBVIOUS
      <3>1. plan[c] = <<>> /\ at[c] = 1 /\ ~absent[c] /\ report[c] = <<>>
        BY <1>2
      <3> QED
        BY <3>1 DEF PlanSound, ReportsHold, OperationsSound
    <2> QED
      BY <2>1, <2>3, <2>4 DEF PlansInvariant
  <1>5. Recorded = {}
    <2>1. ASSUME NEW e \in Recorded
          PROVE  FALSE
      <3>1. /\ e \in Paths /\ Len(e) = Len(SessionsRoot) + 1 /\ MetadataOf(e) \in DOMAIN tree
        BY <1>1 DEF Recorded, Entries, Managed
      <3>2. Len(MetadataOf(e)) = Len(e) + 1
        BY <3>1, DocumentsBelow
      <3>3. Len(MetadataOf(e)) = 7
        BY <3>1, <3>2, ContainersKnown
      <3> QED
        BY <1>3, <3>1, <3>3
    <2> QED
      BY <2>1
  <1>6. SessionTree
    BY <1>3 DEF SessionTree
  <1>7. RecordsDistinct /\ RecordsBounded /\ MadeThere
    BY <1>2, <1>5 DEF RecordsDistinct, RecordsBounded, MadeThere
  <1>8. SessionRanges /\ \A c \in Callers : CallKnown(c) /\ AbsentKept(c)
    BY <1>2 DEF SessionRanges, CallKnown, AbsentKept
  <1> QED
    BY <1>4, <1>6, <1>7, <1>8 DEF LibraryInvariant, SessionsInvariant

LEMMA LibraryStep ==
  ASSUME LibraryInvariant, [Next]_vars
  PROVE  LibraryInvariant'
  <1>1. ASSUME NEW c \in Callers, NEW name \in Courses, CreateCourse(c, name)
        PROVE  LibraryInvariant'
    BY <1>1, CourseStep
  <1>2. ASSUME NEW c \in Callers, NEW m \in Modules, CreateModule(c, m)
        PROVE  LibraryInvariant'
    BY <1>2, ModuleStep
  <1>3. ASSUME NEW c \in Callers, NEW what \in Requests, CreateSession(c, what)
        PROVE  LibraryInvariant'
    BY <1>3, SessionStep
  <1>4. ASSUME NEW c \in Callers,
               \/ Lock(c) \/ Decide(c) \/ Step(c) \/ Report(c) \/ Acknowledge(c)
               \/ Fails(c) \/ Die(c)
        PROVE  LibraryInvariant'
    BY <1>4, LockStep, DecideStep, ExecutionStep, ReportStep, AcknowledgeStep
  <1>5. CASE RemoveStaleLock
    BY <1>5, StaleStep
  <1>6. ASSUME NEW e \in Entries(SessionsRoot), UpdateRuntime(e)
        PROVE  LibraryInvariant'
    BY <1>6, UpdateStep
  <1>7. CASE PowerFails
    BY <1>7, PowerStep
  <1>8. CASE UNCHANGED vars
    BY <1>8, LibraryStutters
  <1> QED
    BY <1>1, <1>2, <1>3, <1>4, <1>5, <1>6, <1>7, <1>8 DEF Next

LEMMA LibraryKept == Spec => []LibraryInvariant
  BY LibraryInit, LibraryStep, PTL DEF Spec

\* Reports are honest: a path reported created or skipped holds what the plan
\* wanted there for as long as the call has not returned, whatever other
\* creations run, for any plans, callers and losses of power (execute.go).
THEOREM ReportsAreHonest == Spec => []ReportHonest
  <1>1. LibraryInvariant => ReportHonest
    <2> SUFFICES ASSUME LibraryInvariant, NEW c \in Callers, NEW i \in DOMAIN report[c],
                        report[c][i] # "conflict"
                 PROVE  OperationHolds(plan[c][i])
      BY DEF ReportHonest, OperationHolds
    <2> QED
      BY DEF LibraryInvariant, PlansInvariant, ReportsHold
  <1> QED
    BY <1>1, LibraryKept, PTL

LEMMA StepKeepsTree ==
  ASSUME LibraryInvariant, [Next]_vars, losses' = losses
  PROVE  TreeKept
  <1>1. TreeSound /\ losses \in Nat
    BY LibraryFacts DEF SessionRanges
  <1>2. ASSUME tree' = tree
        PROVE  TreeKept
    BY <1>2 DEF TreeKept
  <1>3. ASSUME NEW c \in Callers, NEW name \in Courses, CreateCourse(c, name)
        PROVE  tree' = tree
    BY <1>3 DEF CreateCourse, Begin, planVars
  <1>4. ASSUME NEW c \in Callers, NEW m \in Modules, CreateModule(c, m)
        PROVE  tree' = tree
    BY <1>4 DEF CreateModule, Begin, planVars
  <1>5. ASSUME NEW c \in Callers, NEW what \in Requests, CreateSession(c, what)
        PROVE  tree' = tree
    BY <1>5 DEF CreateSession, planVars
  <1>6. ASSUME NEW c \in Callers, Lock(c) \/ Decide(c)
        PROVE  tree' = tree
    BY <1>6 DEF Lock, Decide, Plans, Begin, planVars
  <1>7. ASSUME NEW c \in Callers, Report(c) \/ Acknowledge(c) \/ Fails(c) \/ Die(c)
        PROVE  tree' = tree
    BY <1>7 DEF Report, Acknowledge, Fails, Die
  <1>8. ASSUME NEW c \in Callers, Step(c)
        PROVE  TreeKept
    BY <1>8, ExecuteKeeps DEF Step, LibraryInvariant
  <1>9. ASSUME NEW e \in Entries(SessionsRoot), UpdateRuntime(e)
        PROVE  TreeKept
    BY <1>9, UpdateKeeps DEF LibraryInvariant
  <1>10. ~PowerFails
    BY <1>1 DEF PowerFails
  <1>11. RemoveStaleLock => tree' = tree
    BY DEF RemoveStaleLock, planVars
  <1>12. UNCHANGED vars => tree' = tree
    BY DEF vars, planVars
  <1> QED
    BY <1>2, <1>3, <1>4, <1>5, <1>6, <1>7, <1>8, <1>9, <1>10, <1>11, <1>12 DEF Next

\* What exists stays: while power stays on, no step of a creation removes or
\* replaces a directory or a document, and only the update of a runtime record
\* replaces it, by its next revision (execute.go publishes with a link).
THEOREM CreationsKeepWhatExists == Spec => ExistingKept
  <1>1. LibraryInvariant /\ [Next]_vars =>
          [losses' = losses =>
             \A p \in DOMAIN tree :
               /\ p \in DOMAIN tree'
               /\ tree'[p] # tree[p] =>
                    /\ tree[p].kind = "second"
                    /\ tree'[p] = [tree[p] EXCEPT !.revision = @ + 1]]_vars
    <2>1. ASSUME LibraryInvariant, [Next]_vars, losses' = losses
          PROVE  \A p \in DOMAIN tree :
                   /\ p \in DOMAIN tree'
                   /\ tree'[p] # tree[p] =>
                        /\ tree[p].kind = "second"
                        /\ tree'[p] = [tree[p] EXCEPT !.revision = @ + 1]
      <3>1. TreeKept
        BY <2>1, StepKeepsTree
      <3> QED
        BY <3>1, KindsApart DEF TreeKept
    <2> QED
      BY <2>1
  <1> QED
    BY <1>1, LibraryKept, PTL DEF Spec, ExistingKept

\* An acknowledged session is found: while power stays on and its module can be
\* found, a session whose creation was acknowledged is listed healthy with the
\* metadata acknowledged and inspected as sound, for any number of processes that
\* create, repeat, die and remove stale locks (repository.go, session_lifecycle.go).
THEOREM AcknowledgedSessionsListed == Spec => []AcknowledgedListed
  <1>1. LibraryInvariant => AcknowledgedListed
    <2> SUFFICES ASSUME LibraryInvariant, Resolves, NEW m \in made
                 PROVE  \E e \in Healthy : tree[MetadataOf(e)] = m /\ InspectionOf(e) = "sound"
      BY DEF AcknowledgedListed
    <2>1. MadeThere /\ RecordsDistinct
      BY LibraryFacts
    <2>2. PICK e \in Recorded : /\ tree[MetadataOf(e)] = m
                                /\ SecondOf(e) \in DOMAIN tree
                                /\ tree[SecondOf(e)].id = m.id
      BY <2>1 DEF MadeThere
    <2>3. e \in Entries(SessionsRoot) /\ Managed(e)
      BY DEF Recorded
    <2>4. IssueOf(e) = "none"
      BY <2>2, <2>3 DEF IssueOf
    <2>5. InspectionOf(e) = "sound"
      BY <2>2, <2>3 DEF InspectionOf, Loads
    <2>6. \A d \in Entries(SessionsRoot) : IssueOf(d) = "none" => d \in Recorded
      BY DEF IssueOf, Recorded
    <2>7. e \in Healthy
      BY <2>1, <2>3, <2>4, <2>6 DEF Healthy, RecordsDistinct
    <2> QED
      BY <2>2, <2>5, <2>7
  <1> QED
    BY <1>1, LibraryKept, PTL

-----------------------------------------------------------------------------
(* WorkspaceSetup: the calls of the processes.                             *)


\* What the variables of the processes and the file range over.
Ranges ==
  /\ live \in [Callers -> BOOLEAN]
  /\ explicitRoot \in [Callers -> ExplicitRoots \cup {NoRoot}]
  /\ activeRoot \in [Callers -> Roots \cup {NoRoot}]
  /\ configuredRoot \in [Callers -> Roots \cup {NoRoot}]
  /\ stage \in [Callers -> SetupStages]
  /\ chosen \in [Callers -> Roots \cup {NoRoot}]
  /\ capturing \in [Callers -> {"no", "asked", "started", "live"}]
  /\ captureRoot \in [Callers -> Roots \cup {NoRoot}]
  /\ captureActive \in [Callers -> BOOLEAN] /\ flagged \subseteq Callers

\* The requests about captures.
Captures(p) ==
  \/ AskCapture(p) \/ CaptureStarts(p) \/ SetCaptureActive(p) \/ CaptureRestored(p)
  \/ CaptureEnds(p) \/ StopStopped(p)

\* A call of a server lasts no longer than the server, and has its root; a
\* process that is not running serves nothing and captures nothing.
CallsOfProcesses ==
  \A p \in Callers :
    /\ stage[p] # "out" => chosen[p] \in Roots /\ (p \in Servers => live[p])
    /\ stage[p] = "command" => p \notin Servers
    /\ ~live[p] => activeRoot[p] = NoRoot /\ capturing[p] = "no"
    /\ live[p] => p \in Servers
    /\ capturing[p] # "no" => captureRoot[p] # NoRoot

\* Nobody has replaced the file after the process that replaced it last, and
\* once that process has synchronised the directory, no power is lost to an
\* older one.
FileOfWriter ==
  /\ config \in configLeft
  /\ \A p \in Callers :
       writer = p =>
         /\ stage[p] = "replaced" => config = chosen[p]
         /\ stage[p] = "installing" /\ explicitRoot[p] = NoRoot =>
              config = chosen[p] /\ configLeft = {chosen[p]}

\* While a capture that was flagged before the call goes on, its flag is set and
\* the call is about the root that is served already.
CallKeepsCapture ==
  \A p \in flagged :
    /\ capturing[p] = "live" /\ captureActive[p]
    /\ stage[p] # "out" => chosen[p] = activeRoot[p]

\* A root that was verified has its vaults, as long as the call lasts.
VerifiedExists ==
  \A p \in Callers :
    stage[p] \in {"saving", "replaced", "installing"} =>
      WorkspacePaths(chosen[p]) \subseteq DOMAIN tree

Calls == Ranges /\ CallsOfProcesses

-----------------------------------------------------------------------------
(* Every step keeps the shape of the calls.                                *)

LEMMA CallsInit ==
  ASSUME SetupInit PROVE Calls
  BY SetupAssumption
  DEF SetupAssumption, SetupInit, Calls, Ranges, CallsOfProcesses, SetupStages, captureVars

LEMMA DownKeepsCalls ==
  ASSUME Calls, NEW who, Down(who)
  PROVE  Calls'
  BY DEF Down, Calls, Ranges, CallsOfProcesses, SetupStages, captureVars

LEMMA ToServeIsRoot ==
  ASSUME NEW explicit \in ExplicitRoots \cup {NoRoot}
  PROVE  ToServe(explicit) \in Roots \cup {NoRoot}
  BY SetupAssumption DEF SetupAssumption, ToServe

LEMMA StartKeepsCalls ==
  ASSUME Calls, NEW p \in Callers, NEW explicit \in ExplicitRoots \cup {NoRoot},
         Start(p, explicit)
  PROVE  Calls'
  <1>1. PICK served \in {NoRoot} \cup {r \in Roots : r = ToServe(explicit) /\ Initialized(r)} :
          activeRoot' = [activeRoot EXCEPT ![p] = served]
    BY DEF Start
  <1>2. served \in Roots \cup {NoRoot}
    OBVIOUS
  <1>3. /\ p \in Servers /\ ~live[p]
        /\ live' = [live EXCEPT ![p] = TRUE]
        /\ explicitRoot' = [explicitRoot EXCEPT ![p] = explicit]
        /\ configuredRoot' = [configuredRoot EXCEPT ![p] = ToServe(explicit)]
        /\ UNCHANGED <<stage, chosen, captureVars>>
    BY DEF Start, callVars, captureVars
  <1>4. Ranges'
    BY <1>1, <1>2, <1>3, ToServeIsRoot DEF Calls, Ranges, captureVars
  <1>5. CallsOfProcesses'
    BY <1>1, <1>3 DEF Calls, Ranges, CallsOfProcesses, captureVars
  <1> QED
    BY <1>4, <1>5 DEF Calls

LEMMA CallBeginKeepsCalls ==
  ASSUME Calls, NEW p \in Callers, NEW r \in Roots,
         Initialize(p, r) \/ InitCommand(p, r)
  PROVE  Calls'
  <1>1. PICK s \in {"verifying", "creating", "command"} :
          /\ stage' = [stage EXCEPT ![p] = s]
          /\ s = "command" => p \notin Servers
          /\ p \in Servers => live[p]
    BY DEF Initialize, InitCommand
  <1>2. /\ chosen' = [chosen EXCEPT ![p] = r]
        /\ UNCHANGED <<live, explicitRoot, activeRoot, configuredRoot, captureVars>>
    BY DEF Initialize, InitCommand, processVars, captureVars
  <1> QED
    BY <1>1, <1>2, SetupAssumption
    DEF Calls, Ranges, CallsOfProcesses, SetupStages, SetupAssumption, captureVars

\* A call goes on: what it has chosen and its process stay.
LEMMA CallGoesOnKeepsCalls ==
  ASSUME Calls, NEW p \in Callers,
         \/ Created(p) \/ Verify(p) \/ ReplaceConfig(p) \/ SyncConfig(p)
  PROVE  Calls'
  <1>1. PICK s \in {"verifying", "saving", "replaced", "installing"} :
          stage[p] # "out" /\ stage' = [stage EXCEPT ![p] = s]
    BY DEF Created, Verify, ReplaceConfig, SyncConfig, Goes
  <1>2. UNCHANGED <<chosen, live, explicitRoot, activeRoot, configuredRoot, captureVars>>
    BY DEF Created, Verify, ReplaceConfig, SyncConfig, processVars, captureVars
  <1> QED
    BY <1>1, <1>2 DEF Calls, Ranges, CallsOfProcesses, SetupStages, captureVars

LEMMA CallEndsKeepsCalls ==
  ASSUME Calls, NEW p \in Callers,
         \/ GiveUpCreating(p) \/ VerifyFails(p) \/ SaveFails(p)
  PROVE  Calls'
  <1>1. /\ stage' = [stage EXCEPT ![p] = "out"]
        /\ chosen' = [chosen EXCEPT ![p] = NoRoot]
        /\ UNCHANGED <<live, explicitRoot, activeRoot, configuredRoot, captureVars>>
    BY DEF GiveUpCreating, VerifyFails, SaveFails, Ends, processVars, captureVars
  <1> QED
    BY <1>1 DEF Calls, Ranges, CallsOfProcesses, SetupStages, captureVars

LEMMA InstallKeepsCalls ==
  ASSUME Calls, NEW p \in Callers, Install(p)
  PROVE  Calls'
  <1>1. /\ stage[p] = "installing"
        /\ stage' = [stage EXCEPT ![p] = "out"]
        /\ chosen' = [chosen EXCEPT ![p] = NoRoot]
        /\ UNCHANGED <<live, explicitRoot, captureVars>>
    BY DEF Install, Ends, captureVars
  <1>2. chosen[p] \in Roots /\ (p \in Servers => live[p])
    BY <1>1 DEF Calls, CallsOfProcesses
  <1>3. CASE p \in Servers
    <2>1. PICK r \in Roots \cup {NoRoot} :
            /\ configuredRoot' = [configuredRoot EXCEPT ![p] = r]
            /\ activeRoot' = [activeRoot EXCEPT ![p] = chosen[p]]
      BY <1>2, <1>3 DEF Install, Calls, Ranges
    <2> QED
      BY <1>1, <1>2, <1>3, <2>1 DEF Calls, Ranges, CallsOfProcesses, SetupStages, captureVars
  <1>4. CASE p \notin Servers
    <2>1. UNCHANGED <<activeRoot, configuredRoot>>
      BY <1>4 DEF Install
    <2> QED
      BY <1>1, <2>1 DEF Calls, Ranges, CallsOfProcesses, SetupStages, captureVars
  <1> QED
    BY <1>3, <1>4

LEMMA CaptureKeepsCalls ==
  ASSUME Calls, NEW p \in Callers, Captures(p)
  PROVE  Calls'
  <1>1. UNCHANGED <<stage, chosen, live, explicitRoot, activeRoot, configuredRoot>>
    BY DEF Captures, AskCapture, CaptureStarts, SetCaptureActive, CaptureRestored,
           CaptureEnds, StopStopped, processVars, callVars
  <1>2. CASE AskCapture(p)
    BY <1>1, <1>2 DEF AskCapture, Calls, Ranges, CallsOfProcesses
  <1>3. CASE CaptureStarts(p)
    BY <1>1, <1>3 DEF CaptureStarts, Calls, Ranges, CallsOfProcesses
  <1>4. CASE SetCaptureActive(p)
    BY <1>1, <1>4 DEF SetCaptureActive, Calls, Ranges, CallsOfProcesses
  <1>5. CASE CaptureRestored(p)
    BY <1>1, <1>5 DEF CaptureRestored, Calls, Ranges, CallsOfProcesses
  <1>6. CASE CaptureEnds(p)
    BY <1>1, <1>6 DEF CaptureEnds, Calls, Ranges, CallsOfProcesses
  <1>7. CASE StopStopped(p)
    BY <1>1, <1>7 DEF StopStopped, Calls, Ranges, CallsOfProcesses
  <1> QED
    BY <1>2, <1>3, <1>4, <1>5, <1>6, <1>7 DEF Captures

LEMMA ElsewhereKeepsCalls ==
  ASSUME Calls,
         UNCHANGED <<processVars, callVars, captureVars>>
  PROVE  Calls'
  BY DEF Calls, Ranges, CallsOfProcesses, processVars, callVars, captureVars

LEMMA CallsStep ==
  ASSUME Calls, [SetupNext]_setupVars
  PROVE  Calls'
  <1>1. ASSUME NEW p \in Callers, Kill(p) PROVE Calls'
    BY <1>1, DownKeepsCalls DEF Kill
  <1>2. ASSUME NEW p \in Callers, NEW explicit \in ExplicitRoots \cup {NoRoot},
               Start(p, explicit)
        PROVE  Calls'
    BY <1>2, StartKeepsCalls
  <1>3. ASSUME NEW p \in Callers, NEW r \in Roots, Initialize(p, r) \/ InitCommand(p, r)
        PROVE  Calls'
    BY <1>3, CallBeginKeepsCalls
  <1>4. ASSUME NEW p \in Callers, Create(p) PROVE Calls'
    BY <1>4, ElsewhereKeepsCalls DEF Create
  <1>5. ASSUME NEW p \in Callers, Created(p) \/ Verify(p) \/ ReplaceConfig(p) \/ SyncConfig(p)
        PROVE  Calls'
    BY <1>5, CallGoesOnKeepsCalls
  <1>6. ASSUME NEW p \in Callers, GiveUpCreating(p) \/ VerifyFails(p) \/ SaveFails(p)
        PROVE  Calls'
    BY <1>6, CallEndsKeepsCalls
  <1>7. ASSUME NEW p \in Callers, Install(p) PROVE Calls'
    BY <1>7, InstallKeepsCalls
  <1>8. ASSUME NEW p \in Callers, Captures(p)
        PROVE  Calls'
    BY <1>8, CaptureKeepsCalls
  <1>9. CASE LosePower
    BY <1>9, DownKeepsCalls DEF LosePower
  <1>10. CASE UserEdits
    BY <1>10, ElsewhereKeepsCalls DEF UserEdits
  <1>11. CASE UNCHANGED setupVars
    BY <1>11, ElsewhereKeepsCalls DEF setupVars
  <1> QED
    BY <1>1, <1>2, <1>3, <1>4, <1>5, <1>6, <1>7, <1>8, <1>9, <1>10, <1>11
    DEF SetupNext, Captures

-----------------------------------------------------------------------------
(* What the configuration file holds.                                      *)

\* The three facts about the file that are shown together.
FileInvariant == Calls /\ FileOfWriter /\ SelectionDurable

\* A step that leaves the file alone, and brings no call to the moment after
\* its replacement.
LEMMA FileUntouched ==
  ASSUME Calls, FileOfWriter, SelectionDurable,
         UNCHANGED configVars,
         \A q \in Callers :
           stage'[q] \in {"replaced", "installing"} =>
             \/ stage[q] = stage'[q] /\ chosen[q] = chosen'[q]
                /\ explicitRoot[q] = explicitRoot'[q]
             \/ stage'[q] = "installing" /\ explicitRoot'[q] # NoRoot
  PROVE  FileOfWriter' /\ SelectionDurable'
  BY DEF FileOfWriter, SelectionDurable, configVars

LEMMA FileStep ==
  ASSUME FileInvariant, [SetupNext]_setupVars
  PROVE  FileOfWriter' /\ SelectionDurable'
  <1>0. Calls /\ FileOfWriter /\ SelectionDurable
    BY DEF FileInvariant
  <1>1. ASSUME NEW p \in Callers, Kill(p) PROVE FileOfWriter' /\ SelectionDurable'
    BY <1>0, <1>1, FileUntouched DEF Kill, Down
  \* Only a process that is down starts, and a server that is down has no call.
  <1>2. ASSUME NEW p \in Callers, NEW explicit \in ExplicitRoots \cup {NoRoot},
               Start(p, explicit)
        PROVE  FileOfWriter' /\ SelectionDurable'
    <2>1. stage[p] = "out"
      BY <1>0, <1>2 DEF Start, Calls, CallsOfProcesses
    <2>2. UNCHANGED configVars /\ UNCHANGED <<stage, chosen>>
      BY <1>2 DEF Start, callVars
    <2>3. \A q \in Callers : q # p => explicitRoot'[q] = explicitRoot[q]
      BY <1>0, <1>2 DEF Start, Calls, Ranges
    <2> QED
      BY <1>0, <2>1, <2>2, <2>3, FileUntouched
  <1>3. ASSUME NEW p \in Callers, NEW r \in Roots, Initialize(p, r) \/ InitCommand(p, r)
        PROVE  FileOfWriter' /\ SelectionDurable'
    <2>1. PICK s \in {"verifying", "creating", "command"} :
            stage' = [stage EXCEPT ![p] = s]
      BY <1>3 DEF Initialize, InitCommand
    <2>2. chosen' = [chosen EXCEPT ![p] = r] /\ UNCHANGED <<configVars, explicitRoot>>
      BY <1>3 DEF Initialize, InitCommand, processVars
    <2> QED
      BY <1>0, <2>1, <2>2, FileUntouched DEF Calls, Ranges
  <1>4. ASSUME NEW p \in Callers, Create(p) \/ Captures(p)
        PROVE  FileOfWriter' /\ SelectionDurable'
    <2>1. UNCHANGED <<configVars, stage, chosen, explicitRoot>>
      BY <1>4 DEF Create, Captures, AskCapture, CaptureStarts, SetCaptureActive,
                  CaptureRestored, CaptureEnds, StopStopped, processVars, callVars
    <2> QED
      BY <1>0, <2>1, FileUntouched
  <1>5. ASSUME NEW p \in Callers, Created(p) PROVE FileOfWriter' /\ SelectionDurable'
    <2>1. stage' = [stage EXCEPT ![p] = "verifying"]
          /\ UNCHANGED <<configVars, chosen, explicitRoot>>
      BY <1>5 DEF Created, Goes, processVars
    <2> QED
      BY <1>0, <2>1, FileUntouched DEF Calls, Ranges
  \* Only a call with a root of the command line comes to the installation
  \* without a replacement.
  <1>6. ASSUME NEW p \in Callers, Verify(p) PROVE FileOfWriter' /\ SelectionDurable'
    <2>1. stage' = [stage EXCEPT ![p] =
                      IF explicitRoot[p] = NoRoot THEN "saving" ELSE "installing"]
          /\ UNCHANGED <<configVars, chosen, explicitRoot>>
      BY <1>6 DEF Verify, Goes, processVars
    <2> QED
      BY <1>0, <2>1, FileUntouched DEF Calls, Ranges
  <1>7. ASSUME NEW p \in Callers, GiveUpCreating(p) \/ VerifyFails(p) \/ SaveFails(p)
        PROVE  FileOfWriter' /\ SelectionDurable'
    <2>1. /\ stage' = [stage EXCEPT ![p] = "out"]
          /\ chosen' = [chosen EXCEPT ![p] = NoRoot]
          /\ UNCHANGED <<configVars, explicitRoot>>
      BY <1>7 DEF GiveUpCreating, VerifyFails, SaveFails, Ends, processVars
    <2> QED
      BY <1>0, <2>1, FileUntouched DEF Calls, Ranges
  \* The last writer is this process, and no other is bound by the invariant.
  <1>8. ASSUME NEW p \in Callers, ReplaceConfig(p)
        PROVE  FileOfWriter' /\ SelectionDurable'
    BY <1>0, <1>8
    DEF ReplaceConfig, Goes, processVars, Calls, Ranges, FileOfWriter, SelectionDurable
  <1>9. ASSUME NEW p \in Callers, SyncConfig(p) PROVE FileOfWriter' /\ SelectionDurable'
    BY <1>0, <1>9
    DEF SyncConfig, Goes, processVars, Calls, Ranges, FileOfWriter, SelectionDurable
  <1>10. ASSUME NEW p \in Callers, Install(p) PROVE FileOfWriter' /\ SelectionDurable'
    <2>1. /\ stage[p] = "installing"
          /\ stage' = [stage EXCEPT ![p] = "out"]
          /\ chosen' = [chosen EXCEPT ![p] = NoRoot]
          /\ UNCHANGED <<config, configLeft, writer, explicitRoot>>
      BY <1>10 DEF Install, Ends
    <2>2. FileOfWriter'
      BY <1>0, <2>1 DEF Calls, Ranges, FileOfWriter
    <2>3. promised' = IF explicitRoot[p] = NoRoot /\ writer = p THEN chosen[p] ELSE promised
      BY <1>10 DEF Install
    <2>4. SelectionDurable'
      BY <1>0, <2>1, <2>3 DEF FileOfWriter, SelectionDurable
    <2> QED
      BY <2>2, <2>4
  \* What is left of a synchronised file is the file.
  <1>11. CASE LosePower
    <2>1. /\ config' \in configLeft /\ configLeft' = {config'}
          /\ UNCHANGED <<writer, promised>>
          /\ \A q \in Callers : stage'[q] = "out"
      BY <1>11 DEF LosePower, Down
    <2> QED
      BY <1>0, <2>1 DEF FileOfWriter, SelectionDurable
  <1>12. CASE UserEdits
    BY <1>0, <1>12, FileUntouched DEF UserEdits, processVars, callVars
  <1>13. CASE UNCHANGED setupVars
    BY <1>0, <1>13, FileUntouched DEF setupVars, processVars, callVars
  <1> QED
    BY <1>1, <1>2, <1>3, <1>4, <1>5, <1>6, <1>7, <1>8, <1>9, <1>10, <1>11, <1>12, <1>13
    DEF SetupNext, Captures

\* SelectionDurable, of setup.go's promise that a selection that was confirmed
\* is the one the next start finds, whatever loses power.
THEOREM SelectionsDurable == SetupSpec => []SelectionDurable
  <1>1. SetupInit => FileInvariant
    BY CallsInit, SetupAssumption
    DEF FileInvariant, SetupInit, FileOfWriter, SelectionDurable, SetupAssumption
  <1>2. FileInvariant /\ [SetupNext]_setupVars => FileInvariant'
    BY CallsStep, FileStep DEF FileInvariant
  <1>3. FileInvariant => SelectionDurable
    BY DEF FileInvariant
  <1> QED
    BY <1>1, <1>2, <1>3, PTL DEF SetupSpec

-----------------------------------------------------------------------------
(* Live captures.                                                          *)

CaptureInvariant == Calls /\ CallKeepsCapture /\ LiveCaptureNotLeft

LEMMA CaptureStep ==
  ASSUME CaptureInvariant, [SetupNext]_setupVars
  PROVE  CallKeepsCapture' /\ LiveCaptureNotLeft'
  <1>0. Calls /\ CallKeepsCapture /\ LiveCaptureNotLeft
    BY DEF CaptureInvariant
  <1> DEFINE Holds(q) == q \in flagged =>
                          /\ capturing[q] = "live" /\ captureActive[q]
                          /\ activeRoot[q] = captureRoot[q]
                          /\ stage[q] # "out" => chosen[q] = activeRoot[q]
  <1>a. \A q \in Callers : Holds(q)
    BY <1>0 DEF CallKeepsCapture, LiveCaptureNotLeft
  <1>b. Calls'
    BY CallsStep DEF CaptureInvariant
  <1> SUFFICES \A q \in Callers : Holds(q)'
    BY <1>b DEF CallKeepsCapture, LiveCaptureNotLeft, Calls, Ranges
  <1>1. ASSUME NEW who, Down(who) PROVE \A q \in Callers : Holds(q)'
    BY <1>0, <1>1, <1>a DEF Down, Calls, Ranges
  <1>2. ASSUME NEW p \in Callers, NEW explicit \in ExplicitRoots \cup {NoRoot},
               Start(p, explicit)
        PROVE  \A q \in Callers : Holds(q)'
    <2>1. capturing[p] = "no"
      BY <1>0, <1>2 DEF Start, Calls, CallsOfProcesses
    <2>2. UNCHANGED <<stage, chosen, captureVars>>
      BY <1>2 DEF Start, callVars, captureVars
    <2>3. \A q \in Callers : q # p => activeRoot'[q] = activeRoot[q]
      BY <1>0, <1>2 DEF Start, Calls, Ranges
    <2> QED
      BY <1>a, <2>1, <2>2, <2>3 DEF captureVars
  \* A flagged capture has the root that is served, so a call to another root is
  \* refused, and one to the same root changes nothing.
  <1>3. ASSUME NEW p \in Callers, NEW r \in Roots, Initialize(p, r)
        PROVE  \A q \in Callers : Holds(q)'
    <2>1. PICK s \in {"verifying", "creating"} : stage' = [stage EXCEPT ![p] = s]
      BY <1>3 DEF Initialize
    <2>2. /\ chosen' = [chosen EXCEPT ![p] = r]
          /\ UNCHANGED <<activeRoot, captureVars>>
          /\ MaySwitch(p, r)
      BY <1>3 DEF Initialize, processVars, captureVars
    <2>3. p \in flagged => activeRoot[p] = r
      BY <1>0, <1>a, <2>2 DEF MaySwitch, HasActiveCapture, Calls, Ranges, CallsOfProcesses
    <2> QED
      BY <1>0, <1>a, <2>1, <2>2, <2>3 DEF Calls, Ranges, captureVars
  <1>4. ASSUME NEW p \in Callers, NEW r \in Roots, InitCommand(p, r)
        PROVE  \A q \in Callers : Holds(q)'
    <2>1. p \notin flagged
      BY <1>0, <1>4, <1>a DEF InitCommand, Calls, CallsOfProcesses
    <2> QED
      BY <1>0, <1>4, <1>a, <2>1 DEF InitCommand, processVars, captureVars, Calls, Ranges
  <1>5. ASSUME NEW p \in Callers, Create(p) PROVE \A q \in Callers : Holds(q)'
    BY <1>5, <1>a DEF Create, processVars, callVars, captureVars
  <1>6. ASSUME NEW p \in Callers, Created(p) \/ Verify(p) \/ ReplaceConfig(p) \/ SyncConfig(p)
        PROVE  \A q \in Callers : Holds(q)'
    <2>1. PICK s \in SetupStages :
            stage[p] # "out" /\ stage' = [stage EXCEPT ![p] = s]
      BY <1>6 DEF Created, Verify, ReplaceConfig, SyncConfig, Goes, SetupStages
    <2>2. UNCHANGED <<chosen, activeRoot, captureVars>>
      BY <1>6 DEF Created, Verify, ReplaceConfig, SyncConfig, processVars, captureVars
    <2> QED
      BY <1>0, <1>a, <2>1, <2>2 DEF Calls, Ranges, captureVars
  <1>7. ASSUME NEW p \in Callers, GiveUpCreating(p) \/ VerifyFails(p) \/ SaveFails(p)
        PROVE  \A q \in Callers : Holds(q)'
    <2>1. /\ stage' = [stage EXCEPT ![p] = "out"]
          /\ chosen' = [chosen EXCEPT ![p] = NoRoot]
          /\ UNCHANGED <<activeRoot, captureVars>>
      BY <1>7 DEF GiveUpCreating, VerifyFails, SaveFails, Ends, processVars, captureVars
    <2> QED
      BY <1>0, <1>a, <2>1 DEF Calls, Ranges, captureVars
  <1>8. ASSUME NEW p \in Callers, Install(p) PROVE \A q \in Callers : Holds(q)'
    <2>1. /\ stage[p] = "installing"
          /\ stage' = [stage EXCEPT ![p] = "out"]
          /\ chosen' = [chosen EXCEPT ![p] = NoRoot]
          /\ UNCHANGED captureVars
          /\ activeRoot' = activeRoot \/ activeRoot' = [activeRoot EXCEPT ![p] = chosen[p]]
      BY <1>8 DEF Install, Ends
    <2>2. p \in flagged => chosen[p] = activeRoot[p]
      BY <1>a, <2>1
    <2> QED
      BY <1>0, <1>a, <2>1, <2>2 DEF Calls, Ranges, captureVars
  <1>9. ASSUME NEW p \in Callers, AskCapture(p) \/ CaptureStarts(p) \/ CaptureRestored(p)
        PROVE  \A q \in Callers : Holds(q)'
    <2>1. /\ capturing[p] # "live"
          /\ UNCHANGED <<stage, chosen, activeRoot, captureActive, flagged>>
      BY <1>9 DEF AskCapture, CaptureStarts, CaptureRestored, processVars, callVars
    <2>2. \A q \in Callers : q # p =>
            capturing'[q] = capturing[q] /\ captureRoot'[q] = captureRoot[q]
      BY <1>0, <1>9 DEF AskCapture, CaptureStarts, CaptureRestored, Calls, Ranges
    <2> QED
      BY <1>a, <2>1, <2>2
  <1>10. ASSUME NEW p \in Callers, SetCaptureActive(p) \/ CaptureEnds(p) \/ StopStopped(p)
         PROVE  \A q \in Callers : Holds(q)'
    <2>1. UNCHANGED <<stage, chosen, activeRoot>>
      BY <1>10 DEF SetCaptureActive, CaptureEnds, StopStopped, processVars, callVars
    <2>2. CASE SetCaptureActive(p)
      BY <1>0, <1>a, <2>1, <2>2 DEF SetCaptureActive, Calls, Ranges
    <2>3. CASE CaptureEnds(p)
      BY <1>0, <1>a, <2>1, <2>3 DEF CaptureEnds, Calls, Ranges
    <2>4. CASE StopStopped(p)
      BY <1>0, <1>a, <2>1, <2>4 DEF StopStopped, Calls, Ranges
    <2> QED
      BY <1>10, <2>2, <2>3, <2>4
  <1>11. CASE UserEdits
    BY <1>11, <1>a DEF UserEdits, processVars, callVars, captureVars
  <1>12. CASE UNCHANGED setupVars
    BY <1>12, <1>a DEF setupVars, processVars, callVars, captureVars
  <1> QED
    BY <1>1, <1>2, <1>3, <1>4, <1>5, <1>6, <1>7, <1>8, <1>9, <1>10, <1>11, <1>12
    DEF SetupNext, Kill, LosePower

\* LiveCaptureNotLeft, of setup.go's question for a live capture: no setup call takes
\* a process away from a capture that was flagged before the call.  A capture that
\* has no flag, restored or resumed, is not protected.
THEOREM LiveCapturesKept == SetupSpec => []LiveCaptureNotLeft
  <1>1. SetupInit => CaptureInvariant
    BY CallsInit
    DEF CaptureInvariant, SetupInit, CallKeepsCapture, LiveCaptureNotLeft
  <1>2. CaptureInvariant /\ [SetupNext]_setupVars => CaptureInvariant'
    BY CallsStep, CaptureStep DEF CaptureInvariant
  <1>3. CaptureInvariant => LiveCaptureNotLeft
    BY DEF CaptureInvariant
  <1> QED
    BY <1>1, <1>2, <1>3, PTL DEF SetupSpec

-----------------------------------------------------------------------------
(* The vaults of the root that is served.                                  *)

VaultInvariant == Calls /\ VerifiedExists /\ ServedWorkspaceExists

LEMMA InitializedExists ==
  ASSUME NEW r, Initialized(r)
  PROVE  WorkspacePaths(r) \subseteq DOMAIN tree
  BY DEF Initialized, WorkspacePaths

\* With the paths there, a process is safe if its root is served as before, is
\* not served any more, or was verified.
LEMMA VaultsStay ==
  ASSUME VerifiedExists, ServedWorkspaceExists,
         DOMAIN tree \subseteq DOMAIN tree',
         \A q \in Callers :
           \/ stage'[q] \in {"out", "command", "creating", "verifying"}
           \/ /\ stage[q] \in {"saving", "replaced"} \/ Initialized(chosen[q])
                 \/ stage[q] = stage'[q]
              /\ chosen'[q] = chosen[q],
         \A q \in Callers :
           \/ activeRoot'[q] = NoRoot
           \/ /\ activeRoot'[q] = activeRoot[q] /\ explicitRoot'[q] = explicitRoot[q]
              /\ configuredRoot'[q] = configuredRoot[q]
           \/ /\ WorkspacePaths(activeRoot'[q]) \subseteq DOMAIN tree
              /\ explicitRoot'[q] = NoRoot => configuredRoot'[q] = activeRoot'[q]
  PROVE  VerifiedExists' /\ ServedWorkspaceExists'
  <1>1. VerifiedExists'
    BY InitializedExists DEF VerifiedExists
  <1>2. ServedWorkspaceExists'
    BY DEF ServedWorkspaceExists
  <1> QED
    BY <1>1, <1>2

LEMMA VaultStep ==
  ASSUME VaultInvariant, [SetupNext]_setupVars
  PROVE  VerifiedExists' /\ ServedWorkspaceExists'
  <1>0. Calls /\ VerifiedExists /\ ServedWorkspaceExists
    BY DEF VaultInvariant
  <1>1. ASSUME NEW p \in Callers, Kill(p) PROVE VerifiedExists' /\ ServedWorkspaceExists'
    <2>1. DOMAIN tree \subseteq DOMAIN tree'
      BY <1>1 DEF Kill
    <2> QED
      BY <1>0, <1>1, <2>1, VaultsStay DEF Kill, Down
  <1>2. CASE LosePower
    <2>1. \A q \in Callers : stage'[q] = "out" /\ activeRoot'[q] = NoRoot
      BY <1>2 DEF LosePower, Down
    <2> QED
      BY <2>1 DEF VerifiedExists, ServedWorkspaceExists
  <1>3. ASSUME NEW p \in Callers, NEW explicit \in ExplicitRoots \cup {NoRoot},
               Start(p, explicit)
        PROVE  VerifiedExists' /\ ServedWorkspaceExists'
    <2>1. PICK served \in {NoRoot} \cup
                           {r \in Roots : r = ToServe(explicit) /\ Initialized(r)} :
            activeRoot' = [activeRoot EXCEPT ![p] = served]
      BY <1>3 DEF Start
    <2>2. /\ explicitRoot' = [explicitRoot EXCEPT ![p] = explicit]
          /\ configuredRoot' = [configuredRoot EXCEPT ![p] = ToServe(explicit)]
          /\ UNCHANGED <<tree, stage, chosen>>
      BY <1>3 DEF Start, planVars, callVars
    <2>3. served # NoRoot => WorkspacePaths(served) \subseteq DOMAIN tree
      BY <2>1, InitializedExists
    <2> QED
      BY <1>0, <2>1, <2>2, <2>3, VaultsStay DEF Calls, Ranges
  <1>4. ASSUME NEW p \in Callers, NEW r \in Roots, Initialize(p, r) \/ InitCommand(p, r)
        PROVE  VerifiedExists' /\ ServedWorkspaceExists'
    <2>1. PICK s \in {"verifying", "creating", "command"} :
            stage' = [stage EXCEPT ![p] = s]
      BY <1>4 DEF Initialize, InitCommand
    <2>2. /\ chosen' = [chosen EXCEPT ![p] = r]
          /\ UNCHANGED <<tree, activeRoot, explicitRoot, configuredRoot>>
      BY <1>4 DEF Initialize, InitCommand, Begin, planVars, processVars
    <2> QED
      BY <1>0, <2>1, <2>2, VaultsStay DEF Calls, Ranges
  <1>5. ASSUME NEW p \in Callers, Create(p) \/ Captures(p)
        PROVE  VerifiedExists' /\ ServedWorkspaceExists'
    <2>1. UNCHANGED <<stage, chosen, activeRoot, explicitRoot, configuredRoot>>
      BY <1>5 DEF Create, Captures, AskCapture, CaptureStarts, SetCaptureActive,
                  CaptureRestored, CaptureEnds, StopStopped, processVars, callVars
    <2>2. DOMAIN tree \subseteq DOMAIN tree'
      BY <1>5
      DEF Create, Execute, Look, Make, With, Captures, AskCapture, CaptureStarts,
          SetCaptureActive, CaptureRestored, CaptureEnds, StopStopped, planVars
    <2> QED
      BY <1>0, <2>1, <2>2, VaultsStay
  <1>6. ASSUME NEW p \in Callers, Verify(p) PROVE VerifiedExists' /\ ServedWorkspaceExists'
    <2>1. PICK s \in SetupStages : stage' = [stage EXCEPT ![p] = s]
      BY <1>6 DEF Verify, Goes, SetupStages
    <2>2. /\ Initialized(chosen[p])
          /\ UNCHANGED <<tree, chosen, activeRoot, explicitRoot, configuredRoot>>
      BY <1>6 DEF Verify, planVars, processVars
    <2> QED
      BY <1>0, <2>1, <2>2, VaultsStay DEF Calls, Ranges
  <1>7. ASSUME NEW p \in Callers, Created(p) \/ ReplaceConfig(p) \/ SyncConfig(p)
        PROVE  VerifiedExists' /\ ServedWorkspaceExists'
    <2>1. \/ stage' = [stage EXCEPT ![p] = "verifying"]
          \/ /\ stage[p] \in {"saving", "replaced"}
             /\ \E s \in SetupStages : stage' = [stage EXCEPT ![p] = s]
      BY <1>7 DEF Created, ReplaceConfig, SyncConfig, Goes, SetupStages
    <2>2. UNCHANGED <<tree, chosen, activeRoot, explicitRoot, configuredRoot>>
      BY <1>7 DEF Created, ReplaceConfig, SyncConfig, planVars, processVars
    <2> QED
      BY <1>0, <2>1, <2>2, VaultsStay DEF Calls, Ranges
  <1>8. ASSUME NEW p \in Callers, GiveUpCreating(p) \/ VerifyFails(p) \/ SaveFails(p)
        PROVE  VerifiedExists' /\ ServedWorkspaceExists'
    <2>1. /\ stage' = [stage EXCEPT ![p] = "out"]
          /\ chosen' = [chosen EXCEPT ![p] = NoRoot]
          /\ UNCHANGED <<tree, activeRoot, explicitRoot, configuredRoot>>
      BY <1>8 DEF GiveUpCreating, VerifyFails, SaveFails, Ends, planVars, processVars
    <2> QED
      BY <1>0, <2>1, VaultsStay DEF Calls, Ranges
  \* The root of the call was verified, and is believed configured unless the
  \* command line had another.
  <1>9. ASSUME NEW p \in Callers, Install(p) PROVE VerifiedExists' /\ ServedWorkspaceExists'
    <2>1. /\ stage[p] = "installing"
          /\ stage' = [stage EXCEPT ![p] = "out"]
          /\ chosen' = [chosen EXCEPT ![p] = NoRoot]
          /\ UNCHANGED <<tree, explicitRoot>>
      BY <1>9 DEF Install, Ends, planVars
    <2>2. WorkspacePaths(chosen[p]) \subseteq DOMAIN tree
      BY <1>0, <2>1 DEF VerifiedExists
    <2>3. \/ UNCHANGED <<activeRoot, configuredRoot>>
          \/ /\ activeRoot' = [activeRoot EXCEPT ![p] = chosen[p]]
             /\ configuredRoot' =
                  [configuredRoot EXCEPT ![p] = IF explicitRoot[p] = NoRoot
                                                THEN chosen[p] ELSE @]
      BY <1>9 DEF Install
    <2> QED
      BY <1>0, <2>1, <2>2, <2>3, VaultsStay DEF Calls, Ranges
  <1>10. CASE UserEdits
    <2>1. DOMAIN tree \subseteq DOMAIN tree'
      BY <1>10 DEF UserEdits, With
    <2>2. UNCHANGED <<stage, chosen, activeRoot, explicitRoot, configuredRoot>>
      BY <1>10 DEF UserEdits, processVars, callVars
    <2> QED
      BY <1>0, <2>1, <2>2, VaultsStay
  <1>11. CASE UNCHANGED setupVars
    BY <1>0, <1>11, VaultsStay DEF setupVars, planVars, processVars, callVars
  <1> QED
    BY <1>1, <1>2, <1>3, <1>4, <1>5, <1>6, <1>7, <1>8, <1>9, <1>10, <1>11
    DEF SetupNext, Captures

\* ServedWorkspaceExists, of setup.go's "rather than falling back silently": a
\* process serves the root it believes configured or none, and its vaults exist,
\* however many processes create, kill and lose workspaces around it.
THEOREM ServedWorkspacesExist == SetupSpec => []ServedWorkspaceExists
  <1>1. SetupInit => VaultInvariant
    BY CallsInit
    DEF VaultInvariant, SetupInit, VerifiedExists, ServedWorkspaceExists
  <1>2. VaultInvariant /\ [SetupNext]_setupVars => VaultInvariant'
    BY CallsStep, VaultStep DEF VaultInvariant
  <1>3. VaultInvariant => ServedWorkspaceExists
    BY DEF VaultInvariant
  <1> QED
    BY <1>1, <1>2, <1>3, PTL DEF SetupSpec

=============================================================================
