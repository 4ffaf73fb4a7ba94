------------------------------- MODULE Library -------------------------------
(***************************************************************************)
(* Courses, modules and sessions of a private vault.  Each is a directory  *)
(* with a metadata document, created by a plan after a scan of its         *)
(* siblings.  Sessions also take a creation lock, a number and a runtime   *)
(* record.  Calls run in several processes; any may die, and power may     *)
(* fail.                                                                   *)
(*                                                                         *)
(* Source: internal/course/{course,module,metadata}.go,                    *)
(* internal/session/{repository,scan,recovery}.go, and                     *)
(* internal/application/{course,module,session_lifecycle}.go.              *)
(***************************************************************************)
EXTENDS PlanExecution, FiniteSets

CONSTANTS
  Courses,    \* course names asked for
  Modules,    \* [number, name] of the modules asked for
  Titles,     \* titles of sessions asked for
  Given,      \* [id, number, title] that callers of CreateWithMetadata repeat
  SlugOf,     \* name -> the slug it is normalised to
  NoId,       \* no requested identity
  KeyId,      \* the identity an idempotency key is hashed to
  MaxCalls,   \* how many calls get past their first scan: bounds the model
  MaxLosses,  \* how often power fails: bounds the model
  NoLock,
  Stale       \* the lock file of a process that has died

ASSUME LibraryAssumption ==
  /\ MaxCalls \in Nat /\ MaxLosses \in Nat
  /\ NoId # KeyId
  /\ ({NoId, KeyId} \cup {m.id : m \in Given}) \cap Nat = {}
  /\ \A m \in Given : m = [kind |-> "metadata", id |-> m.id, number |-> m.number,
                           name |-> m.name] /\ m.number \in Nat
  /\ NoLock \notin Callers /\ Stale \notin Callers

VARIABLES
  lock,     \* .studypilot-session-create.lock of the module: its holder
  issued,   \* how many identities have been generated
  pc,       \* caller -> how far its call has come
  request,  \* caller -> what it was asked to create
  target,   \* caller -> the entry its plan creates
  calls,    \* how many calls have got past their first scan
  losses,   \* how often power has failed
  made      \* history: session metadata acknowledged since the last power loss

vars == <<planVars, lock, issued, pc, request, target, calls, losses, made>>

-----------------------------------------------------------------------------
(* The tree of the vault.                                                  *)

Named(name) == [number |-> 0, name |-> name]

CoursesRoot == <<Named("01 Courses")>>
CourseRoot(name) == Append(CoursesRoot, Named(name))
ModulesRoot(name) == Append(CourseRoot(name), Named("Modules"))
Home == CHOOSE name \in Courses : TRUE
First == CHOOSE m \in Modules : TRUE
SessionsRoot == ModulesRoot(Home) \o <<First, Named("Sessions")>>

MetadataOf(entry) == Append(entry, Named("metadata"))

\* The runtime record of a session; the overview of a course or a module.
SecondOf(entry) == Append(entry, Named("second"))

Metadata(id, number, name) ==
  [kind |-> "metadata", id |-> id, number |-> number, name |-> name]

Second(id, revision) == [kind |-> "second", id |-> id, revision |-> revision]

\* What a session, a course or a module is; the subdirectories that no scan
\* looks into are left out.
Documents(entry, metadata) ==
  << Operation(MetadataOf(entry), metadata),
     Operation(SecondOf(entry), Second(metadata.id, 1)) >>

EntryPlan(entry, inside, metadata) ==
  << Operation(entry, Directory), Operation(Append(entry, Named(inside)), Directory) >>
  \o Documents(entry, metadata)

CoursePlan(metadata) ==
  EntryPlan(CourseRoot(metadata.name), "Modules", metadata)

ModulePlan(course, metadata) ==
  EntryPlan(Append(ModulesRoot(course), [number |-> metadata.number, name |-> metadata.name]),
            "Sessions", metadata)

SessionRoot(metadata) ==
  Append(SessionsRoot, [number |-> metadata.number, name |-> metadata.name])

SessionPlan(metadata) ==
  << Operation(Parent(SessionsRoot), Directory),
     Operation(SessionRoot(metadata), Directory) >>
  \o Documents(SessionRoot(metadata), metadata)

\* Names are told apart by the slug they are normalised to.
Alike(name, other) == SlugOf[name] = SlugOf[other]

\* The directories in a container.
Entries(root) ==
  {p \in DOMAIN tree : Len(p) = Len(root) + 1 /\ Parent(p) = root /\ tree[p] = Directory}

Managed(entry) == MetadataOf(entry) \in DOMAIN tree

Records(root) == {tree[MetadataOf(e)] : e \in {d \in Entries(root) : Managed(d)}}

\* scanCourses and scanModules: one directory without metadata fails them.
Scans(root) == root \in DOMAIN tree /\ \A e \in Entries(root) : Managed(e)

\* FindCourse and FindModule, by identity, of the module of the sessions.
Resolves ==
  /\ Scans(CoursesRoot) /\ CourseRoot(Home) \in DOMAIN tree
  /\ Scans(ModulesRoot(Home)) /\ Parent(SessionsRoot) \in DOMAIN tree

\* FindModule by number: a number two modules have is ambiguous.
RefersToOne(number) ==
  Cardinality({m \in Records(ModulesRoot(Home)) : m.number = number}) = 1

Distinct(root, e) ==
  \A d \in Entries(root) \ {e} : Managed(d) =>
     /\ tree[MetadataOf(d)].number # tree[MetadataOf(e)].number
     /\ tree[MetadataOf(d)].id # tree[MetadataOf(e)].id

\* scanMetadata, which writers and Locate use.
ScansStrictly ==
  Scans(SessionsRoot) /\ \A e \in Entries(SessionsRoot) : Distinct(SessionsRoot, e)

\* Repository.Load of one directory.
Loads(e) ==
  /\ Resolves
  /\ Managed(e) /\ SecondOf(e) \in DOMAIN tree
  /\ tree[SecondOf(e)].id = tree[MetadataOf(e)].id

\* Find: the session a reference resolves to, by identity.
Find(id) ==
  {e \in Entries(SessionsRoot) :
     Resolves /\ ScansStrictly /\ Loads(e) /\ tree[MetadataOf(e)].id = id}

\* scanEntry and Scan: every directory is a healthy record or has an issue.
IssueOf(e) ==
  CASE ~Managed(e) -> "unmanaged"
    [] SecondOf(e) \notin DOMAIN tree -> "missing_runtime"
    [] tree[SecondOf(e)].id # tree[MetadataOf(e)].id -> "malformed_runtime"
    [] OTHER -> "none"

\* Repository.Inspect, without the status of a session that is sound.
InspectionOf(e) ==
  CASE ~Managed(e) \/ ~Resolves -> "malformed"
    [] SecondOf(e) \notin DOMAIN tree -> "missing_runtime"
    [] ~Loads(e) -> "malformed"
    [] OTHER -> "sound"

Healthy ==
  LET sound == {e \in Entries(SessionsRoot) : IssueOf(e) = "none"} IN
  {e \in sound : \A d \in sound \ {e} :
     /\ tree[MetadataOf(d)].number # tree[MetadataOf(e)].number
     /\ tree[MetadataOf(d)].id # tree[MetadataOf(e)].id}

-----------------------------------------------------------------------------
(* Init, and the calls up to their plans.                                  *)

PairsOf(ops) == {<<ops[i].path, ops[i].content>> : i \in DOMAIN ops}

TreeOf(pairs) == [p \in {pair[1] : pair \in pairs} |->
                    (CHOOSE pair \in pairs : pair[1] = p)[2]]

\* Vaults finished creations have left.
Vault == {<<CoursesRoot, Directory>>}
WithCourse == Vault \cup PairsOf(CoursePlan(Metadata(1, 0, Home)))
WithModule == WithCourse \cup PairsOf(ModulePlan(Home, Metadata(2, First.number, First.name)))

Idle == [kind |-> "none"]

Init ==
  /\ \/ tree = TreeOf(Vault) /\ issued = 0
     \/ tree = TreeOf(WithCourse) /\ issued = 1
     \/ tree = TreeOf(WithModule) /\ issued = 2
  /\ PlanInit
  /\ lock = NoLock
  /\ pc = [c \in Callers |-> "idle"]
  /\ request = [c \in Callers |-> Idle]
  /\ target = [c \in Callers |-> <<>>]
  /\ calls = 0 /\ losses = 0 /\ made = {}

Returns(c) ==
  /\ pc' = [pc EXCEPT ![c] = "idle"]
  /\ request' = [request EXCEPT ![c] = Idle]
  /\ target' = [target EXCEPT ![c] = <<>>]

\* A call gets past its first scan.
Asks(c, what) ==
  /\ calls < MaxCalls /\ calls' = calls + 1
  /\ request' = [request EXCEPT ![c] = what]

Executes(c, entry) ==
  /\ pc' = [pc EXCEPT ![c] = "executing"]
  /\ target' = [target EXCEPT ![c] = entry]

\* NewCoursePlan: an existing course of that name is planned again as it is.
CreateCourse(c, name) ==
  /\ pc[c] = "idle"
  /\ LET same == {m \in Records(CoursesRoot) : m.name = name}
         alike == {m \in Records(CoursesRoot) : Alike(m.name, name)}
     IN
     \/ /\ ~Scans(CoursesRoot) \/ alike \ same # {}
        /\ Returns(c)
        /\ UNCHANGED <<planVars, issued, calls>>
     \/ /\ Scans(CoursesRoot) /\ alike = {}
        /\ issued' = issued + 1
        /\ Begin(c, CourseRoot(name), CoursePlan(Metadata(issued', 0, name)))
        /\ Asks(c, [kind |-> "course"]) /\ Executes(c, CourseRoot(name))
     \/ /\ Scans(CoursesRoot) /\ alike = same
        /\ \E m \in same :
             /\ Begin(c, CourseRoot(name), CoursePlan(m))
             /\ Asks(c, [kind |-> "course"]) /\ Executes(c, CourseRoot(name))
        /\ UNCHANGED issued
  /\ UNCHANGED <<lock, losses, made>>

\* NewModulePlan: a number and a name (or its slug) must both be free, or both
\* those of one existing module.
CreateModule(c, m) ==
  /\ pc[c] = "idle"
  /\ LET known == Records(ModulesRoot(Home))
         same == {r \in known : r.number = m.number /\ r.name = m.name}
         alike == {r \in known : r.number = m.number \/ Alike(r.name, m.name)}
         findsCourse == Scans(CoursesRoot) /\ Managed(CourseRoot(Home))
                        /\ Scans(ModulesRoot(Home))
         root == Append(ModulesRoot(Home), m)
     IN
     \/ /\ ~findsCourse \/ alike \ same # {}
        /\ Returns(c)
        /\ UNCHANGED <<planVars, issued, calls>>
     \/ /\ findsCourse /\ alike = {}
        /\ issued' = issued + 1
        /\ Begin(c, root, ModulePlan(Home, Metadata(issued', m.number, m.name)))
        /\ Asks(c, [kind |-> "module"]) /\ Executes(c, root)
     \/ /\ findsCourse /\ alike = same
        /\ \E r \in same :
             /\ Begin(c, root, ModulePlan(Home, r))
             /\ Asks(c, [kind |-> "module"]) /\ Executes(c, root)
        /\ UNCHANGED issued
  /\ UNCHANGED <<lock, losses, made>>

Requests ==
  [kind : {"session"}, title : Titles, id : {NoId, KeyId}]
  \cup {[kind |-> "given", metadata |-> m] : m \in Given}

\* CreateSession up to the lock: the module is found by number or by identity.
CreateSession(c, what) ==
  /\ pc[c] = "idle"
  /\ \/ /\ ~Resolves \/ ~RefersToOne(First.number)
        /\ Returns(c) /\ UNCHANGED calls
     \/ /\ Resolves
        /\ pc' = [pc EXCEPT ![c] = "locking"]
        /\ Asks(c, what)
        /\ UNCHANGED target
  /\ UNCHANGED <<planVars, lock, issued, losses, made>>

\* Defect: the lock file is opened whether or not it exists.
LockShared(c) ==
  /\ pc[c] = "locking"
  /\ lock' = c
  /\ pc' = [pc EXCEPT ![c] = "scanning"]
  /\ UNCHANGED <<planVars, issued, request, target, calls, losses, made>>

\* acquireCreationLock: the file is created exclusively and never broken.
Lock(c) ==
  /\ pc[c] = "locking"
  /\ \/ /\ lock = NoLock /\ SessionsRoot \in DOMAIN tree
        /\ lock' = c
        /\ pc' = [pc EXCEPT ![c] = "scanning"]
        /\ UNCHANGED <<request, target>>
     \/ /\ lock # NoLock \/ SessionsRoot \notin DOMAIN tree
        /\ Returns(c)
        /\ UNCHANGED lock
  /\ UNCHANGED <<planVars, issued, calls, losses, made>>

NextNumber ==
  LET numbers == {0} \cup {m.number : m \in Records(SessionsRoot)} IN
  1 + CHOOSE n \in numbers : \A k \in numbers : k <= n

\* The existing session the request names, if it names one.
Repeated(what) ==
  {e \in Entries(SessionsRoot) : Managed(e) /\
     IF what.kind = "given" THEN tree[MetadataOf(e)].id = what.metadata.id
     ELSE what.id # NoId /\ tree[MetadataOf(e)].id = what.id}

\* That session is what the request asks for.  Metadata a caller repeats must be
\* identical and its runtime still as created; a key only fixes the title.
Agrees(what, e) ==
  IF what.kind = "given"
  THEN tree[MetadataOf(e)] = what.metadata
       /\ (Loads(e) => tree[SecondOf(e)].revision = 1)
  ELSE tree[MetadataOf(e)].name = what.title

NumberTaken(what) ==
  what.kind = "given" /\ \E m \in Records(SessionsRoot) :
    m.number = what.metadata.number /\ m.id # what.metadata.id

Plans(c, metadata) ==
  /\ Begin(c, Parent(SessionsRoot), SessionPlan(metadata))
  /\ Executes(c, SessionRoot(metadata))
  /\ UNCHANGED <<lock, request>>

\* The scan under the lock, and the plan or the answer that follows from it.
Decide(c) ==
  /\ pc[c] = "scanning"
  /\ LET what == request[c]
         repeated == Repeated(what)
     IN
     \/ /\ ~ScansStrictly \/ NumberTaken(what)
           \/ \E e \in repeated : ~Agrees(what, e) \/ ~Loads(e)
        /\ Returns(c) /\ lock' = NoLock
        /\ UNCHANGED <<planVars, issued, made>>
     \/ /\ ScansStrictly /\ ~NumberTaken(what)
        /\ \E e \in repeated :
             /\ Agrees(what, e) /\ Loads(e)
             /\ Returns(c) /\ lock' = NoLock
             /\ made' = made \cup {tree[MetadataOf(e)]}
        /\ UNCHANGED <<planVars, issued>>
     \/ /\ ScansStrictly /\ ~NumberTaken(what) /\ repeated = {}
        /\ what.kind = "given"
        /\ Plans(c, what.metadata)
        /\ UNCHANGED <<issued, made>>
     \/ /\ ScansStrictly /\ repeated = {}
        /\ what.kind = "session" /\ what.id = KeyId
        /\ Plans(c, Metadata(KeyId, NextNumber, what.title))
        /\ UNCHANGED <<issued, made>>
     \/ /\ ScansStrictly /\ repeated = {}
        /\ what.kind = "session" /\ what.id = NoId
        /\ issued' = issued + 1
        /\ Plans(c, Metadata(issued', NextNumber, what.title))
        /\ UNCHANGED made
  /\ UNCHANGED <<calls, losses>>

-----------------------------------------------------------------------------
(* The execution of the plan and its end.                                  *)

Step(c) ==
  /\ pc[c] = "executing"
  /\ Execute(c)
  /\ UNCHANGED <<lock, issued, pc, request, target, calls, losses, made>>

\* The report of a course or a module is returned, conflicts and all.
Report(c) ==
  /\ pc[c] = "executing" /\ Executed(c)
  /\ request[c].kind \in {"course", "module"}
  /\ Returns(c)
  /\ Forget({c})
  /\ UNCHANGED <<tree, unsynced, lock, issued, calls, losses, made>>

Release(c) == lock' = IF lock = c THEN NoLock ELSE lock

\* The metadata the plan of a session was made for.
Planned(c) ==
  LET i == CHOOSE i \in DOMAIN plan[c] : plan[c][i].path = MetadataOf(target[c]) IN
  plan[c][i].content

\* A session is loaded; after a conflict it must be what was to be created.
Acknowledge(c) ==
  /\ pc[c] = "executing" /\ Executed(c)
  /\ request[c].kind \in {"session", "given"}
  /\ LET e == target[c]
         good == /\ Loads(e)
                 /\ HasConflicts(c) => /\ tree[MetadataOf(e)] = Planned(c)
                                       /\ tree[SecondOf(e)].revision = 1
     IN
     \/ /\ good
        /\ Returns(c)
        /\ made' = made \cup {tree[MetadataOf(e)]}
     \/ /\ ~good
        /\ Returns(c)
        /\ UNCHANGED made
  /\ Forget({c}) /\ Release(c)
  /\ UNCHANGED <<tree, unsynced, issued, calls, losses>>

\* An I/O failure ends the plan; what it has created stays.
Fails(c) ==
  /\ pc[c] = "executing" /\ ~Executed(c)
  /\ Returns(c)
  /\ Forget({c}) /\ Release(c)
  /\ UNCHANGED <<tree, unsynced, issued, calls, losses, made>>

\* The process of a caller dies: its lock file stays.
Die(c) ==
  /\ pc[c] # "idle"
  /\ Returns(c)
  /\ Forget({c})
  /\ lock' = IF lock = c THEN Stale ELSE lock
  /\ UNCHANGED <<tree, unsynced, issued, calls, losses, made>>

\* A user removes the lock file of a process that has died.
RemoveStaleLock ==
  /\ lock = Stale
  /\ lock' = NoLock
  /\ UNCHANGED <<planVars, issued, pc, request, target, calls, losses, made>>

\* Repository.UpdateRuntime, once for a session; its directory is synchronised.
UpdateRuntime(e) ==
  /\ Managed(e) /\ e \in Find(tree[MetadataOf(e)].id)
  /\ tree[SecondOf(e)].revision = 1
  /\ tree' = With(SecondOf(e), [tree[SecondOf(e)] EXCEPT !.revision = 2])
  /\ unsynced' = {p \in unsynced : Parent(p) # e}
  /\ UNCHANGED <<plan, at, absent, report, lock, issued, pc, request, target,
                 calls, losses, made>>

PowerFails ==
  /\ losses < MaxLosses
  /\ losses' = losses + 1
  /\ TakeBack
  /\ \/ lock' = NoLock
     \/ lock # NoLock /\ SessionsRoot \in DOMAIN tree' /\ lock' = Stale
  /\ pc' = [c \in Callers |-> "idle"]
  /\ request' = [c \in Callers |-> Idle]
  /\ target' = [c \in Callers |-> <<>>]
  /\ made' = {}
  /\ UNCHANGED <<issued, calls>>

Next ==
  \/ \E c \in Callers :
       \/ \E name \in Courses : CreateCourse(c, name)
       \/ \E m \in Modules : CreateModule(c, m)
       \/ \E what \in Requests : CreateSession(c, what)
       \/ Lock(c) \/ Decide(c) \/ Step(c) \/ Report(c) \/ Acknowledge(c)
       \/ Fails(c) \/ Die(c)
  \/ RemoveStaleLock
  \/ \E e \in Entries(SessionsRoot) : UpdateRuntime(e)
  \/ PowerFails

Spec == Init /\ [][Next]_vars

-----------------------------------------------------------------------------
(* Properties.                                                             *)

\* Variables stay in their domains; a plan is executed by a call that has come
\* to it, and the lock file has a holder that is past it.
TypeOK ==
  /\ PlanTypeOK
  /\ lock \in Callers \cup {NoLock, Stale}
  /\ issued \in 0 .. MaxCalls + 2 /\ calls \in 0 .. MaxCalls /\ losses \in 0 .. MaxLosses
  /\ pc \in [Callers -> {"idle", "locking", "scanning", "executing"}]
  /\ \A c \in Callers : plan[c] # <<>> <=> pc[c] = "executing"
  /\ \A c \in Callers : lock = c => pc[c] \in {"scanning", "executing"}

\* What a report says is so: whatever other creations run, each path that was
\* reported created or skipped holds what the plan wanted there (a runtime
\* record may have been updated since).
ReportHonest ==
  \A c \in Callers : \A i \in DOMAIN report[c] :
    report[c][i] # "conflict" =>
      LET op == plan[c][i] IN
      /\ op.path \in DOMAIN tree
      /\ tree[op.path].kind = op.content.kind
      /\ op.content.kind = "metadata" => tree[op.path] = op.content
      /\ op.content.kind = "second" => tree[op.path].id = op.content.id

\* Creations never replace or remove what exists; only power loss removes, and
\* only the update of a runtime record replaces.
ExistingKept ==
  [][losses' = losses =>
       \A p \in DOMAIN tree :
         /\ p \in DOMAIN tree'
         /\ tree'[p] # tree[p] =>
              /\ tree[p].kind = "second"
              /\ tree'[p] = [tree[p] EXCEPT !.revision = @ + 1]]_vars

\* A session whose creation was acknowledged is listed as healthy, with the
\* identity, number and title acknowledged, and is found sound on inspection,
\* for as long as power stays on and its module can be found: no crash, retry,
\* repeated request or concurrent creation hides it or makes its number
\* ambiguous.
AcknowledgedListed ==
  Resolves => \A m \in made : \E e \in Healthy :
                            tree[MetadataOf(e)] = m /\ InspectionOf(e) = "sound"

\* application/module.go says that module numbers remain unique in a course.
ModuleNumbersUnique ==
  \A d, e \in Entries(ModulesRoot(Home)) :
    Managed(d) /\ Managed(e) /\ d # e =>
      tree[MetadataOf(d)].number # tree[MetadataOf(e)].number

=============================================================================
