---------------------------- MODULE WorkspaceSetup ----------------------------
(***************************************************************************)
(* Choosing the workspace: every process keeps the root it serves, and the *)
(* processes share one configuration file that names the root to serve     *)
(* after the next start.  A setup call inspects the chosen root, creates   *)
(* the two vaults with a creation plan if the root is empty, inspects it   *)
(* again, replaces the configuration file and only then serves the root.   *)
(* Calls of one process take turns; nothing is shared by processes, and    *)
(* captures start without waiting for a setup call.                        *)
(*                                                                         *)
(* Source: internal/application/{setup,workspace,capture}.go,              *)
(* internal/workspace/{setup,contracts}.go, internal/config/config.go,     *)
(* internal/filesystem/plan.go.                                            *)
(***************************************************************************)
EXTENDS PlanExecution, FiniteSets

CONSTANTS
  Roots,
  NoRoot,
  Contract,      \* what a workspace has below its root, in creation order
  ExplicitRoots, \* roots a server may be given on its command line
  Servers,       \* the processes that serve requests; the others are commands of
                 \* one call, and keep no root after it
  Existing,      \* the roots that are workspaces from the start
  MaxMishaps,    \* bound on kills, losses of power and changes by the user
  Foreign,       \* a name and a content of the user's own
  BadConfig      \* a configuration file that is not valid

ASSUME SetupAssumption ==
  /\ {NoRoot, BadConfig} \cap Roots = {} /\ NoRoot # BadConfig
  /\ Servers \subseteq Callers /\ Existing \subseteq Roots /\ MaxMishaps \in Nat
  /\ ExplicitRoots \subseteq Roots
  /\ \A i \in DOMAIN Contract : Contract[i].content # Foreign

VARIABLES
  config,          \* the root in the configuration file; NoRoot: no file
  configLeft,      \* what a loss of power may leave of it
  live,            \* server -> it is running
  explicitRoot,    \* server -> the root of its command line, or NoRoot
  activeRoot,      \* server -> the root it serves
  configuredRoot,  \* server -> the root it believes configured
  stage,           \* process -> how far its setup call has come
  chosen,          \* process -> the root of that call
  capturing,       \* process -> its capture: "no", "asked", "started" or "live"
  captureRoot,     \* process -> the root of that capture
  captureActive,   \* process -> its flag that a capture is live
  flagged,         \* history: processes whose capture is live, with its flag set
                   \* while no setup call ran and its root was served
  writer,          \* history: the process that replaced the configuration last
  mishaps,         \* number of those
  promised         \* history: the root a caller was told is configured, unless
                   \* the file was replaced since

configVars == <<config, configLeft, writer, promised>>

processVars == <<live, explicitRoot, activeRoot, configuredRoot>>

callVars == <<stage, chosen>>

captureVars == <<capturing, captureRoot, captureActive, flagged>>

setupVars == <<planVars, mishaps, configVars, processVars, callVars, captureVars>>

SetupStages == {"out", "command", "creating", "verifying", "saving", "replaced", "installing"}

-----------------------------------------------------------------------------
(* Inspection.                                                             *)

\* NewPlan: root, vaults, their directories and their files.
WorkspaceOperations(r) ==
  <<Operation(<<r>>, Directory)>> \o
  [i \in DOMAIN Contract |-> Operation(<<r>> \o Contract[i].path, Contract[i].content)]

WorkspacePaths(r) ==
  {WorkspaceOperations(r)[i].path : i \in DOMAIN WorkspaceOperations(r)}

Blank(r) == \A p \in DOMAIN tree : Within(<<r>>, p) => p = <<r>> /\ tree[p] = Directory

\* validateInitializedWorkspace: everything is there, the documents unchanged.
Initialized(r) ==
  \A i \in DOMAIN WorkspaceOperations(r) :
    LET op == WorkspaceOperations(r)[i] IN
      op.path \in DOMAIN tree /\ tree[op.path] = op.content

\* InspectSetupRoot: neither nonexistent, empty nor adoptable.
Conflicting(r) == ~Blank(r) /\ ~Initialized(r)

SetupInit ==
  /\ PlanInit
  /\ tree = [p \in UNION {WorkspacePaths(r) : r \in Existing} |->
                LET ops == WorkspaceOperations(p[1]) IN
                  ops[CHOOSE i \in DOMAIN ops : ops[i].path = p].content]
  /\ mishaps = 0
  /\ config \in {NoRoot, BadConfig} /\ configLeft = {config}
  /\ writer = NoRoot /\ promised = NoRoot
  /\ live = [p \in Callers |-> FALSE]
  /\ explicitRoot = [p \in Callers |-> NoRoot]
  /\ activeRoot = [p \in Callers |-> NoRoot]
  /\ configuredRoot = [p \in Callers |-> NoRoot]
  /\ stage = [p \in Callers |-> "out"]
  /\ chosen = [p \in Callers |-> NoRoot]
  /\ capturing = [p \in Callers |-> "no"]
  /\ captureRoot = [p \in Callers |-> NoRoot]
  /\ captureActive = [p \in Callers |-> FALSE]
  /\ flagged = {}

Goes(p, from, to) == stage[p] = from /\ stage' = [stage EXCEPT ![p] = to]

Ends(p) ==
  /\ stage' = [stage EXCEPT ![p] = "out"]
  /\ chosen' = [chosen EXCEPT ![p] = NoRoot]

-----------------------------------------------------------------------------
(* Processes start and stop.                                               *)

ToServe(explicit) ==
  IF explicit # NoRoot THEN explicit ELSE IF config \in Roots THEN config ELSE NoRoot

\* Defect: the root to serve is served without a look at it.
StartBlindly(p, explicit) ==
  /\ p \in Servers /\ ~live[p]
  /\ live' = [live EXCEPT ![p] = TRUE]
  /\ explicitRoot' = [explicitRoot EXCEPT ![p] = explicit]
  /\ configuredRoot' = [configuredRoot EXCEPT ![p] = ToServe(explicit)]
  /\ activeRoot' = [activeRoot EXCEPT ![p] = ToServe(explicit)]
  /\ UNCHANGED <<planVars, mishaps, configVars, callVars, captureVars>>

\* NewSetupService: a root that is not a whole and writable workspace is not
\* served, and no other root in its place.
Start(p, explicit) ==
  /\ p \in Servers /\ ~live[p]
  /\ live' = [live EXCEPT ![p] = TRUE]
  /\ explicitRoot' = [explicitRoot EXCEPT ![p] = explicit]
  /\ configuredRoot' = [configuredRoot EXCEPT ![p] = ToServe(explicit)]
  /\ \E served \in {NoRoot} \cup {r \in Roots : r = ToServe(explicit) /\ Initialized(r)} :
       activeRoot' = [activeRoot EXCEPT ![p] = served]
  /\ UNCHANGED <<planVars, mishaps, configVars, callVars, captureVars>>

Mishap == mishaps < MaxMishaps /\ mishaps' = mishaps + 1

Down(who) ==
  /\ live' = [p \in Callers |-> live[p] /\ p \notin who]
  /\ explicitRoot' = [p \in Callers |-> IF p \in who THEN NoRoot ELSE explicitRoot[p]]
  /\ activeRoot' = [p \in Callers |-> IF p \in who THEN NoRoot ELSE activeRoot[p]]
  /\ configuredRoot' = [p \in Callers |-> IF p \in who THEN NoRoot ELSE configuredRoot[p]]
  /\ stage' = [p \in Callers |-> IF p \in who THEN "out" ELSE stage[p]]
  /\ chosen' = [p \in Callers |-> IF p \in who THEN NoRoot ELSE chosen[p]]
  /\ capturing' = [p \in Callers |-> IF p \in who THEN "no" ELSE capturing[p]]
  /\ captureRoot' = [p \in Callers |-> IF p \in who THEN NoRoot ELSE captureRoot[p]]
  /\ captureActive' = [p \in Callers |-> captureActive[p] /\ p \notin who]
  /\ flagged' = flagged \ who

Kill(p) ==
  /\ live[p] \/ stage[p] # "out"
  /\ Mishap
  /\ Down({p})
  /\ Forget({p})
  /\ UNCHANGED <<tree, unsynced, configVars>>

LosePower ==
  /\ Mishap
  /\ TakeBack
  /\ config' \in configLeft /\ configLeft' = {config'}
  /\ Down(Callers)
  /\ UNCHANGED <<writer, promised>>

-----------------------------------------------------------------------------
(* The setup call.                                                         *)

\* A flag of the process, whatever is live.
HasActiveCapture(p) == captureActive[p]

\* Defect: the capture is not asked for.
SwitchAnyway(p, r) == TRUE

MaySwitch(p, r) == activeRoot[p] \in {NoRoot, r} \/ ~HasActiveCapture(p)

\* InitializeSetup, confirmed, under setupMu.
Initialize(p, r) ==
  /\ (p \in Servers => live[p]) /\ stage[p] = "out"
  /\ ~Conflicting(r) /\ MaySwitch(p, r)
  /\ chosen' = [chosen EXCEPT ![p] = r]
  /\ \/ /\ Initialized(r)
        /\ stage' = [stage EXCEPT ![p] = "verifying"]
        /\ UNCHANGED planVars
     \/ /\ ~Initialized(r)
        /\ stage' = [stage EXCEPT ![p] = "creating"]
        /\ Begin(p, <<r>>, WorkspaceOperations(r))
  /\ UNCHANGED <<mishaps, configVars, processVars, captureVars>>

\* The init command creates the vaults in any root, and configures nothing.
InitCommand(p, r) ==
  /\ p \notin Servers /\ stage[p] = "out"
  /\ chosen' = [chosen EXCEPT ![p] = r]
  /\ stage' = [stage EXCEPT ![p] = "command"]
  /\ Begin(p, <<r>>, WorkspaceOperations(r))
  /\ UNCHANGED <<mishaps, configVars, processVars, captureVars>>

Create(p) ==
  /\ stage[p] \in {"creating", "command"}
  /\ Execute(p)
  /\ UNCHANGED <<mishaps, configVars, processVars, callVars, captureVars>>

Created(p) ==
  /\ Executed(p) /\ ~HasConflicts(p)
  /\ Goes(p, "creating", "verifying")
  /\ Forget({p})
  /\ UNCHANGED <<tree, unsynced, mishaps, chosen, configVars, processVars, captureVars>>

\* A conflict, a failed operation, a cancelled request, or the command is over.
GiveUpCreating(p) ==
  /\ stage[p] \in {"creating", "command"}
  /\ Ends(p)
  /\ Forget({p})
  /\ UNCHANGED <<tree, unsynced, mishaps, configVars, processVars, captureVars>>

Verify(p) ==
  /\ Initialized(chosen[p])
  /\ Goes(p, "verifying", IF explicitRoot[p] = NoRoot THEN "saving" ELSE "installing")
  /\ UNCHANGED <<planVars, mishaps, chosen, configVars, processVars, captureVars>>

VerifyFails(p) ==
  /\ stage[p] = "verifying"
  /\ Ends(p)
  /\ UNCHANGED <<planVars, mishaps, configVars, processVars, captureVars>>

\* Store.Save: a synchronised temporary file takes the place of the file.
ReplaceConfig(p) ==
  /\ Goes(p, "saving", "replaced")
  /\ config' = chosen[p]
  /\ configLeft' = configLeft \cup {chosen[p]}
  /\ writer' = p /\ promised' = NoRoot
  /\ UNCHANGED <<planVars, mishaps, chosen, processVars, captureVars>>

\* Defect: the directory of the file is not synchronised.
NoSyncConfig(p) ==
  /\ Goes(p, "replaced", "installing")
  /\ UNCHANGED <<planVars, mishaps, chosen, configVars, processVars, captureVars>>

SyncConfig(p) ==
  /\ Goes(p, "replaced", "installing")
  /\ configLeft' = {config}
  /\ UNCHANGED <<planVars, mishaps, chosen, config, writer, promised, processVars, captureVars>>

\* ErrSetupPersistenceUncertain: before the file was replaced, or after.
SaveFails(p) ==
  /\ stage[p] \in {"saving", "replaced"}
  /\ Ends(p)
  /\ UNCHANGED <<planVars, mishaps, configVars, processVars, captureVars>>

Install(p) ==
  /\ stage[p] = "installing"
  /\ IF p \in Servers
     THEN /\ activeRoot' = [activeRoot EXCEPT ![p] = chosen[p]]
          /\ configuredRoot' =
               [configuredRoot EXCEPT ![p] = IF explicitRoot[p] = NoRoot THEN chosen[p] ELSE @]
     ELSE UNCHANGED <<activeRoot, configuredRoot>>
  /\ promised' =
       IF explicitRoot[p] = NoRoot /\ writer = p THEN chosen[p] ELSE promised
  /\ Ends(p)
  /\ UNCHANGED <<planVars, mishaps, config, configLeft, writer, live, explicitRoot, captureVars>>

-----------------------------------------------------------------------------
(* Captures and the user.                                                  *)

\* A request to start, pause or resume a capture reads the root that is served,
\* and works with it from then on.
AskCapture(p) ==
  /\ p \in Servers /\ capturing[p] = "no" /\ activeRoot[p] # NoRoot
  /\ capturing' = [capturing EXCEPT ![p] = "asked"]
  /\ captureRoot' = [captureRoot EXCEPT ![p] = activeRoot[p]]
  /\ UNCHANGED <<planVars, mishaps, configVars, processVars, callVars>>
  /\ UNCHANGED <<captureActive, flagged>>

\* StartCapture: the recorder has started.
CaptureStarts(p) ==
  /\ capturing[p] = "asked"
  /\ capturing' = [capturing EXCEPT ![p] = "started"]
  /\ UNCHANGED <<planVars, mishaps, configVars, processVars, callVars>>
  /\ UNCHANGED <<captureRoot, captureActive, flagged>>

\* setCaptureActive.
SetCaptureActive(p) ==
  /\ capturing[p] = "started"
  /\ capturing' = [capturing EXCEPT ![p] = "live"]
  /\ captureActive' = [captureActive EXCEPT ![p] = TRUE]
  /\ flagged' =
       flagged \cup {q \in {p} : stage[q] = "out" /\ captureRoot[q] = activeRoot[q]}
  /\ UNCHANGED <<planVars, mishaps, configVars, processVars, callVars, captureRoot>>

\* A capture of a process before this one is restored, and may be resumed: it is
\* live, and no flag is set.
CaptureRestored(p) ==
  /\ capturing[p] = "asked"
  /\ capturing' = [capturing EXCEPT ![p] = "live"]
  /\ UNCHANGED <<planVars, mishaps, configVars, processVars, callVars>>
  /\ UNCHANGED <<captureRoot, captureActive, flagged>>

\* Refused, stopped by its own root, or over for another reason, with the flag
\* left as it is.
CaptureEnds(p) ==
  /\ capturing[p] \in {"asked", "live"}
  /\ capturing' = [capturing EXCEPT ![p] = "no"]
  /\ captureRoot' = [captureRoot EXCEPT ![p] = NoRoot]
  /\ \/ capturing[p] = "live" /\ captureActive' = [captureActive EXCEPT ![p] = FALSE]
     \/ UNCHANGED captureActive
  /\ flagged' = flagged \ {p}
  /\ UNCHANGED <<planVars, mishaps, configVars, processVars, callVars>>

\* A request that found the capture before stopped clears the flag, which may be
\* that of a capture started since it read the record.
StopStopped(p) ==
  /\ captureActive[p]
  /\ captureActive' = [captureActive EXCEPT ![p] = FALSE]
  /\ flagged' = flagged \ {p}
  /\ UNCHANGED <<planVars, mishaps, configVars, processVars, callVars, capturing, captureRoot>>

\* The user edits a document of a vault, or has files of his own in a root.
UserEdits ==
  \E r \in Roots :
    /\ Mishap
    /\ \/ \E p \in WorkspacePaths(r) \cap DOMAIN tree :
            tree[p] # Directory /\ tree' = With(p, Foreign)
       \/ /\ <<r>> \in DOMAIN tree
          /\ tree' = With(<<r, Foreign>>, Foreign)
    /\ UNCHANGED <<unsynced, plan, at, absent, report>>
    /\ UNCHANGED <<configVars, processVars, callVars, captureVars>>

SetupNext ==
  \/ \E p \in Callers :
       \/ Kill(p)
       \/ \E explicit \in ExplicitRoots \cup {NoRoot} : Start(p, explicit)
       \/ \E r \in Roots : Initialize(p, r) \/ InitCommand(p, r)
       \/ Create(p) \/ Created(p) \/ GiveUpCreating(p) \/ Verify(p) \/ VerifyFails(p)
       \/ ReplaceConfig(p) \/ SyncConfig(p) \/ SaveFails(p) \/ Install(p)
       \/ AskCapture(p) \/ CaptureStarts(p) \/ SetCaptureActive(p) \/ CaptureRestored(p)
       \/ CaptureEnds(p) \/ StopStopped(p)
  \/ LosePower \/ UserEdits

SetupSpec == SetupInit /\ [][SetupNext]_setupVars

-----------------------------------------------------------------------------
(* Properties.                                                             *)

\* Types of the processes, their calls and the configuration.
SetupTypeOK ==
  /\ PlanTypeOK
  /\ config \in Roots \cup {NoRoot, BadConfig} /\ config \in configLeft
  /\ writer \in Callers \cup {NoRoot} /\ promised \in Roots \cup {NoRoot}
  /\ live \in [Callers -> BOOLEAN]
  /\ explicitRoot \in [Callers -> ExplicitRoots \cup {NoRoot}]
  /\ activeRoot \in [Callers -> Roots \cup {NoRoot}]
  /\ configuredRoot \in [Callers -> Roots \cup {NoRoot}]
  /\ stage \in [Callers -> SetupStages]
  /\ captureActive \in [Callers -> BOOLEAN]
  /\ flagged \subseteq Callers
  /\ \A p \in Callers :
       /\ chosen[p] \in Roots \cup {NoRoot}
       /\ stage[p] = "out" <=> chosen[p] = NoRoot
       /\ capturing[p] \in {"no", "asked", "started", "live"}
       /\ captureRoot[p] \in Roots \cup {NoRoot}
       /\ captureRoot[p] = NoRoot <=> capturing[p] = "no"
       /\ plan[p] # <<>> => stage[p] \in {"creating", "command"}

\* "rather than falling back silently": a process serves the root it believes
\* configured or none, and the vaults of the root it serves exist, whatever was
\* interrupted, lost, or done by another process before.
ServedWorkspaceExists ==
  \A p \in Callers :
    activeRoot[p] # NoRoot =>
      /\ WorkspacePaths(activeRoot[p]) \subseteq DOMAIN tree
      /\ explicitRoot[p] = NoRoot => configuredRoot[p] = activeRoot[p]

\* A root a caller was told is selected stays in the configuration file, power
\* lost or not, until the file is replaced by another setup.  The directory the
\* file is in is taken to be durable: Save may have created it, and does not
\* synchronise the directory above it.
SelectionDurable ==
  promised # NoRoot => config = promised /\ configLeft = {promised}

\* "Switching is blocked while recording is active", as far as the flag of the
\* process tells: a capture that StartCapture flagged before a setup call stays in
\* the workspace that is served.  Left behind may be a capture that was restored or
\* resumed without a flag, one flagged while a setup call ran or with the root of
\* before, and one whose flag a late stop of the capture before it has cleared.
LiveCaptureNotLeft ==
  \A p \in flagged : activeRoot[p] = captureRoot[p]

=============================================================================
