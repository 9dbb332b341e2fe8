------------------------------ MODULE Sandbox -------------------------------
(***************************************************************************)
(* The allow-list of directories (internal/sandbox) as concurrent tool     *)
(* calls use it.  Each call is a goroutine.  The root lists are guarded by *)
(* a mutex that is taken and released inside every access, so one access   *)
(* is one step, and everything else may happen between two of them: other  *)
(* calls replace or edit the lists, the client changes the roots it would  *)
(* answer, and programs change the filesystem.                             *)
(*                                                                         *)
(* A "path" call is the common beginning of every path-touching tool:      *)
(* refreshClientRoots, then Resolve.  "add" and "remove" calls are         *)
(* AddRuntimeRoot and RemoveRuntimeRoot.                                   *)
(***************************************************************************)
EXTENDS PathFS

CONSTANTS
  Calls,          \* the calls in flight at once
  ConfigArgs,     \* the -root arguments, in order
  AllowRuntime,   \* -allow-runtime-roots
  Cwd,            \* working directory of the server process
  RawPaths,       \* the path arguments of path calls
  RawDirs,        \* those of add_allowed_dir and remove_allowed_dir
  ClientAnswers,  \* what the client may answer to roots/list
  NoAnswer,       \* the answer that is an error (an element or not)
  NotFileURI,     \* an entry of an answer whose scheme is not file://
  MaxChanges,     \* changes of the tree and of the client's roots
  FsStates        \* the trees the filesystem may hold

\* Every path that exists in some tree.
Paths == UNION {DOMAIN f : f \in FsStates}

ASSUME SandboxAssumption ==
  /\ ConfigArgs \in Seq(ToSet(ConfigArgs)) /\ ConfigArgs # << >>
  /\ AllowRuntime \in BOOLEAN
  /\ MaxChanges \in Nat
  /\ \A r \in RawPaths : IsPathArg(r)
  /\ NoPath \notin Paths
  /\ FsStates # {}
  /\ \A f \in FsStates : WellFormedFS(f)

VARIABLES
  fs,             \* the tree as it is now
  clientRoots,    \* what the client would answer now
  configRoots,    \* Sandbox.configRoots
  protocolRoots,  \* Sandbox.protocolRoots (its order is never looked at)
  runtimeRoots,   \* Sandbox.runtimeRoots
  pc,             \* where each call is
  raw,            \* its path argument
  path,           \* that argument as an absolute, cleaned path
  at,             \* the path SetClientRoots' loop, then Resolve's ("check"), has in hand
  real,           \* what EvalSymlinks returned last, elsewhere
  list,           \* the answer to roots/list, less what has been looked at
  dirs,           \* the directories found in it
  changes,        \* how often the environment has changed something
  \* History of a call, read by the properties alone:
  ever,           \* roots allowed at some moment since the call began
  steady          \* roots allowed at every moment since the call began

roots   == <<configRoots, protocolRoots, runtimeRoots>>
locals  == <<raw, path, at, real, list, dirs>>
history == <<ever, steady>>
world   == <<fs, clientRoots, changes>>
vars    == <<world, roots, pc, locals, history>>

Ended == {"accepted", "rejected", "added", "removed", "failed"}

\* Roots(): every allowed root.
AllowedRoots == ToSet(configRoots) \cup protocolRoots \cup ToSet(runtimeRoots)

\* primaryRoot(): where a relative path is anchored.
PrimaryRoot == configRoots[1]

Goto(c, from, to) == pc[c] = from /\ pc' = [pc EXCEPT ![c] = to]

\* Every step that may change the lists extends the histories of the calls
\* in flight.
Observe ==
  /\ ever'    = [c \in Calls |-> IF pc[c] = "idle" THEN ever[c]
                                 ELSE ever[c] \cup AllowedRoots']
  /\ steady'  = [c \in Calls |-> IF pc[c] = "idle" THEN steady[c]
                                 ELSE steady[c] \cap AllowedRoots']

-----------------------------------------------------------------------------
(* Launch: New resolves every -root argument or the server does not start. *)

\* The list keeps one copy of a root that is given twice; no operation but
\* the listing of the roots can tell, so the copies are kept here.  Each
\* argument is resolved in one tree and looked at in a later one.
New ==
  /\ configRoots \in [DOMAIN ConfigArgs -> Paths]
  /\ \A i \in DOMAIN ConfigArgs :
       /\ \E f \in FsStates : EvalSymlinks(f, Joined(Cwd, ConfigArgs[i])) = configRoots[i]
       /\ \E f \in FsStates : IsDirectory(f, configRoots[i])

Init ==
  /\ fs \in FsStates
  /\ New
  /\ clientRoots \in ClientAnswers
  /\ changes = 0
  /\ protocolRoots = {}
  /\ runtimeRoots = << >>
  /\ pc   = [c \in Calls |-> "idle"]
  /\ raw  = [c \in Calls |-> NoPath]
  /\ path = [c \in Calls |-> NoPath]
  /\ at   = [c \in Calls |-> NoPath]
  /\ real = [c \in Calls |-> NoPath]
  /\ list = [c \in Calls |-> {}]
  /\ dirs = list
  /\ ever    = [c \in Calls |-> {}]
  /\ steady  = [c \in Calls |-> {}]

-----------------------------------------------------------------------------
(* A call begins with an argument and ends by forgetting everything.       *)

Begin(c, step, arg, abs) ==
  /\ Goto(c, "idle", step)
  /\ raw'  = [raw EXCEPT ![c] = arg]
  /\ path' = [path EXCEPT ![c] = abs]
  /\ ever'    = [ever EXCEPT ![c] = AllowedRoots]
  /\ steady'  = [steady EXCEPT ![c] = AllowedRoots]
  /\ UNCHANGED <<world, roots, at, real, list, dirs>>

BeginPathCall(c) == \E r \in RawPaths : Begin(c, "pull", r, NoPath)
BeginAdd(c)      == \E r \in RawDirs : Begin(c, "add", r, Joined(Cwd, r))
BeginRemove(c)   == \E r \in RawDirs : Begin(c, "remove", r, Joined(Cwd, r))

Forget(c) ==
  /\ pc'   = [pc EXCEPT ![c] = "idle"]
  /\ raw'  = [raw EXCEPT ![c] = NoPath]
  /\ path' = [path EXCEPT ![c] = NoPath]
  /\ at'   = [at EXCEPT ![c] = NoPath]
  /\ real' = [real EXCEPT ![c] = NoPath]
  /\ list' = [list EXCEPT ![c] = {}]
  /\ dirs' = [dirs EXCEPT ![c] = {}]
  /\ ever'    = [ever EXCEPT ![c] = {}]
  /\ steady'  = [steady EXCEPT ![c] = {}]
  /\ UNCHANGED <<world, roots>>

Return(c) == pc[c] \in Ended /\ Forget(c)

-----------------------------------------------------------------------------
(* refreshClientRoots: one round trip, then SetClientRoots.                *)

\* ListRoots: the client answers with the roots it has at that moment, or
\* with an error, which leaves the lists alone.
ListRoots(c) ==
  /\ pc[c] = "pull"
  /\ \/ /\ clientRoots = NoAnswer
        /\ pc' = [pc EXCEPT ![c] = "lexical"]
        /\ UNCHANGED list
     \/ /\ clientRoots # NoAnswer
        /\ pc' = [pc EXCEPT ![c] = "validate"]
        /\ list' = [list EXCEPT ![c] = clientRoots]
  /\ UNCHANGED <<world, roots, raw, path, at, real, dirs, history>>

\* The entries are validated one after the other, in the client's order,
\* which may be any; those that fail are skipped.  resolveExistingDir looks
\* at the tree twice: EvalSymlinks, then a Stat of what it returned.
Resolves(u) == u # NotFileURI /\ EvalSymlinks(fs, u) # NoPath

EvalRoot(c) ==
  /\ pc[c] = "validate"
  /\ \E u \in list[c] :
       /\ list' = [list EXCEPT ![c] = @ \ {u}]
       /\ \/ ~Resolves(u) /\ UNCHANGED <<pc, at>>
          \/ /\ Resolves(u)
             /\ pc' = [pc EXCEPT ![c] = "statRoot"]
             /\ at' = [at EXCEPT ![c] = EvalSymlinks(fs, u)]
  /\ UNCHANGED <<world, roots, raw, path, real, dirs, history>>

StatRoot(c) ==
  /\ Goto(c, "statRoot", "validate")
  /\ dirs' = [dirs EXCEPT ![c] = IF IsDirectory(fs, at[c]) THEN @ \cup {at[c]} ELSE @]
  /\ UNCHANGED <<world, roots, raw, path, at, real, list, history>>

InstallRoots(c) ==
  /\ Goto(c, "validate", "lexical")
  /\ list[c] = {}
  /\ protocolRoots' = dirs[c]
  /\ UNCHANGED <<world, configRoots, runtimeRoots, locals>>
  /\ Observe

-----------------------------------------------------------------------------
(* Resolve: the written path must lie in a root, and so must the physical  *)
(* path of its deepest ancestor that exists.  The roots are read afresh    *)
(* for each of the two tests.                                              *)

Lexical(c) ==
  LET joined == Joined(PrimaryRoot, raw[c])
      inside == WithinAny(AllowedRoots, joined)
  IN  /\ Goto(c, "lexical", IF inside THEN "eval" ELSE "rejected")
      /\ path' = [path EXCEPT ![c] = joined]
      /\ at'   = [at EXCEPT ![c] = joined]
      /\ UNCHANGED <<world, roots, raw, real, list, dirs, history>>

\* A mutant: the loop forgets to move up.
EvalParent_Stuck(c) ==
  /\ pc[c] = "eval"
  /\ EvalSymlinks(fs, at[c]) = NoPath
  /\ UNCHANGED vars

\* EvalSymlinks fails: try the parent.  "/" always resolves, so the loop's
\* other exit (parent == check) is never taken.
EvalParent(c) ==
  /\ pc[c] = "eval"
  /\ EvalSymlinks(fs, at[c]) = NoPath
  /\ at' = [at EXCEPT ![c] = Parent(@)]
  /\ UNCHANGED <<world, roots, pc, raw, path, real, list, dirs, history>>

EvalFound(c) ==
  /\ Goto(c, "eval", "check")
  /\ EvalSymlinks(fs, at[c]) # NoPath
  /\ real' = [real EXCEPT ![c] = EvalSymlinks(fs, at[c])]
  /\ UNCHANGED <<world, roots, raw, path, at, list, dirs, history>>

\* Mutants: the physical path is not tested; only the launch roots count.
CheckReal_Skipped(c) ==
  /\ Goto(c, "check", "accepted")
  /\ UNCHANGED <<world, roots, locals, history>>

CheckReal_ConfigOnly(c) ==
  /\ Goto(c, "check",
          IF WithinAny(ToSet(configRoots), real[c]) THEN "accepted" ELSE "rejected")
  /\ UNCHANGED <<world, roots, locals, history>>

CheckReal(c) ==
  /\ Goto(c, "check",
          IF WithinAny(AllowedRoots, real[c]) THEN "accepted" ELSE "rejected")
  /\ UNCHANGED <<world, roots, locals, history>>

-----------------------------------------------------------------------------
(* AddRuntimeRoot and RemoveRuntimeRoot: the path is resolved before the   *)
(* lock is taken, the list is edited under it.  With runtime changes       *)
(* disabled both fail before they look at the path.                        *)

\* Mutants: a path that does not resolve is added all the same; the argument
\* itself is stored, not the directory it denotes.
AddResolve_Unchecked(c) ==
  /\ Goto(c, "add", IF AllowRuntime THEN "addLocked" ELSE "failed")
  /\ real' = [real EXCEPT ![c] = EvalSymlinks(fs, path[c])]
  /\ UNCHANGED <<world, roots, raw, path, at, list, dirs, history>>

AddResolve_AsWritten(c) ==
  LET resolved == EvalSymlinks(fs, path[c])
  IN  /\ Goto(c, "add", IF AllowRuntime /\ resolved # NoPath THEN "addStat" ELSE "failed")
      /\ real' = [real EXCEPT ![c] = path[c]]
      /\ UNCHANGED <<world, roots, raw, path, at, list, dirs, history>>

AddResolve(c) ==
  LET resolved == EvalSymlinks(fs, path[c])
  IN  /\ Goto(c, "add", IF AllowRuntime /\ resolved # NoPath THEN "addStat" ELSE "failed")
      /\ real' = [real EXCEPT ![c] = resolved]
      /\ UNCHANGED <<world, roots, raw, path, at, list, dirs, history>>

AddStat(c) ==
  /\ Goto(c, "addStat", IF IsDirectory(fs, real[c]) THEN "addLocked" ELSE "failed")
  /\ UNCHANGED <<world, roots, locals, history>>

\* A mutant: no test that the root is new.
AddRuntimeRoot_Again(c) ==
  /\ Goto(c, "addLocked", "added")
  /\ runtimeRoots' = Append(runtimeRoots, real[c])
  /\ UNCHANGED <<world, configRoots, protocolRoots, locals>>
  /\ Observe

AddRuntimeRoot(c) ==
  /\ Goto(c, "addLocked", "added")
  /\ runtimeRoots' = IF Contains(runtimeRoots, real[c]) THEN runtimeRoots
                     ELSE Append(runtimeRoots, real[c])
  /\ UNCHANGED <<world, configRoots, protocolRoots, locals>>
  /\ Observe

\* EvalSymlinks, or the written path when that fails ("best effort").
RemoveResolve(c) ==
  LET resolved == EvalSymlinks(fs, path[c])
  IN  /\ Goto(c, "remove", IF AllowRuntime THEN "removeLocked" ELSE "failed")
      /\ real' = [real EXCEPT ![c] = IF resolved = NoPath THEN path[c] ELSE resolved]
      /\ UNCHANGED <<world, roots, raw, path, at, list, dirs, history>>

\* The first entry equal to either path goes; the others stay.
RemoveRuntimeRoot(c) ==
  LET hits == {i \in DOMAIN runtimeRoots : runtimeRoots[i] \in {real[c], path[c]}}
  IN  /\ Goto(c, "removeLocked", "removed")
      /\ \/ hits = {} /\ UNCHANGED runtimeRoots
         \/ \E i \in hits : /\ \A j \in hits : i <= j
                           /\ runtimeRoots' = RemoveAt(runtimeRoots, i)
      /\ UNCHANGED <<world, configRoots, protocolRoots, locals>>
      /\ Observe

-----------------------------------------------------------------------------
(* The environment, which changes something at most MaxChanges times.      *)

Change == changes < MaxChanges /\ changes' = changes + 1

ClientChangesRoots ==
  /\ clientRoots' \in ClientAnswers \ {clientRoots}
  /\ Change
  /\ UNCHANGED <<fs, roots, pc, locals, history>>

FilesystemChanges ==
  /\ fs' \in FsStates \ {fs}
  /\ Change
  /\ UNCHANGED <<clientRoots, roots, pc, locals, history>>

PathStep(c) ==
  \/ ListRoots(c) \/ EvalRoot(c) \/ StatRoot(c) \/ InstallRoots(c)
  \/ Lexical(c) \/ EvalParent(c) \/ EvalFound(c) \/ CheckReal(c)

EditStep(c) ==
  \/ AddResolve(c) \/ AddStat(c) \/ AddRuntimeRoot(c)
  \/ RemoveResolve(c) \/ RemoveRuntimeRoot(c)

Next ==
  \/ \E c \in Calls : \/ BeginPathCall(c) \/ BeginAdd(c) \/ BeginRemove(c)
                      \/ PathStep(c) \/ EditStep(c) \/ Return(c)
  \/ ClientChangesRoots
  \/ FilesystemChanges

Spec == Init /\ [][Next]_vars

-----------------------------------------------------------------------------
(* Properties.                                                             *)

\* Every variable holds values of the kind the code gives it.
TypeOK ==
  /\ fs \in FsStates
  /\ clientRoots \in ClientAnswers
  /\ changes \in 0..MaxChanges
  /\ pc \in [Calls -> {"idle", "pull", "validate", "statRoot", "lexical", "eval", "check",
                       "accepted", "rejected", "add", "addStat", "addLocked",
                       "remove", "removeLocked", "added", "removed", "failed"}]
  /\ raw \in [Calls -> RawPaths \cup RawDirs \cup {NoPath}]
  /\ AllowedRoots \subseteq Paths
  /\ runtimeRoots \in Seq(Paths)
  /\ ever \in [Calls -> SUBSET Paths] /\ steady \in [Calls -> SUBSET Paths]

\* Resolve's two tests read the lists at different moments, and calls edit
\* them in between.  Whatever happens, a call is accepted only if both the
\* path it will use and the place its existing part leads to lay in roots
\* that were allowed while the call ran (sandbox.go:237, :247).
AcceptedWasAllowed ==
  \A c \in Calls : pc[c] = "accepted" =>
    /\ WithinAny(ever[c], path[c])
    /\ WithinAny(ever[c], real[c])

\* The other direction: a call is refused only if one of the two lay in no
\* root that was allowed all the time the call ran.  Root edits of other
\* calls never make a call fail on a directory that stays allowed.
RefusedHadCause ==
  \A c \in Calls : pc[c] = "rejected" =>
    \/ ~WithinAny(steady[c], path[c])
    \/ real[c] # NoPath /\ ~WithinAny(steady[c], real[c])

\* One remove_allowed_dir undoes any number of concurrent add_allowed_dir of
\* the same directory: the directory its argument denotes is no runtime root
\* when it ends (sandbox.go:109, :134).  The one exception is an argument that
\* is itself an entry, added when it was a directory and now a link.
RemoveIsFinal ==
  [][\A c \in Calls :
        /\ pc[c] = "removeLocked" /\ pc'[c] = "removed"
        /\ path[c] \notin ToSet(runtimeRoots) \ {real[c]}
        => real[c] \notin ToSet(runtimeRoots')]_vars

\* withinAnyRoot compares physical paths with roots, so a root that was not
\* itself physical would silently allow nothing: every root has been a path
\* without links, and has led to a directory.  Not at one moment: a file that
\* becomes a link between the two looks of resolveExistingDir
\* (sandbox.go:148, :152) is stored.
RootsArePhysical ==
  \A r \in AllowedRoots : /\ \E f \in FsStates : EvalSymlinks(f, r) = r
                          /\ \E f \in FsStates : IsDirectory(f, r)

(***************************************************************************)
(* What the code's comments say and the code does not do.                  *)
(***************************************************************************)

\* The directories an answer names.
ValidRoots(f, uris) == {ExistingDir(f, u) : u \in uris \ {NotFileURI}} \ {NoPath}

\* "Pulling fresh each call ... guarantees the roots in effect are never
\* stale" (internal/tools/tools.go:48): when a call comes to use the roots,
\* the client's are those its own pull returned or newer ones.  Stated for a
\* client that always answers and changes its roots at most once.
FreshRoots ==
  \A c \in Calls : pc[c] = "lexical" =>
    protocolRoots \in {dirs[c]} \cup {ValidRoots(f, clientRoots) : f \in FsStates}
=============================================================================
