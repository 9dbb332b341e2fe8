------------------------------ MODULE Session ------------------------------
(***************************************************************************)
(* mkdir, ls, rm and list_allowed_dirs on top of the sandbox: handlers     *)
(* that run at the same time, on a tree that they and other programs       *)
(* change.  Each handler refreshes the roots, has Resolve accept its path  *)
(* (module Sandbox) and then calls into package os with the path as it was *)
(* written.  One step is one look at the tree or one change of it.         *)
(*                                                                         *)
(* A directory that os.RemoveAll has open is known by its physical path:   *)
(* one that is removed and made again meanwhile counts as the same.  Of    *)
(* the errors of the operating system, permissions, loops of links and     *)
(* failing disks are left out.                                             *)
(***************************************************************************)
EXTENDS Sandbox

CONSTANT Requests  \* what each call may be asked for: the tool, "recursive"
                   \* and the argument, [op, rec, path]

Tools == {"mkdir", "ls", "rm", "list_allowed_dirs"}

\* ls and list_allowed_dirs have no argument "recursive"; "no path" is no
\* sequence, and so no place where mkdir could make something.
ASSUME SessionAssumption ==
  /\ \A c \in Calls : \A q \in Requests[c] :
       /\ q \in [op : Tools, rec : BOOLEAN, path : RawPaths]
       /\ q.op \in {"ls", "list_allowed_dirs"} => ~q.rec
  /\ 0 \in DOMAIN NoPath

VARIABLES
  request,  \* what each call was asked for
  work,     \* mkdir -p: the path it is at; ls: names left; rm -r: its stack
  answer,   \* the error code of its answer, "ok" or "none"
  out,      \* the entries or roots it lists
  \* History of a call, read by the properties alone:
  alone,    \* the tree it began with, as long as only it changes the tree
  kept      \* the tree it began with, as long as nobody else has removed or
            \* replaced anything

session     == <<request, work, answer, out, alone, kept>>
sessionVars == <<vars, session>>

NoRequest == [op |-> "none", rec |-> FALSE, path |-> NoPath]
NoTree    == << >>

SessionInit ==
  /\ Init
  /\ request = [c \in Calls |-> NoRequest]
  /\ work    = [c \in Calls |-> << >>]
  /\ answer  = [c \in Calls |-> "none"]
  /\ out     = [c \in Calls |-> {}]
  /\ alone   = [c \in Calls |-> NoTree]
  /\ kept    = [c \in Calls |-> NoTree]

\* What the others see of a change of the tree.
Noticed(others) ==
  /\ alone' = [c \in Calls |-> IF c \in others THEN NoTree ELSE alone[c]]
  /\ kept'  = [c \in Calls |-> IF c \in others /\ ~IsRestriction(fs, fs') THEN NoTree ELSE kept[c]]

Start(c) ==
  \E q \in Requests[c] :
    /\ Begin(c, "pull", q.path, NoPath)
    /\ request' = [request EXCEPT ![c] = q]
    /\ alone'   = [alone EXCEPT ![c] = fs]
    /\ kept'    = [kept EXCEPT ![c] = fs]
    /\ UNCHANGED <<work, answer, out>>

Finished == (Ended \ {"accepted"}) \cup {"answered"}

Finish(c) ==
  /\ pc[c] \in Finished
  /\ Forget(c)
  /\ request' = [request EXCEPT ![c] = NoRequest]
  /\ work'    = [work EXCEPT ![c] = << >>]
  /\ answer'  = [answer EXCEPT ![c] = "none"]
  /\ out'     = [out EXCEPT ![c] = {}]
  /\ alone'   = [alone EXCEPT ![c] = NoTree]
  /\ kept'    = [kept EXCEPT ![c] = NoTree]

-----------------------------------------------------------------------------
(* classify: os errors, by errno, made into codes.                         *)

\* errors.Is takes ENOTEMPTY for os.ErrExist too, so the order of the tests
\* counts.  A mutant: the test for os.ErrExist comes first.
classify_ExistFirst(errno) ==
  CASE errno = "none"                   -> "ok"
    [] errno = "ENOENT"                 -> "PATH_NOT_FOUND"
    [] errno \in {"EEXIST", "ENOTEMPTY"} -> "PATH_ALREADY_EXISTS"
    [] OTHER                            -> "IO_ERROR"

classify(errno) ==
  CASE errno = "none"                   -> "ok"
    [] errno = "ENOENT"                 -> "PATH_NOT_FOUND"
    [] errno = "ENOTEMPTY"              -> "DIRECTORY_NOT_EMPTY"
    [] errno = "EEXIST"                 -> "PATH_ALREADY_EXISTS"
    [] OTHER                            -> "IO_ERROR"

-----------------------------------------------------------------------------
(* Package os, on a tree f.                                                *)

\* Where the entry p itself lies: links on the way are followed, p is not.
Spot(f, p) ==
  LET dir == ExistingDir(f, Parent(p))
  IN  IF p = << >> THEN p ELSE IF dir = NoPath THEN NoPath ELSE Append(dir, Last(p))

Children(f, x)   == {y \in DOMAIN f : y # << >> /\ Parent(y) = x}
Below(f, x)      == {y \in DOMAIN f : IsPrefix(x, y)}
Without(f, gone) == Restrict(f, DOMAIN f \ gone)
WithDir(f, x)    == [y \in DOMAIN f \cup {x} |-> IF y \in DOMAIN f THEN f[y] ELSE Dir]

\* Why the way to p ends early.
WayErr(f, p) ==
  IF \E i \in 0..(Len(p) - 1) :
       LET x == EvalSymlinks(f, SubSeq(p, 1, i)) IN x # NoPath /\ f[x].kind # "dir"
  THEN "ENOTDIR" ELSE "ENOENT"

MkdirErr(f, p) ==
  LET x == Spot(f, p)
  IN  CASE x = NoPath -> WayErr(f, p)
        [] x \in DOMAIN f -> "EEXIST"
        [] OTHER -> "none"

\* os.Remove: unlink, then rmdir.  Nobody can remove "/".
RemoveErr(f, p) ==
  LET x == Spot(f, p)
  IN  CASE x = NoPath -> WayErr(f, p)
        [] x # NoPath /\ x \notin DOMAIN f -> "ENOENT"
        [] x = << >> -> "EBUSY"
        [] x \in DOMAIN f \ {<< >>} /\ Children(f, x) # {} -> "ENOTEMPTY"
        [] OTHER -> "none"

-----------------------------------------------------------------------------
(* The steps of a handler.                                                 *)

Handles(c, op, rec, step) == pc[c] = step /\ request[c].op = op /\ request[c].rec = rec

HandlerFrame == UNCHANGED <<clientRoots, changes, roots, locals, history, request>>

Untouched == UNCHANGED <<fs, alone, kept>>

Writes(c, tree) == fs' = tree /\ Noticed(Calls \ {c})

\* A mutant: the error that has been got over stays.
Goes_KeepsError(c, step, w) ==
  /\ pc'   = [pc EXCEPT ![c] = step]
  /\ work' = [work EXCEPT ![c] = w]
  /\ UNCHANGED <<answer, out>>

Goes(c, step, w) ==
  /\ pc'   = [pc EXCEPT ![c] = step]
  /\ work' = [work EXCEPT ![c] = w]
  /\ answer' = [answer EXCEPT ![c] = "none"]
  /\ UNCHANGED out

Replies(c, code, result) ==
  /\ pc'     = [pc EXCEPT ![c] = "answered"]
  /\ work'   = [work EXCEPT ![c] = << >>]
  /\ answer' = [answer EXCEPT ![c] = code]
  /\ out'    = [out EXCEPT ![c] = result]

\* A mutant: the launch roots alone.
ListAllowedDirs_Config(c) ==
  /\ Handles(c, "list_allowed_dirs", FALSE, "lexical")
  /\ Replies(c, "ok", ToSet(configRoots))
  /\ Untouched /\ HandlerFrame

ListAllowedDirs(c) ==
  /\ Handles(c, "list_allowed_dirs", FALSE, "lexical")
  /\ Replies(c, "ok", AllowedRoots)
  /\ Untouched /\ HandlerFrame

\* What a step finds is bound by \E rather than LET, so that TLC looks at the
\* tree once.
Mkdir(c) ==
  /\ Handles(c, "mkdir", FALSE, "accepted")
  /\ \E err \in {MkdirErr(fs, path[c])} :
       /\ IF err = "none" THEN \E x \in {Spot(fs, path[c])} : Writes(c, WithDir(fs, x))
          ELSE Untouched
       /\ Replies(c, classify(err), {})
  /\ HandlerFrame

-----------------------------------------------------------------------------
(* os.MkdirAll: up to what exists, and down again making directories.      *)

MkdirAll(c) ==
  /\ Handles(c, "mkdir", TRUE, "accepted")
  /\ Goes(c, "stat", path[c])
  /\ Untouched /\ HandlerFrame

StatUp(c) ==
  LET x == EvalSymlinks(fs, work[c])
  IN  /\ pc[c] = "stat"
      /\ \/ x = NoPath /\ Goes(c, "stat", Parent(work[c]))
         \/ x # NoPath /\ fs[x].kind # "dir" /\ Replies(c, classify("ENOTDIR"), {})
         \/ x # NoPath /\ fs[x].kind = "dir" /\ work[c] # path[c] /\ Goes(c, "make", work[c])
         \/ x # NoPath /\ fs[x].kind = "dir" /\ work[c] = path[c] /\ Replies(c, "ok", {})
      /\ Untouched /\ HandlerFrame

NextDown(c) == SubSeq(path[c], 1, Len(work[c]) + 1)

IsThere(c) ==
  IF NextDown(c) = path[c] THEN Replies(c, "ok", {}) ELSE Goes(c, "make", NextDown(c))

MakeDown(c) ==
  /\ pc[c] = "make"
  /\ \E err \in {MkdirErr(fs, NextDown(c))} :
       \/ /\ err = "none"
          /\ \E x \in {Spot(fs, NextDown(c))} : Writes(c, WithDir(fs, x))
          /\ IsThere(c)
       \/ /\ err # "none"
          /\ pc'     = [pc EXCEPT ![c] = "lstat"]
          /\ answer' = [answer EXCEPT ![c] = classify(err)]
          /\ UNCHANGED <<work, out>> /\ Untouched
  /\ HandlerFrame

\* A mutant: whoever lost the race to make a directory fails.
LstatDown_Fails(c) ==
  /\ pc[c] = "lstat"
  /\ Replies(c, answer[c], {})
  /\ Untouched /\ HandlerFrame

\* Mkdir failed; a directory that is there all the same will do.
LstatDown(c) ==
  LET x     == Spot(fs, NextDown(c))
      isDir == x \in DOMAIN fs /\ fs[x].kind = "dir"
  IN  /\ pc[c] = "lstat"
      /\ IF isDir THEN IsThere(c) ELSE Replies(c, answer[c], {})
      /\ Untouched /\ HandlerFrame

-----------------------------------------------------------------------------
(* ls: the names at one moment, what they are at later ones.               *)

ReadDir(c) ==
  LET x == EvalSymlinks(fs, path[c])
  IN  /\ Handles(c, "ls", FALSE, "accepted")
      /\ \/ x = NoPath /\ Replies(c, classify(WayErr(fs, path[c])), {})
         \/ x # NoPath /\ fs[x].kind # "dir" /\ Replies(c, classify("ENOTDIR"), {})
         \/ x # NoPath /\ fs[x].kind = "dir"
            /\ Goes(c, "info", SetToSeq({Last(y) : y \in Children(fs, x)}))
      /\ Untouched /\ HandlerFrame

\* A mutant: the entry is followed if it is a link.
Type_Followed(f, p) ==
  LET x == EvalSymlinks(f, p) IN IF x = NoPath THEN "other" ELSE f[x].kind

Type(f, p) ==
  LET x == Spot(f, p) IN IF x \in DOMAIN f THEN f[x].kind ELSE "other"

\* DirEntry.Info looks the entry up by its path; one that is gone stays in
\* the listing.
Info(c) ==
  LET name == Head(work[c])
  IN  /\ pc[c] = "info" /\ work[c] # << >>
      /\ out'  = [out EXCEPT ![c] = @ \cup {<<name, Type(fs, Append(path[c], name))>>}]
      /\ work' = [work EXCEPT ![c] = Tail(@)]
      /\ UNCHANGED <<pc, answer>> /\ Untouched /\ HandlerFrame

Listed(c) ==
  /\ pc[c] = "info" /\ work[c] = << >>
  /\ Replies(c, "ok", out[c])
  /\ Untouched /\ HandlerFrame

-----------------------------------------------------------------------------
(* rm: the test against the roots, then os.Remove or os.RemoveAll.         *)

\* A mutant: only the launch roots are protected.
Protected_Config(p) == p \in ToSet(configRoots)

Protected(p) == p \in AllowedRoots

GuardRoots(c) ==
  /\ pc[c] = "accepted" /\ request[c].op = "rm"
  /\ IF Protected(path[c]) THEN Replies(c, "PERMISSION_DENIED", {}) ELSE Goes(c, "rm", << >>)
  /\ Untouched /\ HandlerFrame

RemovesEntry(c, err) ==
  IF err = "none" THEN \E x \in {Spot(fs, path[c])} : Writes(c, Without(fs, {x})) ELSE Untouched

RemoveOne(c) ==
  /\ Handles(c, "rm", FALSE, "rm")
  /\ \E err \in {RemoveErr(fs, path[c])} : RemovesEntry(c, err) /\ Replies(c, classify(err), {})
  /\ HandlerFrame

\* os.RemoveAll tries Remove first, and takes what is missing for removed.
RemoveAll(c) ==
  /\ Handles(c, "rm", TRUE, "rm")
  /\ \E err \in {RemoveErr(fs, path[c])} :
       /\ RemovesEntry(c, err)
       /\ IF err \in {"none", "ENOENT"} THEN Replies(c, "ok", {}) ELSE Goes(c, "open", << >>)
  /\ HandlerFrame

Entry(x, listed) == [at |-> x, listed |-> listed]

OpenParent(c) ==
  LET x   == Spot(fs, path[c])
      err == WayErr(fs, path[c])
  IN  /\ pc[c] = "open"
      /\ \/ x # NoPath /\ Goes(c, "empty", <<Entry(x, FALSE)>>)
         \/ x = NoPath /\ Replies(c, IF err = "ENOENT" THEN "ok" ELSE classify(err), {})
      /\ Untouched /\ HandlerFrame

\* Done with an entry; an error of the outermost one is the call's.
Popped(c, err) ==
  IF Len(work[c]) = 1 THEN Replies(c, classify(err), {}) ELSE Goes(c, "empty", Tail(work[c]))

\* removeAllFrom: a directory is listed once, its entries are removed, then
\* it is; one that has got a new entry meanwhile cannot be.
Unlink(c) ==
  LET x == Head(work[c]).at
  IN  /\ pc[c] = "empty" /\ ~Head(work[c]).listed
      /\ \/ x \notin DOMAIN fs /\ Popped(c, "none") /\ Untouched
         \/ x \in DOMAIN fs /\ fs[x].kind # "dir" /\ Popped(c, "none") /\ Writes(c, Without(fs, {x}))
         \/ x \in DOMAIN fs /\ fs[x].kind = "dir" /\ Untouched
            /\ Goes(c, "empty", SetToSeq({Entry(y, FALSE) : y \in Children(fs, x)})
                                  \o <<Entry(x, TRUE)>> \o Tail(work[c]))
      /\ HandlerFrame

Rmdir(c) ==
  LET x == Head(work[c]).at
  IN  /\ pc[c] = "empty" /\ Head(work[c]).listed
      /\ \/ x \notin DOMAIN fs /\ Popped(c, "none") /\ Untouched
         \/ x \in DOMAIN fs /\ Untouched
            /\ \/ fs[x].kind # "dir" /\ Popped(c, "ENOTDIR")
               \/ x = << >> /\ Popped(c, "EBUSY")
               \/ x # << >> /\ Children(fs, x) # {} /\ Popped(c, "ENOTEMPTY")
         \/ x \in DOMAIN fs \ {<< >>} /\ fs[x].kind = "dir" /\ Children(fs, x) = {}
            /\ Popped(c, "none") /\ Writes(c, Without(fs, {x}))
      /\ HandlerFrame

-----------------------------------------------------------------------------
\* list_allowed_dirs ends where the others go on to Resolve.
SandboxStep(c) ==
  /\ PathStep(c) \/ EditStep(c)
  /\ ~Handles(c, "list_allowed_dirs", FALSE, "lexical")
  /\ UNCHANGED session

InFlight(c) == pc[c] \notin {"idle"} \cup Finished

Works(c) ==
  /\ InFlight(c)
  /\ \/ SandboxStep(c) \/ ListAllowedDirs(c) \/ Mkdir(c)
     \/ MkdirAll(c) \/ StatUp(c) \/ MakeDown(c) \/ LstatDown(c)
     \/ ReadDir(c) \/ Info(c) \/ Listed(c)
     \/ GuardRoots(c) \/ RemoveOne(c) \/ RemoveAll(c) \/ OpenParent(c) \/ Unlink(c) \/ Rmdir(c)

\* Without -allow-runtime-roots the two tools are not registered; whoever
\* calls AddRuntimeRoot or RemoveRuntimeRoot all the same is turned down.
Edits(c) == (BeginAdd(c) \/ BeginRemove(c)) /\ UNCHANGED session

OthersWrite ==
  /\ FilesystemChanges
  /\ Noticed(Calls)
  /\ UNCHANGED <<request, work, answer, out>>

SessionNext ==
  \/ \E c \in Calls : Start(c) \/ Edits(c) \/ Works(c) \/ Finish(c)
  \/ ClientChangesRoots /\ UNCHANGED session
  \/ OthersWrite

\* A goroutine that can run does run, and a roots/list request is answered
\* or fails; nobody has to call, and other programs owe the server nothing.
SessionSpec == SessionInit /\ [][SessionNext]_sessionVars
               /\ \A c \in Calls : WF_sessionVars(Works(c))

-----------------------------------------------------------------------------
(* Properties.                                                             *)

\* Every variable holds values of the kind the code gives it.
SessionTypeOK ==
  /\ WellFormedFS(fs)
  /\ \A c \in Calls : request[c] \in Requests[c] \cup {NoRequest}
  /\ \A c \in Calls :
       /\ answer[c] \in {"none", "ok", "IO_ERROR", "PATH_NOT_FOUND", "PATH_ALREADY_EXISTS",
                         "DIRECTORY_NOT_EMPTY", "PERMISSION_DENIED"}
       /\ answer[c] # "none" <=> pc[c] \in {"answered", "lstat"}
       /\ pc[c] = "empty" => work[c] # << >>
  /\ ~AllowRuntime => runtimeRoots = << >>

Moves(c) == pc'[c] # pc[c] \/ work'[c] # work[c]

\* The handlers hand package os the path as it was written, which Resolve
\* has checked before (sandbox.go:259): while nobody else changes the tree,
\* all that a call makes or removes lies in a root that was allowed while it
\* ran, or is a link that leads into one.
ActsInside ==
  [][\A c \in Calls : Moves(c) /\ alone[c] # NoTree =>
        \A x \in (DOMAIN fs \ DOMAIN fs') \cup (DOMAIN fs' \ DOMAIN fs) :
          LET leads == EvalSymlinks(fs, x)
          IN  \E r \in ever[c] : IsPrefix(r, x) \/ (leads # NoPath /\ IsPrefix(r, leads))]_sessionVars

\* The tools as their pages describe them, on a tree nobody else changes.
Outcome(code, tree, result) == [code |-> code, tree |-> tree, out |-> result]

Expected(f, q, p) ==
  LET x       == Spot(f, p)
      real_   == EvalSymlinks(f, p)
      blocked == IF WayErr(f, p) = "ENOENT" THEN "PATH_NOT_FOUND" ELSE "IO_ERROR"
      exists  == {n \in 0..Len(p) : EvalSymlinks(f, SubSeq(p, 1, n)) # NoPath}
      deepest == CHOOSE n \in exists : \A m \in exists : m <= n
      base    == EvalSymlinks(f, SubSeq(p, 1, deepest))
      missing == {base \o SubSeq(p, deepest + 1, n) : n \in (deepest + 1)..Len(p)}
      With(made)  == [y \in DOMAIN f \cup made |-> IF y \in DOMAIN f THEN f[y] ELSE Dir]
      Is(op, rec) == q.op = op /\ q.rec = rec
  IN  CASE Is("mkdir", FALSE) ->
             IF x = NoPath THEN Outcome(blocked, f, {})
             ELSE IF x \in DOMAIN f THEN Outcome("PATH_ALREADY_EXISTS", f, {})
             ELSE Outcome("ok", With({x}), {})
        [] Is("mkdir", TRUE) ->
             IF f[base].kind # "dir" THEN Outcome("IO_ERROR", f, {})
             ELSE IF missing \cap DOMAIN f # {} THEN Outcome("PATH_ALREADY_EXISTS", f, {})
             ELSE Outcome("ok", With(missing), {})
        [] Is("ls", FALSE) ->
             IF real_ = NoPath THEN Outcome(blocked, f, {})
             ELSE IF f[real_].kind # "dir" THEN Outcome("IO_ERROR", f, {})
             ELSE Outcome("ok", f, {<<Last(y), f[y].kind>> : y \in Children(f, real_)})
        [] Is("rm", FALSE) ->
             IF x = NoPath THEN Outcome(blocked, f, {})
             ELSE IF x \notin DOMAIN f THEN Outcome("PATH_NOT_FOUND", f, {})
             ELSE IF x = << >> THEN Outcome("IO_ERROR", f, {})
             ELSE IF Below(f, x) # {x} THEN Outcome("DIRECTORY_NOT_EMPTY", f, {})
             ELSE Outcome("ok", Without(f, {x}), {})
        [] Is("rm", TRUE) ->
             IF x = NoPath /\ blocked = "IO_ERROR" THEN Outcome("IO_ERROR", f, {})
             ELSE IF x = << >> THEN Outcome("IO_ERROR", Without(f, Below(f, x) \ {x}), {})
             ELSE Outcome("ok", IF x = NoPath THEN f ELSE Without(f, Below(f, x)), {})

\* A call that runs on a tree of its own does and answers just what its tool
\* is for, however many looks and changes it takes: mkdir -p makes what is
\* missing, rm removes one entry and rm -r all below it, never what a link
\* leads to, and every refusal names its cause (tools.go:454, :498, :554).
UndisturbedIsExact ==
  \A c \in Calls :
    /\ pc[c] = "answered" /\ alone[c] # NoTree
    /\ request[c].op # "list_allowed_dirs" /\ answer[c] # "PERMISSION_DENIED"
    => Outcome(answer[c], fs, out[c]) = Expected(alone[c], request[c], path[c])

\* Calls that make the same directories do not fail each other's mkdir -p:
\* as long as nothing is removed, the directory is there when the call says
\* so, and if it fails, something else than a directory is in the way, where
\* no directory was when the call began (tools.go:454).
MkdirsDoNotCollide ==
  \A c \in Calls :
    pc[c] = "answered" /\ kept[c] # NoTree /\ request[c].op = "mkdir" /\ request[c].rec =>
      IF answer[c] = "ok" THEN ExistingDir(fs, path[c]) # NoPath
      ELSE \E i \in 1..Len(path[c]) :
             LET p == SubSeq(path[c], 1, i)
                 x == Spot(fs, p)
             IN  x \in DOMAIN fs /\ fs[x].kind # "dir" /\ ExistingDir(kept[c], p) = NoPath

\* ls reads the names first and each entry's type later: as long as nothing
\* is removed, every line of the listing is true when it is handed over, and
\* "other" never appears (tools.go:504).
ListedIsThere ==
  \A c \in Calls :
    pc[c] = "answered" /\ kept[c] # NoTree /\ request[c].op = "ls" =>
      \A line \in out[c] : LET x == Spot(fs, Append(path[c], line[1]))
                           IN  x \in DOMAIN fs /\ line[2] = fs[x].kind

\* No call removes a directory that was an allowed root all the time it ran,
\* by that directory's own path: the test comes before the removal, and the
\* lists are another call's to replace meanwhile (tools.go:544).
RootsAreNotRemoved ==
  [][\A c \in Calls :
        Moves(c) => \A r \in steady[c] : r \in DOMAIN fs \ DOMAIN fs' => r # path[c]]_sessionVars

\* list_allowed_dirs reads the three lists together, after its own refresh:
\* no root that stays allowed is missing from its answer, and nothing is in
\* it that was not allowed while the call ran (tools.go:795).
ListedAreRoots ==
  \A c \in Calls :
    pc[c] = "answered" /\ request[c].op = "list_allowed_dirs" =>
      steady[c] \subseteq out[c] /\ out[c] \subseteq ever[c]

\* Every call that began comes to an answer, however often the tree and the
\* lists change under it: the climbs of Resolve and MkdirAll reach "/", and
\* RemoveAll lists a directory once.
CallsReturn ==
  \A c \in Calls : InFlight(c) ~> pc[c] \in Finished
=============================================================================
