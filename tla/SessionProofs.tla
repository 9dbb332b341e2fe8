--------------------------- MODULE SessionProofs ----------------------------
(***************************************************************************)
(* What Session.tla promises: about the roots, that its trees stay trees,  *)
(* and where calls act, for every number of calls, every request and any   *)
(* change of the tree and of the roots while the calls run.  And that a    *)
(* call whose tree nobody else changes does just what its tool is for:     *)
(* mkdir, mkdir -p, ls, rm and rm -r, each in as many steps as its path,   *)
(* its directory or its tree has it take, and whatever tree it starts on.  *)
(***************************************************************************)
EXTENDS Session, SandboxProofs

Removing == {"rm", "open", "empty"}
Listing  == {"pull", "validate", "statRoot", "lexical", "answered"}

\* Every map has the calls for its keys.
Shapes ==
  /\ DOMAIN pc = Calls /\ DOMAIN path = Calls /\ DOMAIN request = Calls
  /\ DOMAIN work = Calls /\ DOMAIN answer = Calls /\ DOMAIN out = Calls
  /\ DOMAIN ever = Calls /\ DOMAIN steady = Calls

\* A call that has nothing to do was asked for nothing, list_allowed_dirs
\* never gets to Resolve, and the edits of the lists are refused when they
\* are disabled.
RequestOK(c) ==
  /\ request[c] \in Requests[c] \cup {NoRequest}
  /\ pc[c] = "idle" => request[c] = NoRequest
  /\ request[c].op = "list_allowed_dirs" => pc[c] \in Listing
  /\ ~AllowRuntime => pc[c] \notin {"addStat", "addLocked", "removeLocked"}

\* The roots that count lie between the two histories of a call in flight.
RootsBracketed(c) ==
  pc[c] # "idle" => steady[c] \subseteq AllowedRoots /\ AllowedRoots \subseteq ever[c]

\* Once rm has got past its test, what it is to remove is no root that was
\* allowed all the time.
GuardPassed(c) == pc[c] \in Removing => path[c] \notin steady[c]

\* What list_allowed_dirs answers was right while it ran.
ListingOK(c) ==
  pc[c] = "answered" /\ request[c].op = "list_allowed_dirs" =>
    steady[c] \subseteq out[c] /\ out[c] \subseteq ever[c]

RootsOK(c) == RequestOK(c) /\ RootsBracketed(c) /\ GuardPassed(c) /\ ListingOK(c)

RootsInv == Shapes /\ (\A c \in Calls : RootsOK(c)) /\ (~AllowRuntime => runtimeRoots = << >>)

\* The steps that are no step of the sandbox.
Handling(c) ==
  \/ ListAllowedDirs(c) \/ Mkdir(c)
  \/ MkdirAll(c) \/ StatUp(c) \/ MakeDown(c) \/ LstatDown(c)
  \/ ReadDir(c) \/ Info(c) \/ Listed(c)
  \/ GuardRoots(c) \/ RemoveOne(c) \/ RemoveAll(c) \/ OpenParent(c) \/ Unlink(c) \/ Rmdir(c)

\* The steps of the sandbox that edit no list.
Looking(c) ==
  \/ ListRoots(c) \/ EvalRoot(c) \/ StatRoot(c)
  \/ Lexical(c) \/ EvalParent(c) \/ EvalFound(c) \/ CheckReal(c)
  \/ AddResolve(c) \/ AddStat(c) \/ RemoveResolve(c)

Editing(c) == InstallRoots(c) \/ AddRuntimeRoot(c) \/ RemoveRuntimeRoot(c)

-----------------------------------------------------------------------------
(* What the steps of each kind have in common.                             *)

\* Only list_allowed_dirs answers with roots, those of the moment; and rm goes
\* on to the removal only past its test.
LEMMA HandlingFacts ==
  ASSUME RootsInv, NEW c \in Calls, Handling(c)
  PROVE  /\ UNCHANGED <<roots, history, request, path>> /\ Shapes'
         /\ \A o \in Calls \ {c} : UNCHANGED <<pc[o], work[o], answer[o], out[o]>>
         /\ pc[c] \notin {"idle", "answered", "pull", "validate", "statRoot"}
         /\ pc'[c] \in {"stat", "make", "lstat", "info", "answered"} \cup Removing
         /\ pc'[c] \in Removing => pc[c] \in Removing \/ path[c] \notin AllowedRoots
         /\ request[c].op = "list_allowed_dirs" =>
              pc'[c] = "answered" /\ out'[c] = AllowedRoots
<1>. USE DEF RootsInv, Shapes, RootsOK, RequestOK, Listing, Removing, HandlerFrame, Handles,
             roots, locals, history, Goes, Replies
<1>1. CASE ListAllowedDirs(c)
  BY <1>1 DEF ListAllowedDirs
<1>2. CASE Mkdir(c) \/ MkdirAll(c) \/ ReadDir(c)
  BY <1>2 DEF Mkdir, MkdirAll, ReadDir
<1>3. CASE StatUp(c)
  BY <1>3 DEF StatUp
<1>4. CASE MakeDown(c) \/ LstatDown(c)
  BY <1>4 DEF MakeDown, LstatDown, IsThere
<1>5. CASE Info(c) \/ Listed(c)
  BY <1>5 DEF Info, Listed
<1>6. CASE GuardRoots(c)
  BY <1>6 DEF GuardRoots, Protected
<1>7. CASE RemoveOne(c) \/ RemoveAll(c) \/ OpenParent(c)
  BY ZenonT(60), <1>7 DEF RemoveOne, RemoveAll, OpenParent
<1>8. CASE Unlink(c) \/ Rmdir(c)
  BY ZenonT(60), <1>8 DEF Unlink, Rmdir, Popped
<1>. QED
  BY <1>1, <1>2, <1>3, <1>4, <1>5, <1>6, <1>7, <1>8 DEF Handling
\* The steps of the sandbox leave what the handlers keep alone, and a listing
\* call stays away from Resolve.
LEMMA LookingFacts ==
  ASSUME RootsInv, NEW c \in Calls, Looking(c), UNCHANGED session,
         ~Handles(c, "list_allowed_dirs", FALSE, "lexical")
  PROVE  /\ UNCHANGED <<fs, roots, history>> /\ Shapes'
         /\ \A o \in Calls \ {c} : UNCHANGED <<pc[o], path[o]>>
         /\ pc[c] # "idle"
         /\ pc'[c] \notin {"idle", "answered"} \cup Removing
         /\ request[c].op = "list_allowed_dirs" => pc'[c] \in Listing
         /\ ~AllowRuntime => pc'[c] \notin {"addStat", "addLocked", "removeLocked"}
<1>. USE DEF RootsInv, Shapes, RootsOK, RequestOK, Listing, Removing, Handles, Goto,
             roots, locals, history, world, session
<1>1. request[c].op = "list_allowed_dirs" => ~request[c].rec /\ pc[c] # "lexical"
  BY SessionAssumption DEF NoRequest
<1>2. CASE ListRoots(c) \/ EvalRoot(c) \/ StatRoot(c)
  BY <1>1, <1>2 DEF ListRoots, EvalRoot, StatRoot
<1>3. CASE Lexical(c) \/ EvalParent(c)
  BY <1>1, <1>3 DEF Lexical, EvalParent
<1>4. CASE EvalFound(c) \/ CheckReal(c)
  BY <1>1, <1>4 DEF EvalFound, CheckReal
<1>5. CASE AddResolve(c) \/ AddStat(c) \/ RemoveResolve(c)
  BY <1>1, <1>5 DEF AddResolve, AddStat, RemoveResolve
<1>. QED
  BY <1>2, <1>3, <1>4, <1>5 DEF Looking

LEMMA EditingFacts ==
  ASSUME RootsInv, NEW c \in Calls, Editing(c), UNCHANGED session
  PROVE  /\ Observe /\ UNCHANGED <<fs, path>> /\ Shapes'
         /\ \A o \in Calls \ {c} : UNCHANGED pc[o]
         /\ pc[c] # "idle" /\ pc'[c] \in {"lexical", "added", "removed"}
         /\ request[c].op = "list_allowed_dirs" => pc'[c] = "lexical"
         /\ ~AllowRuntime => UNCHANGED runtimeRoots
<1>. USE DEF RootsInv, Shapes, RootsOK, RequestOK, Listing, Goto, Observe, locals, world, session
<1>1. CASE InstallRoots(c)
  BY <1>1 DEF InstallRoots
<1>2. CASE AddRuntimeRoot(c)
  BY <1>2 DEF AddRuntimeRoot
<1>3. CASE RemoveRuntimeRoot(c)
  BY <1>3 DEF RemoveRuntimeRoot
<1>. QED
  BY <1>1, <1>2, <1>3 DEF Editing

-----------------------------------------------------------------------------
(* The invariant of the roots.                                             *)

LEMMA RootsInvInit == SessionInit => RootsInv
  BY DEF SessionInit, Init, RootsInv, Shapes, RootsOK, RequestOK, RootsBracketed,
         GuardPassed, ListingOK, NoRequest, Removing

LEMMA RootsInvStep == RootsInv /\ [SessionNext]_sessionVars => RootsInv'
<1>. SUFFICES ASSUME RootsInv, [SessionNext]_sessionVars PROVE RootsInv'
  OBVIOUS
<1>. USE DEF RootsInv, RootsOK
<1>1. ASSUME NEW c \in Calls, Start(c) \/ Edits(c) PROVE RootsInv'
  <2>1. /\ Shapes' /\ UNCHANGED <<roots, AllowedRoots, work, answer, out>>
        /\ pc[c] = "idle" /\ pc'[c] \in {"pull", "add", "remove"}
        /\ ever'[c] = AllowedRoots /\ steady'[c] = AllowedRoots
        /\ \A o \in Calls \ {c} :
             UNCHANGED <<pc[o], path[o], request[o], ever[o], steady[o]>>
    BY <1>1 DEF Start, Edits, BeginAdd, BeginRemove, Begin, Goto, Shapes, AllowedRoots,
                roots, session
  <2>2. RequestOK(c)'
    <3>1. CASE Start(c)
      BY <2>1, <3>1 DEF Start, Begin, Goto, Shapes, RequestOK, Listing
    <3>2. CASE Edits(c)
      BY <2>1, <3>2 DEF Edits, session, RequestOK, NoRequest
    <3>. QED  BY <1>1, <3>1, <3>2
  <2>. QED
    BY <2>1, <2>2 DEF RequestOK, RootsBracketed, GuardPassed, ListingOK, Removing, roots
<1>2. ASSUME NEW c \in Calls, Finish(c) PROVE RootsInv'
  BY <1>2 DEF Finish, Forget, Shapes, RequestOK, RootsBracketed, GuardPassed, ListingOK,
              Removing, AllowedRoots, NoRequest, roots, world
<1>3. ASSUME NEW c \in Calls, Handling(c) PROVE RootsInv'
  BY <1>3, HandlingFacts DEF RequestOK, RootsBracketed, GuardPassed, ListingOK, Listing,
                             Removing, AllowedRoots, roots, history
<1>4. ASSUME NEW c \in Calls, Looking(c), UNCHANGED session,
             ~Handles(c, "list_allowed_dirs", FALSE, "lexical")
      PROVE  RootsInv'
  BY ZenonT(60), <1>4, LookingFacts DEF RequestOK, RootsBracketed, GuardPassed, ListingOK, Removing,
                            AllowedRoots, roots, history, session
<1>5. ASSUME NEW c \in Calls, Editing(c), UNCHANGED session PROVE RootsInv'
  <2>1. Shapes' /\ (~AllowRuntime => runtimeRoots' = << >>)
    BY <1>5, EditingFacts
  <2>2. ASSUME NEW o \in Calls PROVE RootsOK(o)'
    <3>1. CASE pc[o] = "idle"
      BY <1>5, <3>1, EditingFacts
         DEF RequestOK, RootsBracketed, GuardPassed, ListingOK, Removing, session
    <3>2. CASE pc[o] # "idle"
      <4>1. /\ ever'[o] = ever[o] \cup AllowedRoots'
            /\ steady'[o] = steady[o] \cap AllowedRoots'
        BY <1>5, <3>2, EditingFacts DEF Observe
      <4>. QED
        BY <1>5, <4>1, EditingFacts DEF RequestOK, RootsBracketed, GuardPassed, ListingOK,
                                        Listing, Removing, session
    <3>. QED  BY <3>1, <3>2
  <2>. QED  BY <2>1, <2>2
<1>6. CASE OthersWrite \/ (ClientChangesRoots /\ UNCHANGED session) \/ UNCHANGED sessionVars
  BY <1>6 DEF OthersWrite, FilesystemChanges, ClientChangesRoots, sessionVars, vars, Shapes,
              RequestOK, RootsBracketed, GuardPassed, ListingOK, Removing, AllowedRoots,
              roots, locals, history, session
<1>7. ASSUME NEW c \in Calls, Works(c) PROVE RootsInv'
  BY <1>3, <1>4, <1>5, <1>7 DEF Works, SandboxStep, PathStep, EditStep, Handling, Looking, Editing
<1>. QED
  BY <1>1, <1>2, <1>6, <1>7 DEF SessionNext

LEMMA RootsInvAlways == SessionSpec => []RootsInv
  BY RootsInvInit, RootsInvStep, PTL DEF SessionSpec

\* list_allowed_dirs, for any number of calls that edit the lists meanwhile:
\* no root that stays allowed is missing, none is listed that never was.
THEOREM ListedAlwaysAreRoots == SessionSpec => []ListedAreRoots
<1>1. RootsInv => ListedAreRoots
  BY DEF RootsInv, RootsOK, ListingOK, ListedAreRoots
<1>. QED  BY <1>1, RootsInvAlways, PTL

-----------------------------------------------------------------------------
(* What a step may remove.                                                 *)

LEMMA StepRemovesNoRoot ==
  RootsInv /\ [SessionNext]_sessionVars =>
    [\A c \in Calls :
       Moves(c) => \A r \in steady[c] : r \in DOMAIN fs \ DOMAIN fs' => r # path[c]]_sessionVars
<1>. DEFINE Spares(c) ==
       Moves(c) => \A r \in steady[c] : r \in DOMAIN fs \ DOMAIN fs' => r # path[c]
<1>. SUFFICES ASSUME RootsInv, SessionNext PROVE \A c \in Calls : Spares(c)
  BY DEF sessionVars
<1>1. ASSUME NEW c \in Calls, Handling(c), NEW o \in Calls PROVE Spares(o)
  <2>1. CASE o # c
    BY <1>1, <2>1, HandlingFacts DEF Moves
  <2>2. CASE o = c /\ pc[c] \in Removing
    BY <2>2 DEF RootsInv, RootsOK, GuardPassed
  <2>3. CASE o = c /\ pc[c] \notin Removing
    <3>1. \/ UNCHANGED fs
          \/ \E x : fs' = WithDir(fs, x)
      BY <1>1, <2>3 DEF Handling, Removing, Handles, Untouched, Writes, ListAllowedDirs, Mkdir,
           MkdirAll, StatUp, MakeDown, LstatDown, ReadDir, Info, Listed, GuardRoots,
           RemoveOne, RemoveAll, OpenParent, Unlink, Rmdir
    <3>2. DOMAIN fs \subseteq DOMAIN fs'
      BY <3>1 DEF WithDir
    <3>. QED  BY <2>3, <3>2
  <2>. QED  BY <2>1, <2>2, <2>3
<1>2. UNCHANGED fs => \A c \in Calls : Spares(c)
  OBVIOUS
<1>3. ASSUME NEW c \in Calls, Start(c) \/ Edits(c) \/ Finish(c) PROVE UNCHANGED fs
  BY <1>3 DEF Start, Edits, Finish, BeginAdd, BeginRemove, Begin, Forget, world
<1>4. ASSUME NEW c \in Calls, SandboxStep(c) PROVE UNCHANGED fs
  BY <1>4, LookingFacts, EditingFacts DEF SandboxStep, PathStep, EditStep, Looking, Editing
<1>5. OthersWrite => \A c \in Calls : ~Moves(c)
  BY DEF OthersWrite, FilesystemChanges, Moves
<1>6. ClientChangesRoots => UNCHANGED fs
  BY DEF ClientChangesRoots
<1>7. ASSUME NEW c \in Calls, Works(c) PROVE \A o \in Calls : Spares(o)
  BY <1>1, <1>2, <1>4, <1>7 DEF Works, Handling
<1>. QED
  BY <1>2, <1>3, <1>5, <1>6, <1>7 DEF SessionNext

\* No call removes a directory by its own path that was a root all the time
\* the call ran, however the lists change between its test and its removal.
THEOREM RootsAreNeverRemoved == SessionSpec => RootsAreNotRemoved
  BY RootsInvAlways, StepRemovesNoRoot, PTL DEF SessionSpec, RootsAreNotRemoved

-----------------------------------------------------------------------------
(* Trees.                                                                  *)

\* Where an entry can be made, there is a directory to make it in.
LEMMA SpotHasParent ==
  ASSUME NEW f, WellFormedFS(f), NEW p, Spot(f, p) # NoPath, Spot(f, p) \notin DOMAIN f
  PROVE  \E d \in DOMAIN f : f[d].kind = "dir" /\ Spot(f, p) = Append(d, Last(p))
  BY DEF Spot, WellFormedFS, ExistingDir, EvalSymlinks

LEMMA WithDirWellFormed ==
  ASSUME NEW f, WellFormedFS(f), NEW x, x \notin DOMAIN f,
         NEW d \in DOMAIN f, f[d].kind = "dir", NEW n, x = Append(d, n)
  PROVE  WellFormedFS(WithDir(f, x))
<1>1. IsFiniteSet(DOMAIN f \cup {x})
  BY FS_AddElement DEF WellFormedFS
<1>2. x \in Seq(ToSet(x)) /\ x # << >> /\ Parent(x) = d
  BY AppendIsSeq DEF WellFormedFS, IsSeq, Parent
<1>. QED
  BY <1>1, <1>2 DEF WellFormedFS, WithDir

\* What is not the root and has nothing below it can go.
LEMMA WithoutWellFormed ==
  ASSUME NEW f, WellFormedFS(f), NEW x, x # << >>, x \in DOMAIN f,
         f[x].kind # "dir" \/ Children(f, x) = {}
  PROVE  WellFormedFS(Without(f, {x}))
<1>1. IsFiniteSet(DOMAIN f \ {x})
  BY FS_RemoveElement DEF WellFormedFS
<1>2. \A p \in DOMAIN f : p # << >> => Parent(p) # x
  BY DEF WellFormedFS, Children
<1>. QED
  BY <1>1, <1>2 DEF WellFormedFS, Without, Restrict

LEMMA MkdirWellFormed ==
  ASSUME NEW f, WellFormedFS(f), NEW p, MkdirErr(f, p) = "none"
  PROVE  WellFormedFS(WithDir(f, Spot(f, p)))
<1>1. Spot(f, p) # NoPath /\ Spot(f, p) \notin DOMAIN f
  BY DEF MkdirErr, WayErr
<1>2. PICK d \in DOMAIN f : f[d].kind = "dir" /\ Spot(f, p) = Append(d, Last(p))
  BY <1>1, SpotHasParent
<1>. QED  BY <1>1, <1>2, WithDirWellFormed

LEMMA RemoveWellFormed ==
  ASSUME NEW f, WellFormedFS(f), NEW p, RemoveErr(f, p) = "none"
  PROVE  WellFormedFS(Without(f, {Spot(f, p)}))
<1>1. Spot(f, p) # << >> /\ Spot(f, p) \in DOMAIN f /\ Children(f, Spot(f, p)) = {}
  BY DEF RemoveErr, WayErr
<1>. QED  BY <1>1, WithoutWellFormed

-----------------------------------------------------------------------------
(* The invariant of the trees and the answers.                             *)

Codes == {"ok", "IO_ERROR", "PATH_NOT_FOUND", "PATH_ALREADY_EXISTS", "DIRECTORY_NOT_EMPTY",
          "PERMISSION_DENIED"}

\* A call has an error code exactly when it has answered or looks whether a
\* failed Mkdir matters, and the stack of rm -r is a sequence, not empty.
AnswerOK(c) ==
  /\ answer[c] \in Codes \cup {"none"}
  /\ answer[c] # "none" <=> pc[c] \in {"answered", "lstat"}
  /\ pc[c] = "empty" => IsSeq(work[c]) /\ work[c] # << >>

TreeInv == RootsInv /\ WellFormedFS(fs) /\ \A c \in Calls : AnswerOK(c)

LEMMA classifyIsCode == ASSUME NEW err PROVE classify(err) \in Codes
  BY DEF classify, Codes

\* Whatever a handler does to a tree, it stays one.
LEMMA HandlingKeepsTree ==
  ASSUME TreeInv, NEW c \in Calls, Handling(c)
  PROVE  WellFormedFS(fs)'
<1>. USE DEF TreeInv, Untouched, Writes
<1>1. CASE UNCHANGED fs
  BY <1>1
<1>2. ASSUME NEW p, MkdirErr(fs, p) = "none", fs' = WithDir(fs, Spot(fs, p))
      PROVE  WellFormedFS(fs)'
  BY <1>2, MkdirWellFormed
<1>3. ASSUME NEW p, RemoveErr(fs, p) = "none", fs' = Without(fs, {Spot(fs, p)})
      PROVE  WellFormedFS(fs)'
  BY <1>3, RemoveWellFormed
<1>4. ASSUME NEW x \in DOMAIN fs, fs' = Without(fs, {x}),
             \/ fs[x].kind # "dir"
             \/ x # << >> /\ Children(fs, x) = {}
      PROVE  WellFormedFS(fs)'
  <2>1. x # << >>
    BY <1>4 DEF WellFormedFS, Dir
  <2>. QED  BY <1>4, <2>1, WithoutWellFormed
<1>5. CASE Mkdir(c) \/ MakeDown(c)
  BY <1>1, <1>2, <1>5 DEF Mkdir, MakeDown
<1>6. CASE RemoveOne(c) \/ RemoveAll(c)
  BY <1>1, <1>3, <1>6 DEF RemoveOne, RemoveAll, RemovesEntry
<1>7. CASE Unlink(c) \/ Rmdir(c)
  BY <1>1, <1>4, <1>7 DEF Unlink, Rmdir
<1>8. CASE \/ ListAllowedDirs(c) \/ MkdirAll(c) \/ StatUp(c) \/ LstatDown(c)
           \/ ReadDir(c) \/ Info(c) \/ Listed(c) \/ GuardRoots(c) \/ OpenParent(c)
  BY <1>1, <1>8 DEF ListAllowedDirs, MkdirAll, StatUp, LstatDown, ReadDir, Info, Listed,
                    GuardRoots, OpenParent
<1>. QED
  BY <1>5, <1>6, <1>7, <1>8 DEF Handling

\* What a handler answers has a code, and its stack stays a stack.
LEMMA HandlingKeepsAnswer ==
  ASSUME TreeInv, NEW c \in Calls, Handling(c)
  PROVE  AnswerOK(c)'
<1>. USE DEF TreeInv, RootsInv, Shapes
<1>1. ASSUME NEW code \in Codes, NEW result, Replies(c, code, result) PROVE AnswerOK(c)'
  BY <1>1 DEF Replies, AnswerOK, Codes
<1>2. ASSUME NEW step \in {"stat", "make", "info", "rm", "open"}, NEW w, Goes(c, step, w)
      PROVE  AnswerOK(c)'
  BY <1>2 DEF Goes, AnswerOK
<1>3. ASSUME NEW w, IsSeq(w), w # << >>, Goes(c, "empty", w) PROVE AnswerOK(c)'
  BY <1>3 DEF Goes, AnswerOK
<1>4. {"ok", "PERMISSION_DENIED"} \subseteq Codes /\ \A err : classify(err) \in Codes
  BY classifyIsCode DEF Codes
<1>5. CASE IsThere(c)
  BY <1>1, <1>2, <1>4, <1>5 DEF IsThere
<1>6. CASE ListAllowedDirs(c) \/ Mkdir(c) \/ MkdirAll(c) \/ StatUp(c)
  BY <1>1, <1>2, <1>4, <1>6 DEF ListAllowedDirs, Mkdir, MkdirAll, StatUp
<1>7. CASE MakeDown(c)
  <2>1. CASE /\ pc' = [pc EXCEPT ![c] = "lstat"]
             /\ \E err : answer' = [answer EXCEPT ![c] = classify(err)]
    BY <1>4, <2>1 DEF AnswerOK, Codes
  <2>. QED  BY <1>5, <1>7, <2>1 DEF MakeDown
<1>8. CASE LstatDown(c)
  <2>1. answer[c] \in Codes
    BY <1>8 DEF LstatDown, AnswerOK, Codes
  <2>. QED  BY <1>1, <1>5, <1>8, <2>1 DEF LstatDown
<1>9. CASE ReadDir(c) \/ Listed(c) \/ GuardRoots(c)
  BY <1>1, <1>2, <1>4, <1>9 DEF ReadDir, Listed, GuardRoots
<1>10. CASE Info(c)
  BY <1>10 DEF Info, AnswerOK
<1>11. CASE RemoveOne(c) \/ RemoveAll(c)
  BY <1>1, <1>2, <1>4, <1>11 DEF RemoveOne, RemoveAll
<1>12. ASSUME NEW x PROVE IsSeq(<<x>>) /\ <<x>> # << >>
  <2>1. <<x>> \in Seq({x})
    OBVIOUS
  <2>. QED  BY <2>1, SeqIsSeq
<1>13. CASE OpenParent(c)
  BY <1>1, <1>3, <1>4, <1>12, <1>13 DEF OpenParent
<1>14. ASSUME pc[c] = "empty"
       PROVE  /\ IsSeq(work[c]) /\ work[c] # << >> /\ IsSeq(Tail(work[c]))
              /\ \A err : Popped(c, err) => AnswerOK(c)'
  <2>1. IsSeq(work[c]) /\ work[c] # << >>
    BY <1>14 DEF AnswerOK
  <2>2. IsSeq(Tail(work[c])) /\ (Len(work[c]) # 1 => Tail(work[c]) # << >>)
    BY <2>1, TailIsSeq
  <2>. QED  BY <1>1, <1>3, <1>4, <2>1, <2>2 DEF Popped
<1>15. CASE Unlink(c)
  <2>. DEFINE x == Head(work[c]).at
              below == {Entry(y, FALSE) : y \in Children(fs, x)}
              stack == SetToSeq(below) \o <<Entry(x, TRUE)>> \o Tail(work[c])
  <2>1. IsFiniteSet(Children(fs, x))
    BY FS_Subset DEF Children, WellFormedFS
  <2>2. IsFiniteSet(below)
    <3>. DEFINE f == [y \in Children(fs, x) |-> Entry(y, FALSE)]
    <3>1. f \in Surjection(Children(fs, x), below)
      BY DEF Surjection
    <3>. QED  BY <2>1, <3>1, FS_Surjection
  <2>3. IsSeq(stack) /\ stack # << >>
    <3>. HIDE DEF below
    <3>1. IsSeq(SetToSeq(below) \o <<Entry(x, TRUE)>>)
          /\ SetToSeq(below) \o <<Entry(x, TRUE)>> # << >>
      BY <1>12, <2>2, SetToSeqIsSeq, ConcatIsSeq
    <3>. QED  BY <1>14, <1>15, <3>1, ConcatIsSeq DEF Unlink
  <2>. QED  BY <1>3, <1>14, <1>15, <2>3 DEF Unlink
<1>16. CASE Rmdir(c)
  BY <1>14, <1>16 DEF Rmdir
<1>. QED
  BY <1>6, <1>7, <1>8, <1>9, <1>10, <1>11, <1>13, <1>15, <1>16 DEF Handling

LEMMA TreeInvInit == SessionInit => TreeInv
  BY RootsInvInit, SandboxAssumption DEF SessionInit, Init, TreeInv, AnswerOK

LEMMA TreeInvStep == TreeInv /\ [SessionNext]_sessionVars => TreeInv'
<1>. SUFFICES ASSUME TreeInv, [SessionNext]_sessionVars PROVE TreeInv'
  OBVIOUS
<1>. USE DEF TreeInv
<1>1. RootsInv'
  BY RootsInvStep
<1>2. ASSUME UNCHANGED <<fs, answer, work>>,
             \A c \in Calls : pc'[c] # pc[c] =>
               pc[c] \notin {"answered", "lstat"} /\ pc'[c] \notin {"answered", "lstat", "empty"}
      PROVE  TreeInv'
  BY <1>1, <1>2 DEF AnswerOK
<1>3. ASSUME NEW c \in Calls, Start(c) \/ Edits(c) PROVE TreeInv'
  <2>1. UNCHANGED <<fs, answer, work>>
    BY <1>3 DEF Start, Edits, BeginAdd, BeginRemove, Begin, world, session
  <2>2. pc[c] = "idle" /\ pc'[c] \in {"pull", "add", "remove"}
        /\ \A o \in Calls \ {c} : pc'[o] = pc[o]
    BY <1>3 DEF Start, Edits, BeginAdd, BeginRemove, Begin, Goto, RootsInv, Shapes
  <2>. QED  BY <1>2, <2>1, <2>2
<1>4. ASSUME NEW c \in Calls, Finish(c) PROVE TreeInv'
  BY <1>1, <1>4 DEF Finish, Forget, world, RootsInv, Shapes, AnswerOK
<1>5. ASSUME NEW c \in Calls, Handling(c) PROVE TreeInv'
  <2>1. WellFormedFS(fs)' /\ AnswerOK(c)'
    BY <1>5, HandlingKeepsTree, HandlingKeepsAnswer
  <2>2. \A o \in Calls \ {c} : AnswerOK(o)'
    BY <1>5, HandlingFacts DEF AnswerOK
  <2>. QED  BY <1>1, <2>1, <2>2
<1>6. ASSUME NEW c \in Calls, SandboxStep(c) PROVE TreeInv'
  <2>1. UNCHANGED <<fs, answer, work>>
    BY <1>6, LookingFacts, EditingFacts
       DEF SandboxStep, PathStep, EditStep, Looking, Editing, session
  <2>2. /\ \A o \in Calls \ {c} : pc'[o] = pc[o]
        /\ pc[c] \notin {"answered", "lstat"} /\ pc'[c] \notin {"answered", "lstat", "empty"}
    BY <1>6 DEF SandboxStep, PathStep, EditStep, ListRoots, EvalRoot, StatRoot, InstallRoots, Lexical,
                EvalParent, EvalFound, CheckReal, AddResolve, AddStat, AddRuntimeRoot, RemoveResolve,
                RemoveRuntimeRoot, Goto, RootsInv, Shapes
  <2>. QED  BY <1>2, <2>1, <2>2
<1>7. CASE OthersWrite
  BY <1>1, <1>7, SandboxAssumption DEF OthersWrite, FilesystemChanges, AnswerOK
<1>8. CASE (ClientChangesRoots /\ UNCHANGED session) \/ UNCHANGED sessionVars
  BY <1>2, <1>8 DEF ClientChangesRoots, sessionVars, vars, world, session
<1>9. ASSUME NEW c \in Calls, Works(c) PROVE TreeInv'
  BY <1>5, <1>6, <1>9 DEF Works, Handling
<1>. QED
  BY <1>3, <1>4, <1>7, <1>8, <1>9 DEF SessionNext

\* The tree a session works on stays a tree, with a directory above every
\* entry, through any interleaving of mkdir -p, rm -r and other programs;
\* every answer has a code, and the walk of rm -r never runs out of entries.
THEOREM SessionTypesAlwaysOK == SessionSpec => []SessionTypeOK
<1>1. TreeInv => SessionTypeOK
  BY DEF TreeInv, RootsInv, RootsOK, RequestOK, AnswerOK, Codes, SessionTypeOK
<1>2. SessionSpec => []TreeInv
  BY TreeInvInit, TreeInvStep, PTL DEF SessionSpec
<1>. QED  BY <1>1, <1>2, PTL
-----------------------------------------------------------------------------
(* The invariant of the paths.                                             *)

Refreshing == {"pull", "validate", "statRoot", "lexical"}
Pathed     == {"eval", "check", "accepted", "stat", "make", "lstat", "info", "rm", "open", "empty"}

\* A root is a path: of the lists, of the lists a call has seen, and what a
\* call is about to put on one.
RootPaths(c) ==
  /\ \A r \in ever[c] : IsSeq(r)
  /\ \A r \in dirs[c] : IsSeq(r)
  /\ pc[c] = "statRoot" => IsSeq(at[c])
  /\ pc[c] \in {"addStat", "addLocked"} => IsSeq(real[c])

\* So is the argument of a call, once it has been cleaned.
PathOK(c) ==
  /\ request[c] # NoRequest => raw[c] = request[c].path
  /\ pc[c] \in Refreshing => request[c] # NoRequest
  /\ \/ pc[c] \in Pathed
     \/ pc[c] = "answered" /\ request[c].op # "list_allowed_dirs"
     => IsSeq(path[c])

AllPaths ==
  /\ NoPath \notin DOMAIN fs
  /\ IsSeq(PrimaryRoot) /\ IsSeq(runtimeRoots) /\ \A r \in AllowedRoots : IsSeq(r)

Keyed ==
  /\ DOMAIN raw = Calls /\ DOMAIN at = Calls /\ DOMAIN real = Calls
  /\ DOMAIN list = Calls /\ DOMAIN dirs = Calls

PathInv == TreeInv /\ Keyed /\ AllPaths /\ \A c \in Calls : RootPaths(c) /\ PathOK(c)

LEMMA NoPathIsNew ==
  ASSUME NEW f \in FsStates
  PROVE  NoPath \notin DOMAIN f
  BY SandboxAssumption DEF Paths

LEMMA DirIsSeq ==
  ASSUME NEW f, WellFormedFS(f), NEW p, ExistingDir(f, p) # NoPath
  PROVE  IsSeq(ExistingDir(f, p))
  BY EvalIsPhysical DEF ExistingDir, WellFormedFS, IsSeq

LEMMA EvalIsSeq ==
  ASSUME NEW f, WellFormedFS(f), NEW p, EvalSymlinks(f, p) # NoPath
  PROVE  IsSeq(EvalSymlinks(f, p))
  BY EvalIsPhysical DEF WellFormedFS, IsSeq

LEMMA PathInvInit == SessionInit => PathInv
<1>. SUFFICES ASSUME SessionInit PROVE PathInv
  OBVIOUS
<1>. USE DEF SessionInit, Init
<1>1. TreeInv /\ WellFormedFS(fs) /\ NoPath \notin DOMAIN fs
  BY TreeInvInit, NoPathIsNew DEF TreeInv
<1>2. Keyed /\ \A c \in Calls : RootPaths(c) /\ PathOK(c)
  BY DEF Keyed, RootPaths, PathOK, NoRequest, Refreshing, Pathed
<1>3. \A i \in DOMAIN ConfigArgs : IsSeq(configRoots[i])
  <2>. SUFFICES ASSUME NEW i \in DOMAIN ConfigArgs PROVE IsSeq(configRoots[i])
    OBVIOUS
  <2>1. PICK f \in FsStates : EvalSymlinks(f, Joined(Cwd, ConfigArgs[i])) = configRoots[i]
    BY DEF New
  <2>2. configRoots[i] # NoPath
    BY SandboxAssumption DEF New
  <2>. QED  BY <2>1, <2>2, EvalIsSeq, SandboxAssumption
<1>4. DOMAIN configRoots = DOMAIN ConfigArgs
  BY DEF New
<1>5. 1 \in DOMAIN ConfigArgs
  BY SandboxAssumption, EmptySeq, LenProperties
<1>6. AllPaths
  <2>1. ToSet(runtimeRoots) = {} /\ protocolRoots = {} /\ IsSeq(runtimeRoots)
    BY EmptySeq DEF ToSet, IsSeq
  <2>. QED  BY <1>1, <1>3, <1>4, <1>5, <2>1 DEF AllPaths, AllowedRoots, PrimaryRoot, ToSet
<1>. QED  BY <1>1, <1>2, <1>6 DEF PathInv

\* What the steps of a handler leave alone, and where it can be.
LEMMA HandlerSteps ==
  ASSUME NEW c \in Calls, Handling(c)
  PROVE  /\ UNCHANGED <<roots, locals, history, request>>
         /\ \/ pc[c] \in Pathed
            \/ request[c].op = "list_allowed_dirs" /\ UNCHANGED fs
         /\ \/ UNCHANGED fs
            \/ \E x : x # NoPath /\ fs' = WithDir(fs, x)
            \/ \E gone : fs' = Without(fs, gone)
<1>. USE DEF HandlerFrame, Handles, Pathed, Untouched, Writes
<1>1. ASSUME NEW p, MkdirErr(fs, p) = "none" PROVE Spot(fs, p) # NoPath
  BY <1>1 DEF MkdirErr, WayErr
<1>2. CASE ListAllowedDirs(c)
  BY <1>2 DEF ListAllowedDirs
<1>3. CASE Mkdir(c) \/ MakeDown(c)
  BY <1>1, <1>3 DEF Mkdir, MakeDown
<1>4. CASE MkdirAll(c) \/ StatUp(c) \/ LstatDown(c)
  BY <1>4 DEF MkdirAll, StatUp, LstatDown
<1>5. CASE ReadDir(c) \/ Info(c) \/ Listed(c)
  BY <1>5 DEF ReadDir, Info, Listed
<1>6. CASE GuardRoots(c) \/ RemoveOne(c) \/ RemoveAll(c) \/ OpenParent(c)
  BY <1>6 DEF GuardRoots, RemoveOne, RemoveAll, RemovesEntry, OpenParent
<1>7. CASE Unlink(c) \/ Rmdir(c)
  BY <1>7 DEF Unlink, Rmdir
<1>. QED
  BY <1>2, <1>3, <1>4, <1>5, <1>6, <1>7 DEF Handling

\* The lists keep to paths, whoever edits them.
LEMMA EditingKeepsPaths ==
  ASSUME PathInv, NEW c \in Calls, Editing(c)
  PROVE  IsSeq(runtimeRoots)' /\ (\A r \in AllowedRoots : IsSeq(r))' /\ UNCHANGED <<configRoots, locals, fs>>
<1>. USE DEF PathInv, AllPaths, RootPaths, Keyed, Goto, world, AllowedRoots
<1>1. CASE InstallRoots(c)
  BY <1>1 DEF InstallRoots
<1>2. CASE AddRuntimeRoot(c)
  <2>1. runtimeRoots' = runtimeRoots \/ runtimeRoots' = Append(runtimeRoots, real[c])
    BY <1>2 DEF AddRuntimeRoot
  <2>2. UNCHANGED <<configRoots, protocolRoots, locals, fs>> /\ IsSeq(real[c])
    BY <1>2 DEF AddRuntimeRoot
  <2>. DEFINE S == ToSet(runtimeRoots) \cup {real[c]}
  <2>3. runtimeRoots \in Seq(S) /\ real[c] \in S
    BY SeqMonotonic DEF IsSeq
  <2>4. Append(runtimeRoots, real[c]) \in Seq(S) /\ ToSet(Append(runtimeRoots, real[c])) = S
    <3>1. ASSUME NEW T, runtimeRoots \in Seq(T), real[c] \in T
          PROVE  /\ Append(runtimeRoots, real[c]) \in Seq(T)
                 /\ ToSet(Append(runtimeRoots, real[c])) = ToSet(runtimeRoots) \cup {real[c]}
      BY <3>1, AppendToSet
    <3>. QED  BY <2>3, <3>1
  <2>5. IsSeq(Append(runtimeRoots, real[c]))
    BY <2>4, SeqIsSeq
  <2>. QED  BY <2>1, <2>2, <2>4, <2>5
<1>3. CASE RemoveRuntimeRoot(c)
  <2>1. \/ UNCHANGED runtimeRoots
        \/ \E i \in DOMAIN runtimeRoots : runtimeRoots' = RemoveAt(runtimeRoots, i)
    BY <1>3 DEF RemoveRuntimeRoot
  <2>2. ASSUME NEW i \in DOMAIN runtimeRoots
        PROVE  /\ IsSeq(RemoveAt(runtimeRoots, i))
               /\ ToSet(RemoveAt(runtimeRoots, i)) \subseteq ToSet(runtimeRoots)
    <3>1. runtimeRoots \in Seq(ToSet(runtimeRoots))
      BY DEF IsSeq
    <3>. QED  BY <3>1, RemoveAtToSet, SeqIsSeq
  <2>. QED  BY <1>3, <2>1, <2>2 DEF RemoveRuntimeRoot
<1>. QED  BY <1>1, <1>2, <1>3 DEF Editing

LEMMA PathInvStep == PathInv /\ [SessionNext]_sessionVars => PathInv'
<1>. SUFFICES ASSUME PathInv, [SessionNext]_sessionVars PROVE PathInv'
  OBVIOUS
<1>0. TreeInv /\ TreeInv' /\ WellFormedFS(fs) /\ AllPaths /\ Keyed /\ DOMAIN path = Calls
      /\ DOMAIN pc = Calls /\ DOMAIN request = Calls /\ DOMAIN ever = Calls
  BY TreeInvStep DEF PathInv, TreeInv, RootsInv, Shapes
<1>1. \A c \in Calls : /\ RootPaths(c) /\ PathOK(c)
                       /\ pc[c] = "idle" => request[c] = NoRequest
                       /\ request[c] \in Requests[c] \cup {NoRequest}
  BY <1>0 DEF PathInv, TreeInv, RootsInv, RootsOK, RequestOK
<1>2. UNCHANGED <<fs, roots>> => AllPaths'
  BY <1>0 DEF AllPaths, roots, PrimaryRoot, AllowedRoots
\* What a step of one call owes the others.
<1>3. ASSUME NEW o \in Calls, UNCHANGED <<pc[o], path[o], request[o], raw[o], at[o], real[o], dirs[o]>>,
             \A r \in ever'[o] : IsSeq(r)
      PROVE  RootPaths(o)' /\ PathOK(o)'
  BY <1>1, <1>3 DEF RootPaths, PathOK
<1>4. ASSUME NEW c \in Calls, Start(c) \/ Edits(c) \/ Finish(c) PROVE PathInv'
  <2>1. /\ UNCHANGED <<fs, roots>> /\ Keyed'
        /\ \A o \in Calls \ {c} :
             UNCHANGED <<pc[o], path[o], request[o], raw[o], at[o], real[o], dirs[o], ever[o]>>
        /\ ever'[c] \subseteq AllowedRoots /\ dirs'[c] \subseteq dirs[c]
    BY <1>0, <1>4 DEF Start, Edits, Finish, BeginAdd, BeginRemove, Begin, Forget, Goto, world,
                      Keyed, session
  <2>2. \A o \in Calls \ {c} : RootPaths(o)' /\ PathOK(o)'
    BY <1>1, <1>3, <2>1 DEF RootPaths
  <2>3. \A r \in ever'[c] : IsSeq(r)
    BY <1>0, <2>1 DEF AllPaths
  <2>4. CASE Start(c)
    <3>1. PICK q \in Requests[c] :
            Begin(c, "pull", q.path, NoPath) /\ request' = [request EXCEPT ![c] = q]
      BY <2>4 DEF Start
    <3>2. q # NoRequest
      BY SessionAssumption DEF NoRequest, Tools
    <3>3. pc'[c] = "pull" /\ raw'[c] = q.path /\ request'[c] = q
      BY <1>0, <3>1 DEF Begin, Goto, Keyed
    <3>. QED
      BY <1>0, <1>2, <2>1, <2>2, <2>3, <3>2, <3>3
         DEF PathInv, RootPaths, PathOK, Pathed
  <2>5. CASE Edits(c)
    <3>1. pc[c] = "idle" /\ pc'[c] \in {"add", "remove"} /\ request'[c] = NoRequest
      BY <1>0, <1>1, <2>5 DEF Edits, BeginAdd, BeginRemove, Begin, Goto, session
    <3>. QED
      BY <1>0, <1>2, <2>1, <2>2, <2>3, <3>1
         DEF PathInv, RootPaths, PathOK, Pathed, Refreshing
  <2>6. CASE Finish(c)
    <3>1. pc'[c] = "idle" /\ request'[c] = NoRequest
      BY <1>0, <2>6 DEF Finish, Forget
    <3>. QED
      BY <1>0, <1>2, <2>1, <2>2, <2>3, <3>1
         DEF PathInv, RootPaths, PathOK, Pathed, Refreshing
  <2>. QED  BY <1>4, <2>4, <2>5, <2>6
<1>5. ASSUME NEW c \in Calls, Handling(c) PROVE PathInv'
  <2>1. /\ UNCHANGED <<roots, locals, history, request>>
        /\ \A o \in Calls \ {c} : UNCHANGED pc[o]
        /\ pc'[c] \in {"stat", "make", "lstat", "info", "answered"} \cup Removing
        /\ request[c].op = "list_allowed_dirs" => pc'[c] = "answered"
    BY <1>0, <1>5, HandlerSteps, HandlingFacts DEF TreeInv
  <2>2. \A o \in Calls \ {c} : RootPaths(o)' /\ PathOK(o)'
    BY <1>1, <1>3, <2>1 DEF RootPaths, locals, history
  <2>3. RootPaths(c)' /\ PathOK(c)'
    BY <1>1, <1>5, <2>1, HandlerSteps
       DEF RootPaths, PathOK, Refreshing, Pathed, Removing, locals, history
  <2>4. AllPaths'
    <3>1. NoPath \notin DOMAIN fs'
      BY <1>0, <1>5, HandlerSteps DEF AllPaths, WithDir, Without, Restrict
    <3>. QED  BY <1>0, <2>1, <3>1 DEF AllPaths, roots, PrimaryRoot, AllowedRoots
  <2>. QED  BY <1>0, <2>1, <2>2, <2>3, <2>4 DEF PathInv, Keyed, locals
<1>6. ASSUME NEW c \in Calls, Looking(c), UNCHANGED session PROVE PathInv'
  <2>1. /\ UNCHANGED <<fs, roots, history, request, raw>> /\ Keyed'
        /\ \A o \in Calls \ {c} : UNCHANGED <<pc[o], path[o], at[o], real[o], dirs[o]>>
    BY <1>0, <1>6 DEF Looking, ListRoots, EvalRoot, StatRoot, Lexical, EvalParent, EvalFound, CheckReal,
         AddResolve, AddStat, RemoveResolve, Goto, Keyed, world, locals, history, session
  <2>2. \A o \in Calls \ {c} : RootPaths(o)' /\ PathOK(o)'
    BY <1>1, <1>3, <2>1 DEF RootPaths, history
  <2>3. CASE ListRoots(c) \/ EvalParent(c) \/ EvalFound(c) \/ CheckReal(c) \/ RemoveResolve(c)
    <3>1. /\ UNCHANGED <<path, dirs>> /\ pc'[c] \notin {"statRoot", "addStat", "addLocked", "answered"}
          /\ pc'[c] \in Refreshing => pc[c] \in Refreshing
          /\ pc'[c] \in Pathed => pc[c] \in Pathed
      BY <1>0, <2>3 DEF ListRoots, EvalParent, EvalFound, CheckReal, RemoveResolve, Goto,
                        Refreshing, Pathed, locals
    <3>2. RootPaths(c)' /\ PathOK(c)'
      BY <1>1, <2>1, <3>1 DEF RootPaths, PathOK, history
    <3>. QED  BY <1>0, <1>2, <2>1, <2>2, <3>2 DEF PathInv
  <2>4. CASE EvalRoot(c) \/ StatRoot(c)
    <3>1. /\ {pc[c], pc'[c]} \subseteq {"validate", "statRoot"}
          /\ dirs'[c] \subseteq dirs[c] \cup {at[c]}
          /\ dirs'[c] # dirs[c] => pc[c] = "statRoot"
      BY <1>0, <2>4 DEF EvalRoot, StatRoot, Goto, Keyed
    <3>2. pc'[c] = "statRoot" => IsSeq(at'[c])
      BY <1>0, <2>4, EvalIsSeq DEF EvalRoot, StatRoot, Goto, Keyed, Resolves
    <3>3. RootPaths(c)' /\ PathOK(c)'
      BY <1>1, <2>1, <3>1, <3>2 DEF RootPaths, PathOK, Refreshing, Pathed, history
    <3>. QED  BY <1>0, <1>2, <2>1, <2>2, <3>3 DEF PathInv
  <2>5. CASE Lexical(c)
    <3>1. /\ pc[c] = "lexical" /\ pc'[c] \in {"eval", "rejected"}
          /\ path'[c] = Joined(PrimaryRoot, raw[c]) /\ UNCHANGED dirs
      BY <1>0, <2>5 DEF Lexical, Goto
    <3>2. IsPathArg(raw[c])
      BY <1>1, <3>1, SessionAssumption, SandboxAssumption DEF PathOK, Refreshing
    <3>3. IsSeq(path'[c])
      <4>1. \E S : Joined(PrimaryRoot, raw[c]) \in Seq(S)
        BY <1>0, <3>2, JoinedIsSeq DEF AllPaths, IsSeq
      <4>. QED  BY <3>1, <4>1, SeqIsSeq
    <3>4. RootPaths(c)' /\ PathOK(c)'
      BY <1>1, <2>1, <3>1, <3>3 DEF RootPaths, PathOK, Refreshing, history
    <3>. QED  BY <1>0, <1>2, <2>1, <2>2, <3>4 DEF PathInv
  <2>6. CASE AddResolve(c) \/ AddStat(c)
    <3>1. /\ pc[c] \in {"add", "addStat"} /\ pc'[c] \in {"addStat", "addLocked", "failed"}
          /\ UNCHANGED dirs
      BY <1>0, <2>6 DEF AddResolve, AddStat, Goto, Keyed, locals
    <3>2. pc'[c] \in {"addStat", "addLocked"} => IsSeq(real'[c])
      <4>1. CASE AddResolve(c)
        BY <1>0, <4>1, EvalIsSeq DEF AddResolve, Goto, Keyed
      <4>2. CASE AddStat(c)
        BY <1>0, <1>1, <4>2 DEF AddStat, Goto, RootPaths, locals
      <4>. QED  BY <2>6, <4>1, <4>2
    <3>3. RootPaths(c)' /\ PathOK(c)'
      BY <1>0, <1>1, <2>1, <3>1, <3>2 DEF RootPaths, PathOK, Refreshing, Pathed, history
    <3>. QED  BY <1>0, <1>2, <2>1, <2>2, <3>3 DEF PathInv
  <2>. QED  BY <1>6, <2>3, <2>4, <2>5, <2>6 DEF Looking
<1>7. ASSUME NEW c \in Calls, Editing(c), UNCHANGED session PROVE PathInv'
  <2>1. /\ IsSeq(runtimeRoots)' /\ (\A r \in AllowedRoots : IsSeq(r))'
        /\ UNCHANGED <<configRoots, locals, fs, request>>
    BY <1>7, EditingKeepsPaths DEF session
  <2>2. /\ Observe /\ \A o \in Calls \ {c} : UNCHANGED pc[o]
        /\ pc'[c] \in {"lexical", "added", "removed"} /\ (pc'[c] = "lexical" => pc[c] = "validate")
    BY <1>0, <1>7 DEF Editing, InstallRoots, AddRuntimeRoot, RemoveRuntimeRoot, Goto
  <2>3. ASSUME NEW o \in Calls PROVE \A r \in ever'[o] : IsSeq(r)
    BY <1>1, <2>1, <2>2 DEF Observe, RootPaths
  <2>4. \A o \in Calls \ {c} : RootPaths(o)' /\ PathOK(o)'
    BY <1>3, <2>1, <2>2, <2>3 DEF locals
  <2>5. RootPaths(c)' /\ PathOK(c)'
    BY <1>1, <2>1, <2>2, <2>3 DEF RootPaths, PathOK, Refreshing, Pathed, locals
  <2>6. AllPaths' /\ Keyed'
    BY <1>0, <2>1 DEF AllPaths, PrimaryRoot, Keyed, locals
  <2>. QED  BY <1>0, <2>4, <2>5, <2>6 DEF PathInv
<1>8. CASE OthersWrite
  <2>1. UNCHANGED <<roots, pc, locals, history, request>> /\ fs' \in FsStates
    BY <1>8 DEF OthersWrite, FilesystemChanges
  <2>2. AllPaths' /\ Keyed'
    BY <1>0, <2>1, NoPathIsNew DEF AllPaths, roots, PrimaryRoot, AllowedRoots, Keyed, locals
  <2>3. \A o \in Calls : RootPaths(o)' /\ PathOK(o)'
    BY <1>1, <1>3, <2>1 DEF RootPaths, locals, history
  <2>. QED  BY <1>0, <2>2, <2>3 DEF PathInv
<1>9. CASE (ClientChangesRoots /\ UNCHANGED session) \/ UNCHANGED sessionVars
  <2>1. UNCHANGED <<fs, roots, pc, locals, history, request>>
    BY <1>9 DEF ClientChangesRoots, sessionVars, vars, world, session
  <2>2. \A o \in Calls : RootPaths(o)' /\ PathOK(o)'
    BY <1>1, <1>3, <2>1 DEF RootPaths, locals, history
  <2>. QED  BY <1>0, <1>2, <2>1, <2>2 DEF PathInv, Keyed, locals
<1>10. ASSUME NEW c \in Calls, Works(c) PROVE PathInv'
  BY <1>5, <1>6, <1>7, <1>10
     DEF Works, SandboxStep, PathStep, EditStep, Handling, Looking, Editing
<1>. QED
  BY <1>4, <1>8, <1>9, <1>10 DEF SessionNext

\* What a handler makes or removes is noticed by the other calls.
LEMMA KeptFacts ==
  ASSUME DOMAIN kept = Calls, NEW c \in Calls, Handling(c)
  PROVE  /\ DOMAIN kept' = Calls /\ kept'[c] = kept[c]
         /\ \A o \in Calls \ {c} : kept'[o] # NoTree => kept'[o] = kept[o] /\ IsRestriction(fs, fs')
<1>1. IsRestriction(fs, fs)
  BY DEF IsRestriction
<1>2. Untouched \/ (\E tree : Writes(c, tree))
  BY DEF Handling, ListAllowedDirs, Mkdir, MkdirAll, StatUp, MakeDown, LstatDown, ReadDir, Info,
         Listed, GuardRoots, RemoveOne, RemoveAll, RemovesEntry, OpenParent, Unlink, Rmdir
<1>. QED  BY <1>1, <1>2 DEF Untouched, Writes, Noticed

-----------------------------------------------------------------------------
(* The invariant of ls.                                                    *)

\* Where an ls can be.
LsOK(c) ==
  request[c].op = "ls" =>
    pc[c] \in Refreshing \cup {"eval", "check", "accepted", "rejected", "info", "answered"}

\* An entry that the directory an ls is about still has.
Has(c, name) ==
  LET dir == ExistingDir(fs, path[c])
  IN  dir # NoPath /\ Append(dir, name) \in DOMAIN fs

\* What an ls has read is still there, unless somebody has removed something.
ReadOK(c) ==
  /\ pc[c] \notin {"info", "answered"} => out[c] = {}
  /\ request[c].op = "ls" /\ kept[c] # NoTree =>
       /\ pc[c] = "info" =>
            /\ IsSeq(work[c])
            /\ \A i \in 1..Len(work[c]) : Has(c, work[c][i])
       /\ \A line \in out[c] : /\ Has(c, line[1])
                               /\ fs[Append(ExistingDir(fs, path[c]), line[1])].kind = line[2]

ListInv ==
  /\ PathInv
  /\ DOMAIN kept = Calls
  /\ \A c \in Calls : LsOK(c) /\ ReadOK(c)

\* A child is its parent and its name.
LEMMA ChildIs ==
  ASSUME NEW f, WellFormedFS(f), NEW x, NEW y \in Children(f, x)
  PROVE  y \in DOMAIN f /\ y = Append(x, Last(y))
<1>1. y \in DOMAIN f /\ y # << >> /\ x = Front(y) /\ y \in Seq(ToSet(y))
  BY DEF Children, Parent, WellFormedFS
<1>. DEFINE S == ToSet(y)
<1>2. /\ Len(y) \in Nat \ {0} /\ \A i \in 1..Len(y) : y[i] \in S
      /\ Last(y) = y[Len(y)] /\ x = SubSeq(y, 1, Len(y) - 1)
  BY <1>1, EmptySeq, ElementOfSeq DEF Last, Front
<1>. HIDE DEF S
<1>3. Len(y) - 1 \in Nat /\ \A i \in 1..(Len(y) - 1) : y[i] \in S
  BY <1>2
<1>4. x \in Seq(S) /\ Len(x) = Len(y) - 1 /\ \A i \in 1..(Len(y) - 1) : x[i] = y[i]
  BY <1>2, <1>3, PrefixOf
<1>5. Last(y) \in S
  BY <1>2
<1>6. /\ Append(x, Last(y)) \in Seq(S) /\ Len(Append(x, Last(y))) = Len(y)
      /\ \A i \in 1..Len(y) : Append(x, Last(y))[i] = y[i]
  BY <1>2, <1>4, <1>5, AppendProperties
<1>7. y \in Seq(S)
  BY <1>1 DEF S
<1>. QED  BY <1>1, <1>6, <1>7, SeqEqual

LEMMA SpotOfEntry ==
  ASSUME NEW f, NEW p, IsSeq(p), NEW name
  PROVE  Spot(f, Append(p, name)) =
           IF ExistingDir(f, p) = NoPath THEN NoPath ELSE Append(ExistingDir(f, p), name)
  BY AppendIsSeq, LastOfAppend DEF Spot, Parent

LEMMA ListInvInit == SessionInit => ListInv
  BY PathInvInit DEF SessionInit, Init, ListInv, LsOK, ReadOK, NoRequest

\* What an ls has read is not disturbed by anybody who only adds something.
LEMMA ReadStays ==
  ASSUME ListInv, NEW c \in Calls,
         UNCHANGED <<request[c], work[c], out[c]>>,
         \/ UNCHANGED <<pc[c], path[c]>>
         \/ {pc[c], pc'[c]} \cap {"info", "answered"} = {},
         kept'[c] # NoTree => kept'[c] = kept[c] /\ IsRestriction(fs, fs')
  PROVE  ReadOK(c)'
<1>. USE DEF ListInv
<1>1. ReadOK(c) /\ WellFormedFS(fs)
  BY DEF PathInv, TreeInv
<1>2. CASE {pc[c], pc'[c]} \cap {"info", "answered"} = {}
  BY <1>1, <1>2 DEF ReadOK
<1>3. CASE UNCHANGED <<pc[c], path[c]>>
  <2>1. ASSUME kept'[c] # NoTree, NEW name, Has(c, name)
        PROVE  Has(c, name)' /\ LET x == Append(ExistingDir(fs, path[c]), name)
                                IN  x' = x /\ (fs[x])' = fs[x]
    BY <1>1, <1>3, <2>1, ExistingDirStays DEF Has, IsRestriction
  <2>. QED  BY <1>1, <1>3, <2>1 DEF ReadOK
<1>. QED  BY <1>2, <1>3

\* An ls reads and changes nothing.
LEMMA LsHandles ==
  ASSUME ListInv, NEW c \in Calls, Handling(c)
  PROVE  /\ request[c].op = "ls" =>
              (ReadDir(c) \/ Info(c) \/ Listed(c)) /\ UNCHANGED <<fs, kept>>
         /\ request[c].op # "ls" /\ pc'[c] \notin {"info", "answered"} => out'[c] = {}
<1>. USE DEF ListInv, HandlerFrame, Untouched, Handles, Goes, Replies
<1>1. /\ DOMAIN pc = Calls /\ DOMAIN out = Calls
      /\ pc[c] \notin {"info", "answered"} => out[c] = {}
      /\ request[c].op = "ls" => pc[c] \in {"pull", "validate", "statRoot", "lexical", "eval",
                  "check", "accepted", "rejected", "info", "answered"}
  BY DEF PathInv, TreeInv, RootsInv, Shapes, LsOK, ReadOK, Refreshing
<1>2. CASE ListAllowedDirs(c) \/ Mkdir(c) \/ MkdirAll(c) \/ StatUp(c)
  BY <1>1, <1>2 DEF ListAllowedDirs, Mkdir, MkdirAll, StatUp
<1>3. CASE MakeDown(c) \/ LstatDown(c)
  BY <1>1, <1>3 DEF MakeDown, LstatDown, IsThere
<1>4. CASE ReadDir(c) \/ Info(c) \/ Listed(c)
  BY <1>1, <1>4 DEF ReadDir, Info, Listed
<1>5. CASE GuardRoots(c) \/ RemoveOne(c) \/ RemoveAll(c) \/ OpenParent(c)
  BY <1>1, <1>5 DEF GuardRoots, RemoveOne, RemoveAll, RemovesEntry, OpenParent
<1>6. CASE Unlink(c) \/ Rmdir(c)
  BY <1>1, <1>6 DEF Unlink, Rmdir, Popped
<1>. QED
  BY <1>2, <1>3, <1>4, <1>5, <1>6 DEF Handling

\* What an ls has read, it has read in the tree as it is.
LEMMA OwnReadOK ==
  ASSUME ListInv, NEW c \in Calls, request[c].op = "ls", ReadDir(c) \/ Info(c) \/ Listed(c),
         UNCHANGED <<fs, kept>>
  PROVE  ReadOK(c)'
<1>. USE DEF ListInv, HandlerFrame, locals, Handles
<1>1. /\ DOMAIN pc = Calls /\ DOMAIN out = Calls /\ DOMAIN work = Calls
      /\ WellFormedFS(fs) /\ ReadOK(c)
      /\ UNCHANGED <<request, path>>
  BY DEF PathInv, TreeInv, RootsInv, Shapes, ReadDir, Info, Listed
<1>2. pc[c] \in {"accepted", "info"} => IsSeq(path[c])
  BY DEF PathInv, PathOK, Pathed
<1>. DEFINE x == ExistingDir(fs, path[c])
<1>3. CASE ReadDir(c)
  <2>1. out[c] = {} /\ IsSeq(path[c])
    BY <1>1, <1>2, <1>3 DEF ReadDir, ReadOK
  <2>2. CASE \E code : Replies(c, code, {})
    BY <1>1, <2>2 DEF Replies, ReadOK
  <2>3. CASE /\ x # NoPath /\ x = EvalSymlinks(fs, path[c])
             /\ Goes(c, "info", SetToSeq({Last(y) : y \in Children(fs, x)}))
    <3>. DEFINE listed == {Last(y) : y \in Children(fs, x)}
    <3>1. ASSUME NEW name \in listed PROVE Has(c, name)
      <4>1. PICK y \in Children(fs, x) : name = Last(y)
        OBVIOUS
      <4>2. y \in DOMAIN fs /\ y = Append(x, name)
        BY <1>1, <4>1, ChildIs
      <4>. QED  BY <2>3, <4>2 DEF Has
    <3>2. IsFiniteSet(listed)
      <4>1. IsFiniteSet(Children(fs, x))
        BY <1>1, FS_Subset DEF Children, WellFormedFS
      <4>. DEFINE f == [y \in Children(fs, x) |-> Last(y)]
      <4>2. f \in Surjection(Children(fs, x), listed)
        BY DEF Surjection
      <4>. QED  BY <4>1, <4>2, FS_Surjection
    <3>. HIDE DEF listed
    <3>3. /\ SetToSeq(listed) \in Seq(listed) /\ IsSeq(SetToSeq(listed))
          /\ \A i \in 1..Len(SetToSeq(listed)) : SetToSeq(listed)[i] \in listed
      BY <3>2, SetToSeqIsSeq, ElementOfSeq
    <3>4. work'[c] = SetToSeq(listed) /\ out'[c] = {} /\ pc'[c] = "info"
      BY <1>1, <2>1, <2>3 DEF Goes, listed
    <3>5. \A name : Has(c, name)' <=> Has(c, name)
      BY <1>1 DEF Has
    <3>. QED  BY <3>1, <3>3, <3>4, <3>5 DEF ReadOK
  <2>. QED  BY <1>3, <2>2, <2>3 DEF ReadDir, ExistingDir
<1>4. CASE Info(c)
  <2>. DEFINE name == Head(work[c])
              line == <<name, Type(fs, Append(path[c], name))>>
  <2>1. /\ pc[c] = "info" /\ work[c] # << >> /\ UNCHANGED pc
        /\ out'[c] = out[c] \cup {line} /\ work'[c] = Tail(work[c])
    BY <1>1, <1>4 DEF Info
  <2>2. SUFFICES ASSUME kept[c] # NoTree PROVE ReadOK(c)'
    BY <2>1 DEF ReadOK
  <2>3. /\ IsSeq(work[c]) /\ \A i \in 1..Len(work[c]) : Has(c, work[c][i])
        /\ \A l \in out[c] : Has(c, l[1]) /\ fs[Append(x, l[1])].kind = l[2]
    BY <1>1, <2>1, <2>2 DEF ReadOK
  <2>4. /\ IsSeq(Tail(work[c])) /\ Len(work[c]) \in Nat \ {0}
        /\ Len(Tail(work[c])) = Len(work[c]) - 1
        /\ \A i \in 1..Len(Tail(work[c])) : Tail(work[c])[i] = work[c][i + 1]
    <3>1. work[c] \in Seq(ToSet(work[c])) /\ Len(work[c]) \in Nat \ {0}
      BY <2>1, <2>3, EmptySeq DEF IsSeq
    <3>. QED  BY <2>1, <2>3, <3>1, TailIsSeq, HeadTailProperties
  <2>5. name = work[c][1] /\ Has(c, name)
    BY <2>1, <2>3, <2>4
  <2>6. line[1] = name /\ line[2] = fs[Append(x, name)].kind
    <3>. HIDE DEF name
    <3>1. Spot(fs, Append(path[c], name)) = Append(x, name) /\ Append(x, name) \in DOMAIN fs
      BY <1>2, <2>1, <2>5, SpotOfEntry DEF Has
    <3>2. Type(fs, Append(path[c], name)) = fs[Append(x, name)].kind
      BY <3>1 DEF Type
    <3>. QED  BY <3>2
  <2>. HIDE DEF line, name
  <2>7. \A i \in 1..Len(Tail(work[c])) : Has(c, Tail(work[c])[i])
    BY <2>3, <2>4
  <2>8. \A n : Has(c, n)' <=> Has(c, n)
    BY <1>1 DEF Has
  <2>. QED  BY <1>1, <2>1, <2>3, <2>4, <2>5, <2>6, <2>7, <2>8 DEF ReadOK
<1>5. CASE Listed(c)
  <2>1. pc[c] = "info" /\ pc'[c] = "answered" /\ out'[c] = out[c]
    BY <1>1, <1>5 DEF Listed, Replies
  <2>2. \A n : Has(c, n)' <=> Has(c, n)
    BY <1>1 DEF Has
  <2>. QED  BY <1>1, <2>1, <2>2 DEF ReadOK
<1>. QED  BY <1>3, <1>4, <1>5

LEMMA ListInvStep == ListInv /\ [SessionNext]_sessionVars => ListInv'
<1>. SUFFICES ASSUME ListInv, [SessionNext]_sessionVars PROVE ListInv'
  OBVIOUS
<1>0. /\ PathInv /\ PathInv' /\ TreeInv /\ IsRestriction(fs, fs)
      /\ DOMAIN pc = Calls /\ DOMAIN path = Calls /\ DOMAIN request = Calls
      /\ DOMAIN out = Calls /\ DOMAIN kept = Calls
  BY PathInvStep DEF ListInv, PathInv, TreeInv, RootsInv, Shapes, IsRestriction
<1>1. \A c \in Calls : /\ LsOK(c) /\ ReadOK(c)
                       /\ pc[c] = "idle" => request[c] = NoRequest
  BY <1>0 DEF ListInv, TreeInv, RootsInv, RootsOK, RequestOK
\* What a step of one call owes the others.
<1>3. ASSUME NEW o \in Calls, UNCHANGED <<pc[o], path[o], request[o], work[o], out[o]>>,
             kept'[o] # NoTree => kept'[o] = kept[o] /\ IsRestriction(fs, fs')
      PROVE  LsOK(o)' /\ ReadOK(o)'
  BY <1>1, <1>3, ReadStays DEF LsOK
<1>4. ASSUME NEW c \in Calls, Start(c) PROVE ListInv'
  <2>1. PICK q \in Requests[c] :
          /\ Begin(c, "pull", q.path, NoPath) /\ request' = [request EXCEPT ![c] = q]
          /\ kept' = [kept EXCEPT ![c] = fs] /\ UNCHANGED <<work, out>>
    BY <1>4 DEF Start
  <2>2. /\ pc[c] = "idle" /\ UNCHANGED fs
        /\ pc' = [pc EXCEPT ![c] = "pull"] /\ path' = [path EXCEPT ![c] = NoPath]
    BY <2>1 DEF Begin, Goto, world
  <2>3. LsOK(c)' /\ ReadOK(c)'
    BY <1>0, <1>1, <2>1, <2>2 DEF LsOK, ReadOK, Refreshing
  <2>4. \A o \in Calls \ {c} : LsOK(o)' /\ ReadOK(o)'
    BY <1>0, <1>3, <2>1, <2>2
  <2>. QED  BY <1>0, <2>1, <2>2, <2>3, <2>4 DEF ListInv
<1>5. ASSUME NEW c \in Calls, Finish(c) PROVE ListInv'
  <2>1. /\ pc' = [pc EXCEPT ![c] = "idle"]
        /\ path' = [path EXCEPT ![c] = NoPath] /\ UNCHANGED fs
        /\ request' = [request EXCEPT ![c] = NoRequest] /\ work' = [work EXCEPT ![c] = << >>]
        /\ out' = [out EXCEPT ![c] = {}] /\ kept' = [kept EXCEPT ![c] = NoTree]
    BY <1>5 DEF Finish, Forget, world
  <2>2. LsOK(c)' /\ ReadOK(c)'
    BY <1>0, <2>1 DEF LsOK, ReadOK, NoRequest
  <2>3. \A o \in Calls \ {c} : LsOK(o)' /\ ReadOK(o)'
    BY <1>0, <1>3, <2>1
  <2>. QED  BY <1>0, <2>1, <2>2, <2>3 DEF ListInv
<1>6. ASSUME NEW c \in Calls, Handling(c) PROVE ListInv'
  <2>0. DOMAIN kept' = Calls
    BY <1>0, <1>6, KeptFacts
  <2>1. UNCHANGED <<request, path>> /\ \A o \in Calls \ {c} : UNCHANGED <<pc[o], work[o], out[o]>>
    BY <1>0, <1>6, HandlingFacts DEF TreeInv
  <2>2. \A o \in Calls \ {c} : LsOK(o)' /\ ReadOK(o)'
    BY <1>0, <1>3, <1>6, <2>1, KeptFacts
  <2>3. CASE request[c].op = "ls"
    <3>1. LsOK(c)'
      <4>1. pc'[c] \in {"info", "answered"}
        BY <1>0, <1>6, <2>3, LsHandles DEF ReadDir, Info, Listed, Handles, Goes, Replies
      <4>. QED  BY <4>1 DEF LsOK
    <3>2. ReadOK(c)'
      BY <1>6, <2>3, LsHandles, OwnReadOK
    <3>. QED  BY <1>0, <2>0, <2>2, <3>1, <3>2 DEF ListInv
  <2>4. CASE request[c].op # "ls"
    <3>1. LsOK(c)' /\ ReadOK(c)'
      BY <1>6, <2>1, <2>4, LsHandles DEF LsOK, ReadOK
    <3>. QED  BY <1>0, <2>0, <2>2, <3>1 DEF ListInv
  <2>. QED  BY <2>3, <2>4
<1>7. ASSUME NEW c \in Calls, SandboxStep(c) \/ Edits(c) PROVE ListInv'
  <2>1. UNCHANGED <<request, work, out, kept>>
    BY <1>7 DEF SandboxStep, Edits, session
  <2>2. /\ UNCHANGED fs
        /\ \A o \in Calls \ {c} : UNCHANGED <<pc[o], path[o]>>
        /\ pc[c] \notin {"info", "answered"} /\ pc'[c] \notin {"info", "answered"}
    BY <1>0, <1>7 DEF SandboxStep, Edits, BeginAdd, BeginRemove, Begin, PathStep, EditStep, Goto,
         ListRoots, EvalRoot, StatRoot, InstallRoots, Lexical, EvalParent, EvalFound, CheckReal,
         AddResolve, AddStat, AddRuntimeRoot, RemoveResolve, RemoveRuntimeRoot, world, locals
  <2>3. ReadOK(c)'
    BY <1>0, <2>1, <2>2, ReadStays
  <2>4. \A o \in Calls \ {c} : LsOK(o)' /\ ReadOK(o)'
    BY <1>0, <1>3, <2>1, <2>2
  <2>5. LsOK(c)'
    <3>. SUFFICES ASSUME request[c].op = "ls" PROVE LsOK(c)'
      BY <2>1 DEF LsOK
    <3>1. PathStep(c)
      <4>1. pc[c] \notin {"idle", "add", "addStat", "addLocked", "remove", "removeLocked"}
        BY <1>1, <2>1 DEF LsOK, Refreshing, NoRequest
      <4>2. ~Edits(c)
        BY <4>1 DEF Edits, BeginAdd, BeginRemove, Begin, Goto
      <4>3. ~EditStep(c)
        BY <4>1 DEF EditStep, Goto, AddResolve, AddStat, AddRuntimeRoot, RemoveResolve, RemoveRuntimeRoot
      <4>. QED  BY <1>7, <4>2, <4>3 DEF SandboxStep
    <3>. QED
      BY <1>0, <3>1 DEF PathStep, ListRoots, EvalRoot, StatRoot, InstallRoots, Lexical, EvalParent,
         EvalFound, CheckReal, Goto, LsOK, Refreshing
  <2>. QED  BY <1>0, <2>1, <2>3, <2>4, <2>5 DEF ListInv
<1>8. CASE OthersWrite
  <2>1. /\ UNCHANGED <<pc, path, request, work, out>> /\ DOMAIN kept' = Calls
        /\ \A c \in Calls : kept'[c] # NoTree => kept'[c] = kept[c] /\ IsRestriction(fs, fs')
    BY <1>8 DEF OthersWrite, FilesystemChanges, Noticed, locals
  <2>2. \A c \in Calls : LsOK(c)' /\ ReadOK(c)'
    BY <1>3, <2>1
  <2>. QED  BY <1>0, <2>1, <2>2 DEF ListInv
<1>9. CASE (ClientChangesRoots /\ UNCHANGED session) \/ UNCHANGED sessionVars
  <2>1. UNCHANGED <<fs, pc, path, request, work, out, kept>>
    BY <1>9 DEF ClientChangesRoots, sessionVars, vars, world, session, locals
  <2>2. \A c \in Calls : LsOK(c)' /\ ReadOK(c)'
    BY <1>0, <1>3, <2>1
  <2>. QED  BY <1>0, <2>1, <2>2 DEF ListInv
<1>10. ASSUME NEW c \in Calls, Works(c) PROVE ListInv'
  BY <1>6, <1>7, <1>10 DEF Works, Handling
<1>. QED
  BY <1>4, <1>5, <1>7, <1>8, <1>9, <1>10 DEF SessionNext

\* Whatever else runs meanwhile, as long as nothing is removed or replaced:
\* every line of a listing is true when ls hands it over.
THEOREM ListedAlwaysThere == SessionSpec => []ListedIsThere
<1>1. ListInv => ListedIsThere
  <2>. SUFFICES ASSUME ListInv, NEW c \in Calls,
                       pc[c] = "answered", kept[c] # NoTree, request[c].op = "ls", NEW line \in out[c]
                PROVE  LET x == Spot(fs, Append(path[c], line[1]))
                       IN  x \in DOMAIN fs /\ line[2] = fs[x].kind
    BY DEF ListedIsThere
  <2>1. /\ Has(c, line[1]) /\ IsSeq(path[c])
        /\ fs[Append(ExistingDir(fs, path[c]), line[1])].kind = line[2]
    BY DEF ListInv, PathInv, PathOK, ReadOK
  <2>2. Spot(fs, Append(path[c], line[1])) = Append(ExistingDir(fs, path[c]), line[1])
    BY <2>1, SpotOfEntry DEF Has
  <2>. QED  BY <2>1, <2>2 DEF Has
<1>2. SessionSpec => []ListInv
  BY ListInvInit, ListInvStep, PTL DEF SessionSpec
<1>. QED  BY <1>1, <1>2, PTL

-----------------------------------------------------------------------------
(* The invariant of what a call makes and removes.                         *)

\* q is the path p, or what is left of it above what does not resolve.
Deepest(f, p, q) ==
  \E n \in 0..Len(p) :
    /\ q = SubSeq(p, 1, n)
    /\ \A m \in (n + 1)..Len(p) : EvalSymlinks(f, SubSeq(p, 1, m)) = NoPath

Inside(rs, x) == \E r \in rs : IsPrefix(r, x)

\* A link lies where it may, as long as it leads into a root.
LeadsInside(f, rs, x) ==
  /\ x \in DOMAIN f /\ f[x].kind = "link"
  /\ EvalSymlinks(f, x) # NoPath /\ Inside(rs, EvalSymlinks(f, x))

Tested  == {"check", "accepted", "stat", "rm", "open"}

\* As long as nobody else changes the tree, what Resolve has found of the path
\* still holds when the handler acts.
TestedOK(c) ==
  /\ pc[c] \in Tested \cup {"eval"} => Deepest(fs, path[c], at[c])
  /\ pc[c] \in Tested => real[c] # NoPath /\ real[c] = EvalSymlinks(fs, at[c])
  /\ pc[c] \in Tested \ {"check"} => Inside(ever[c], real[c])

\* The directory that mkdir -p has come to lies in a root.
MakingOK(c) ==
  /\ pc[c] = "stat" => Deepest(fs, path[c], work[c])
  /\ pc[c] \in {"make", "lstat"} =>
       /\ \E n \in 0..(Len(path[c]) - 1) : work[c] = SubSeq(path[c], 1, n)
       /\ ExistingDir(fs, work[c]) # NoPath /\ Inside(ever[c], ExistingDir(fs, work[c]))

\* So does all that rm -r still has to remove, but for a link it was called
\* with.
RemovingOK(c) ==
  pc[c] = "empty" =>
    \/ \A entry \in ToSet(work[c]) : IsSeq(entry.at) /\ Inside(ever[c], entry.at)
    \/ /\ Len(work[c]) = 1 /\ ~Head(work[c]).listed
       /\ LeadsInside(fs, ever[c], Head(work[c]).at)

InsideOK(c) == alone[c] # NoTree => TestedOK(c) /\ MakingOK(c) /\ RemovingOK(c)

InsideInv == PathInv /\ DOMAIN alone = Calls /\ \A c \in Calls : InsideOK(c)

LEMMA WithinIsInside ==
  ASSUME NEW rs, NEW p, WithinAny(rs, p)
  PROVE  Inside(rs, p)
  BY DEF WithinAny, WithinRoot, Inside

LEMMA InsideGrows ==
  ASSUME NEW rs, NEW more, rs \subseteq more, NEW x, Inside(rs, x)
  PROVE  Inside(more, x)
  BY DEF Inside

LEMMA EntryInside ==
  ASSUME NEW rs, \A r \in rs : IsSeq(r), NEW d, IsSeq(d), Inside(rs, d), NEW e
  PROVE  Inside(rs, Append(d, e))
  BY PrefixOfEntry DEF Inside

LEMMA EvalOfTop ==
  ASSUME NEW f, WellFormedFS(f)
  PROVE  EvalSymlinks(f, << >>) = << >>
<1>1. << >> \in DOMAIN f /\ LinkPositions(f, << >>) = {}
  BY DEF WellFormedFS, LinkPositions
<1>. QED  BY <1>1, EvalOfPhysical

\* Where an entry lies whose way Resolve has found to lead into a root: there
\* too, or it is a link that leads there.
LEMMA SpotInside ==
  ASSUME NEW f, WellFormedFS(f), NoPath \notin DOMAIN f, NEW p, IsSeq(p),
         NEW n \in 0..Len(p),
         \A m \in (n + 1)..Len(p) : EvalSymlinks(f, SubSeq(p, 1, m)) = NoPath,
         NEW rs, \A r \in rs : IsSeq(r),
         EvalSymlinks(f, SubSeq(p, 1, n)) # NoPath,
         Inside(rs, EvalSymlinks(f, SubSeq(p, 1, n))), Spot(f, p) # NoPath
  PROVE  /\ IsSeq(Spot(f, p))
         /\ Inside(rs, Spot(f, p)) \/ LeadsInside(f, rs, Spot(f, p))
<1>. DEFINE x == Spot(f, p)
<1>1. Len(p) \in Nat /\ SubSeq(p, 1, Len(p)) = p
  BY WholePrefix DEF IsSeq
<1>2. CASE p = << >>
  <2>1. n = 0 /\ x = << >> /\ SubSeq(p, 1, n) = p
    BY <1>1, <1>2 DEF Spot
  <2>2. IsSeq(<< >>)
    BY EmptySeq DEF IsSeq
  <2>. QED  BY <1>2, <2>1, <2>2, EvalOfTop
<1>3. CASE p # << >>
  <2>. DEFINE q == Front(p)
              l == Last(p)
              d == ExistingDir(f, q)
  <2>1. IsSeq(q) /\ p = Append(q, l) /\ Len(p) - 1 \in 0..Len(p)
        /\ q = SubSeq(p, 1, Len(p) - 1) /\ Len(q) = Len(p) - 1
    <3>1. IsSeq(q) /\ p = Append(q, l) /\ Len(q) = Len(p) - 1
      BY <1>3, FrontAndLast
    <3>2. Len(q) \in Nat
      BY <3>1, WholePrefix DEF IsSeq
    <3>. QED  BY <1>1, <3>1, <3>2 DEF Front
  <2>2. d # NoPath /\ x = Append(d, l) /\ IsSeq(d)
    BY <1>3, DirIsSeq DEF Spot, Parent
  <2>3. d = EvalSymlinks(f, q) /\ d \in DOMAIN f
    BY <2>2, EvalIsPhysical DEF ExistingDir
  <2>4. IsSeq(x)
    BY <2>2, AppendIsSeq
  <2>. HIDE DEF x, q, l, d
  <2>5. CASE n = Len(p) - 1
    <3>1. Inside(rs, d)
      BY <2>1, <2>3, <2>5
    <3>. QED  BY <2>2, <2>4, <3>1, EntryInside DEF x
  <2>6. CASE n = Len(p)
    <3>1. EvalSymlinks(f, p) # NoPath /\ Inside(rs, EvalSymlinks(f, p))
      BY <1>1, <2>6
    <3>2. EntryIs(p, q, l) /\ EntryIs(x, EvalSymlinks(f, q), l)
      BY <2>1, <2>2, <2>3 DEF EntryIs
    <3>3. x \in DOMAIN f /\ EvalSymlinks(f, x) = EvalSymlinks(f, p)
      BY <2>1, <2>2, <2>3, <3>1, <3>2, EntryLeads
    <3>4. CASE f[x].kind = "link"
      BY <2>4, <3>1, <3>3, <3>4 DEF LeadsInside, x
    <3>5. CASE f[x].kind # "link"
      <4>1. EvalSymlinks(f, p) = x
        BY <2>1, <2>2, <2>3, <3>2, <3>3, <3>5, EvalOfEntry
      <4>. QED  BY <2>4, <3>1, <4>1 DEF x
    <3>. QED  BY <3>4, <3>5
  <2>7. n = Len(p) - 1 \/ n = Len(p)
    <3>1. Len(p) \in Nat
      BY <1>1
    <3>. SUFFICES ASSUME n < Len(p) - 1 PROVE FALSE
      BY <3>1
    <3>2. Len(p) - 1 \in (n + 1)..Len(p)
      BY <3>1
    <3>. QED  BY <2>1, <2>2, <2>3, <3>2
  <2>. QED  BY <2>5, <2>6, <2>7
<1>. QED  BY <1>2, <1>3

\* Resolve and mkdir -p climb alike.
LEMMA DeepestOfPath ==
  ASSUME NEW f, NEW p, IsSeq(p)
  PROVE  Deepest(f, p, p)
<1>1. Len(p) \in Nat /\ SubSeq(p, 1, Len(p)) = p
  BY WholePrefix DEF IsSeq
<1>2. Len(p) \in 0..Len(p) /\ (Len(p) + 1)..Len(p) = {}
  BY <1>1
<1>. QED  BY <1>1, <1>2 DEF Deepest

LEMMA DeepestClimbs ==
  ASSUME NEW f, WellFormedFS(f), NoPath \notin DOMAIN f, NEW p, IsSeq(p), NEW q,
         Deepest(f, p, q), EvalSymlinks(f, q) = NoPath
  PROVE  Deepest(f, p, Parent(q))
<1>1. PICK n \in 0..Len(p) :
        /\ q = SubSeq(p, 1, n)
        /\ \A m \in (n + 1)..Len(p) : EvalSymlinks(f, SubSeq(p, 1, m)) = NoPath
  BY DEF Deepest
<1>2. Len(p) \in Nat /\ n \in Nat
  BY WholePrefix DEF IsSeq
<1>3. n # 0
  <2>1. SubSeq(p, 1, 0) = << >>
    BY SubSeqEmpty
  <2>2. EvalSymlinks(f, << >>) = << >> /\ << >> # NoPath
    BY EvalOfTop DEF WellFormedFS
  <2>. QED  BY <1>1, <2>1, <2>2
<1>4. Parent(q) = SubSeq(p, 1, n - 1)
  BY <1>1, <1>2, <1>3, ParentOfPrefix
<1>5. n - 1 \in 0..Len(p) /\ \A m \in ((n - 1) + 1)..Len(p) : m = n \/ m \in (n + 1)..Len(p)
  BY <1>2, <1>3
<1>6. \A m \in ((n - 1) + 1)..Len(p) : EvalSymlinks(f, SubSeq(p, 1, m)) = NoPath
  BY <1>1, <1>5
<1>. QED  BY <1>4, <1>5, <1>6 DEF Deepest

LEMMA DeepestIsOne ==
  ASSUME NEW f, NEW p, IsSeq(p),
         NEW q, Deepest(f, p, q), EvalSymlinks(f, q) # NoPath,
         NEW w, Deepest(f, p, w), EvalSymlinks(f, w) # NoPath
  PROVE  q = w
<1>1. PICK n \in 0..Len(p) :
        /\ q = SubSeq(p, 1, n)
        /\ \A m \in (n + 1)..Len(p) : EvalSymlinks(f, SubSeq(p, 1, m)) = NoPath
  BY DEF Deepest
<1>2. PICK k \in 0..Len(p) :
        /\ w = SubSeq(p, 1, k)
        /\ \A m \in (k + 1)..Len(p) : EvalSymlinks(f, SubSeq(p, 1, m)) = NoPath
  BY DEF Deepest
<1>3. Len(p) \in Nat
  BY WholePrefix DEF IsSeq
<1>4. n \notin (k + 1)..Len(p) /\ k \notin (n + 1)..Len(p)
  BY <1>1, <1>2
<1>5. n = k
  BY <1>3, <1>4
<1>. QED  BY <1>1, <1>2, <1>5

\* The next directory on the way down, and where it lies.
LEMMA NextStep ==
  ASSUME NEW f, WellFormedFS(f), NEW p, IsSeq(p), NEW w, NEW n \in 0..(Len(p) - 1),
         w = SubSeq(p, 1, n), ExistingDir(f, w) # NoPath
  PROVE  LET next == SubSeq(p, 1, Len(w) + 1)
         IN  /\ IsSeq(w) /\ Len(w) = n /\ EntryIs(next, w, Last(next))
             /\ EntryIs(Spot(f, next), ExistingDir(f, w), Last(next))
<1>. DEFINE next == SubSeq(p, 1, n + 1)
            S == ToSet(p)
<1>1. p \in Seq(S) /\ Len(p) \in Nat
  BY WholePrefix DEF IsSeq
<1>2. n \in Nat /\ n + 1 \in Nat /\ n + 1 <= Len(p) /\ n + 1 # 0 /\ (n + 1) - 1 = n
  BY <1>1
<1>3. /\ \A i \in 1..n : p[i] \in S
      /\ \A i \in 1..(n + 1) : p[i] \in S
  BY <1>1, <1>2, ElementOfSeq
<1>. HIDE DEF S
<1>4. /\ w \in Seq(S) /\ Len(w) = n
      /\ next \in Seq(S) /\ Len(next) = n + 1
  BY <1>2, <1>3, PrefixOf
<1>5. next # << >> /\ Parent(next) = w
  BY <1>2, ParentOfPrefix
<1>. HIDE DEF next
<1>6. IsSeq(w) /\ IsSeq(next)
  BY <1>4, SeqIsSeq
<1>7. next = Append(w, Last(next))
  BY <1>5, <1>6, FrontAndLast DEF Parent
<1>8. Spot(f, next) = Append(ExistingDir(f, w), Last(next))
  BY <1>5 DEF Spot
<1>. QED  BY <1>4, <1>6, <1>7, <1>8 DEF EntryIs, next

\* Once it is there, mkdir -p is in it.
LEMMA NextDir ==
  ASSUME NEW f, WellFormedFS(f), NEW f2, WellFormedFS(f2), NoPath \notin DOMAIN f2,
         IsRestriction(f, f2),
         NEW w, IsSeq(w), ExistingDir(f, w) # NoPath, NEW e, NEW q, EntryIs(q, w, e),
         NEW x, EntryIs(x, ExistingDir(f, w), e), x \in DOMAIN f2, f2[x].kind = "dir"
  PROVE  ExistingDir(f2, q) = x /\ x # NoPath
<1>1. ExistingDir(f2, w) = ExistingDir(f, w)
  BY ExistingDirStays
<1>2. EvalSymlinks(f2, w) # NoPath /\ EntryIs(x, EvalSymlinks(f2, w), e)
  BY <1>1 DEF ExistingDir
<1>3. EvalSymlinks(f2, q) = x
  BY <1>2, EvalOfEntry
<1>. QED  BY <1>3 DEF ExistingDir

LEMMA WithDirGrows ==
  ASSUME NEW f, NEW x, x \notin DOMAIN f
  PROVE  IsRestriction(f, WithDir(f, x)) /\ x \in DOMAIN WithDir(f, x)
         /\ WithDir(f, x)[x].kind = "dir"
  BY DEF IsRestriction, WithDir, Dir

\* What a call has found is not disturbed by anybody who leaves the tree alone.
LEMMA InsideStays ==
  ASSUME NEW c \in Calls, InsideOK(c),
         UNCHANGED <<pc[c], path[c], at[c], real[c], work[c]>>, ever[c] \subseteq ever'[c],
         alone'[c] # NoTree => alone[c] # NoTree /\ UNCHANGED fs
  PROVE  InsideOK(c)'
<1>. SUFFICES ASSUME alone'[c] # NoTree PROVE (TestedOK(c) /\ MakingOK(c) /\ RemovingOK(c))'
  BY DEF InsideOK
<1>1. UNCHANGED fs /\ TestedOK(c) /\ MakingOK(c) /\ RemovingOK(c)
  BY DEF InsideOK
<1>2. \A x : Inside(ever[c], x) => Inside(ever'[c], x)
  BY InsideGrows
<1>3. TestedOK(c)'
  BY <1>1, <1>2 DEF TestedOK
<1>4. MakingOK(c)'
  BY <1>1, <1>2 DEF MakingOK
<1>5. RemovingOK(c)'
  BY <1>1, <1>2 DEF RemovingOK, LeadsInside
<1>. QED  BY <1>3, <1>4, <1>5

\* What a handler with a tree of its own knows when it begins a step.
LEMMA HandlerKnows ==
  ASSUME InsideInv, NEW c \in Calls, Handling(c), alone[c] # NoTree
  PROVE  /\ WellFormedFS(fs) /\ NoPath \notin DOMAIN fs /\ \A r \in ever[c] : IsSeq(r)
         /\ TestedOK(c) /\ MakingOK(c) /\ RemovingOK(c)
         /\ pc[c] \in Pathed => IsSeq(path[c])
         /\ pc[c] = "empty" => IsSeq(work[c]) /\ work[c] # << >>
         /\ DOMAIN pc = Calls /\ DOMAIN work = Calls
         /\ UNCHANGED <<path, at, real, ever>>
<1>1. /\ WellFormedFS(fs) /\ NoPath \notin DOMAIN fs /\ \A r \in ever[c] : IsSeq(r)
      /\ pc[c] \in Pathed => IsSeq(path[c])
      /\ pc[c] = "empty" => IsSeq(work[c]) /\ work[c] # << >>
      /\ DOMAIN pc = Calls /\ DOMAIN work = Calls
  BY DEF InsideInv, PathInv, TreeInv, RootsInv, Shapes, AnswerOK, AllPaths, RootPaths, PathOK
<1>2. UNCHANGED <<path, at, real, ever>>
  BY HandlerSteps DEF locals, history
<1>3. TestedOK(c) /\ MakingOK(c) /\ RemovingOK(c)
  BY DEF InsideInv, InsideOK
<1>. QED  BY <1>1, <1>2, <1>3

\* The entry that a call is about, when it comes to make or remove it.
LEMMA OwnSpotInside ==
  ASSUME InsideInv, NEW c \in Calls, Handling(c), alone[c] # NoTree,
         pc[c] \in {"accepted", "rm", "open"}, Spot(fs, path[c]) # NoPath
  PROVE  LET x == Spot(fs, path[c])
         IN  IsSeq(x) /\ (Inside(ever[c], x) \/ LeadsInside(fs, ever[c], x))
<1>1. /\ WellFormedFS(fs) /\ NoPath \notin DOMAIN fs /\ \A r \in ever[c] : IsSeq(r)
      /\ TestedOK(c) /\ IsSeq(path[c])
  BY HandlerKnows DEF Pathed
<1>2. /\ Deepest(fs, path[c], at[c]) /\ EvalSymlinks(fs, at[c]) # NoPath
      /\ Inside(ever[c], EvalSymlinks(fs, at[c]))
  BY <1>1 DEF TestedOK, Tested
<1>3. PICK n \in 0..Len(path[c]) :
        /\ at[c] = SubSeq(path[c], 1, n)
        /\ \A m \in (n + 1)..Len(path[c]) : EvalSymlinks(fs, SubSeq(path[c], 1, m)) = NoPath
  BY <1>2 DEF Deepest
<1>. QED  BY <1>1, <1>2, <1>3, SpotInside

\* The directory that mkdir -p makes next.
LEMMA NextSpotInside ==
  ASSUME InsideInv, NEW c \in Calls, Handling(c), alone[c] # NoTree, pc[c] \in {"make", "lstat"}
  PROVE  LET x == Spot(fs, NextDown(c))
         IN  /\ Inside(ever[c], x)
             /\ \A f2 : /\ WellFormedFS(f2) /\ NoPath \notin DOMAIN f2 /\ IsRestriction(fs, f2)
                        /\ x \in DOMAIN f2 /\ f2[x].kind = "dir"
                        => ExistingDir(f2, NextDown(c)) = x /\ x # NoPath
<1>1. /\ WellFormedFS(fs) /\ NoPath \notin DOMAIN fs /\ \A r \in ever[c] : IsSeq(r)
      /\ MakingOK(c) /\ IsSeq(path[c])
  BY HandlerKnows DEF Pathed
<1>2. /\ ExistingDir(fs, work[c]) # NoPath /\ Inside(ever[c], ExistingDir(fs, work[c]))
      /\ IsSeq(ExistingDir(fs, work[c]))
  BY <1>1, DirIsSeq DEF MakingOK
<1>3. PICK n \in 0..(Len(path[c]) - 1) : work[c] = SubSeq(path[c], 1, n)
  BY <1>1 DEF MakingOK
<1>. DEFINE next == NextDown(c)
<1>4. /\ IsSeq(work[c]) /\ EntryIs(next, work[c], Last(next))
      /\ EntryIs(Spot(fs, next), ExistingDir(fs, work[c]), Last(next))
  BY <1>1, <1>2, <1>3, NextStep DEF NextDown
<1>. HIDE DEF next
<1>5. Inside(ever[c], Spot(fs, next))
  BY <1>1, <1>2, <1>4, EntryInside DEF EntryIs
<1>6. ASSUME NEW f2, WellFormedFS(f2), NoPath \notin DOMAIN f2, IsRestriction(fs, f2),
             Spot(fs, next) \in DOMAIN f2, f2[Spot(fs, next)].kind = "dir"
      PROVE  ExistingDir(f2, next) = Spot(fs, next) /\ Spot(fs, next) # NoPath
  BY <1>1, <1>2, <1>4, <1>6, NextDir
<1>. QED  BY <1>5, <1>6 DEF next

\* All that a call makes or removes lies in a root, but for a link that leads
\* into one.
LEMMA ChangesInside ==
  ASSUME InsideInv, NEW c \in Calls, Handling(c), alone[c] # NoTree,
         NEW x \in (DOMAIN fs \ DOMAIN fs') \cup (DOMAIN fs' \ DOMAIN fs)
  PROVE  Inside(ever[c], x) \/ LeadsInside(fs, ever[c], x)
<1>. USE DEF Handles, Untouched, Writes
<1>1. \A y : fs' = WithDir(fs, y) => x = y /\ y \notin DOMAIN fs
  BY DEF WithDir
<1>2. \A y : fs' = Without(fs, {y}) => x = y /\ y \in DOMAIN fs
  BY DEF Without, Restrict
<1>3. ~UNCHANGED fs
  OBVIOUS
<1>4. ASSUME NEW p, MkdirErr(fs, p) = "none" \/ RemoveErr(fs, p) = "none" PROVE Spot(fs, p) # NoPath
  BY <1>4 DEF MkdirErr, RemoveErr, WayErr
<1>5. CASE Mkdir(c)
  <2>1. pc[c] = "accepted" /\ x = Spot(fs, path[c]) /\ Spot(fs, path[c]) # NoPath
    BY <1>1, <1>3, <1>4, <1>5 DEF Mkdir
  <2>. QED  BY <2>1, OwnSpotInside
<1>6. CASE RemoveOne(c) \/ RemoveAll(c)
  <2>1. pc[c] = "rm" /\ x = Spot(fs, path[c]) /\ Spot(fs, path[c]) # NoPath
    BY <1>2, <1>3, <1>4, <1>6 DEF RemoveOne, RemoveAll, RemovesEntry
  <2>. QED  BY <2>1, OwnSpotInside
<1>7. CASE MakeDown(c)
  <2>1. pc[c] = "make" /\ x = Spot(fs, NextDown(c))
    BY <1>1, <1>3, <1>7 DEF MakeDown
  <2>. QED  BY <2>1, NextSpotInside
<1>8. CASE Unlink(c) \/ Rmdir(c)
  <2>1. pc[c] = "empty" /\ x = Head(work[c]).at
    BY <1>2, <1>3, <1>8 DEF Unlink, Rmdir
  <2>2. Head(work[c]) \in ToSet(work[c]) /\ RemovingOK(c)
    BY <2>1, HandlerKnows, ElementsOfTail
  <2>. QED  BY <2>1, <2>2 DEF RemovingOK
<1>. QED
  BY <1>3, <1>5, <1>6, <1>7, <1>8
     DEF Handling, ListAllowedDirs, MkdirAll, StatUp, LstatDown, ReadDir, Info, Listed, GuardRoots,
         OpenParent

LEMMA IsThereKeepsInside ==
  ASSUME InsideInv, PathInv', NEW c \in Calls, Handling(c), alone[c] # NoTree,
         pc[c] \in {"make", "lstat"}, IsThere(c), IsRestriction(fs, fs'),
         Spot(fs, NextDown(c)) \in DOMAIN fs', fs'[Spot(fs, NextDown(c))].kind = "dir"
  PROVE  (TestedOK(c) /\ MakingOK(c) /\ RemovingOK(c))'
<1>1. /\ TestedOK(c) /\ MakingOK(c) /\ IsSeq(path[c])
      /\ DOMAIN pc = Calls /\ DOMAIN work = Calls /\ UNCHANGED <<path, ever>>
  BY HandlerKnows DEF Pathed
<1>2. CASE NextDown(c) = path[c]
  BY <1>1, <1>2 DEF IsThere, Replies, TestedOK, MakingOK, RemovingOK, Tested
<1>3. CASE NextDown(c) # path[c]
  <2>1. pc'[c] = "make" /\ work'[c] = NextDown(c)
    BY <1>1, <1>3 DEF IsThere, Goes
  <2>2. WellFormedFS(fs') /\ NoPath \notin DOMAIN fs'
    BY DEF PathInv, TreeInv, AllPaths
  <2>. DEFINE x == Spot(fs, NextDown(c))
  <2>3. Inside(ever[c], x) /\ ExistingDir(fs', NextDown(c)) = x /\ x # NoPath
    BY <2>2, NextSpotInside
  <2>. HIDE DEF x
  <2>4. \E n \in 0..(Len(path[c]) - 1) : NextDown(c) = SubSeq(path[c], 1, n)
    <3>1. PICK n \in 0..(Len(path[c]) - 1) : work[c] = SubSeq(path[c], 1, n)
      BY <1>1 DEF MakingOK
    <3>2. /\ Len(work[c]) = n /\ Len(path[c]) \in Nat
          /\ SubSeq(path[c], 1, Len(path[c])) = path[c]
      BY <1>1, <3>1, PrefixOf, WholePrefix DEF IsSeq
    <3>3. n + 1 # Len(path[c])
      BY <1>3, <3>2 DEF NextDown
    <3>4. n + 1 \in 0..(Len(path[c]) - 1)
      BY <3>2, <3>3
    <3>. QED  BY <3>2, <3>4 DEF NextDown
  <2>5. MakingOK(c)'
    <3>1. ExistingDir(fs', work'[c]) # NoPath /\ Inside(ever'[c], ExistingDir(fs', work'[c]))
      BY <1>1, <2>1, <2>3
    <3>2. \E n \in 0..(Len(path'[c]) - 1) : work'[c] = SubSeq(path'[c], 1, n)
      BY <1>1, <2>1, <2>4
    <3>. QED  BY <2>1, <3>1, <3>2 DEF MakingOK
  <2>. QED  BY <2>1, <2>5 DEF TestedOK, RemovingOK, Tested
<1>. QED  BY <1>2, <1>3

LEMMA OneElement ==
  ASSUME NEW e
  PROVE  /\ IsSeq(<<e>>) /\ Len(<<e>>) = 1 /\ Head(<<e>>) = e
         /\ \A x \in ToSet(<<e>>) : x = e
<1>1. <<e>> \in Seq({e}) /\ Len(<<e>>) = 1 /\ Head(<<e>>) = e
  OBVIOUS
<1>2. \A x \in ToSet(<<e>>) : x \in {e}
  BY <1>1, ElementsOfSeq
<1>. QED  BY <1>1, <1>2, SeqIsSeq

\* Going on with the rest of the stack.
LEMMA PoppedKeepsInside ==
  ASSUME InsideInv, NEW c \in Calls, Handling(c), alone[c] # NoTree, pc[c] = "empty",
         NEW err, Popped(c, err)
  PROVE  (TestedOK(c) /\ MakingOK(c) /\ RemovingOK(c))'
<1>1. /\ RemovingOK(c) /\ IsSeq(work[c]) /\ work[c] # << >>
      /\ DOMAIN pc = Calls /\ DOMAIN work = Calls /\ UNCHANGED ever
  BY HandlerKnows
<1>2. CASE Len(work[c]) = 1
  BY <1>1, <1>2 DEF Popped, Replies, TestedOK, MakingOK, RemovingOK, Tested
<1>3. CASE Len(work[c]) # 1
  <2>1. pc'[c] = "empty" /\ work'[c] = Tail(work[c])
    BY <1>1, <1>3 DEF Popped, Goes
  <2>2. \A entry \in ToSet(work[c]) : IsSeq(entry.at) /\ Inside(ever[c], entry.at)
    BY <1>1, <1>3 DEF RemovingOK
  <2>3. \A entry \in ToSet(Tail(work[c])) : entry \in ToSet(work[c])
    BY <1>1, ElementsOfTail
  <2>4. \A entry \in ToSet(work'[c]) : IsSeq(entry.at) /\ Inside(ever'[c], entry.at)
    BY <1>1, <2>1, <2>2, <2>3
  <2>. QED  BY <2>1, <2>4 DEF TestedOK, MakingOK, RemovingOK, Tested
<1>. QED  BY <1>2, <1>3

\* A directory of the stack is listed: its entries lie where it does.
LEMMA ListedKeepsInside ==
  ASSUME InsideInv, NEW c \in Calls, Unlink(c), alone[c] # NoTree, UNCHANGED fs,
         Head(work[c]).at \in DOMAIN fs, fs[Head(work[c]).at].kind = "dir",
         Goes(c, "empty", SetToSeq({Entry(y, FALSE) : y \in Children(fs, Head(work[c]).at)})
                            \o <<Entry(Head(work[c]).at, TRUE)>> \o Tail(work[c]))
  PROVE  (TestedOK(c) /\ MakingOK(c) /\ RemovingOK(c))'
<1>. DEFINE x     == Head(work[c]).at
            below == {Entry(y, FALSE) : y \in Children(fs, x)}
            own   == <<Entry(x, TRUE)>>
            stack == SetToSeq(below) \o own \o Tail(work[c])
            Good(entry) == IsSeq(entry.at) /\ Inside(ever[c], entry.at)
<1>1. pc[c] = "empty" /\ Handling(c)
  BY DEF Unlink, Handling
<1>2. /\ WellFormedFS(fs) /\ \A r \in ever[c] : IsSeq(r)
      /\ RemovingOK(c) /\ IsSeq(work[c]) /\ work[c] # << >>
      /\ DOMAIN pc = Calls /\ DOMAIN work = Calls /\ UNCHANGED ever
  BY <1>1, HandlerKnows
<1>3. /\ Head(work[c]) \in ToSet(work[c]) /\ IsSeq(Tail(work[c]))
      /\ \A entry \in ToSet(Tail(work[c])) : entry \in ToSet(work[c])
  BY <1>2, ElementsOfTail
<1>4. \A entry \in ToSet(work[c]) : Good(entry)
  BY <1>1, <1>2 DEF RemovingOK, LeadsInside
<1>5. IsSeq(x) /\ Inside(ever[c], x)
  BY <1>3, <1>4
<1>6. ASSUME NEW entry \in below PROVE Good(entry)
  <2>1. PICK y \in Children(fs, x) : entry = Entry(y, FALSE)
    OBVIOUS
  <2>2. y \in DOMAIN fs /\ y = Append(x, Last(y))
    BY <1>2, <2>1, ChildIs
  <2>3. IsSeq(Append(x, Last(y))) /\ Inside(ever[c], Append(x, Last(y)))
    BY <1>2, <1>5, AppendIsSeq, EntryInside
  <2>. QED  BY <2>1, <2>2, <2>3 DEF Entry
<1>7. IsFiniteSet(below)
  <2>1. IsFiniteSet(Children(fs, x))
    BY <1>2, FS_Subset DEF Children, WellFormedFS
  <2>. DEFINE f == [y \in Children(fs, x) |-> Entry(y, FALSE)]
  <2>2. f \in Surjection(Children(fs, x), below)
    BY DEF Surjection
  <2>. QED  BY <2>1, <2>2, FS_Surjection
<1>8. IsSeq(own) /\ \A entry \in ToSet(own) : Good(entry)
  <2>1. IsSeq(own) /\ \A entry \in ToSet(own) : entry = Entry(x, TRUE)
    BY OneElement
  <2>2. Good(Entry(x, TRUE))
    BY <1>5 DEF Entry
  <2>. HIDE DEF own
  <2>. QED  BY <2>1, <2>2
<1>. HIDE DEF below, own, Good
<1>9. /\ IsSeq(SetToSeq(below))
      /\ \A entry \in ToSet(SetToSeq(below)) : entry \in below
  BY <1>7, SetToSeqIsSeq, ElementsOfSeq
<1>10. \A entry \in ToSet(stack) : Good(entry)
  <2>1. /\ IsSeq(SetToSeq(below) \o own)
        /\ \A entry \in ToSet(SetToSeq(below) \o own) : Good(entry)
    BY <1>6, <1>8, <1>9, ElementsOfConcat
  <2>. QED  BY <1>3, <1>4, <2>1, ElementsOfConcat
<1>11. pc'[c] = "empty" /\ work'[c] = stack
  BY <1>2 DEF Goes, below, own
<1>12. RemovingOK(c)'
  BY <1>2, <1>10, <1>11 DEF RemovingOK, Good
<1>. QED  BY <1>11, <1>12 DEF TestedOK, MakingOK, Tested

\* What a handler has found lies where it lay, when it goes on.
LEMMA HandlingKeepsInside ==
  ASSUME InsideInv, PathInv', NEW c \in Calls, Handling(c)
  PROVE  InsideOK(c)'
<1>. DEFINE Goal == (TestedOK(c) /\ MakingOK(c) /\ RemovingOK(c))'
<1>1. alone'[c] = alone[c]
  BY DEF InsideInv, Handling, ListAllowedDirs, Mkdir, MkdirAll, StatUp, MakeDown, LstatDown, ReadDir,
         Info, Listed, GuardRoots, RemoveOne, RemoveAll, RemovesEntry, OpenParent, Unlink, Rmdir,
         Untouched, Writes, Noticed
<1>. SUFFICES ASSUME alone[c] # NoTree PROVE Goal
  BY <1>1 DEF InsideOK
<1>2. /\ WellFormedFS(fs) /\ NoPath \notin DOMAIN fs
      /\ TestedOK(c) /\ MakingOK(c) /\ RemovingOK(c)
      /\ pc[c] \in Pathed => IsSeq(path[c])
      /\ DOMAIN pc = Calls /\ DOMAIN work = Calls
      /\ UNCHANGED <<path, at, real, ever>>
  BY HandlerKnows
<1>. USE DEF Handles, Untouched, Writes
<1>3. ASSUME pc'[c] \in {"answered", "info"} PROVE Goal
  BY <1>3 DEF TestedOK, MakingOK, RemovingOK, Tested
<1>4. ASSUME NEW code, NEW result, Replies(c, code, result) PROVE Goal
  BY <1>2, <1>3, <1>4 DEF Replies
\* On the way to the first change, Resolve's finding is carried along.
<1>5. ASSUME UNCHANGED fs, pc[c] \in {"accepted", "rm", "stat"}, pc'[c] \in {"stat", "rm", "open"},
             pc'[c] = "stat" => Deepest(fs, path[c], work'[c])
      PROVE  Goal
  BY <1>2, <1>5 DEF TestedOK, MakingOK, RemovingOK, Tested
<1>6. CASE ListAllowedDirs(c) \/ Mkdir(c) \/ RemoveOne(c) \/ Listed(c)
  BY <1>4, <1>6 DEF ListAllowedDirs, Mkdir, RemoveOne, Listed
<1>7. CASE MkdirAll(c)
  <2>1. pc[c] = "accepted" /\ pc'[c] = "stat" /\ work'[c] = path[c] /\ UNCHANGED fs
    BY <1>2, <1>7 DEF MkdirAll, Goes
  <2>. QED  BY <1>2, <1>5, <2>1, DeepestOfPath DEF Pathed
<1>8. CASE StatUp(c)
  <2>1. /\ pc[c] = "stat" /\ UNCHANGED fs /\ IsSeq(path[c])
        /\ Deepest(fs, path[c], at[c]) /\ Deepest(fs, path[c], work[c])
        /\ real[c] # NoPath /\ real[c] = EvalSymlinks(fs, at[c]) /\ Inside(ever[c], real[c])
    BY <1>2, <1>8 DEF StatUp, TestedOK, MakingOK, Tested, Pathed
  <2>2. CASE EvalSymlinks(fs, work[c]) = NoPath /\ Goes(c, "stat", Parent(work[c]))
    <3>1. Deepest(fs, path[c], Parent(work[c]))
      BY <1>2, <2>1, <2>2, DeepestClimbs
    <3>2. pc'[c] = "stat" /\ work'[c] = Parent(work[c])
      BY <1>2, <2>2 DEF Goes
    <3>. QED  BY <1>5, <2>1, <3>1, <3>2
  <2>3. CASE /\ EvalSymlinks(fs, work[c]) # NoPath /\ fs[EvalSymlinks(fs, work[c])].kind = "dir"
             /\ work[c] # path[c] /\ Goes(c, "make", work[c])
    <3>1. pc'[c] = "make" /\ work'[c] = work[c]
      BY <1>2, <2>3 DEF Goes
    <3>2. at[c] = work[c]
      BY <2>1, <2>3, DeepestIsOne
    <3>3. ExistingDir(fs, work[c]) # NoPath /\ Inside(ever[c], ExistingDir(fs, work[c]))
      BY <2>1, <2>3, <3>2 DEF ExistingDir
    <3>4. \E n \in 0..(Len(path[c]) - 1) : work[c] = SubSeq(path[c], 1, n)
      <4>1. PICK n \in 0..Len(path[c]) : work[c] = SubSeq(path[c], 1, n)
        BY <2>1 DEF Deepest
      <4>2. Len(path[c]) \in Nat /\ SubSeq(path[c], 1, Len(path[c])) = path[c]
        BY <2>1, WholePrefix DEF IsSeq
      <4>3. n # Len(path[c])
        BY <2>3, <4>1, <4>2
      <4>4. n \in 0..(Len(path[c]) - 1)
        BY <4>2, <4>3
      <4>. QED  BY <4>1, <4>4
    <3>5. MakingOK(c)'
      BY <1>2, <2>1, <3>1, <3>3, <3>4 DEF MakingOK
    <3>. QED  BY <3>1, <3>5 DEF TestedOK, RemovingOK, Tested
  <2>. QED  BY <1>4, <1>8, <2>2, <2>3 DEF StatUp
<1>9. CASE MakeDown(c)
  <2>1. CASE UNCHANGED <<fs, work>> /\ pc[c] = "make" /\ pc' = [pc EXCEPT ![c] = "lstat"]
    BY <1>2, <2>1 DEF TestedOK, MakingOK, RemovingOK, Tested
  <2>2. CASE /\ pc[c] = "make" /\ IsThere(c) /\ MkdirErr(fs, NextDown(c)) = "none"
             /\ fs' = WithDir(fs, Spot(fs, NextDown(c)))
    <3>1. Spot(fs, NextDown(c)) \notin DOMAIN fs
      BY <2>2 DEF MkdirErr, WayErr
    <3>2. /\ IsRestriction(fs, fs') /\ Spot(fs, NextDown(c)) \in DOMAIN fs'
          /\ fs'[Spot(fs, NextDown(c))].kind = "dir"
      BY <2>2, <3>1, WithDirGrows
    <3>. QED  BY <2>2, <3>2, IsThereKeepsInside
  <2>. QED  BY <1>9, <2>1, <2>2 DEF MakeDown
<1>10. CASE LstatDown(c)
  <2>1. IsRestriction(fs, fs)
    BY DEF IsRestriction
  <2>2. CASE /\ pc[c] = "lstat" /\ IsThere(c) /\ UNCHANGED fs
             /\ Spot(fs, NextDown(c)) \in DOMAIN fs /\ fs[Spot(fs, NextDown(c))].kind = "dir"
    BY <2>1, <2>2, IsThereKeepsInside
  <2>. QED  BY <1>4, <1>10, <2>2 DEF LstatDown
<1>11. CASE ReadDir(c) \/ Info(c)
  <2>1. pc'[c] \in {"answered", "info"}
    BY <1>2, <1>11 DEF ReadDir, Info, Goes, Replies
  <2>. QED  BY <1>3, <2>1
<1>12. CASE GuardRoots(c)
  <2>1. CASE pc[c] = "accepted" /\ Goes(c, "rm", << >>) /\ UNCHANGED fs
    BY <1>2, <1>5, <2>1 DEF Goes
  <2>. QED  BY <1>4, <1>12, <2>1 DEF GuardRoots
<1>13. CASE RemoveAll(c)
  <2>1. CASE pc[c] = "rm" /\ Goes(c, "open", << >>) /\ UNCHANGED fs
    BY <1>2, <1>5, <2>1 DEF Goes
  <2>. QED  BY <1>4, <1>13, <2>1 DEF RemoveAll, RemovesEntry
<1>14. CASE OpenParent(c)
  <2>. DEFINE x == Spot(fs, path[c])
  <2>1. CASE pc[c] = "open" /\ UNCHANGED fs /\ x # NoPath /\ Goes(c, "empty", <<Entry(x, FALSE)>>)
    <3>1. IsSeq(x) /\ (Inside(ever[c], x) \/ LeadsInside(fs, ever[c], x))
      BY <2>1, OwnSpotInside
    <3>. HIDE DEF x
    <3>2. /\ pc'[c] = "empty" /\ work'[c] = <<Entry(x, FALSE)>>
      BY <1>2, <2>1 DEF Goes
    <3>3. /\ Len(<<Entry(x, FALSE)>>) = 1 /\ Head(<<Entry(x, FALSE)>>) = Entry(x, FALSE)
          /\ \A entry \in ToSet(<<Entry(x, FALSE)>>) : entry = Entry(x, FALSE)
      BY OneElement
    <3>4. Entry(x, FALSE).at = x /\ ~Entry(x, FALSE).listed
      BY DEF Entry
    <3>5. RemovingOK(c)'
      BY <1>2, <2>1, <3>1, <3>2, <3>3, <3>4 DEF RemovingOK
    <3>. QED  BY <3>2, <3>5 DEF TestedOK, MakingOK, Tested
  <2>. QED  BY <1>4, <1>14, <2>1 DEF OpenParent
<1>15. CASE Unlink(c)
  BY <1>15, PoppedKeepsInside, ListedKeepsInside DEF Unlink
<1>16. CASE Rmdir(c)
  BY <1>16, PoppedKeepsInside DEF Rmdir
<1>. QED
  BY <1>6, <1>7, <1>8, <1>9, <1>10, <1>11, <1>12, <1>13, <1>14, <1>15, <1>16 DEF Handling

\* Resolve climbs, finds, and tests what it has found against the roots.
LEMMA LookingKeepsInside ==
  ASSUME InsideInv, PathInv', NEW c \in Calls, Looking(c), UNCHANGED session
  PROVE  InsideOK(c)'
<1>1. /\ WellFormedFS(fs) /\ NoPath \notin DOMAIN fs /\ Keyed /\ DOMAIN pc = Calls
      /\ DOMAIN path = Calls /\ InsideOK(c)
  BY DEF InsideInv, PathInv, TreeInv, RootsInv, Shapes, AllPaths
<1>. USE DEF Goto, world, history, session, Keyed, InsideOK, TestedOK, MakingOK, RemovingOK, Tested
<1>2. CASE ListRoots(c) \/ EvalRoot(c) \/ StatRoot(c) \/ AddResolve(c) \/ AddStat(c) \/ RemoveResolve(c)
  BY <1>1, <1>2 DEF ListRoots, EvalRoot, StatRoot, AddResolve, AddStat, RemoveResolve
<1>3. CASE Lexical(c)
  <2>1. /\ pc'[c] \in {"eval", "rejected"} /\ path'[c] = at'[c] /\ UNCHANGED fs
    BY <1>1, <1>3 DEF Lexical
  <2>2. pc'[c] = "eval" => IsSeq(path'[c])
    BY DEF PathInv, PathOK, Pathed
  <2>. QED  BY <2>1, <2>2, DeepestOfPath
<1>4. CASE EvalParent(c)
  <2>1. /\ pc[c] = "eval" /\ pc'[c] = "eval" /\ UNCHANGED <<path, fs, alone>>
        /\ EvalSymlinks(fs, at[c]) = NoPath /\ at'[c] = Parent(at[c])
    BY <1>1, <1>4 DEF EvalParent
  <2>2. IsSeq(path[c])
    BY <2>1 DEF InsideInv, PathInv, PathOK, Pathed
  <2>3. alone'[c] # NoTree => Deepest(fs, path[c], at[c])
    BY <1>1, <2>1
  <2>4. alone'[c] # NoTree => Deepest(fs, path[c], at'[c])
    BY <1>1, <2>1, <2>2, <2>3, DeepestClimbs
  <2>. QED  BY <2>1, <2>4
<1>5. CASE EvalFound(c)
  <2>1. /\ pc[c] = "eval" /\ pc'[c] = "check" /\ UNCHANGED <<path, at, fs, alone>>
        /\ EvalSymlinks(fs, at[c]) # NoPath /\ real'[c] = EvalSymlinks(fs, at[c])
    BY <1>1, <1>5 DEF EvalFound
  <2>. QED  BY <1>1, <2>1
<1>6. CASE CheckReal(c)
  <2>1. /\ pc[c] = "check" /\ UNCHANGED <<path, at, real, fs, ever, alone>>
        /\ pc'[c] \in {"accepted", "rejected"}
        /\ pc'[c] = "accepted" => WithinAny(AllowedRoots, real[c])
    BY <1>1, <1>6 DEF CheckReal, locals
  <2>2. AllowedRoots \subseteq ever[c]
    BY <2>1 DEF InsideInv, PathInv, TreeInv, RootsInv, RootsOK, RootsBracketed
  <2>3. pc'[c] = "accepted" => Inside(ever[c], real[c])
    BY <2>1, <2>2, WithinIsInside, InsideGrows
  <2>. QED  BY <1>1, <2>1, <2>3
<1>. QED  BY <1>2, <1>3, <1>4, <1>5, <1>6 DEF Looking

LEMMA InsideInvInit == SessionInit => InsideInv
  BY PathInvInit DEF SessionInit, Init, InsideInv, InsideOK, TestedOK, MakingOK, RemovingOK, Tested

LEMMA InsideInvStep == InsideInv /\ [SessionNext]_sessionVars => InsideInv'
<1>. SUFFICES ASSUME InsideInv, [SessionNext]_sessionVars PROVE InsideInv'
  OBVIOUS
<1>0. /\ PathInv /\ PathInv' /\ TreeInv /\ DOMAIN pc = Calls /\ DOMAIN path = Calls
      /\ DOMAIN at = Calls /\ DOMAIN real = Calls /\ DOMAIN work = Calls /\ DOMAIN alone = Calls
      /\ DOMAIN ever = Calls
  BY PathInvStep DEF InsideInv, PathInv, TreeInv, RootsInv, Shapes, Keyed
<1>1. \A c \in Calls : InsideOK(c)
  BY DEF InsideInv
\* A call that is not where it has something to know.
<1>2. ASSUME NEW c \in Calls,
             pc'[c] \notin Tested \cup {"eval", "make", "lstat", "empty"}
      PROVE  InsideOK(c)'
  BY <1>2 DEF InsideOK, TestedOK, MakingOK, RemovingOK, Tested
<1>3. ASSUME NEW c \in Calls, Start(c) \/ Edits(c) \/ Finish(c) PROVE InsideInv'
  <2>1. /\ UNCHANGED fs /\ DOMAIN alone' = Calls /\ pc'[c] \in {"pull", "add", "remove", "idle"}
        /\ \A o \in Calls \ {c} :
             UNCHANGED <<pc[o], path[o], at[o], real[o], work[o], ever[o], alone[o]>>
    BY <1>0, <1>3 DEF Start, Edits, Finish, BeginAdd, BeginRemove, Begin, Forget, Goto, world,
                      session
  <2>2. \A o \in Calls \ {c} : InsideOK(o)'
    BY <1>1, <2>1, InsideStays
  <2>3. InsideOK(c)'
    BY <1>2, <2>1 DEF Tested
  <2>. QED  BY <1>0, <2>1, <2>2, <2>3 DEF InsideInv
<1>4. ASSUME NEW c \in Calls, Handling(c) PROVE InsideInv'
  <2>1. /\ UNCHANGED <<path, at, real, ever>>
        /\ \A o \in Calls \ {c} : UNCHANGED <<pc[o], work[o]>>
    BY <1>0, <1>4, HandlerSteps, HandlingFacts DEF TreeInv, locals, history
  <2>2. /\ DOMAIN alone' = Calls
        /\ \A o \in Calls \ {c} : alone'[o] # NoTree => alone[o] # NoTree /\ UNCHANGED fs
    <3>1. Untouched \/ (\E tree : Writes(c, tree))
      BY <1>4 DEF Handling, ListAllowedDirs, Mkdir, MkdirAll, StatUp, MakeDown, LstatDown, ReadDir,
                  Info, Listed, GuardRoots, RemoveOne, RemoveAll, RemovesEntry, OpenParent, Unlink,
                  Rmdir
    <3>. QED  BY <1>0, <3>1 DEF Untouched, Writes, Noticed
  <2>3. \A o \in Calls \ {c} : InsideOK(o)'
    BY <1>1, <2>1, <2>2, InsideStays
  <2>4. InsideOK(c)'
    BY <1>0, <1>4, HandlingKeepsInside
  <2>. QED  BY <1>0, <2>2, <2>3, <2>4 DEF InsideInv
<1>5. ASSUME NEW c \in Calls, Looking(c), UNCHANGED session PROVE InsideInv'
  <2>1. /\ UNCHANGED <<fs, ever, work, alone>>
        /\ \A o \in Calls \ {c} : UNCHANGED <<pc[o], path[o], at[o], real[o]>>
    BY <1>0, <1>5 DEF Looking, ListRoots, EvalRoot, StatRoot, Lexical, EvalParent, EvalFound, CheckReal,
         AddResolve, AddStat, RemoveResolve, Goto, world, locals, history, session
  <2>2. \A o \in Calls \ {c} : InsideOK(o)'
    BY <1>1, <2>1, InsideStays
  <2>3. InsideOK(c)'
    BY <1>0, <1>5, LookingKeepsInside
  <2>. QED  BY <1>0, <2>1, <2>2, <2>3 DEF InsideInv
<1>6. ASSUME NEW c \in Calls, Editing(c), UNCHANGED session PROVE InsideInv'
  <2>1. /\ UNCHANGED <<fs, path, at, real, work, alone>>
        /\ Observe /\ \A o \in Calls \ {c} : UNCHANGED pc[o]
        /\ pc'[c] \in {"lexical", "added", "removed"}
    BY <1>0, <1>6, EditingFacts, EditingKeepsPaths DEF TreeInv, locals, session
  <2>2. \A o \in Calls : ever[o] \subseteq ever'[o]
    BY <2>1 DEF Observe
  <2>3. \A o \in Calls \ {c} : InsideOK(o)'
    BY <1>1, <2>1, <2>2, InsideStays
  <2>4. InsideOK(c)'
    BY <1>2, <2>1 DEF Tested
  <2>. QED  BY <1>0, <2>1, <2>3, <2>4 DEF InsideInv
<1>7. CASE OthersWrite
  <2>1. alone' = [c \in Calls |-> NoTree]
    BY <1>7 DEF OthersWrite, Noticed
  <2>. QED  BY <1>0, <2>1 DEF InsideInv, InsideOK
<1>8. CASE (ClientChangesRoots /\ UNCHANGED session) \/ UNCHANGED sessionVars
  <2>1. UNCHANGED <<fs, pc, path, at, real, work, alone, ever>>
    BY <1>8 DEF ClientChangesRoots, sessionVars, vars, world, locals, history, session
  <2>2. \A c \in Calls : InsideOK(c)'
    BY <1>1, <2>1, InsideStays
  <2>. QED  BY <1>0, <2>1, <2>2 DEF InsideInv
<1>9. ASSUME NEW c \in Calls, Works(c) PROVE InsideInv'
  BY <1>4, <1>5, <1>6, <1>9
     DEF Works, SandboxStep, PathStep, EditStep, Handling, Looking, Editing
<1>. QED
  BY <1>3, <1>7, <1>8, <1>9 DEF SessionNext

-----------------------------------------------------------------------------
(* What a step may change.                                                 *)

LEMMA StepActsInside ==
  InsideInv /\ [SessionNext]_sessionVars =>
    [\A c \in Calls : Moves(c) /\ alone[c] # NoTree =>
       \A x \in (DOMAIN fs \ DOMAIN fs') \cup (DOMAIN fs' \ DOMAIN fs) :
         LET leads == EvalSymlinks(fs, x)
         IN  \E r \in ever[c] : IsPrefix(r, x) \/ (leads # NoPath /\ IsPrefix(r, leads))]_sessionVars
<1>. DEFINE Allowed(c, x) ==
              LET leads == EvalSymlinks(fs, x)
              IN  \E r \in ever[c] : IsPrefix(r, x) \/ (leads # NoPath /\ IsPrefix(r, leads))
            Acts(c) ==
              Moves(c) /\ alone[c] # NoTree =>
                \A x \in (DOMAIN fs \ DOMAIN fs') \cup (DOMAIN fs' \ DOMAIN fs) : Allowed(c, x)
<1>. SUFFICES ASSUME InsideInv, SessionNext PROVE \A c \in Calls : Acts(c)
  BY DEF sessionVars
<1>0. RootsInv
  BY DEF InsideInv, PathInv, TreeInv
<1>1. ASSUME NEW c \in Calls, Handling(c), NEW o \in Calls PROVE Acts(o)
  <2>1. CASE o # c
    BY <1>0, <1>1, <2>1, HandlingFacts DEF Moves
  <2>2. CASE o = c
    <3>. SUFFICES ASSUME alone[c] # NoTree,
                         NEW x \in (DOMAIN fs \ DOMAIN fs') \cup (DOMAIN fs' \ DOMAIN fs)
                  PROVE  Allowed(c, x)
      BY <2>2
    <3>1. Inside(ever[c], x) \/ LeadsInside(fs, ever[c], x)
      BY <1>1, ChangesInside
    <3>. QED  BY <3>1 DEF Inside, LeadsInside
  <2>. QED  BY <2>1, <2>2
<1>2. UNCHANGED fs => \A c \in Calls : Acts(c)
  OBVIOUS
<1>3. ASSUME NEW c \in Calls, Start(c) \/ Edits(c) \/ Finish(c) PROVE UNCHANGED fs
  BY <1>3 DEF Start, Edits, Finish, BeginAdd, BeginRemove, Begin, Forget, world
<1>4. ASSUME NEW c \in Calls, SandboxStep(c) PROVE UNCHANGED fs
  BY <1>0, <1>4, LookingFacts, EditingFacts DEF SandboxStep, PathStep, EditStep, Looking, Editing
<1>5. OthersWrite => \A c \in Calls : ~Moves(c)
  BY DEF OthersWrite, FilesystemChanges, Moves
<1>6. ClientChangesRoots => UNCHANGED fs
  BY DEF ClientChangesRoots
<1>. HIDE DEF Acts
<1>7. ASSUME NEW c \in Calls, Works(c) PROVE \A o \in Calls : Acts(o)
  BY <1>1, <1>2, <1>4, <1>7 DEF Works, Handling
<1>8. OthersWrite => \A c \in Calls : Acts(c)
  BY <1>5 DEF Acts
<1>. QED
  BY <1>2, <1>3, <1>6, <1>7, <1>8 DEF SessionNext

\* While nobody else changes the tree, all that a call makes or removes lies
\* in a root that was allowed while it ran, or is a link that leads into one:
\* what Resolve has tested of the path is what package os comes to act on,
\* through every climb of mkdir -p and every level of rm -r, and however the
\* roots are edited meanwhile.
THEOREM ActsAlwaysInside == SessionSpec => ActsInside
  BY InsideInvInit, InsideInvStep, StepActsInside, PTL DEF SessionSpec, ActsInside

-----------------------------------------------------------------------------
(* The invariant of mkdir -p.                                              *)

MakesAll(c) == request[c].op = "mkdir" /\ request[c].rec

\* When the call began, its path led to no directory from the m-th name on.
MissingBelow(c, n) ==
  \A m \in (n + 1)..Len(path[c]) : ExistingDir(kept[c], SubSeq(path[c], 1, m)) = NoPath

\* Something else than a directory, where no directory was.
InTheWay(c, p) ==
  /\ Spot(fs, p) \in DOMAIN fs /\ fs[Spot(fs, p)].kind # "dir"
  /\ ExistingDir(kept[c], p) = NoPath

\* As long as nothing is removed, what mkdir -p has climbed past was missing
\* from the start, and where it has come to on the way down stays a directory.
DownOK(c) ==
  /\ WellFormedFS(kept[c]) /\ IsRestriction(kept[c], fs)
  /\ pc[c] \in {"stat", "make", "lstat"} =>
       \E n \in 0..Len(path[c]) :
         /\ work[c] = SubSeq(path[c], 1, n) /\ MissingBelow(c, n)
         /\ pc[c] # "stat" => n < Len(path[c]) /\ ExistingDir(fs, work[c]) # NoPath
  /\ pc[c] = "lstat" => answer[c] # "ok" /\ Spot(fs, NextDown(c)) \in DOMAIN fs
  /\ pc[c] = "answered" =>
       IF answer[c] = "ok" THEN ExistingDir(fs, path[c]) # NoPath
       ELSE \E i \in 1..Len(path[c]) : InTheWay(c, SubSeq(path[c], 1, i))

MakesOK(c) ==
  MakesAll(c) => /\ pc[c] \notin {"idle", "info", "rm", "open", "empty"}
                 /\ kept[c] # NoTree => DownOK(c)

MakesInv == PathInv /\ DOMAIN kept = Calls /\ \A c \in Calls : MakesOK(c)

\* Who only adds something changes nothing about an entry.
LEMMA SpotStays ==
  ASSUME NEW f, WellFormedFS(f), NoPath \notin DOMAIN f, NEW f2, IsRestriction(f, f2),
         NEW p, Spot(f, p) \in DOMAIN f
  PROVE  Spot(f2, p) = Spot(f, p) /\ Spot(f, p) \in DOMAIN f2
         /\ f2[Spot(f, p)] = f[Spot(f, p)]
<1>1. CASE p = << >>
  BY <1>1 DEF Spot, IsRestriction
<1>2. CASE p # << >>
  <2>1. ExistingDir(f, Parent(p)) # NoPath
    BY <1>2 DEF Spot
  <2>2. ExistingDir(f2, Parent(p)) = ExistingDir(f, Parent(p))
    BY <2>1, ExistingDirStays
  <2>. QED  BY <1>2, <2>2 DEF Spot, IsRestriction
<1>. QED  BY <1>1, <1>2

\* A path that leads to no directory leads, with its last name, to an entry
\* that is none.
LEMMA LeadsToOther ==
  ASSUME NEW f, WellFormedFS(f), NoPath \notin DOMAIN f, NEW p, IsSeq(p), p # << >>,
         EvalSymlinks(f, p) # NoPath, f[EvalSymlinks(f, p)].kind # "dir"
  PROVE  Spot(f, p) \in DOMAIN f /\ f[Spot(f, p)].kind # "dir"
<1>. DEFINE q == Front(p)
            l == Last(p)
            d == EvalSymlinks(f, q)
<1>1. IsSeq(q) /\ p = Append(q, l)
  BY FrontAndLast
<1>2. Spot(f, p) = IF ExistingDir(f, q) = NoPath THEN NoPath ELSE Append(ExistingDir(f, q), l)
  BY DEF Spot, Parent
<1>. HIDE DEF q, l
<1>3. EntryIs(p, q, l)
  BY <1>1 DEF EntryIs
<1>4. d # NoPath /\ f[d].kind = "dir" /\ Append(d, l) \in DOMAIN f
  BY <1>1, <1>3, EntryLeads
<1>5. Spot(f, p) = Append(d, l)
  BY <1>2, <1>4 DEF ExistingDir
<1>6. EntryIs(Spot(f, p), d, l)
  BY <1>5 DEF EntryIs
<1>7. Spot(f, p) \in DOMAIN f
  BY <1>4, <1>5
<1>8. f[Spot(f, p)].kind # "link" => EvalSymlinks(f, p) = Spot(f, p)
  <2>. HIDE DEF d
  <2>1. EntryIs(Spot(f, p), EvalSymlinks(f, q), l) /\ EvalSymlinks(f, q) # NoPath
    BY <1>4, <1>6 DEF d
  <2>. QED  BY <1>1, <1>3, <1>7, <2>1, EvalOfEntry
<1>. QED  BY <1>7, <1>8

\* What a mkdir -p has found is not disturbed by anybody who only adds
\* something.
LEMMA MakesStays ==
  ASSUME MakesInv, NEW c \in Calls,
         UNCHANGED <<pc[c], path[c], request[c], work[c], answer[c]>>,
         kept'[c] # NoTree => kept'[c] = kept[c] /\ IsRestriction(fs, fs')
  PROVE  MakesOK(c)'
<1>. SUFFICES ASSUME MakesAll(c), kept'[c] # NoTree PROVE DownOK(c)'
  BY DEF MakesInv, MakesOK, MakesAll
<1>1. /\ DownOK(c) /\ kept'[c] = kept[c] /\ IsRestriction(fs, fs')
      /\ WellFormedFS(fs) /\ NoPath \notin DOMAIN fs
  BY DEF MakesInv, MakesOK, PathInv, TreeInv, AllPaths
<1>2. IsRestriction(kept[c], fs')
  BY <1>1 DEF DownOK, IsRestriction
<1>3. \A p : ExistingDir(fs, p) # NoPath => ExistingDir(fs', p) = ExistingDir(fs, p)
  BY <1>1, ExistingDirStays
<1>4. \A p : Spot(fs, p) \in DOMAIN fs =>
        Spot(fs', p) = Spot(fs, p) /\ Spot(fs, p) \in DOMAIN fs' /\ fs'[Spot(fs, p)] = fs[Spot(fs, p)]
  BY <1>1, SpotStays
<1>5. /\ (WellFormedFS(kept[c]) /\ IsRestriction(kept[c], fs))'
      /\ \A n : MissingBelow(c, n)' <=> MissingBelow(c, n)
      /\ \A p : InTheWay(c, p) => InTheWay(c, p)'
      /\ NextDown(c)' = NextDown(c)
  BY <1>1, <1>2, <1>4 DEF DownOK, MissingBelow, InTheWay, NextDown
<1>6. pc[c] \in {"stat", "make", "lstat"} =>
        \E n \in 0..Len(path[c]) :
          /\ work[c] = SubSeq(path[c], 1, n) /\ MissingBelow(c, n)'
          /\ pc[c] # "stat" => n < Len(path[c]) /\ ExistingDir(fs', work[c]) # NoPath
  BY <1>1, <1>3, <1>5 DEF DownOK
<1>7. pc[c] = "lstat" => answer[c] # "ok" /\ Spot(fs', NextDown(c)) \in DOMAIN fs'
  BY <1>1, <1>4 DEF DownOK
<1>8. pc[c] = "answered" =>
        IF answer[c] = "ok" THEN ExistingDir(fs', path[c]) # NoPath
        ELSE \E i \in 1..Len(path[c]) : InTheWay(c, SubSeq(path[c], 1, i))'
  BY <1>1, <1>3, <1>5 DEF DownOK
<1>. QED  BY <1>5, <1>6, <1>7, <1>8 DEF DownOK

\* Once the next directory is there, mkdir -p has come down to it.
LEMMA IsThereMakes ==
  ASSUME MakesInv, PathInv', NEW c \in Calls, Handling(c), MakesAll(c), kept[c] # NoTree,
         pc[c] \in {"make", "lstat"}, IsThere(c), UNCHANGED <<path, kept[c]>>,
         IsRestriction(fs, fs'),
         Spot(fs, NextDown(c)) \in DOMAIN fs', fs'[Spot(fs, NextDown(c))].kind = "dir"
  PROVE  DownOK(c)'
<1>1. /\ DownOK(c) /\ IsSeq(path[c]) /\ WellFormedFS(fs) /\ NoPath \notin DOMAIN fs
      /\ DOMAIN pc = Calls /\ DOMAIN work = Calls /\ DOMAIN answer = Calls
      /\ WellFormedFS(fs') /\ NoPath \notin DOMAIN fs'
  BY DEF MakesInv, MakesOK, PathInv, TreeInv, RootsInv, Shapes, AllPaths, PathOK, Pathed
<1>2. PICK n \in 0..Len(path[c]) :
        /\ work[c] = SubSeq(path[c], 1, n) /\ MissingBelow(c, n)
        /\ n < Len(path[c]) /\ ExistingDir(fs, work[c]) # NoPath
  BY <1>1 DEF DownOK
<1>3. n \in Nat /\ Len(path[c]) \in Nat /\ n \in 0..(Len(path[c]) - 1)
      /\ n + 1 \in 0..Len(path[c])
      /\ \A m \in ((n + 1) + 1)..Len(path[c]) : m \in (n + 1)..Len(path[c])
  BY <1>1, <1>2, WholePrefix DEF IsSeq
<1>. DEFINE next == NextDown(c)
<1>4. /\ IsSeq(work[c]) /\ Len(work[c]) = n /\ EntryIs(next, work[c], Last(next))
      /\ EntryIs(Spot(fs, next), ExistingDir(fs, work[c]), Last(next))
  BY <1>1, <1>2, <1>3, NextStep DEF NextDown
<1>5. next = SubSeq(path[c], 1, n + 1)
  BY <1>4 DEF NextDown
<1>. HIDE DEF next
<1>6. ExistingDir(fs', next) # NoPath
  <2>1. Spot(fs, next) \in DOMAIN fs' /\ fs'[Spot(fs, next)].kind = "dir"
    BY DEF next
  <2>. QED  BY <1>1, <1>2, <1>4, <2>1, NextDir
<1>7. (WellFormedFS(kept[c]) /\ IsRestriction(kept[c], fs))'
  BY <1>1 DEF DownOK, IsRestriction
<1>8. CASE next = path[c]
  <2>1. pc'[c] = "answered" /\ answer'[c] = "ok"
    BY <1>1, <1>8 DEF IsThere, Replies, next
  <2>. QED  BY <1>6, <1>7, <1>8, <2>1 DEF DownOK
<1>9. CASE next # path[c]
  <2>1. pc'[c] = "make" /\ work'[c] = next
    BY <1>1, <1>9 DEF IsThere, Goes, next
  <2>2. n + 1 < Len(path[c])
    <3>1. Len(path[c]) = n + 1 => next = path[c]
      BY <1>1, <1>5, WholePrefix DEF IsSeq
    <3>. QED  BY <1>3, <1>9, <3>1
  <2>3. MissingBelow(c, n + 1)'
    BY <1>2, <1>3 DEF MissingBelow
  <2>4. /\ n + 1 \in 0..Len(path'[c]) /\ work'[c] = SubSeq(path'[c], 1, n + 1)
        /\ n + 1 < Len(path'[c]) /\ ExistingDir(fs', work'[c]) # NoPath
    BY <1>3, <1>5, <1>6, <2>1, <2>2
  <2>. QED  BY <1>7, <2>1, <2>3, <2>4 DEF DownOK
<1>. QED  BY <1>8, <1>9

LEMMA StatMakes ==
  ASSUME MakesInv, NEW c \in Calls, StatUp(c), MakesAll(c), kept[c] # NoTree,
         UNCHANGED <<path, kept[c], fs>>
  PROVE  DownOK(c)'
<1>1. /\ DownOK(c) /\ IsSeq(path[c]) /\ WellFormedFS(fs) /\ NoPath \notin DOMAIN fs
      /\ DOMAIN pc = Calls /\ DOMAIN work = Calls /\ DOMAIN answer = Calls
      /\ pc[c] = "stat"
  BY DEF MakesInv, MakesOK, PathInv, TreeInv, RootsInv, Shapes, AllPaths, PathOK, Pathed, StatUp
<1>2. PICK n \in 0..Len(path[c]) : work[c] = SubSeq(path[c], 1, n) /\ MissingBelow(c, n)
  BY <1>1 DEF DownOK
<1>3. n \in Nat /\ Len(path[c]) \in Nat /\ SubSeq(path[c], 1, Len(path[c])) = path[c]
  BY <1>1, <1>2, WholePrefix DEF IsSeq
<1>4. (WellFormedFS(kept[c]) /\ IsRestriction(kept[c], fs))'
  BY <1>1 DEF DownOK
<1>5. ExistingDir(fs, work[c]) = NoPath => ExistingDir(kept[c], work[c]) = NoPath
  <2>1. ExistingDir(kept[c], work[c]) # NoPath =>
          ExistingDir(fs, work[c]) = ExistingDir(kept[c], work[c])
    BY <1>1, ExistingDirStays DEF DownOK
  <2>. QED  BY <2>1
<1>. DEFINE x == EvalSymlinks(fs, work[c])
<1>6. ExistingDir(fs, work[c]) # NoPath <=> x # NoPath /\ fs[x].kind = "dir"
  BY DEF ExistingDir
<1>7. n = 0 => x # NoPath /\ fs[x].kind = "dir"
  <2>1. SubSeq(path[c], 1, 0) = << >> /\ EvalSymlinks(fs, << >>) = << >>
    BY <1>1, SubSeqEmpty, EvalOfTop
  <2>2. << >> \in DOMAIN fs /\ fs[<< >>].kind = "dir"
    BY <1>1 DEF WellFormedFS, Dir
  <2>3. << >> # NoPath
    BY <1>1, <2>2
  <2>. QED  BY <1>2, <2>1, <2>2, <2>3
<1>. HIDE DEF x
<1>8. CASE x = NoPath /\ Goes(c, "stat", Parent(work[c]))
  <2>1. n # 0
    BY <1>7, <1>8
  <2>2. Parent(work[c]) = SubSeq(path[c], 1, n - 1)
    BY <1>2, <1>3, <2>1, ParentOfPrefix
  <2>3. MissingBelow(c, n - 1)
    <3>1. \A m \in ((n - 1) + 1)..Len(path[c]) : m = n \/ m \in (n + 1)..Len(path[c])
      BY <1>3
    <3>2. ExistingDir(kept[c], SubSeq(path[c], 1, n)) = NoPath
      BY <1>2, <1>5, <1>6, <1>8
    <3>. QED  BY <1>2, <3>1, <3>2 DEF MissingBelow
  <2>4. pc'[c] = "stat" /\ work'[c] = SubSeq(path[c], 1, n - 1) /\ n - 1 \in 0..Len(path[c])
    BY <1>1, <1>3, <1>8, <2>1, <2>2 DEF Goes
  <2>5. MissingBelow(c, n - 1)'
    BY <2>3 DEF MissingBelow
  <2>. QED  BY <1>4, <2>4, <2>5 DEF DownOK
<1>9. CASE x # NoPath /\ fs[x].kind # "dir" /\ Replies(c, classify("ENOTDIR"), {})
  <2>1. pc'[c] = "answered" /\ answer'[c] # "ok"
    BY <1>1, <1>9 DEF Replies, classify
  <2>2. n # 0 /\ n \in 1..Len(path[c])
    BY <1>3, <1>7, <1>9
  <2>3. IsSeq(work[c]) /\ work[c] # << >>
    <3>. DEFINE S == ToSet(path[c])
    <3>1. \A i \in 1..n : path[c][i] \in S
      BY <1>1, <1>3, <2>2, ElementOfSeq DEF IsSeq
    <3>. HIDE DEF S
    <3>2. work[c] \in Seq(S) /\ Len(work[c]) = n
      BY <1>2, <1>3, <3>1, PrefixOf
    <3>3. work[c] # << >>
      BY <1>2, <1>3, <2>2, ParentOfPrefix
    <3>. QED  BY <3>2, <3>3, SeqIsSeq
  <2>4. Spot(fs, work[c]) \in DOMAIN fs /\ fs[Spot(fs, work[c])].kind # "dir"
    BY <1>1, <1>9, <2>3, LeadsToOther DEF x
  <2>5. ExistingDir(kept[c], work[c]) = NoPath
    BY <1>5, <1>6, <1>9
  <2>6. InTheWay(c, SubSeq(path[c], 1, n))'
    BY <1>2, <2>4, <2>5 DEF InTheWay
  <2>. QED  BY <1>4, <2>1, <2>2, <2>6 DEF DownOK
<1>10. CASE x # NoPath /\ fs[x].kind = "dir" /\ work[c] # path[c] /\ Goes(c, "make", work[c])
  <2>1. pc'[c] = "make" /\ work'[c] = work[c]
    BY <1>1, <1>10 DEF Goes
  <2>2. n < Len(path[c])
    BY <1>2, <1>3, <1>10
  <2>3. MissingBelow(c, n)' /\ ExistingDir(fs, work[c]) # NoPath
    BY <1>2, <1>6, <1>10 DEF MissingBelow
  <2>. QED  BY <1>2, <1>4, <2>1, <2>2, <2>3 DEF DownOK
<1>11. CASE x # NoPath /\ fs[x].kind = "dir" /\ work[c] = path[c] /\ Replies(c, "ok", {})
  <2>1. pc'[c] = "answered" /\ answer'[c] = "ok"
    BY <1>1, <1>11 DEF Replies
  <2>. QED  BY <1>4, <1>6, <1>11, <2>1 DEF DownOK
<1>. QED  BY <1>8, <1>9, <1>10, <1>11 DEF StatUp, x

LEMMA SeqIsNoNoPath == ASSUME NEW p, IsSeq(p) PROVE p # NoPath
<1>1. DOMAIN p = 1..Len(p) /\ Len(p) \in Nat
  BY LenProperties DEF IsSeq
<1>2. 0 \notin DOMAIN p
  BY <1>1
<1>. QED  BY <1>2, SessionAssumption

\* What a mkdir -p answers, and what it has found on its way there.
LEMMA HandlingMakes ==
  ASSUME MakesInv, PathInv', NEW c \in Calls, Handling(c)
  PROVE  MakesOK(c)'
<1>. SUFFICES ASSUME MakesAll(c) PROVE MakesOK(c)'
  BY HandlerSteps DEF MakesOK, MakesAll
<1>1. /\ MakesOK(c) /\ DOMAIN pc = Calls /\ DOMAIN work = Calls /\ DOMAIN answer = Calls
      /\ WellFormedFS(fs) /\ NoPath \notin DOMAIN fs
      /\ pc[c] \notin {"idle", "info", "rm", "open", "empty"}
      /\ pc[c] \in Pathed => IsSeq(path[c])
  BY DEF MakesInv, MakesOK, PathInv, TreeInv, RootsInv, Shapes, AllPaths, PathOK
<1>2. UNCHANGED <<path, request, kept[c]>>
  BY HandlerSteps, KeptFacts DEF MakesInv, locals
<1>3. MkdirAll(c) \/ StatUp(c) \/ MakeDown(c) \/ LstatDown(c)
  BY <1>1 DEF Handling, MakesAll, Handles, ListAllowedDirs, Mkdir, ReadDir, Info, Listed, GuardRoots,
              RemoveOne, RemoveAll, OpenParent, Unlink, Rmdir
<1>4. pc'[c] \in {"stat", "make", "lstat", "answered"}
  BY <1>1, <1>3 DEF MkdirAll, StatUp, MakeDown, LstatDown, IsThere, Goes, Replies
<1>. SUFFICES ASSUME kept[c] # NoTree PROVE DownOK(c)'
  BY <1>2, <1>4 DEF MakesOK
<1>5. DownOK(c) /\ IsRestriction(fs, fs)
  BY <1>1 DEF MakesOK, IsRestriction
<1>6. CASE MkdirAll(c)
  <2>1. UNCHANGED fs /\ pc[c] = "accepted" /\ pc'[c] = "stat" /\ work'[c] = path[c]
    BY <1>1, <1>6 DEF MkdirAll, Handles, Untouched, Goes
  <2>2. /\ Len(path[c]) \in Nat /\ SubSeq(path[c], 1, Len(path[c])) = path[c]
    BY <1>1, <2>1, WholePrefix DEF Pathed, IsSeq
  <2>3. MissingBelow(c, Len(path[c]))'
    <3>1. (Len(path[c]) + 1)..Len(path[c]) = {}
      BY <2>2
    <3>. QED  BY <1>2, <3>1 DEF MissingBelow
  <2>4. Len(path[c]) \in 0..Len(path[c])
    BY <2>2
  <2>. QED  BY <1>2, <1>5, <2>1, <2>2, <2>3, <2>4 DEF DownOK
<1>7. CASE StatUp(c)
  BY <1>2, <1>7, StatMakes DEF StatUp, Untouched
<1>8. CASE MakeDown(c)
  <2>. DEFINE x == Spot(fs, NextDown(c))
              err == MkdirErr(fs, NextDown(c))
  <2>1. pc[c] = "make"
    BY <1>8 DEF MakeDown
  <2>2. CASE err = "none"
    <3>1. fs' = WithDir(fs, x) /\ IsThere(c)
      BY <1>8, <2>2 DEF MakeDown, Writes
    <3>2. x \notin DOMAIN fs
      BY <2>2 DEF MkdirErr, WayErr
    <3>3. IsRestriction(fs, fs') /\ x \in DOMAIN fs' /\ fs'[x].kind = "dir"
      BY <3>1, <3>2, WithDirGrows
    <3>. QED  BY <1>2, <2>1, <3>1, <3>3, IsThereMakes
  <2>3. CASE err # "none"
    <3>1. /\ pc'[c] = "lstat" /\ UNCHANGED <<work, fs>> /\ answer'[c] = classify(err)
      BY <1>1, <1>8, <2>3 DEF MakeDown, Untouched
    <3>2. PICK n \in 0..Len(path[c]) :
            /\ work[c] = SubSeq(path[c], 1, n) /\ MissingBelow(c, n)
            /\ n < Len(path[c]) /\ ExistingDir(fs, work[c]) # NoPath
      BY <1>5, <2>1 DEF DownOK
    <3>3. n \in 0..(Len(path[c]) - 1) /\ IsSeq(path[c])
      BY <1>1, <2>1, <3>2, WholePrefix DEF Pathed, IsSeq
    <3>4. EntryIs(x, ExistingDir(fs, work[c]), Last(NextDown(c)))
      BY <1>1, <3>2, <3>3, NextStep DEF NextDown
    <3>5. IsSeq(x)
      <4>. HIDE DEF x
      <4>. QED  BY <1>1, <3>2, <3>4, DirIsSeq, AppendIsSeq DEF EntryIs
    <3>6. x # NoPath
      BY <3>5, SeqIsNoNoPath
    <3>7. answer'[c] # "ok" /\ x \in DOMAIN fs
      BY <2>3, <3>1, <3>6 DEF MkdirErr, classify
    <3>8. MissingBelow(c, n)'
      BY <1>2, <3>2 DEF MissingBelow
    <3>. QED  BY <1>2, <1>5, <3>1, <3>2, <3>7, <3>8 DEF DownOK, NextDown
  <2>. QED  BY <2>2, <2>3
<1>9. CASE LstatDown(c)
  <2>. DEFINE x == Spot(fs, NextDown(c))
  <2>1. pc[c] = "lstat" /\ UNCHANGED fs /\ answer[c] # "ok" /\ x \in DOMAIN fs
    BY <1>5, <1>9 DEF LstatDown, Untouched, DownOK
  <2>2. CASE fs[x].kind = "dir"
    <3>1. IsThere(c)
      BY <1>9, <2>1, <2>2 DEF LstatDown
    <3>. QED  BY <1>2, <1>5, <2>1, <2>2, <3>1, IsThereMakes
  <2>3. CASE fs[x].kind # "dir"
    <3>1. pc'[c] = "answered" /\ answer'[c] = answer[c]
      BY <1>1, <1>9, <2>3 DEF LstatDown, Replies
    <3>2. PICK n \in 0..Len(path[c]) :
            /\ work[c] = SubSeq(path[c], 1, n) /\ MissingBelow(c, n)
            /\ n < Len(path[c]) /\ ExistingDir(fs, work[c]) # NoPath
      BY <1>5, <2>1 DEF DownOK
    <3>3. n \in 0..(Len(path[c]) - 1) /\ IsSeq(path[c])
          /\ n + 1 \in 1..Len(path[c]) /\ n + 1 \in (n + 1)..Len(path[c])
      BY <1>1, <2>1, <3>2, WholePrefix DEF Pathed, IsSeq
    <3>4. Len(work[c]) = n
      BY <1>1, <3>2, <3>3, NextStep
    <3>5. NextDown(c) = SubSeq(path[c], 1, n + 1)
      BY <3>4 DEF NextDown
    <3>6. ExistingDir(kept[c], SubSeq(path[c], 1, n + 1)) = NoPath
      BY <3>2, <3>3 DEF MissingBelow
    <3>7. InTheWay(c, SubSeq(path[c], 1, n + 1))'
      BY <1>2, <2>1, <2>3, <3>5, <3>6 DEF InTheWay
    <3>. QED  BY <1>2, <1>5, <2>1, <3>1, <3>3, <3>7 DEF DownOK
  <2>. QED  BY <2>2, <2>3
<1>. QED  BY <1>3, <1>6, <1>7, <1>8, <1>9

LEMMA MakesInvInit == SessionInit => MakesInv
  BY PathInvInit DEF SessionInit, Init, MakesInv, MakesOK, MakesAll, NoRequest

LEMMA MakesInvStep == MakesInv /\ [SessionNext]_sessionVars => MakesInv'
<1>. SUFFICES ASSUME MakesInv, [SessionNext]_sessionVars PROVE MakesInv'
  OBVIOUS
<1>0. /\ PathInv /\ PathInv' /\ TreeInv /\ RootsInv /\ WellFormedFS(fs) /\ IsRestriction(fs, fs)
      /\ DOMAIN pc = Calls /\ DOMAIN path = Calls /\ DOMAIN request = Calls
      /\ DOMAIN work = Calls /\ DOMAIN answer = Calls /\ DOMAIN kept = Calls
  BY PathInvStep DEF MakesInv, PathInv, TreeInv, RootsInv, Shapes, IsRestriction
<1>1. \A c \in Calls : MakesOK(c)
  BY DEF MakesInv
\* A call that is not at its handler, or has not been handled yet.
<1>2. ASSUME NEW c \in Calls, UNCHANGED <<fs, request, kept[c]>>,
             {pc[c], pc'[c]} \cap {"stat", "make", "lstat", "answered"} = {},
             pc'[c] \notin {"idle", "info", "rm", "open", "empty"}
      PROVE  MakesOK(c)'
  BY <1>1, <1>2 DEF MakesOK, MakesAll, DownOK
<1>3. ASSUME NEW c \in Calls, Start(c) PROVE MakesInv'
  <2>1. PICK q \in Requests[c] :
          /\ Begin(c, "pull", q.path, NoPath) /\ request' = [request EXCEPT ![c] = q]
          /\ kept' = [kept EXCEPT ![c] = fs] /\ UNCHANGED <<work, answer>>
    BY <1>3 DEF Start
  <2>2. /\ UNCHANGED fs /\ pc' = [pc EXCEPT ![c] = "pull"] /\ path' = [path EXCEPT ![c] = NoPath]
    BY <2>1 DEF Begin, Goto, world
  <2>3. MakesOK(c)'
    BY <1>0, <2>1, <2>2 DEF MakesOK, DownOK
  <2>4. \A o \in Calls \ {c} : MakesOK(o)'
    BY <1>0, <2>1, <2>2, MakesStays
  <2>. QED  BY <1>0, <2>1, <2>3, <2>4 DEF MakesInv
<1>4. ASSUME NEW c \in Calls, Finish(c) PROVE MakesInv'
  <2>1. /\ UNCHANGED fs /\ request' = [request EXCEPT ![c] = NoRequest]
        /\ kept' = [kept EXCEPT ![c] = NoTree]
        /\ \A o \in Calls \ {c} : UNCHANGED <<pc[o], path[o], work[o], answer[o]>>
    BY <1>0, <1>4 DEF Finish, Forget, world
  <2>2. MakesOK(c)'
    BY <1>0, <2>1 DEF MakesOK, MakesAll, NoRequest
  <2>3. \A o \in Calls \ {c} : MakesOK(o)'
    BY <1>0, <2>1, MakesStays
  <2>. QED  BY <1>0, <2>1, <2>2, <2>3 DEF MakesInv
<1>5. ASSUME NEW c \in Calls, Handling(c) PROVE MakesInv'
  <2>1. /\ UNCHANGED <<request, path>> /\ DOMAIN kept' = Calls
        /\ \A o \in Calls \ {c} : UNCHANGED <<pc[o], work[o], answer[o]>>
    BY <1>0, <1>5, HandlingFacts, KeptFacts
  <2>2. \A o \in Calls \ {c} : MakesOK(o)'
    BY <1>0, <1>5, <2>1, MakesStays, KeptFacts
  <2>3. MakesOK(c)'
    BY <1>0, <1>5, HandlingMakes
  <2>. QED  BY <1>0, <2>1, <2>2, <2>3 DEF MakesInv
<1>6. ASSUME NEW c \in Calls, SandboxStep(c) \/ Edits(c) PROVE MakesInv'
  <2>1. UNCHANGED <<request, work, answer, kept>>
    BY <1>6 DEF SandboxStep, Edits, session
  <2>2. /\ UNCHANGED fs
        /\ \A o \in Calls \ {c} : UNCHANGED <<pc[o], path[o]>>
        /\ {pc[c], pc'[c]} \cap {"stat", "make", "lstat", "answered"} = {}
        /\ pc'[c] \notin {"idle", "info", "rm", "open", "empty"}
    BY ZenonT(60), <1>0, <1>6 DEF SandboxStep, Edits, BeginAdd, BeginRemove, Begin, PathStep, EditStep, Goto,
         ListRoots, EvalRoot, StatRoot, InstallRoots, Lexical, EvalParent, EvalFound, CheckReal,
         AddResolve, AddStat, AddRuntimeRoot, RemoveResolve, RemoveRuntimeRoot, world, locals
  <2>3. MakesOK(c)'
    BY <1>2, <2>1, <2>2
  <2>4. \A o \in Calls \ {c} : MakesOK(o)'
    BY <1>0, <2>1, <2>2, MakesStays
  <2>. QED  BY <1>0, <2>1, <2>3, <2>4 DEF MakesInv
<1>7. CASE OthersWrite
  <2>1. /\ UNCHANGED <<pc, path, request, work, answer>> /\ DOMAIN kept' = Calls
        /\ \A c \in Calls : kept'[c] # NoTree => kept'[c] = kept[c] /\ IsRestriction(fs, fs')
    BY <1>7 DEF OthersWrite, FilesystemChanges, Noticed, locals
  <2>2. \A c \in Calls : MakesOK(c)'
    BY <2>1, MakesStays
  <2>. QED  BY <1>0, <2>1, <2>2 DEF MakesInv
<1>8. CASE (ClientChangesRoots /\ UNCHANGED session) \/ UNCHANGED sessionVars
  <2>1. UNCHANGED <<fs, pc, path, request, work, answer, kept>>
    BY <1>8 DEF ClientChangesRoots, sessionVars, vars, world, session, locals
  <2>2. \A c \in Calls : MakesOK(c)'
    BY <1>0, <2>1, MakesStays
  <2>. QED  BY <1>0, <2>1, <2>2 DEF MakesInv
<1>9. ASSUME NEW c \in Calls, Works(c) PROVE MakesInv'
  BY <1>5, <1>6, <1>9 DEF Works, Handling
<1>. QED
  BY <1>3, <1>4, <1>6, <1>7, <1>8, <1>9 DEF SessionNext

\* For any number of calls that make the same directories, and whatever other
\* programs add meanwhile: as long as nothing is removed, a mkdir -p that says
\* so has its directory, and one that fails has met an entry, no directory,
\* where its path led to no directory when it began.
THEOREM MkdirsNeverCollide == SessionSpec => []MkdirsDoNotCollide
<1>1. MakesInv => MkdirsDoNotCollide
  BY DEF MakesInv, MakesOK, MakesAll, DownOK, InTheWay, MkdirsDoNotCollide
<1>2. SessionSpec => []MakesInv
  BY MakesInvInit, MakesInvStep, PTL DEF SessionSpec
<1>. QED  BY <1>1, <1>2, PTL

-----------------------------------------------------------------------------
(* Sequences.                                                              *)

LEMMA HeadOrTail ==
  ASSUME NEW s, IsSeq(s), s # << >>
  PROVE  /\ Len(s) \in Nat \ {0} /\ Head(s) = s[1] /\ IsSeq(Tail(s)) /\ Len(Tail(s)) = Len(s) - 1
         /\ \A i \in 1..(Len(s) - 1) : Tail(s)[i] = s[i + 1]
<1>. DEFINE S == ToSet(s)
<1>1. s \in Seq(S) /\ Len(s) \in Nat \ {0}
  BY EmptySeq DEF IsSeq
<1>. HIDE DEF S
<1>2. Tail(s) \in Seq(S)
  BY <1>1, HeadTailProperties
<1>3. IsSeq(Tail(s))
  BY <1>2, SeqIsSeq
<1>. QED  BY <1>1, <1>3, HeadTailProperties

LEMMA InHeadOrTail ==
  ASSUME NEW s, IsSeq(s), s # << >>, NEW x \in ToSet(s)
  PROVE  x = Head(s) \/ x \in ToSet(Tail(s))
<1>1. Len(s) \in Nat \ {0} /\ DOMAIN s = 1..Len(s) /\ DOMAIN Tail(s) = 1..Len(Tail(s))
  BY HeadOrTail, LenProperties DEF IsSeq
<1>2. PICK i \in 1..Len(s) : x = s[i]
  BY <1>1 DEF ToSet
<1>3. CASE i = 1
  BY <1>2, <1>3, HeadOrTail
<1>4. CASE i # 1
  <2>1. i - 1 \in 1..(Len(s) - 1) /\ (i - 1) + 1 = i
    BY <1>1, <1>4
  <2>2. i - 1 \in DOMAIN Tail(s) /\ Tail(s)[i - 1] = x
    BY <1>1, <1>2, <2>1, HeadOrTail
  <2>. QED  BY <2>2 DEF ToSet
<1>. QED  BY <1>3, <1>4

\* A set that is made a sequence loses no element.
LEMMA SetToSeqOnto ==
  ASSUME NEW S, IsFiniteSet(S)
  PROVE  /\ IsSeq(SetToSeq(S)) /\ SetToSeq(S) \in Seq(S)
         /\ \A e \in S : \E i \in 1..Len(SetToSeq(S)) : SetToSeq(S)[i] = e
<1>. DEFINE n == Cardinality(S)
            s == SetToSeq(S)
<1>1. n \in Nat /\ ExistsBijection(1..n, S)
  BY FS_CardinalityType
<1>2. \E f \in [1..n -> S] : IsInjective(f)
  BY <1>1 DEF ExistsBijection, Bijection, Injection, Surjection
<1>3. s \in [1..n -> S] /\ IsInjective(s)
  BY <1>2 DEF SetToSeq
<1>4. s \in Seq(S) /\ IsSeq(s) /\ Len(s) = n
  BY <1>1, <1>3, SetToSeqIsSeq, LenProperties
<1>5. s \in Injection(1..n, S)
  BY <1>3 DEF Injection, IsInjective
<1>6. Cardinality(1..n) = n
  BY <1>1, FS_Interval
<1>. HIDE DEF s
<1>7. s \in Surjection(1..n, S)
  BY <1>5, <1>6, FS_Injection
<1>. QED  BY <1>4, <1>7 DEF Surjection, s

\* What mkdir -p makes below a directory b, where the names of p from the n-th
\* on are missing: down to the i-th name.
Made(b, p, n, i)     == b \o SubSeq(p, n + 1, i)
MadeName(b, p, n, j) == IF j <= Len(b) THEN b[j] ELSE p[n + (j - Len(b))]

LEMMA MadeIsSeq ==
  ASSUME NEW b, IsSeq(b), NEW p, IsSeq(p), NEW n \in Nat, NEW i \in Nat, n <= i, i <= Len(p)
  PROVE  IsSeq(Made(b, p, n, i)) /\ Len(b) \in Nat /\ Len(Made(b, p, n, i)) = Len(b) + (i - n)
         /\ \A j \in 1..(Len(b) + (i - n)) :
              Made(b, p, n, i)[j] = MadeName(b, p, n, j)
<1>. DEFINE S == ToSet(b) \cup ToSet(p)
            t == SubSeq(p, n + 1, i)
<1>1. b \in Seq(S) /\ p \in Seq(S) /\ Len(b) \in Nat /\ Len(p) \in Nat
  BY SeqMonotonic, LenProperties DEF IsSeq
<1>. HIDE DEF S
<1>2. \A j \in (n + 1)..i : p[j] \in S
  BY <1>1, ElementOfSeq
<1>3. /\ t \in Seq(S) /\ Len(t) = i - n
      /\ \A j \in 1..(i - n) : t[j] = p[n + j]
  <2>1. /\ t \in Seq(S)
        /\ Len(t) = IF n + 1 <= i THEN i - (n + 1) + 1 ELSE 0
        /\ \A j \in 1..(i - (n + 1) + 1) : t[j] = p[(n + 1) + j - 1]
    BY <1>2, SubSeqProperties
  <2>. QED  BY <2>1
<1>. HIDE DEF t
<1>4. /\ b \o t \in Seq(S) /\ Len(b \o t) = Len(b) + Len(t)
      /\ \A j \in 1..(Len(b) + Len(t)) : (b \o t)[j] = IF j <= Len(b) THEN b[j] ELSE t[j - Len(b)]
  BY <1>1, <1>3, ConcatProperties
<1>5. \A j \in 1..(Len(b) + (i - n)) : ~(j <= Len(b)) => j - Len(b) \in 1..(i - n)
  BY <1>1
<1>6. Made(b, p, n, i) = b \o t
  BY DEF Made, t
<1>. QED  BY <1>1, <1>3, <1>4, <1>5, <1>6, SeqIsSeq DEF MadeName

LEMMA MadeLength ==
  ASSUME NEW b, IsSeq(b), NEW p, IsSeq(p), NEW n \in Nat, NEW i \in n..Len(p)
  PROVE  Len(Made(b, p, n, i)) = Len(b) + (i - n)
<1>1. i \in Nat /\ n <= i /\ i <= Len(p)
  BY LenProperties DEF IsSeq
<1>. QED  BY <1>1, MadeIsSeq

LEMMA MadeNext ==
  ASSUME NEW b, IsSeq(b), NEW p, IsSeq(p), NEW n \in Nat, NEW i \in Nat, n <= i, i < Len(p)
  PROVE  Made(b, p, n, i + 1) = Append(Made(b, p, n, i), Last(SubSeq(p, 1, i + 1)))
<1>. DEFINE m == Made(b, p, n, i)
            next == Made(b, p, n, i + 1)
            e == Last(SubSeq(p, 1, i + 1))
<1>1. Len(p) \in Nat /\ i + 1 \in Nat /\ n <= i + 1 /\ i + 1 <= Len(p) /\ i <= Len(p)
  BY LenProperties DEF IsSeq
<1>2. e = p[i + 1]
  <2>1. Len(SubSeq(p, 1, i + 1)) = i + 1 /\ SubSeq(p, 1, i + 1)[i + 1] = p[i + 1]
    BY <1>1, PrefixOf
  <2>. QED  BY <2>1 DEF Last
<1>3. /\ IsSeq(m) /\ Len(b) \in Nat /\ Len(m) = Len(b) + (i - n)
      /\ \A j \in 1..(Len(b) + (i - n)) : m[j] = MadeName(b, p, n, j)
  BY <1>1, MadeIsSeq
<1>4. /\ IsSeq(next) /\ Len(next) = Len(b) + ((i + 1) - n)
      /\ \A j \in 1..(Len(b) + ((i + 1) - n)) : next[j] = MadeName(b, p, n, j)
  <2>. DEFINE k == i + 1
  <2>1. k \in Nat /\ n <= k /\ k <= Len(p)
    BY <1>1
  <2>. HIDE DEF k
  <2>2. /\ IsSeq(Made(b, p, n, k)) /\ Len(Made(b, p, n, k)) = Len(b) + (k - n)
        /\ \A j \in 1..(Len(b) + (k - n)) : Made(b, p, n, k)[j] = MadeName(b, p, n, j)
    BY ZenonT(60), <2>1, MadeIsSeq
  <2>. QED  BY <2>2 DEF k
<1>. HIDE DEF m, next, e
<1>. DEFINE S == ToSet(m) \cup ToSet(next) \cup {e}
<1>5. m \in Seq(S) /\ next \in Seq(S) /\ e \in S
  BY <1>3, <1>4, SeqMonotonic DEF IsSeq
<1>. HIDE DEF S
<1>6. /\ Append(m, e) \in Seq(S) /\ Len(Append(m, e)) = Len(m) + 1
      /\ \A j \in 1..Len(m) : Append(m, e)[j] = m[j]
      /\ Append(m, e)[Len(m) + 1] = e
  BY <1>5, AppendProperties
<1>7. Len(next) = Len(Append(m, e))
  BY <1>3, <1>4, <1>6
<1>8. ASSUME NEW j \in 1..Len(next) PROVE next[j] = Append(m, e)[j]
  <2>1. j \in 1..(Len(b) + ((i + 1) - n)) /\ (j \in 1..Len(m) \/ j = Len(m) + 1)
    BY <1>3, <1>4
  <2>2. CASE j \in 1..Len(m)
    BY <1>3, <1>4, <1>6, <2>1, <2>2
  <2>3. CASE j = Len(m) + 1
    <3>1. ~(j <= Len(b)) /\ n + (j - Len(b)) = i + 1
      BY <1>3, <2>3
    <3>. QED  BY <1>2, <1>4, <1>6, <2>1, <2>3, <3>1 DEF MadeName
  <2>. QED  BY <2>1, <2>2, <2>3
<1>9. next = Append(m, e)
  BY <1>5, <1>6, <1>7, <1>8, SeqEqual
<1>. QED  BY <1>9 DEF m, next, e

LEMMA MadeNone ==
  ASSUME NEW b, IsSeq(b), NEW p, IsSeq(p), NEW n \in 0..Len(p)
  PROVE  Made(b, p, n, n) = b
<1>1. Len(p) \in Nat
  BY LenProperties DEF IsSeq
<1>2. SubSeq(p, n + 1, n) = << >>
  BY <1>1, SubSeqEmpty
<1>3. b \o << >> = b
  BY ConcatSimplifications DEF IsSeq
<1>. QED  BY <1>2, <1>3 DEF Made

-----------------------------------------------------------------------------
(* What lies below a directory.                                            *)

LEMMA AboveIsThere ==
  ASSUME NEW f, WellFormedFS(f), NEW x, IsSeq(x), NEW y \in Below(f, x), NEW k \in 0..Len(y)
  PROVE  /\ x \in DOMAIN f /\ Len(x) \in Nat /\ Len(y) \in Nat /\ Len(x) <= Len(y)
         /\ SubSeq(y, 1, Len(x)) = x /\ SubSeq(y, 1, Len(y)) = y /\ SubSeq(y, 1, k) \in DOMAIN f
<1>1. /\ y \in DOMAIN f /\ IsSeq(y) /\ Len(x) <= Len(y) /\ SubSeq(x, 1, Len(x)) = SubSeq(y, 1, Len(x))
  BY DEF Below, IsPrefix, WellFormedFS, IsSeq
<1>2. /\ Len(x) \in Nat /\ SubSeq(x, 1, Len(x)) = x
      /\ Len(y) \in Nat /\ SubSeq(y, 1, Len(y)) = y
  BY <1>1, WholePrefix DEF IsSeq
<1>3. Len(x) \in 0..Len(y)
  BY <1>1, <1>2
<1>4. SubSeq(y, 1, Len(x)) \in DOMAIN f /\ SubSeq(y, 1, k) \in DOMAIN f
  BY <1>1, <1>2, <1>3, PrefixesExist
<1>. QED  BY <1>1, <1>2, <1>4

LEMMA OwnPrefix == ASSUME NEW x, IsSeq(x) PROVE IsPrefix(x, x)
  BY WholePrefix DEF IsPrefix, IsSeq

LEMMA ChildIsBelow ==
  ASSUME NEW f, WellFormedFS(f), NEW x, IsSeq(x), NEW y \in Children(f, x)
  PROVE  y \in Below(f, x) /\ y # x /\ y # << >> /\ IsSeq(y)
<1>1. y \in DOMAIN f /\ y = Append(x, Last(y)) /\ y # << >> /\ IsSeq(y)
  BY ChildIs DEF Children, WellFormedFS, IsSeq
<1>2. Len(y) = Len(x) + 1 /\ Len(x) \in Nat
  BY <1>1, AppendFacts
<1>3. IsPrefix(x, y)
  BY <1>1, OwnPrefix, PrefixOfEntry
<1>. QED  BY <1>1, <1>2, <1>3 DEF Below

\* Who has something below it has an entry of its own.
LEMMA BelowHasChild ==
  ASSUME NEW f, WellFormedFS(f), NEW x, IsSeq(x), NEW y \in Below(f, x), y # x
  PROVE  Children(f, x) # {}
<1>1. /\ Len(x) \in Nat /\ Len(y) \in Nat /\ Len(x) <= Len(y)
      /\ SubSeq(y, 1, Len(x)) = x /\ SubSeq(y, 1, Len(y)) = y
  <2>1. IsSeq(y)
    BY DEF Below, WellFormedFS, IsSeq
  <2>2. 0 \in 0..Len(y)
    BY <2>1, WholePrefix DEF IsSeq
  <2>. QED  BY <2>2, AboveIsThere
<1>2. Len(x) \in Nat /\ Len(y) \in Nat /\ Len(x) <= Len(y) /\ Len(x) # Len(y)
  BY <1>1
<1>. DEFINE k == Len(x) + 1
            z == SubSeq(y, 1, k)
<1>3. k \in 0..Len(y) /\ k \in Nat /\ k # 0 /\ k - 1 = Len(x)
  BY <1>2
<1>. HIDE DEF k
<1>4. z \in DOMAIN f
  BY <1>3, AboveIsThere
<1>5. z # << >> /\ Parent(z) = SubSeq(y, 1, k - 1)
  BY <1>3, ParentOfPrefix
<1>6. Parent(z) = x
  BY <1>1, <1>3, <1>5
<1>. QED  BY <1>4, <1>5, <1>6 DEF Children

\* A directory is empty when nothing else is below it.
LEMMA EmptyIsAlone ==
  ASSUME NEW f, WellFormedFS(f), NEW x \in DOMAIN f
  PROVE  Children(f, x) = {} <=> Below(f, x) = {x}
<1>1. IsSeq(x) /\ x \in Below(f, x)
  BY OwnPrefix DEF WellFormedFS, IsSeq, Below
<1>2. \A y \in Children(f, x) : y \in Below(f, x) /\ y # x
  BY <1>1, ChildIsBelow
<1>3. Children(f, x) = {} => \A y \in Below(f, x) : y = x
  BY <1>1, BelowHasChild
<1>. QED  BY <1>1, <1>2, <1>3

LEMMA NothingBelow ==
  ASSUME NEW f, WellFormedFS(f), NEW x, IsSeq(x), x \notin DOMAIN f
  PROVE  Below(f, x) = {}
<1>. SUFFICES ASSUME NEW y \in Below(f, x) PROVE FALSE
  OBVIOUS
<1>1. IsSeq(y)
  BY DEF Below, WellFormedFS, IsSeq
<1>2. 0 \in 0..Len(y)
  BY <1>1, WholePrefix DEF IsSeq
<1>. QED  BY <1>2, AboveIsThere

\* Everything is below "/".
LEMMA BelowTop ==
  ASSUME NEW f, WellFormedFS(f)
  PROVE  Below(f, << >>) = DOMAIN f
<1>. SUFFICES ASSUME NEW y \in DOMAIN f PROVE IsPrefix(<< >>, y)
  BY DEF Below
<1>1. Len(y) \in Nat
  BY WholePrefix DEF WellFormedFS
<1>2. SubSeq(<< >>, 1, 0) = << >> /\ SubSeq(y, 1, 0) = << >> /\ Len(<< >>) = 0
  BY SubSeqEmpty
<1>. QED  BY <1>1, <1>2 DEF IsPrefix

LEMMA SpotIsSeq ==
  ASSUME NEW f, WellFormedFS(f), NEW p, Spot(f, p) # NoPath
  PROVE  IsSeq(Spot(f, p))
<1>1. CASE p = << >>
  <2>1. IsSeq(<< >>)
    BY EmptySeq DEF IsSeq
  <2>. QED  BY <1>1, <2>1 DEF Spot
<1>2. CASE p # << >>
  BY <1>2, DirIsSeq, AppendIsSeq DEF Spot
<1>. QED  BY <1>1, <1>2

LEMMA TreeIsItself ==
  ASSUME NEW f, WellFormedFS(f)
  PROVE  Without(f, {}) = f /\ [y \in DOMAIN f \cup {} |-> IF y \in DOMAIN f THEN f[y] ELSE Dir] = f
<1>1. f = [y \in DOMAIN f |-> f[y]] /\ DOMAIN f \ {} = DOMAIN f /\ DOMAIN f \cup {} = DOMAIN f
  BY DEF WellFormedFS
<1>. QED  BY <1>1 DEF Without, Restrict

-----------------------------------------------------------------------------
(* What each tool is for.                                                  *)

Asks(q, op, rec) == q.op = op /\ q.rec = rec

\* What the tool's page says of an answer, and of the tree after it.
Exactly(f, q, p, code, tree, lines) == Outcome(code, tree, lines) = Expected(f, q, p)

Blocked(f, p) == IF WayErr(f, p) = "ENOENT" THEN "PATH_NOT_FOUND" ELSE "IO_ERROR"
With(f, made) == [y \in DOMAIN f \cup made |-> IF y \in DOMAIN f THEN f[y] ELSE Dir]
Line(f, y)    == <<Last(y), f[y].kind>>
Lines(f, x)   == {Line(f, y) : y \in Children(f, x)}

LEMMA BlockedIs ==
  ASSUME NEW f, NEW p
  PROVE  classify(WayErr(f, p)) = Blocked(f, p) /\ WayErr(f, p) \in {"ENOENT", "ENOTDIR"}
<1>1. WayErr(f, p) \in {"ENOENT", "ENOTDIR"}
  BY DEF WayErr
<1>. QED  BY <1>1 DEF classify, Blocked

\* One Mkdir is all there is to mkdir.
LEMMA MkdirIsExact ==
  ASSUME NEW f, WellFormedFS(f), NoPath \notin DOMAIN f, NEW q, Asks(q, "mkdir", FALSE),
         NEW p, NEW err, err = MkdirErr(f, p),
         NEW g, err = "none" => g = WithDir(f, Spot(f, p)), err # "none" => g = f
  PROVE  Exactly(f, q, p, classify(err), g, {})
<1>. DEFINE x == Spot(f, p)
<1>1. Expected(f, q, p) =
        IF x = NoPath THEN Outcome(Blocked(f, p), f, {})
        ELSE IF x \in DOMAIN f THEN Outcome("PATH_ALREADY_EXISTS", f, {})
        ELSE Outcome("ok", With(f, {x}), {})
  BY DEF Asks, Expected, Blocked, With
<1>2. err = IF x = NoPath THEN WayErr(f, p) ELSE IF x \in DOMAIN f THEN "EEXIST" ELSE "none"
  BY DEF MkdirErr
<1>3. WithDir(f, x) = With(f, {x})
  BY DEF WithDir, With
<1>. HIDE DEF x
<1>4. CASE x = NoPath
  BY <1>1, <1>2, <1>4, BlockedIs DEF Exactly
<1>5. CASE x # NoPath /\ x \in DOMAIN f
  BY <1>1, <1>2, <1>5 DEF classify, Exactly
<1>6. CASE x # NoPath /\ x \notin DOMAIN f
  <2>1. g = With(f, {x})
    BY <1>2, <1>3, <1>6 DEF x
  <2>. QED  BY <1>1, <1>2, <1>6, <2>1 DEF classify, Exactly
<1>. QED  BY <1>4, <1>5, <1>6

\* What os.Remove says of a tree.
LEMMA RemoveErrIs ==
  ASSUME NEW f, WellFormedFS(f), NoPath \notin DOMAIN f, NEW p
  PROVE  LET x == Spot(f, p)
         IN  RemoveErr(f, p) =
               IF x = NoPath THEN WayErr(f, p)
               ELSE IF x \notin DOMAIN f THEN "ENOENT"
               ELSE IF x = << >> THEN "EBUSY"
               ELSE IF Below(f, x) # {x} THEN "ENOTEMPTY"
               ELSE "none"
<1>. DEFINE x == Spot(f, p)
<1>1. x \in DOMAIN f => (Children(f, x) = {} <=> Below(f, x) = {x})
  BY EmptyIsAlone
<1>2. << >> \in DOMAIN f /\ << >> # NoPath
  BY DEF WellFormedFS
<1>3. RemoveErr(f, p) =
        IF x = NoPath THEN WayErr(f, p)
        ELSE IF x \notin DOMAIN f THEN "ENOENT"
        ELSE IF x = << >> THEN "EBUSY"
        ELSE IF Children(f, x) # {} THEN "ENOTEMPTY"
        ELSE "none"
  BY <1>2 DEF RemoveErr
<1>. HIDE DEF x
<1>4. RemoveErr(f, p) =
        IF x = NoPath THEN WayErr(f, p)
        ELSE IF x \notin DOMAIN f THEN "ENOENT"
        ELSE IF x = << >> THEN "EBUSY"
        ELSE IF Below(f, x) # {x} THEN "ENOTEMPTY"
        ELSE "none"
  BY <1>1, <1>3
<1>. QED  BY <1>4 DEF x

\* And one Remove is all there is to rm.
LEMMA RemoveIsExact ==
  ASSUME NEW f, WellFormedFS(f), NoPath \notin DOMAIN f, NEW q, Asks(q, "rm", FALSE),
         NEW p, NEW err, err = RemoveErr(f, p),
         NEW g, err = "none" => g = Without(f, {Spot(f, p)}), err # "none" => g = f
  PROVE  Exactly(f, q, p, classify(err), g, {})
<1>. DEFINE x == Spot(f, p)
<1>1. Expected(f, q, p) =
        IF x = NoPath THEN Outcome(Blocked(f, p), f, {})
        ELSE IF x \notin DOMAIN f THEN Outcome("PATH_NOT_FOUND", f, {})
        ELSE IF x = << >> THEN Outcome("IO_ERROR", f, {})
        ELSE IF Below(f, x) # {x} THEN Outcome("DIRECTORY_NOT_EMPTY", f, {})
        ELSE Outcome("ok", Without(f, {x}), {})
  BY DEF Asks, Expected, Blocked
<1>2. err = IF x = NoPath THEN WayErr(f, p)
            ELSE IF x \notin DOMAIN f THEN "ENOENT"
            ELSE IF x = << >> THEN "EBUSY"
            ELSE IF Below(f, x) # {x} THEN "ENOTEMPTY"
            ELSE "none"
  BY RemoveErrIs
<1>3. IF err = "none" THEN g = Without(f, {x}) ELSE g = f
  OBVIOUS
<1>. HIDE DEF x
<1>4. CASE x = NoPath
  BY <1>1, <1>2, <1>3, <1>4, BlockedIs DEF Exactly
<1>5. CASE x # NoPath
  BY <1>1, <1>2, <1>3, <1>5 DEF classify, Exactly
<1>. QED  BY <1>4, <1>5

-----------------------------------------------------------------------------
(* The stack of rm -r: f is the tree it began with, g the one it has come  *)
(* to, top what it is to remove.                                           *)

\* Only what lies below top is gone.
Trimmed(f, g, top) == \E gone \in SUBSET Below(f, top) : g = Without(f, gone)

\* The entries that a listed directory still has are further up the stack.
Opened(g, w, i) ==
  /\ w[i].at \in DOMAIN g => g[w[i].at].kind = "dir"
  /\ \A y \in Children(g, w[i].at) : \E j \in 1..(i - 1) : w[j].at = y

StackOK(f, g, top, w) ==
  /\ IsSeq(top) /\ Trimmed(f, g, top)
  /\ w[Len(w)].at = top
  /\ \A i \in 1..Len(w) : IsPrefix(top, w[i].at) /\ (w[i].listed => Opened(g, w, i))

LEMMA TrimmedMore ==
  ASSUME NEW f, NEW g, NEW top, Trimmed(f, g, top), NEW x \in DOMAIN g, IsPrefix(top, x)
  PROVE  Trimmed(f, Without(g, {x}), top)
<1>1. PICK gone \in SUBSET Below(f, top) : g = Without(f, gone)
  BY DEF Trimmed
<1>2. DOMAIN g = DOMAIN f \ gone /\ \A y \in DOMAIN g : g[y] = f[y]
  BY <1>1 DEF Without, Restrict
<1>3. gone \cup {x} \in SUBSET Below(f, top)
  BY <1>2 DEF Below
<1>4. Without(g, {x}) = Without(f, gone \cup {x})
  <2>1. DOMAIN g \ {x} = DOMAIN f \ (gone \cup {x})
    BY <1>2
  <2>. QED  BY <1>2, <2>1 DEF Without, Restrict
<1>. QED  BY <1>3, <1>4 DEF Trimmed

\* When top is gone, all below it is.
LEMMA TrimmedAway ==
  ASSUME NEW f, NEW g, WellFormedFS(g), NEW top, IsSeq(top), Trimmed(f, g, top), top \notin DOMAIN g
  PROVE  g = Without(f, Below(f, top))
<1>1. PICK gone \in SUBSET Below(f, top) : g = Without(f, gone)
  BY DEF Trimmed
<1>2. Below(g, top) = {}
  BY NothingBelow
<1>3. \A y \in Below(f, top) : y \in gone
  BY <1>1, <1>2 DEF Below, Without, Restrict
<1>4. gone = Below(f, top)
  BY <1>3
<1>. QED  BY <1>1, <1>4

\* When "/" has no entry left, all but "/" is.
LEMMA TrimmedTop ==
  ASSUME NEW f, WellFormedFS(f), NEW g, WellFormedFS(g), Trimmed(f, g, << >>), Children(g, << >>) = {}
  PROVE  g = Without(f, Below(f, << >>) \ {<< >>})
<1>1. PICK gone \in SUBSET Below(f, << >>) : g = Without(f, gone)
  BY DEF Trimmed
<1>2. DOMAIN g = {<< >>} /\ Below(f, << >>) = DOMAIN f
  <2>1. << >> \in DOMAIN g
    BY DEF WellFormedFS
  <2>. QED  BY <2>1, BelowTop, EmptyIsAlone
<1>3. DOMAIN f \ gone = {<< >>}
  BY <1>1, <1>2 DEF Without, Restrict
<1>4. << >> \in DOMAIN f
  BY DEF WellFormedFS
<1>5. DOMAIN f \ (DOMAIN f \ {<< >>}) = {<< >>}
  BY <1>4
<1>. QED  BY <1>1, <1>2, <1>3, <1>5 DEF Without

LEMMA StackPops ==
  ASSUME NEW f, NEW g, NEW top, NEW w, IsSeq(w), w # << >>, Len(w) # 1, StackOK(f, g, top, w),
         NEW g2, g2 = g \/ (w[1].at \in DOMAIN g /\ g2 = Without(g, {w[1].at})),
         w[1].at \notin DOMAIN g2 \/ w[1].at = << >>
  PROVE  StackOK(f, g2, top, Tail(w))
<1>. DEFINE x == w[1].at
            t == Tail(w)
<1>1. /\ Len(w) \in Nat \ {0} /\ Len(t) = Len(w) - 1
      /\ \A i \in 1..(Len(w) - 1) : t[i] = w[i + 1]
  BY HeadOrTail
<1>2. /\ \A i \in 1..Len(w) : IsPrefix(top, w[i].at) /\ (w[i].listed => Opened(g, w, i))
      /\ IsSeq(top) /\ Trimmed(f, g, top) /\ w[Len(w)].at = top
  BY DEF StackOK
<1>. HIDE DEF t
<1>3. Trimmed(f, g2, top)
  BY <1>1, <1>2, TrimmedMore
<1>4. DOMAIN g2 \subseteq DOMAIN g /\ \A y \in DOMAIN g2 : g2[y] = g[y]
  BY DEF Without, Restrict
<1>5. ASSUME NEW i \in 1..Len(t), t[i].listed PROVE Opened(g2, t, i)
  <2>1. i + 1 \in 1..Len(w) /\ t[i] = w[i + 1] /\ i \in Nat /\ (i + 1) - 1 = i
    BY <1>1
  <2>2. Opened(g, w, i + 1)
    BY <1>2, <1>5, <2>1
  <2>3. t[i].at \in DOMAIN g2 => g2[t[i].at].kind = "dir"
    BY <1>4, <2>1, <2>2 DEF Opened
  <2>4. ASSUME NEW y \in Children(g2, t[i].at) PROVE \E j \in 1..(i - 1) : t[j].at = y
    <3>1. y \in DOMAIN g2 /\ y # << >> /\ y \in Children(g, w[i + 1].at)
      BY <1>4, <2>1 DEF Children
    <3>2. PICK k \in 1..i : w[k].at = y
      BY <2>1, <2>2, <3>1 DEF Opened
    <3>3. k # 1
      BY <3>1, <3>2
    <3>4. k - 1 \in 1..(i - 1) /\ k - 1 \in 1..(Len(w) - 1) /\ (k - 1) + 1 = k
      BY <1>1, <2>1, <3>3
    <3>. QED  BY <1>1, <3>2, <3>4
  <2>. QED  BY <2>3, <2>4 DEF Opened
<1>6. \A i \in 1..Len(t) : IsPrefix(top, t[i].at)
  BY <1>1, <1>2
<1>7. t[Len(t)].at = top
  BY <1>1, <1>2
<1>8. StackOK(f, g2, top, t)
  BY <1>2, <1>3, <1>5, <1>6, <1>7 DEF StackOK
<1>. QED  BY <1>8 DEF t

\* A stack on which e has been put, and a above it.
Over(a, e, t) == a \o <<e>> \o t

IsStacked(stack, a, e, t) ==
  /\ IsSeq(stack) /\ Len(a) \in Nat /\ Len(t) \in Nat /\ Len(stack) = Len(a) + 1 + Len(t)
  /\ \A i \in 1..Len(a) : stack[i] = a[i]
  /\ stack[Len(a) + 1] = e
  /\ \A i \in 1..Len(t) : stack[Len(a) + 1 + i] = t[i]

LEMMA Stacked ==
  ASSUME NEW a, IsSeq(a), NEW e, NEW t, IsSeq(t), NEW stack, stack = Over(a, e, t)
  PROVE  IsStacked(stack, a, e, t)
<1>. DEFINE S   == ToSet(a) \cup {e} \cup ToSet(t)
            own == <<e>>
            b   == a \o own
<1>1. a \in Seq(S) /\ t \in Seq(S) /\ e \in S /\ Len(a) \in Nat /\ Len(t) \in Nat
  BY SeqMonotonic, LenProperties DEF IsSeq
<1>. HIDE DEF S
<1>2. own \in Seq(S) /\ Len(own) = 1 /\ own[1] = e
  BY <1>1
<1>. HIDE DEF own
<1>3. /\ b \in Seq(S) /\ Len(b) = Len(a) + 1
      /\ \A i \in 1..(Len(a) + 1) : b[i] = IF i <= Len(a) THEN a[i] ELSE own[i - Len(a)]
  <2>1. /\ b \in Seq(S) /\ Len(b) = Len(a) + Len(own)
        /\ \A i \in 1..(Len(a) + Len(own)) : b[i] = IF i <= Len(a) THEN a[i] ELSE own[i - Len(a)]
    BY <1>1, <1>2, ConcatProperties
  <2>. QED  BY <1>2, <2>1
<1>4. (\A i \in 1..Len(a) : b[i] = a[i]) /\ b[Len(a) + 1] = e
  BY <1>1, <1>2, <1>3
<1>. HIDE DEF b
<1>5. /\ stack \in Seq(S) /\ Len(stack) = Len(b) + Len(t)
      /\ \A i \in 1..(Len(b) + Len(t)) : stack[i] = IF i <= Len(b) THEN b[i] ELSE t[i - Len(b)]
  <2>1. stack = b \o t
    BY DEF b, own, Over
  <2>2. /\ b \o t \in Seq(S) /\ Len(b \o t) = Len(b) + Len(t)
        /\ \A i \in 1..(Len(b) + Len(t)) : (b \o t)[i] = IF i <= Len(b) THEN b[i] ELSE t[i - Len(b)]
    BY ZenonT(60), <1>1, <1>3, ConcatProperties
  <2>. QED  BY <2>1, <2>2
<1>6. /\ \A i \in 1..Len(a) : stack[i] = a[i]
      /\ stack[Len(a) + 1] = e
      /\ \A i \in 1..Len(t) : stack[Len(a) + 1 + i] = t[i]
  <2>1. \A i \in 1..(Len(a) + 1) : stack[i] = b[i]
    BY <1>1, <1>3, <1>5
  <2>2. ASSUME NEW i \in 1..Len(t) PROVE stack[Len(a) + 1 + i] = t[i]
    <3>1. /\ Len(a) + 1 + i \in 1..(Len(b) + Len(t)) /\ ~(Len(a) + 1 + i <= Len(b))
          /\ (Len(a) + 1 + i) - Len(b) = i
      BY <1>1, <1>3
    <3>. QED  BY <1>5, <3>1
  <2>3. \A i \in 1..Len(a) : i \in 1..(Len(a) + 1)
    BY <1>1
  <2>4. Len(a) + 1 \in 1..(Len(a) + 1)
    BY <1>1
  <2>. QED  BY <1>4, <2>1, <2>2, <2>3, <2>4
<1>7. IsSeq(stack) /\ Len(stack) = Len(a) + 1 + Len(t)
  BY <1>3, <1>5, SeqIsSeq
<1>. QED  BY <1>1, <1>6, <1>7 DEF IsStacked

LEMMA StackLists ==
  ASSUME NEW f, NEW g, WellFormedFS(g), NEW top, NEW w, IsSeq(w), w # << >>, StackOK(f, g, top, w),
         NEW x, x = w[1].at, x \in DOMAIN g, g[x].kind = "dir"
  PROVE  StackOK(f, g, top, SetToSeq({Entry(y, FALSE) : y \in Children(g, x)})
                              \o <<Entry(x, TRUE)>> \o Tail(w))
<1>. DEFINE below == {Entry(y, FALSE) : y \in Children(g, x)}
            a     == SetToSeq(below)
            e     == Entry(x, TRUE)
            t     == Tail(w)
            s     == a \o <<e>> \o t
<1>1. /\ Len(w) \in Nat \ {0} /\ IsSeq(t) /\ Len(t) = Len(w) - 1
      /\ \A i \in 1..(Len(w) - 1) : t[i] = w[i + 1]
  BY HeadOrTail
<1>2. /\ \A i \in 1..Len(w) : IsPrefix(top, w[i].at) /\ (w[i].listed => Opened(g, w, i))
      /\ IsSeq(top) /\ Trimmed(f, g, top) /\ w[Len(w)].at = top
  BY DEF StackOK
<1>3. IsFiniteSet(below)
  <2>1. IsFiniteSet(Children(g, x))
    BY FS_Subset DEF Children, WellFormedFS
  <2>. DEFINE h == [y \in Children(g, x) |-> Entry(y, FALSE)]
  <2>2. h \in Surjection(Children(g, x), below)
    BY DEF Surjection
  <2>. QED  BY <2>1, <2>2, FS_Surjection
<1>4. ASSUME NEW entry \in below PROVE IsPrefix(top, entry.at) /\ ~entry.listed
  <2>1. PICK y \in Children(g, x) : entry = Entry(y, FALSE)
    OBVIOUS
  <2>2. IsSeq(x) /\ IsPrefix(top, x)
    <3>1. 1 \in 1..Len(w)
      BY <1>1
    <3>2. IsPrefix(top, x)
      BY <1>2, <3>1
    <3>. QED  BY <3>2 DEF WellFormedFS, IsSeq
  <2>3. IsPrefix(top, Append(x, Last(y))) /\ y = Append(x, Last(y))
    BY <1>2, <2>2, PrefixOfEntry, ChildIs
  <2>. QED  BY <2>1, <2>3 DEF Entry
<1>5. \A y \in Children(g, x) : Entry(y, FALSE) \in below /\ Entry(y, FALSE).at = y
  BY DEF Entry
<1>6. e.at = x /\ e.listed
  BY DEF Entry
<1>. HIDE DEF below, e
<1>7. /\ IsSeq(a) /\ a \in Seq(below)
      /\ \A entry \in below : \E i \in 1..Len(a) : a[i] = entry
  BY <1>3, SetToSeqOnto
<1>8. \A i \in 1..Len(a) : a[i] \in below
  BY <1>7, ElementOfSeq
<1>. HIDE DEF a, t
<1>. HIDE DEF s
<1>9. /\ Len(a) \in Nat /\ Len(t) \in Nat /\ Len(s) = Len(a) + 1 + Len(t)
      /\ \A i \in 1..Len(a) : s[i] = a[i]
      /\ s[Len(a) + 1] = e
      /\ \A i \in 1..Len(t) : s[Len(a) + 1 + i] = t[i]
  <2>1. s = Over(a, e, t)
    BY DEF s, Over
  <2>2. IsStacked(s, a, e, t)
    BY <1>1, <1>7, <2>1, Stacked
  <2>. QED  BY <2>2 DEF IsStacked
<1>10. \A i \in 1..Len(s) : i \in 1..Len(a) \/ i = Len(a) + 1
                            \/ \E k \in 1..Len(t) : i = Len(a) + 1 + k
  <2>1. ASSUME NEW i \in 1..Len(s), i > Len(a) + 1 PROVE \E k \in 1..Len(t) : i = Len(a) + 1 + k
    <3>1. i - (Len(a) + 1) \in 1..Len(t) /\ i = Len(a) + 1 + (i - (Len(a) + 1))
      BY <1>9, <2>1
    <3>. QED  BY <3>1
  <2>. QED  BY <1>9, <2>1
\* Where an entry of the old stack has got to.
<1>11. \A j \in 1..Len(w) :
         \E m \in 1..(Len(a) + j) : s[m].at = w[j].at
  <2>. SUFFICES ASSUME NEW j \in 1..Len(w) PROVE \E m \in 1..(Len(a) + j) : s[m].at = w[j].at
    OBVIOUS
  <2>1. CASE j = 1
    <3>1. Len(a) + 1 \in 1..(Len(a) + j)
      BY <1>9, <2>1
    <3>. QED  BY <1>6, <1>9, <2>1, <3>1
  <2>2. CASE j # 1
    <3>1. /\ j - 1 \in 1..Len(t) /\ (j - 1) + 1 = j /\ Len(a) + 1 + (j - 1) = Len(a) + j
          /\ Len(a) + j \in 1..(Len(a) + j) /\ j - 1 \in 1..(Len(w) - 1)
      BY <1>1, <1>9, <2>2
    <3>2. s[Len(a) + j] = w[j]
      BY ZenonT(60), <1>1, <1>9, <3>1
    <3>. QED  BY <3>1, <3>2
  <2>. QED  BY <2>1, <2>2
<1>12. ASSUME NEW i \in 1..Len(s) PROVE IsPrefix(top, s[i].at) /\ (s[i].listed => Opened(g, s, i))
  <2>1. CASE i \in 1..Len(a)
    BY <1>4, <1>8, <1>9, <2>1
  <2>2. CASE i = Len(a) + 1
    <3>1. s[i].at = x /\ IsPrefix(top, x)
      BY <1>1, <1>2, <1>6, <1>9, <2>2
    <3>2. ASSUME NEW y \in Children(g, x) PROVE \E j \in 1..(i - 1) : s[j].at = y
      <4>1. PICK j \in 1..Len(a) : a[j] = Entry(y, FALSE)
        BY <1>5, <1>7
      <4>2. j \in 1..(i - 1)
        BY <1>9, <2>2
      <4>3. s[j].at = y
        BY <1>5, <1>9, <4>1
      <4>. QED  BY <4>2, <4>3
    <3>. QED  BY <3>1, <3>2 DEF Opened
  <2>3. ASSUME NEW k \in 1..Len(t), i = Len(a) + 1 + k
        PROVE  IsPrefix(top, s[i].at) /\ (s[i].listed => Opened(g, s, i))
    <3>1. k + 1 \in 1..Len(w) /\ s[i] = w[k + 1] /\ k \in Nat /\ (k + 1) - 1 = k
      <4>1. k \in 1..(Len(w) - 1) /\ k + 1 \in 1..Len(w) /\ k \in Nat /\ (k + 1) - 1 = k
        BY <1>1, <1>9
      <4>2. t[k] = w[k + 1] /\ s[i] = t[k]
        BY <1>1, <1>9, <2>3, <4>1
      <4>. QED  BY <4>1, <4>2
    <3>2. ASSUME s[i].listed, NEW y \in Children(g, s[i].at)
          PROVE  \E m \in 1..(i - 1) : s[m].at = y
      <4>1. PICK j \in 1..k : w[j].at = y
        BY <1>2, <3>1, <3>2 DEF Opened
      <4>2. j \in 1..Len(w) /\ 1..(Len(a) + j) \subseteq 1..(i - 1)
        BY <1>1, <1>9, <2>3, <4>1
      <4>. QED  BY <1>11, <4>1, <4>2
    <3>. QED  BY <1>2, <3>1, <3>2 DEF Opened
  <2>. QED  BY <1>10, <2>1, <2>2, <2>3
<1>13. s[Len(s)].at = top
  <2>1. CASE Len(w) = 1
    BY <1>1, <1>2, <1>6, <1>9, <2>1
  <2>2. CASE Len(w) # 1
    <3>1. Len(t) \in 1..Len(t) /\ Len(t) \in 1..(Len(w) - 1) /\ Len(t) + 1 = Len(w)
          /\ Len(s) = Len(a) + 1 + Len(t)
      BY <1>1, <1>9, <2>2
    <3>2. s[Len(s)] = w[Len(w)]
      BY ZenonT(60), <1>1, <1>9, <3>1
    <3>. QED  BY <1>2, <3>2
  <2>. QED  BY <2>1, <2>2
<1>14. StackOK(f, g, top, s)
  BY <1>2, <1>12, <1>13 DEF StackOK
<1>. QED  BY <1>14 DEF s, a, e, t, below

-----------------------------------------------------------------------------
(* The way down of mkdir -p: f is the tree it began with, g the one it has *)
(* come to, b the directory that was there, n names down the path p.       *)

\* The first n names of p lead to b, more of them nowhere.
LeadsTo(f, p, n, b) ==
  /\ n \in 0..Len(p) /\ b = EvalSymlinks(f, SubSeq(p, 1, n)) /\ b # NoPath
  /\ \A m \in (n + 1)..Len(p) : EvalSymlinks(f, SubSeq(p, 1, m)) = NoPath

MadeSet(b, p, n, k) == {Made(b, p, n, i) : i \in (n + 1)..k}

\* The directories down to the k-th name have been made, and nothing else.
DownTo(f, g, p, n, b, k) ==
  /\ MadeSet(b, p, n, k) \cap DOMAIN f = {}
  /\ g = With(f, MadeSet(b, p, n, k))
  /\ ExistingDir(g, SubSeq(p, 1, k)) = Made(b, p, n, k)

LEMMA MkdirAllExpected ==
  ASSUME NEW f, NEW q, Asks(q, "mkdir", TRUE), NEW p, IsSeq(p), NEW n, NEW b, LeadsTo(f, p, n, b)
  PROVE  Expected(f, q, p) =
           IF f[b].kind # "dir" THEN Outcome("IO_ERROR", f, {})
           ELSE IF MadeSet(b, p, n, Len(p)) \cap DOMAIN f # {} THEN Outcome("PATH_ALREADY_EXISTS", f, {})
           ELSE Outcome("ok", With(f, MadeSet(b, p, n, Len(p))), {})
<1>. DEFINE exists  == {m \in 0..Len(p) : EvalSymlinks(f, SubSeq(p, 1, m)) # NoPath}
            deepest == CHOOSE m \in exists : \A k \in exists : k <= m
<1>1. Len(p) \in Nat
  BY LenProperties DEF IsSeq
<1>2. n \in exists /\ \A k \in exists : k <= n
  BY <1>1 DEF LeadsTo
<1>3. exists \subseteq Nat
  BY <1>1
<1>. HIDE DEF exists
<1>4. deepest \in exists /\ \A k \in exists : k <= deepest
  BY <1>2
<1>. HIDE DEF deepest
<1>5. deepest = n
  <2>1. n <= deepest /\ deepest <= n /\ n \in Nat /\ deepest \in Nat
    BY <1>2, <1>3, <1>4
  <2>. QED  BY <2>1
<1>. USE DEF deepest
<1>. DEFINE base    == EvalSymlinks(f, SubSeq(p, 1, deepest))
            missing == {base \o SubSeq(p, deepest + 1, m) : m \in (deepest + 1)..Len(p)}
<1>6. Expected(f, q, p) =
        IF f[base].kind # "dir" THEN Outcome("IO_ERROR", f, {})
        ELSE IF missing \cap DOMAIN f # {} THEN Outcome("PATH_ALREADY_EXISTS", f, {})
        ELSE Outcome("ok", With(f, missing), {})
  BY DEF Asks, Expected, With, exists
<1>. HIDE DEF deepest
<1>7. base = b /\ missing = MadeSet(b, p, n, Len(p))
  BY <1>5 DEF LeadsTo, MadeSet, Made
<1>. QED  BY <1>6, <1>7

LEMMA DownBegins ==
  ASSUME NEW f, WellFormedFS(f), NEW p, IsSeq(p), NEW n, NEW b, LeadsTo(f, p, n, b), f[b].kind = "dir"
  PROVE  DownTo(f, f, p, n, b, n)
<1>1. Len(p) \in Nat /\ n \in 0..Len(p) /\ b \in DOMAIN f
  BY LenProperties, EvalIsPhysical DEF LeadsTo, IsSeq
<1>2. (n + 1)..n = {} /\ IsSeq(b)
  BY <1>1 DEF WellFormedFS, IsSeq
<1>3. MadeSet(b, p, n, n) = {} /\ Made(b, p, n, n) = b
  BY <1>1, <1>2, MadeNone DEF MadeSet
<1>4. With(f, {}) = f
  BY TreeIsItself DEF With
<1>5. ExistingDir(f, SubSeq(p, 1, n)) = b
  BY DEF LeadsTo, ExistingDir
<1>. QED  BY <1>3, <1>4, <1>5 DEF DownTo

\* Where the next name lies.
LEMMA DownNext ==
  ASSUME NEW f, WellFormedFS(f), NEW g, WellFormedFS(g), NEW p, IsSeq(p), NEW n, NEW b,
         LeadsTo(f, p, n, b), NEW k \in Nat, n <= k, k < Len(p), DownTo(f, g, p, n, b, k)
  PROVE  LET w == SubSeq(p, 1, k)
             x == Made(b, p, n, k + 1)
         IN  /\ IsSeq(w) /\ Len(w) = k /\ EntryIs(SubSeq(p, 1, k + 1), w, Last(SubSeq(p, 1, k + 1)))
             /\ EntryIs(x, ExistingDir(g, w), Last(SubSeq(p, 1, k + 1)))
             /\ ExistingDir(g, w) # NoPath
             /\ IsSeq(x) /\ x # NoPath /\ x # << >> /\ Parent(x) = Made(b, p, n, k)
             /\ Spot(g, SubSeq(p, 1, k + 1)) = x
<1>. DEFINE w    == SubSeq(p, 1, k)
            next == SubSeq(p, 1, k + 1)
            x    == Made(b, p, n, k + 1)
            m    == Made(b, p, n, k)
            e    == Last(next)
<1>1. Len(p) \in Nat /\ n \in Nat /\ k <= Len(p) /\ k \in 0..(Len(p) - 1) /\ b \in DOMAIN f
  BY LenProperties, EvalIsPhysical DEF LeadsTo, IsSeq
<1>2. IsSeq(b)
  BY <1>1 DEF WellFormedFS, IsSeq
<1>3. IsSeq(m) /\ x = Append(m, e)
  <2>1. IsSeq(m)
    BY <1>1, <1>2, MadeIsSeq
  <2>2. x = Append(m, e)
    BY <1>1, <1>2, MadeNext
  <2>. QED  BY <2>1, <2>2
<1>4. m # NoPath /\ ExistingDir(g, w) = m
  BY <1>3, SeqIsNoNoPath DEF DownTo
<1>5. IsSeq(x) /\ x # << >> /\ Front(x) = m
  BY <1>3, AppendIsSeq
<1>6. x # NoPath /\ Parent(x) = m
  BY <1>5, SeqIsNoNoPath DEF Parent
<1>7. /\ IsSeq(w) /\ Len(w) = k /\ EntryIs(SubSeq(p, 1, Len(w) + 1), w, Last(SubSeq(p, 1, Len(w) + 1)))
      /\ EntryIs(Spot(g, SubSeq(p, 1, Len(w) + 1)), ExistingDir(g, w), Last(SubSeq(p, 1, Len(w) + 1)))
  <2>. HIDE DEF m
  <2>. QED  BY <1>1, <1>4, NextStep
<1>. QED  BY <1>3, <1>4, <1>5, <1>6, <1>7 DEF EntryIs

\* It is there already only if a dangling link was, right below b.
LEMMA DownMeets ==
  ASSUME NEW f, WellFormedFS(f), NoPath \notin DOMAIN f, NEW g, WellFormedFS(g), NEW p, IsSeq(p),
         NEW n, NEW b, LeadsTo(f, p, n, b), NEW k \in Nat, n <= k, k < Len(p), DownTo(f, g, p, n, b, k),
         Made(b, p, n, k + 1) \in DOMAIN g
  PROVE  /\ g = f /\ g[Made(b, p, n, k + 1)].kind # "dir"
         /\ MadeSet(b, p, n, Len(p)) \cap DOMAIN f # {}
<1>. DEFINE x    == Made(b, p, n, k + 1)
            next == SubSeq(p, 1, k + 1)
            w    == SubSeq(p, 1, k)
<1>1. Len(p) \in Nat /\ n \in Nat /\ k <= Len(p) /\ k \in 0..(Len(p) - 1) /\ b \in DOMAIN f
  BY LenProperties, EvalIsPhysical DEF LeadsTo, IsSeq
<1>2. IsSeq(b) /\ Len(b) \in Nat
  BY <1>1, LenProperties DEF WellFormedFS, IsSeq
<1>3. x \notin MadeSet(b, p, n, k)
  <2>. HIDE DEF x
  <2>1. \A i \in n..Len(p) : Len(Made(b, p, n, i)) = Len(b) + (i - n)
    BY <1>1, <1>2, MadeLength
  <2>2. Len(x) = Len(b) + ((k + 1) - n)
    <3>1. k + 1 \in n..Len(p)
      BY <1>1
    <3>. QED  BY <2>1, <3>1 DEF x
  <2>3. ASSUME NEW i \in (n + 1)..k PROVE Made(b, p, n, i) # x
    <3>1. i \in n..Len(p) /\ i \in Nat /\ i # k + 1
      BY <1>1
    <3>2. Len(Made(b, p, n, i)) = Len(b) + (i - n)
      BY <2>1, <3>1
    <3>. QED  BY <1>1, <1>2, <2>2, <3>1, <3>2
  <2>. QED  BY <2>3 DEF MadeSet
<1>4. x \in DOMAIN f
  BY <1>3 DEF DownTo, With
<1>5. /\ IsSeq(w) /\ EntryIs(next, w, Last(next)) /\ EntryIs(x, ExistingDir(g, w), Last(next))
      /\ ExistingDir(g, w) # NoPath /\ x # << >> /\ Parent(x) = Made(b, p, n, k)
  BY DownNext
<1>6. k = n
  <2>. SUFFICES ASSUME k # n PROVE FALSE
    OBVIOUS
  <2>1. k \in (n + 1)..k
    BY <1>1
  <2>2. Made(b, p, n, k) \in MadeSet(b, p, n, k)
    BY <2>1 DEF MadeSet
  <2>3. Made(b, p, n, k) \in DOMAIN f
    BY <1>4, <1>5 DEF WellFormedFS
  <2>. QED  BY <2>2, <2>3 DEF DownTo
<1>7. g = f
  <2>1. (n + 1)..k = {}
    BY <1>1, <1>6
  <2>2. MadeSet(b, p, n, k) = {}
    BY <2>1 DEF MadeSet
  <2>. QED  BY <2>2, TreeIsItself DEF DownTo, With
<1>8. f[x].kind # "dir"
  <2>. SUFFICES ASSUME f[x].kind = "dir" PROVE FALSE
    OBVIOUS
  <2>1. EvalSymlinks(f, w) # NoPath /\ EntryIs(x, EvalSymlinks(f, w), Last(next))
    BY <1>5, <1>7 DEF ExistingDir
  <2>. HIDE DEF x, w, next
  <2>2. EvalSymlinks(f, next) = x
    BY <1>4, <1>5, <2>1, EvalOfEntry
  <2>3. k + 1 \in (n + 1)..Len(p)
    BY <1>1, <1>6
  <2>. QED  BY <1>4, <2>2, <2>3 DEF LeadsTo, next
<1>9. x \in MadeSet(b, p, n, Len(p))
  <2>1. k + 1 \in (n + 1)..Len(p)
    BY <1>1
  <2>. QED  BY <2>1 DEF MadeSet
<1>. QED  BY <1>4, <1>7, <1>8, <1>9

\* Otherwise it is made.
LEMMA DownMakes ==
  ASSUME NEW f, WellFormedFS(f), NEW g, WellFormedFS(g), NEW p, IsSeq(p),
         NEW n, NEW b, LeadsTo(f, p, n, b), NEW k \in Nat, n <= k, k < Len(p), DownTo(f, g, p, n, b, k),
         Made(b, p, n, k + 1) \notin DOMAIN g,
         NEW g2, g2 = WithDir(g, Made(b, p, n, k + 1)), WellFormedFS(g2), NoPath \notin DOMAIN g2
  PROVE  DownTo(f, g2, p, n, b, k + 1)
<1>. DEFINE x    == Made(b, p, n, k + 1)
            next == SubSeq(p, 1, k + 1)
            w    == SubSeq(p, 1, k)
            old  == MadeSet(b, p, n, k)
<1>1. Len(p) \in Nat /\ n \in Nat
  BY LenProperties DEF LeadsTo, IsSeq
<1>2. MadeSet(b, p, n, k + 1) = old \cup {x}
  <2>1. (n + 1)..(k + 1) = ((n + 1)..k) \cup {k + 1}
    BY <1>1
  <2>. QED  BY <2>1 DEF MadeSet
<1>3. /\ IsSeq(w) /\ EntryIs(next, w, Last(next)) /\ EntryIs(x, ExistingDir(g, w), Last(next))
      /\ ExistingDir(g, w) # NoPath
  BY DownNext
<1>4. g = With(f, old) /\ old \cap DOMAIN f = {}
  BY DEF DownTo
<1>. HIDE DEF old, x, w, next
<1>5. g2 = WithDir(g, x) /\ x \notin DOMAIN g
  BY DEF x
<1>6. g2 = With(f, old \cup {x}) /\ (old \cup {x}) \cap DOMAIN f = {}
  <2>1. DOMAIN g = DOMAIN f \cup old /\ \A y \in DOMAIN g : g[y] = IF y \in DOMAIN f THEN f[y] ELSE Dir
    BY <1>4 DEF With
  <2>2. DOMAIN g \cup {x} = DOMAIN f \cup (old \cup {x})
    BY <2>1
  <2>. QED  BY <1>4, <1>5, <2>1, <2>2 DEF With, WithDir
<1>7. ExistingDir(g2, next) = x
  <2>1. IsRestriction(g, g2) /\ x \in DOMAIN g2 /\ g2[x].kind = "dir"
    BY <1>5, WithDirGrows
  <2>. QED  BY <1>3, <2>1, NextDir
<1>. QED  BY <1>2, <1>6, <1>7 DEF DownTo, x, next

-----------------------------------------------------------------------------
(* The invariant of a call that has the tree to itself.                    *)

\* Which tool a handler's step belongs to.
OpOK(c) ==
  /\ pc[c] \in {"stat", "make", "lstat"} => request[c].op = "mkdir" /\ request[c].rec = TRUE
  /\ pc[c] = "info" => request[c].op = "ls" /\ request[c].rec = FALSE
  /\ pc[c] = "rm" => request[c].op = "rm"
  /\ pc[c] \in {"open", "empty"} => request[c].op = "rm" /\ request[c].rec = TRUE

\* mkdir -p has made the path down to what it is at.
MakingExact(c) ==
  \E n, b : \E k \in Nat :
    /\ LeadsTo(alone[c], path[c], n, b) /\ alone[c][b].kind = "dir"
    /\ n <= k /\ k < Len(path[c]) /\ work[c] = SubSeq(path[c], 1, k)
    /\ DownTo(alone[c], fs, path[c], n, b, k)
    /\ pc[c] = "lstat" => /\ Made(b, path[c], n, k + 1) \in DOMAIN fs
                          /\ answer[c] = "PATH_ALREADY_EXISTS"

\* ls has a line for every entry whose name it is not still to look at.
ListingExact(f, x, names, lines) ==
  /\ IsSeq(names) /\ \A name \in ToSet(names) : \E y \in Children(f, x) : name = Last(y)
  /\ lines \subseteq Lines(f, x)
  /\ \A y \in Children(f, x) : Line(f, y) \in lines \/ Last(y) \in ToSet(names)

\* An answer is the one the tool's page gives.
AnswerExact(c) ==
  request[c].op # "list_allowed_dirs" /\ answer[c] # "PERMISSION_DENIED"
  => Exactly(alone[c], request[c], path[c], answer[c], fs, out[c])

ExactOK(c) ==
  alone[c] # NoTree =>
    /\ WellFormedFS(alone[c]) /\ NoPath \notin DOMAIN alone[c]
    /\ pc[c] \notin {"make", "lstat", "empty", "answered"} => fs = alone[c]
    /\ pc[c] \in {"make", "lstat"} => MakingExact(c)
    /\ pc[c] = "info" => /\ ExistingDir(fs, path[c]) # NoPath
                         /\ ListingExact(fs, ExistingDir(fs, path[c]), work[c], out[c])
    /\ pc[c] = "open" => RemoveErr(fs, path[c]) \notin {"none", "ENOENT"}
    /\ pc[c] = "empty" => /\ Spot(alone[c], path[c]) # NoPath
                          /\ StackOK(alone[c], fs, Spot(alone[c], path[c]), work[c])
    /\ pc[c] = "answered" => AnswerExact(c)

ExactInv == InsideInv /\ ListInv /\ \A c \in Calls : OpOK(c) /\ ExactOK(c)

\* A call is undisturbed by those who leave the tree alone.
LEMMA ExactStays ==
  ASSUME NEW c \in Calls, OpOK(c), ExactOK(c),
         UNCHANGED <<pc[c], path[c], request[c], work[c], answer[c], out[c]>>,
         alone'[c] # NoTree => UNCHANGED <<alone[c], fs>>
  PROVE  OpOK(c)' /\ ExactOK(c)'
<1>1. OpOK(c)'
  BY DEF OpOK
<1>. SUFFICES ASSUME alone'[c] # NoTree PROVE ExactOK(c)'
  BY <1>1 DEF ExactOK
<1>. QED  BY DEF ExactOK, MakingExact, AnswerExact

LEMMA AloneFacts ==
  ASSUME DOMAIN alone = Calls, NEW c \in Calls, Handling(c)
  PROVE  /\ DOMAIN alone' = Calls /\ alone'[c] = alone[c]
         /\ \A o \in Calls \ {c} : alone'[o] # NoTree => UNCHANGED <<alone[o], fs>>
<1>1. Untouched \/ (\E tree : Writes(c, tree))
  BY DEF Handling, ListAllowedDirs, Mkdir, MkdirAll, StatUp, MakeDown, LstatDown, ReadDir, Info,
         Listed, GuardRoots, RemoveOne, RemoveAll, RemovesEntry, OpenParent, Unlink, Rmdir
<1>. QED  BY <1>1 DEF Untouched, Writes, Noticed

\* What a handler's step can rely on.
LEMMA ExactKnows ==
  ASSUME ExactInv, NEW c \in Calls, Handling(c), alone[c] # NoTree
  PROVE  /\ WellFormedFS(fs) /\ NoPath \notin DOMAIN fs /\ OpOK(c) /\ ExactOK(c)
         /\ WellFormedFS(alone[c]) /\ NoPath \notin DOMAIN alone[c]
         /\ pc[c] \notin {"make", "lstat", "empty", "answered"} => fs = alone[c]
         /\ pc[c] \in Pathed => IsSeq(path[c])
         /\ pc[c] = "empty" => IsSeq(work[c]) /\ work[c] # << >>
         /\ pc[c] \notin {"info", "answered"} => out[c] = {}
         /\ pc[c] = "stat" => Deepest(fs, path[c], work[c])
         /\ DOMAIN pc = Calls /\ DOMAIN work = Calls /\ DOMAIN answer = Calls /\ DOMAIN out = Calls
         /\ UNCHANGED <<path, request, alone[c]>>
<1>1. /\ WellFormedFS(fs) /\ NoPath \notin DOMAIN fs /\ OpOK(c) /\ ExactOK(c)
      /\ DOMAIN pc = Calls /\ DOMAIN work = Calls /\ DOMAIN answer = Calls /\ DOMAIN out = Calls
      /\ pc[c] \notin {"info", "answered"} => out[c] = {}
      /\ pc[c] \in Pathed => IsSeq(path[c])
      /\ pc[c] = "empty" => IsSeq(work[c]) /\ work[c] # << >>
  BY DEF ExactInv, InsideInv, ListInv, ReadOK, PathInv, PathOK, AllPaths, TreeInv, AnswerOK, RootsInv,
         Shapes
<1>2. pc[c] = "stat" => Deepest(fs, path[c], work[c])
  BY DEF ExactInv, InsideInv, InsideOK, MakingOK
<1>3. UNCHANGED <<path, request, alone[c]>>
  BY HandlerSteps, AloneFacts DEF ExactInv, InsideInv, locals
<1>. QED  BY <1>1, <1>2, <1>3 DEF ExactOK

\* A step that goes on or answers.
LEMMA WhereItGoes ==
  ASSUME NEW c, c \in DOMAIN pc, c \in DOMAIN work, c \in DOMAIN answer, c \in DOMAIN out
  PROVE  /\ \A step, w : Goes(c, step, w) =>
              pc'[c] = step /\ work'[c] = w /\ answer'[c] = "none" /\ out'[c] = out[c]
         /\ \A code, result : Replies(c, code, result) =>
              pc'[c] = "answered" /\ answer'[c] = code /\ out'[c] = result
  BY DEF Goes, Replies

LEMMA AnswersExactly ==
  ASSUME ExactInv, NEW c \in Calls, Handling(c), alone[c] # NoTree, pc'[c] = "answered",
         request[c].op # "list_allowed_dirs" /\ answer'[c] # "PERMISSION_DENIED"
         => Exactly(alone[c], request[c], path[c], answer'[c], fs', out'[c])
  PROVE  ExactOK(c)'
<1>1. WellFormedFS(alone[c]) /\ NoPath \notin DOMAIN alone[c] /\ UNCHANGED <<path, request, alone[c]>>
  BY ExactKnows
<1>2. AnswerExact(c)'
  BY <1>1 DEF AnswerExact
<1>. QED  BY <1>1, <1>2 DEF ExactOK

-----------------------------------------------------------------------------
(* mkdir.                                                                  *)

LEMMA MkdirExact ==
  ASSUME ExactInv, NEW c \in Calls, Mkdir(c), alone[c] # NoTree
  PROVE  ExactOK(c)'
<1>. DEFINE p   == path[c]
            err == MkdirErr(fs, p)
<1>1. Handling(c) /\ pc[c] = "accepted" /\ request[c].op = "mkdir" /\ request[c].rec = FALSE
  BY DEF Handling, Mkdir, Handles
<1>2. /\ WellFormedFS(fs) /\ NoPath \notin DOMAIN fs /\ fs = alone[c]
      /\ DOMAIN pc = Calls /\ DOMAIN work = Calls /\ DOMAIN answer = Calls /\ DOMAIN out = Calls
  BY <1>1, ExactKnows
<1>3. /\ Replies(c, classify(err), {})
      /\ err = "none" => fs' = WithDir(fs, Spot(fs, p))
      /\ err # "none" => fs' = fs
  BY DEF Mkdir, Writes, Untouched
<1>. HIDE DEF err, p
<1>4. pc'[c] = "answered" /\ answer'[c] = classify(err) /\ out'[c] = {}
  BY <1>2, <1>3, WhereItGoes
<1>5. Exactly(fs, request[c], p, classify(err), fs', {})
  <2>1. Asks(request[c], "mkdir", FALSE) /\ err = MkdirErr(fs, p)
    BY <1>1 DEF err, Asks
  <2>. QED  BY <1>2, <1>3, <2>1, MkdirIsExact
<1>. QED  BY <1>1, <1>2, <1>4, <1>5, AnswersExactly DEF p

-----------------------------------------------------------------------------
(* rm.                                                                     *)

LEMMA RemoveAllExpected ==
  ASSUME NEW f, NEW q, Asks(q, "rm", TRUE), NEW p
  PROVE  Expected(f, q, p) =
           LET x == Spot(f, p)
           IN  IF x = NoPath /\ Blocked(f, p) = "IO_ERROR" THEN Outcome("IO_ERROR", f, {})
               ELSE IF x = << >> THEN Outcome("IO_ERROR", Without(f, Below(f, x) \ {x}), {})
               ELSE Outcome("ok", IF x = NoPath THEN f ELSE Without(f, Below(f, x)), {})
  BY DEF Asks, Expected, Blocked

\* What rm -r is to leave, by what it finds at its path.
LEMMA RemoveAllIsExact ==
  ASSUME NEW f, WellFormedFS(f), NEW q, Asks(q, "rm", TRUE), NEW p
  PROVE  LET x == Spot(f, p)
         IN  /\ x = NoPath => Exactly(f, q, p, IF WayErr(f, p) = "ENOENT" THEN "ok" ELSE "IO_ERROR", f, {})
             /\ x # NoPath /\ x # << >> => Exactly(f, q, p, "ok", Without(f, Below(f, x)), {})
             /\ x # NoPath /\ x = << >> =>
                  Exactly(f, q, p, "IO_ERROR", Without(f, Below(f, << >>) \ {<< >>}), {})
<1>. DEFINE x == Spot(f, p)
<1>1. Expected(f, q, p) =
        IF x = NoPath /\ Blocked(f, p) = "IO_ERROR" THEN Outcome("IO_ERROR", f, {})
        ELSE IF x = << >> THEN Outcome("IO_ERROR", Without(f, Below(f, x) \ {x}), {})
        ELSE Outcome("ok", IF x = NoPath THEN f ELSE Without(f, Below(f, x)), {})
  BY RemoveAllExpected
<1>2. NoPath # << >>
  <2>1. IsSeq(<< >>)
    BY EmptySeq DEF IsSeq
  <2>. QED  BY <2>1, SeqIsNoNoPath
<1>. HIDE DEF x
<1>3. x = NoPath => Exactly(f, q, p, IF WayErr(f, p) = "ENOENT" THEN "ok" ELSE "IO_ERROR", f, {})
  BY <1>1, <1>2 DEF Exactly, Blocked
<1>4. x # NoPath /\ x # << >> => Exactly(f, q, p, "ok", Without(f, Below(f, x)), {})
  BY <1>1 DEF Exactly
<1>5. x # NoPath /\ x = << >> =>
        Exactly(f, q, p, "IO_ERROR", Without(f, Below(f, << >>) \ {<< >>}), {})
  BY <1>1 DEF Exactly
<1>. QED  BY <1>3, <1>4, <1>5 DEF x

LEMMA GuardRootsExact ==
  ASSUME ExactInv, NEW c \in Calls, GuardRoots(c), alone[c] # NoTree
  PROVE  ExactOK(c)'
<1>1. Handling(c) /\ pc[c] = "accepted" /\ request[c].op = "rm" /\ UNCHANGED fs
  BY DEF Handling, GuardRoots, Untouched
<1>2. /\ DOMAIN pc = Calls /\ DOMAIN work = Calls /\ DOMAIN answer = Calls /\ DOMAIN out = Calls
      /\ fs = alone[c] /\ UNCHANGED <<path, request, alone[c]>>
      /\ WellFormedFS(alone[c]) /\ NoPath \notin DOMAIN alone[c]
  BY <1>1, ExactKnows
<1>3. CASE pc'[c] = "answered" /\ answer'[c] = "PERMISSION_DENIED"
  BY <1>1, <1>3, AnswersExactly
<1>4. CASE pc'[c] = "rm"
  BY <1>1, <1>2, <1>4 DEF OpOK, ExactOK
<1>. QED  BY <1>2, <1>3, <1>4, WhereItGoes DEF GuardRoots

LEMMA RemoveOneExact ==
  ASSUME ExactInv, NEW c \in Calls, RemoveOne(c), alone[c] # NoTree
  PROVE  ExactOK(c)'
<1>. DEFINE p   == path[c]
            err == RemoveErr(fs, p)
<1>1. Handling(c) /\ pc[c] = "rm" /\ request[c].op = "rm" /\ request[c].rec = FALSE
  BY DEF Handling, RemoveOne, Handles
<1>2. /\ WellFormedFS(fs) /\ NoPath \notin DOMAIN fs /\ fs = alone[c]
      /\ DOMAIN pc = Calls /\ DOMAIN work = Calls /\ DOMAIN answer = Calls /\ DOMAIN out = Calls
  BY <1>1, ExactKnows
<1>3. /\ Replies(c, classify(err), {})
      /\ err = "none" => fs' = Without(fs, {Spot(fs, p)})
      /\ err # "none" => fs' = fs
  BY DEF RemoveOne, RemovesEntry, Writes, Untouched
<1>. HIDE DEF err, p
<1>4. pc'[c] = "answered" /\ answer'[c] = classify(err) /\ out'[c] = {}
  BY <1>2, <1>3, WhereItGoes
<1>5. Exactly(fs, request[c], p, classify(err), fs', {})
  <2>1. Asks(request[c], "rm", FALSE) /\ err = RemoveErr(fs, p)
    BY <1>1 DEF err, Asks
  <2>. QED  BY <1>2, <1>3, <2>1, RemoveIsExact
<1>. QED  BY <1>1, <1>2, <1>4, <1>5, AnswersExactly DEF p

LEMMA RemoveAllExact ==
  ASSUME ExactInv, NEW c \in Calls, RemoveAll(c), alone[c] # NoTree
  PROVE  ExactOK(c)'
<1>. DEFINE p   == path[c]
            x   == Spot(fs, p)
            err == RemoveErr(fs, p)
<1>1. Handling(c) /\ pc[c] = "rm" /\ request[c].op = "rm" /\ request[c].rec = TRUE
  BY DEF Handling, RemoveAll, Handles
<1>2. /\ WellFormedFS(fs) /\ NoPath \notin DOMAIN fs /\ fs = alone[c] /\ out[c] = {}
      /\ DOMAIN pc = Calls /\ DOMAIN work = Calls /\ DOMAIN answer = Calls /\ DOMAIN out = Calls
      /\ UNCHANGED <<path, request, alone[c]>>
  BY <1>1, ExactKnows
<1>3. /\ err \in {"none", "ENOENT"} => Replies(c, "ok", {})
      /\ err \notin {"none", "ENOENT"} => Goes(c, "open", << >>)
      /\ err = "none" => fs' = Without(fs, {x})
      /\ err # "none" => fs' = fs
  BY DEF RemoveAll, RemovesEntry, Writes, Untouched
<1>4. err = IF x = NoPath THEN WayErr(fs, p)
            ELSE IF x \notin DOMAIN fs THEN "ENOENT"
            ELSE IF x = << >> THEN "EBUSY"
            ELSE IF Below(fs, x) # {x} THEN "ENOTEMPTY"
            ELSE "none"
  BY <1>2, RemoveErrIs
<1>5. Asks(request[c], "rm", TRUE)
  BY <1>1 DEF Asks
<1>6. /\ x = NoPath =>
           Exactly(fs, request[c], p, IF WayErr(fs, p) = "ENOENT" THEN "ok" ELSE "IO_ERROR", fs, {})
      /\ x # NoPath /\ x # << >> => Exactly(fs, request[c], p, "ok", Without(fs, Below(fs, x)), {})
  BY <1>2, <1>5, RemoveAllIsExact
<1>7. x # NoPath /\ x \notin DOMAIN fs => Without(fs, Below(fs, x)) = fs
  BY <1>2, SpotIsSeq, NothingBelow, TreeIsItself
<1>8. << >> \in DOMAIN fs
  BY <1>2 DEF WellFormedFS
<1>9. WayErr(fs, p) # "none"
  BY BlockedIs
<1>10. CASE err \in {"none", "ENOENT"}
  <2>1. pc'[c] = "answered" /\ answer'[c] = "ok" /\ out'[c] = {}
    BY <1>2, <1>3, <1>10, WhereItGoes
  <2>2. Exactly(fs, request[c], p, "ok", fs', {})
    <3>. HIDE DEF x, err
    <3>1. CASE err = "none"
      <4>1. x # NoPath /\ x \in DOMAIN fs /\ x # << >> /\ Below(fs, x) = {x}
        BY <1>4, <1>9, <3>1
      <4>. QED  BY <1>3, <1>6, <3>1, <4>1
    <3>2. CASE err = "ENOENT"
      <4>1. (x = NoPath /\ WayErr(fs, p) = "ENOENT") \/ (x # NoPath /\ x \notin DOMAIN fs)
        BY <1>4, <3>2
      <4>. QED  BY <1>3, <1>6, <1>7, <1>8, <3>2, <4>1
    <3>. QED  BY <1>10, <3>1, <3>2
  <2>. QED  BY <1>1, <1>2, <2>1, <2>2, AnswersExactly
<1>11. CASE err \notin {"none", "ENOENT"}
  <2>1. pc'[c] = "open"
    BY <1>2, <1>3, <1>11, WhereItGoes
  <2>2. fs' = fs /\ RemoveErr(fs', path'[c]) \notin {"none", "ENOENT"}
    BY <1>2, <1>3, <1>11
  <2>. QED  BY <1>1, <1>2, <2>1, <2>2 DEF ExactOK
<1>. QED  BY <1>10, <1>11

LEMMA OpenParentExact ==
  ASSUME ExactInv, NEW c \in Calls, OpenParent(c), alone[c] # NoTree
  PROVE  ExactOK(c)'
<1>. DEFINE p   == path[c]
            x   == Spot(fs, p)
            err == WayErr(fs, p)
            w   == <<Entry(x, FALSE)>>
<1>1. Handling(c) /\ pc[c] = "open" /\ UNCHANGED fs
  BY DEF Handling, OpenParent, Untouched
<1>2. /\ WellFormedFS(fs) /\ NoPath \notin DOMAIN fs /\ fs = alone[c] /\ out[c] = {}
      /\ DOMAIN pc = Calls /\ DOMAIN work = Calls /\ DOMAIN answer = Calls /\ DOMAIN out = Calls
      /\ UNCHANGED <<path, request, alone[c]>>
  BY <1>1, ExactKnows
<1>3. request[c].op = "rm" /\ request[c].rec = TRUE /\ RemoveErr(fs, p) # "ENOENT"
  BY <1>1, <1>2, ExactKnows DEF OpOK, ExactOK
<1>4. CASE x # NoPath /\ Goes(c, "empty", w)
  <2>1. pc'[c] = "empty" /\ work'[c] = w
    BY ZenonT(60), <1>2, <1>4, WhereItGoes
  <2>2. IsSeq(x) /\ IsPrefix(x, x)
    BY <1>2, <1>4, SpotIsSeq, OwnPrefix
  <2>3. Trimmed(fs, fs, x)
    BY <1>2, TreeIsItself DEF Trimmed
  <2>4. Len(w) = 1 /\ w[1] = Entry(x, FALSE)
    OBVIOUS
  <2>5. StackOK(fs, fs, x, w)
    <3>. HIDE DEF w, x
    <3>. QED  BY <2>2, <2>3, <2>4 DEF StackOK, Entry
  <2>. HIDE DEF w
  <2>. QED  BY <1>1, <1>2, <1>3, <1>4, <2>1, <2>5 DEF ExactOK
<1>5. CASE x = NoPath /\ Replies(c, IF err = "ENOENT" THEN "ok" ELSE classify(err), {})
  <2>1. /\ pc'[c] = "answered" /\ answer'[c] = (IF err = "ENOENT" THEN "ok" ELSE classify(err))
        /\ out'[c] = {}
    BY <1>2, <1>5, WhereItGoes
  <2>2. err = "ENOTDIR" /\ classify(err) = "IO_ERROR"
    BY <1>2, <1>3, <1>5, RemoveErrIs, BlockedIs DEF classify
  <2>3. Asks(request[c], "rm", TRUE)
    BY <1>3 DEF Asks
  <2>4. Exactly(fs, request[c], p, "IO_ERROR", fs, {})
    BY <1>2, <1>5, <2>2, <2>3, RemoveAllIsExact
  <2>. QED  BY <1>1, <1>2, <2>1, <2>2, <2>4, AnswersExactly
<1>. QED  BY <1>4, <1>5 DEF OpenParent

\* What the walk of rm -r has come to, at the entry it is at.
LEMMA StackKnows ==
  ASSUME ExactInv, NEW c \in Calls, Handling(c), alone[c] # NoTree, pc[c] = "empty"
  PROVE  LET top == Spot(alone[c], path[c])
             w   == work[c]
         IN  /\ StackOK(alone[c], fs, top, w) /\ IsSeq(w) /\ w # << >> /\ top # NoPath /\ IsSeq(top)
             /\ Head(w) = w[1] /\ IsPrefix(top, w[1].at) /\ (w[1].listed => Opened(fs, w, 1))
             /\ Len(w) = 1 => w[1].at = top
             /\ Asks(request[c], "rm", TRUE)
<1>. DEFINE top == Spot(alone[c], path[c])
            w   == work[c]
<1>1. StackOK(alone[c], fs, top, w) /\ IsSeq(w) /\ w # << >> /\ top # NoPath
  BY ExactKnows DEF ExactOK
<1>2. Asks(request[c], "rm", TRUE)
  BY ExactKnows DEF OpOK, Asks
<1>. HIDE DEF top, w
<1>3. Len(w) \in Nat \ {0} /\ Head(w) = w[1] /\ 1 \in 1..Len(w)
  <2>1. Len(w) \in Nat \ {0} /\ Head(w) = w[1]
    BY <1>1, HeadOrTail
  <2>. QED  BY <2>1
<1>4. /\ IsSeq(top) /\ IsPrefix(top, w[1].at) /\ (w[1].listed => Opened(fs, w, 1))
      /\ Len(w) = 1 => w[1].at = top
  BY <1>1, <1>3 DEF StackOK
<1>. QED  BY <1>1, <1>2, <1>3, <1>4 DEF top, w

\* Done with an entry that is gone, or with "/" once it is empty.
LEMMA PoppedExact ==
  ASSUME ExactInv, NEW c \in Calls, Handling(c), alone[c] # NoTree, pc[c] = "empty",
         NEW x, x = work[c][1].at, WellFormedFS(fs'),
         UNCHANGED fs \/ (x \in DOMAIN fs /\ fs' = Without(fs, {x})),
         NEW err, Popped(c, err),
         \/ x \notin DOMAIN fs' /\ err = "none"
         \/ x = << >> /\ err = "EBUSY" /\ Children(fs', x) = {}
  PROVE  ExactOK(c)'
<1>. DEFINE f   == alone[c]
            top == Spot(f, path[c])
            w   == work[c]
<1>1. /\ WellFormedFS(f) /\ NoPath \notin DOMAIN f
      /\ DOMAIN pc = Calls /\ DOMAIN work = Calls /\ DOMAIN answer = Calls /\ DOMAIN out = Calls
      /\ UNCHANGED <<path, request, alone[c]>>
  BY ExactKnows
<1>2. /\ StackOK(f, fs, top, w) /\ IsSeq(w) /\ w # << >> /\ top # NoPath /\ IsSeq(top)
      /\ IsPrefix(top, w[1].at)
      /\ Len(w) = 1 => w[1].at = top
      /\ Asks(request[c], "rm", TRUE)
  BY StackKnows
<1>3. CASE Len(w) # 1
  <2>1. pc'[c] = "empty" /\ work'[c] = Tail(w)
    <3>1. Goes(c, "empty", Tail(work[c]))
      BY <1>3 DEF Popped
    <3>2. c \in DOMAIN pc /\ c \in DOMAIN work /\ c \in DOMAIN answer /\ c \in DOMAIN out
      BY <1>1
    <3>. QED  BY ZenonT(60), <3>1, <3>2, WhereItGoes
  <2>2. StackOK(f, fs', top, Tail(w))
    <3>. HIDE DEF f, top, w
    <3>. QED  BY <1>2, <1>3, StackPops DEF w
  <2>. QED  BY <1>1, <1>2, <2>1, <2>2 DEF ExactOK
<1>4. CASE Len(w) = 1
  <2>1. pc'[c] = "answered" /\ answer'[c] = classify(err) /\ out'[c] = {}
    BY <1>1, <1>4, WhereItGoes DEF Popped
  <2>2. x = top /\ Trimmed(f, fs, top)
    BY <1>2, <1>4 DEF StackOK
  <2>3. Trimmed(f, fs', top)
    BY <1>2, <2>2, TrimmedMore
  <2>4. /\ top # << >> => Exactly(f, request[c], path[c], "ok", Without(f, Below(f, top)), {})
        /\ top = << >> =>
             Exactly(f, request[c], path[c], "IO_ERROR", Without(f, Below(f, << >>) \ {<< >>}), {})
    BY <1>1, <1>2, RemoveAllIsExact
  <2>5. << >> \in DOMAIN fs'
    BY DEF WellFormedFS
  <2>6. Exactly(f, request[c], path[c], classify(err), fs', {})
    <3>. HIDE DEF f, top, w
    <3>1. CASE x \notin DOMAIN fs' /\ err = "none"
      <4>1. fs' = Without(f, Below(f, top)) /\ top # << >>
        BY <1>2, <2>2, <2>3, <2>5, <3>1, TrimmedAway
      <4>. QED  BY <2>4, <3>1, <4>1 DEF classify
    <3>2. CASE x = << >> /\ err = "EBUSY" /\ Children(fs', x) = {}
      <4>1. fs' = Without(f, Below(f, << >>) \ {<< >>})
        BY <1>1, <2>2, <2>3, <3>2, TrimmedTop DEF f
      <4>. QED  BY <2>2, <2>4, <3>2, <4>1 DEF classify
    <3>. QED  BY <3>1, <3>2
  <2>. QED  BY <1>1, <2>1, <2>6, AnswersExactly
<1>. QED  BY <1>3, <1>4

LEMMA UnlinkExact ==
  ASSUME ExactInv, NEW c \in Calls, Unlink(c), alone[c] # NoTree
  PROVE  ExactOK(c)'
<1>. DEFINE f     == alone[c]
            top   == Spot(f, path[c])
            w     == work[c]
            x     == w[1].at
            stack == SetToSeq({Entry(y, FALSE) : y \in Children(fs, x)}) \o <<Entry(x, TRUE)>> \o Tail(w)
<1>1. Handling(c) /\ pc[c] = "empty"
  BY DEF Handling, Unlink
<1>2. /\ WellFormedFS(fs) /\ NoPath \notin DOMAIN fs
      /\ DOMAIN pc = Calls /\ DOMAIN work = Calls /\ DOMAIN answer = Calls /\ DOMAIN out = Calls
      /\ UNCHANGED <<path, request, alone[c]>> /\ WellFormedFS(f) /\ NoPath \notin DOMAIN f
  BY <1>1, ExactKnows
<1>3. /\ StackOK(f, fs, top, w) /\ IsSeq(w) /\ w # << >> /\ top # NoPath
      /\ Head(w) = w[1] /\ Asks(request[c], "rm", TRUE)
  BY <1>1, StackKnows
<1>4. WellFormedFS(fs')
  BY <1>1, HandlingKeepsTree DEF ExactInv, InsideInv, PathInv
<1>5. \/ x \notin DOMAIN fs /\ Popped(c, "none") /\ UNCHANGED fs
      \/ x \in DOMAIN fs /\ Popped(c, "none") /\ fs' = Without(fs, {x})
      \/ x \in DOMAIN fs /\ fs[x].kind = "dir" /\ UNCHANGED fs /\ Goes(c, "empty", stack)
  BY <1>3 DEF Unlink, Untouched, Writes
<1>6. CASE x \in DOMAIN fs /\ fs[x].kind = "dir" /\ UNCHANGED fs /\ Goes(c, "empty", stack)
  <2>1. StackOK(f, fs, top, stack)
    <3>1. ASSUME NEW d, d = w[1].at, d \in DOMAIN fs, fs[d].kind = "dir"
          PROVE  StackOK(f, fs, top, SetToSeq({Entry(y, FALSE) : y \in Children(fs, d)})
                                       \o <<Entry(d, TRUE)>> \o Tail(w))
      <4>. HIDE DEF f, top, w
      <4>. QED  BY <1>2, <1>3, <3>1, StackLists
    <3>. QED  BY <1>6, <3>1
  <2>. HIDE DEF stack
  <2>2. pc'[c] = "empty" /\ work'[c] = stack
    BY <1>2, <1>6, WhereItGoes
  <2>. QED  BY <1>2, <1>3, <1>6, <2>1, <2>2 DEF ExactOK
<1>7. CASE x \notin DOMAIN fs /\ Popped(c, "none") /\ UNCHANGED fs
  BY <1>1, <1>4, <1>7, PoppedExact
<1>8. CASE x \in DOMAIN fs /\ Popped(c, "none") /\ fs' = Without(fs, {x})
  <2>1. x \notin DOMAIN fs'
    BY <1>8 DEF Without, Restrict
  <2>. QED  BY <1>1, <1>4, <1>8, <2>1, PoppedExact
<1>. QED  BY <1>5, <1>6, <1>7, <1>8

LEMMA RmdirExact ==
  ASSUME ExactInv, NEW c \in Calls, Rmdir(c), alone[c] # NoTree
  PROVE  ExactOK(c)'
<1>. DEFINE x == work[c][1].at
<1>1. Handling(c) /\ pc[c] = "empty"
  BY DEF Handling, Rmdir
<1>2. Head(work[c]) = work[c][1] /\ Opened(fs, work[c], 1)
  BY <1>1, StackKnows DEF Rmdir
<1>3. WellFormedFS(fs')
  BY <1>1, HandlingKeepsTree DEF ExactInv, InsideInv, PathInv
<1>4. 1..(1 - 1) = {}
  OBVIOUS
<1>5. (x \in DOMAIN fs => fs[x].kind = "dir") /\ Children(fs, x) = {}
  BY <1>2, <1>4 DEF Opened
<1>6. \/ x \notin DOMAIN fs /\ Popped(c, "none") /\ UNCHANGED fs
      \/ x = << >> /\ Popped(c, "EBUSY") /\ UNCHANGED fs
      \/ x \in DOMAIN fs /\ Popped(c, "none") /\ fs' = Without(fs, {x})
  BY <1>2, <1>5 DEF Rmdir, Untouched, Writes
<1>7. CASE x \notin DOMAIN fs /\ Popped(c, "none") /\ UNCHANGED fs
  BY <1>1, <1>3, <1>7, PoppedExact
<1>8. CASE x = << >> /\ Popped(c, "EBUSY") /\ UNCHANGED fs
  BY <1>1, <1>3, <1>5, <1>8, PoppedExact
<1>9. CASE x \in DOMAIN fs /\ Popped(c, "none") /\ fs' = Without(fs, {x})
  <2>1. x \notin DOMAIN fs'
    BY <1>9 DEF Without, Restrict
  <2>. QED  BY <1>1, <1>3, <1>9, <2>1, PoppedExact
<1>. QED  BY <1>6, <1>7, <1>8, <1>9

-----------------------------------------------------------------------------
(* ls.                                                                     *)

LEMMA LsIsExact ==
  ASSUME NEW f, NEW q, Asks(q, "ls", FALSE), NEW p
  PROVE  LET x == EvalSymlinks(f, p)
         IN  /\ x = NoPath => Exactly(f, q, p, classify(WayErr(f, p)), f, {})
             /\ x # NoPath /\ f[x].kind # "dir" => Exactly(f, q, p, "IO_ERROR", f, {})
             /\ x # NoPath /\ f[x].kind = "dir" => Exactly(f, q, p, "ok", f, Lines(f, x))
<1>. DEFINE x == EvalSymlinks(f, p)
<1>1. Expected(f, q, p) =
        IF x = NoPath THEN Outcome(Blocked(f, p), f, {})
        ELSE IF f[x].kind # "dir" THEN Outcome("IO_ERROR", f, {})
        ELSE Outcome("ok", f, {<<Last(y), f[y].kind>> : y \in Children(f, x)})
  BY DEF Asks, Expected, Blocked
<1>2. Lines(f, x) = {<<Last(y), f[y].kind>> : y \in Children(f, x)}
  BY DEF Lines, Line
<1>. HIDE DEF x
<1>3. CASE x = NoPath
  BY <1>1, <1>3, BlockedIs DEF Exactly, x
<1>4. CASE x # NoPath /\ f[x].kind # "dir"
  BY <1>1, <1>4 DEF Exactly, x
<1>5. CASE x # NoPath /\ f[x].kind = "dir"
  BY <1>1, <1>2, <1>5 DEF Exactly, x
<1>. QED  BY <1>3, <1>4, <1>5 DEF x

\* The names are there, all of them, and no line is yet.
LEMMA ListingBegins ==
  ASSUME NEW f, WellFormedFS(f), NEW x
  PROVE  ListingExact(f, x, SetToSeq({Last(y) : y \in Children(f, x)}), {})
<1>. DEFINE names == {Last(y) : y \in Children(f, x)}
            s     == SetToSeq(names)
<1>1. IsFiniteSet(names)
  <2>1. IsFiniteSet(Children(f, x))
    BY FS_Subset DEF Children, WellFormedFS
  <2>. DEFINE h == [y \in Children(f, x) |-> Last(y)]
  <2>2. h \in Surjection(Children(f, x), names)
    BY DEF Surjection
  <2>. QED  BY <2>1, <2>2, FS_Surjection
<1>2. \A y \in Children(f, x) : Last(y) \in names
  OBVIOUS
<1>3. \A name \in names : \E y \in Children(f, x) : name = Last(y)
  OBVIOUS
<1>. HIDE DEF names
<1>4. /\ IsSeq(s) /\ s \in Seq(names)
      /\ \A e \in names : \E i \in 1..Len(s) : s[i] = e
  BY <1>1, SetToSeqOnto
<1>. HIDE DEF s
<1>5. \A name \in ToSet(s) : name \in names
  BY <1>4, ElementsOfSeq
<1>6. \A e \in names : e \in ToSet(s)
  <2>1. DOMAIN s = 1..Len(s)
    BY <1>4, LenProperties
  <2>. QED  BY <1>4, <2>1 DEF ToSet
<1>7. ListingExact(f, x, s, {})
  BY <1>2, <1>3, <1>4, <1>5, <1>6 DEF ListingExact
<1>. QED  BY <1>7 DEF s, names

\* One name less to look at, one line more.
LEMMA ListingGoesOn ==
  ASSUME NEW f, WellFormedFS(f), NEW x, NEW names, names # << >>, NEW lines,
         ListingExact(f, x, names, lines)
  PROVE  LET y == Append(x, Head(names))
         IN  /\ y \in Children(f, x) /\ Head(names) = Last(y)
             /\ ListingExact(f, x, Tail(names), lines \cup {<<Head(names), f[y].kind>>})
<1>. DEFINE name == Head(names)
            y    == Append(x, name)
<1>1. /\ IsSeq(names) /\ \A e \in ToSet(names) : \E z \in Children(f, x) : e = Last(z)
      /\ lines \subseteq Lines(f, x)
      /\ \A z \in Children(f, x) : Line(f, z) \in lines \/ Last(z) \in ToSet(names)
  BY DEF ListingExact
<1>2. Len(names) \in Nat \ {0} /\ name = names[1] /\ IsSeq(Tail(names))
  BY <1>1, HeadOrTail
<1>3. name \in ToSet(names)
  <2>1. DOMAIN names = 1..Len(names)
    BY <1>1, LenProperties DEF IsSeq
  <2>2. 1 \in DOMAIN names
    BY <1>2, <2>1
  <2>. QED  BY <1>2, <2>2 DEF ToSet
<1>. HIDE DEF name
<1>4. y \in Children(f, x) /\ name = Last(y)
  <2>1. PICK z \in Children(f, x) : name = Last(z)
    BY <1>1, <1>3
  <2>2. z = Append(x, Last(z))
    BY ChildIs
  <2>. QED  BY <2>1, <2>2
<1>5. <<name, f[y].kind>> = Line(f, y) /\ Line(f, y) \in Lines(f, x)
  BY <1>4 DEF Line, Lines
<1>6. ASSUME NEW z \in Children(f, x), Line(f, z) \notin lines, Last(z) \notin ToSet(Tail(names))
      PROVE  Line(f, z) = Line(f, y)
  <2>1. Last(z) = name
    BY <1>1, <1>6, InHeadOrTail DEF name
  <2>2. z = Append(x, Last(z))
    BY ChildIs
  <2>. QED  BY <2>1, <2>2
<1>7. \A e \in ToSet(Tail(names)) : e \in ToSet(names)
  BY <1>1, ElementsOfTail
<1>8. ListingExact(f, x, Tail(names), lines \cup {<<name, f[y].kind>>})
  <2>. HIDE DEF y
  <2>. QED  BY <1>1, <1>2, <1>5, <1>6, <1>7 DEF ListingExact
<1>. QED  BY <1>4, <1>8 DEF name

LEMMA ReadDirExact ==
  ASSUME ExactInv, NEW c \in Calls, ReadDir(c), alone[c] # NoTree
  PROVE  ExactOK(c)'
<1>. DEFINE p     == path[c]
            x     == EvalSymlinks(fs, p)
            names == SetToSeq({Last(y) : y \in Children(fs, x)})
<1>1. /\ Handling(c) /\ pc[c] = "accepted" /\ UNCHANGED fs
      /\ request[c].op = "ls" /\ request[c].rec = FALSE
  BY DEF Handling, ReadDir, Handles, Untouched
<1>2. /\ WellFormedFS(fs) /\ NoPath \notin DOMAIN fs /\ fs = alone[c] /\ out[c] = {}
      /\ DOMAIN pc = Calls /\ DOMAIN work = Calls /\ DOMAIN answer = Calls /\ DOMAIN out = Calls
      /\ UNCHANGED <<path, request, alone[c]>>
  BY <1>1, ExactKnows
<1>3. /\ x = NoPath => Exactly(fs, request[c], p, classify(WayErr(fs, p)), fs, {})
      /\ x # NoPath /\ fs[x].kind # "dir" => Exactly(fs, request[c], p, "IO_ERROR", fs, {})
  <2>1. Asks(request[c], "ls", FALSE)
    BY <1>1 DEF Asks
  <2>. QED  BY <2>1, LsIsExact
<1>4. CASE x = NoPath /\ Replies(c, classify(WayErr(fs, p)), {})
  <2>1. pc'[c] = "answered" /\ answer'[c] = classify(WayErr(fs, p)) /\ out'[c] = {}
    BY <1>2, <1>4, WhereItGoes
  <2>. QED  BY <1>1, <1>2, <1>3, <1>4, <2>1, AnswersExactly
<1>5. CASE x # NoPath /\ fs[x].kind # "dir" /\ Replies(c, classify("ENOTDIR"), {})
  <2>1. pc'[c] = "answered" /\ answer'[c] = "IO_ERROR" /\ out'[c] = {}
    BY <1>2, <1>5, WhereItGoes DEF classify
  <2>. QED  BY <1>1, <1>2, <1>3, <1>5, <2>1, AnswersExactly
<1>6. CASE x # NoPath /\ fs[x].kind = "dir" /\ Goes(c, "info", names)
  <2>1. ListingExact(fs, x, names, {}) /\ ExistingDir(fs, p) = x
    BY <1>2, <1>6, ListingBegins DEF ExistingDir
  <2>. HIDE DEF names
  <2>2. pc'[c] = "info" /\ work'[c] = names /\ out'[c] = {}
    BY <1>2, <1>6, WhereItGoes
  <2>. QED  BY <1>1, <1>2, <1>6, <2>1, <2>2 DEF ExactOK
<1>. QED  BY <1>4, <1>5, <1>6 DEF ReadDir

LEMMA InfoExact ==
  ASSUME ExactInv, NEW c \in Calls, Info(c), alone[c] # NoTree
  PROVE  ExactOK(c)'
<1>. DEFINE x    == ExistingDir(fs, path[c])
            name == Head(work[c])
            y    == Append(x, name)
<1>1. Handling(c) /\ pc[c] = "info" /\ work[c] # << >> /\ UNCHANGED <<fs, pc>>
  BY DEF Handling, Info, Untouched
<1>2. /\ WellFormedFS(fs) /\ NoPath \notin DOMAIN fs /\ fs = alone[c] /\ IsSeq(path[c])
      /\ DOMAIN pc = Calls /\ DOMAIN work = Calls /\ DOMAIN answer = Calls /\ DOMAIN out = Calls
      /\ UNCHANGED <<path, request, alone[c]>>
  BY <1>1, ExactKnows DEF Pathed
<1>3. x # NoPath /\ ListingExact(fs, x, work[c], out[c])
  BY <1>1, ExactKnows DEF ExactOK
<1>4. y \in DOMAIN fs /\ ListingExact(fs, x, Tail(work[c]), out[c] \cup {<<name, fs[y].kind>>})
  <2>. HIDE DEF x
  <2>. QED  BY <1>1, <1>2, <1>3, ListingGoesOn DEF Children
<1>5. Type(fs, Append(path[c], name)) = fs[y].kind
  <2>1. Spot(fs, Append(path[c], name)) = y
    <3>. HIDE DEF name
    <3>. QED  BY <1>2, <1>3, SpotOfEntry
  <2>. QED  BY <1>4, <2>1 DEF Type
<1>6. work'[c] = Tail(work[c]) /\ out'[c] = out[c] \cup {<<name, fs[y].kind>>}
  BY <1>2, <1>5 DEF Info
<1>7. ListingExact(fs, x, work'[c], out'[c])
  BY <1>4, <1>6
<1>. HIDE DEF y, name
<1>. QED  BY <1>1, <1>2, <1>3, <1>7 DEF ExactOK

LEMMA ListedExact ==
  ASSUME ExactInv, NEW c \in Calls, Listed(c), alone[c] # NoTree
  PROVE  ExactOK(c)'
<1>. DEFINE x == ExistingDir(fs, path[c])
<1>1. Handling(c) /\ pc[c] = "info" /\ work[c] = << >> /\ UNCHANGED fs /\ Replies(c, "ok", out[c])
  BY DEF Handling, Listed, Untouched
<1>2. /\ fs = alone[c]
      /\ DOMAIN pc = Calls /\ DOMAIN work = Calls /\ DOMAIN answer = Calls /\ DOMAIN out = Calls
  BY <1>1, ExactKnows
<1>3. x # NoPath /\ ListingExact(fs, x, work[c], out[c]) /\ Asks(request[c], "ls", FALSE)
  BY <1>1, ExactKnows DEF ExactOK, OpOK, Asks
<1>4. ToSet(work[c]) = {}
  BY <1>1 DEF ToSet
<1>5. out[c] = Lines(fs, x)
  BY <1>3, <1>4 DEF ListingExact, Lines
<1>6. Exactly(fs, request[c], path[c], "ok", fs, Lines(fs, x))
  <2>1. EvalSymlinks(fs, path[c]) = x /\ fs[x].kind = "dir"
    BY <1>3 DEF ExistingDir
  <2>. HIDE DEF x
  <2>. QED  BY <1>3, <2>1, LsIsExact
<1>7. pc'[c] = "answered" /\ answer'[c] = "ok" /\ out'[c] = out[c]
  BY <1>1, <1>2, WhereItGoes
<1>. QED  BY <1>1, <1>2, <1>5, <1>6, <1>7, AnswersExactly

-----------------------------------------------------------------------------
(* mkdir -p.                                                               *)

\* What mkdir -p answers, by what it has found at the end of its climb.
LEMMA MkdirAllIsExact ==
  ASSUME NEW f, NEW q, Asks(q, "mkdir", TRUE), NEW p, IsSeq(p), NEW n, NEW b, LeadsTo(f, p, n, b)
  PROVE  /\ f[b].kind # "dir" => Exactly(f, q, p, "IO_ERROR", f, {})
         /\ f[b].kind = "dir" /\ MadeSet(b, p, n, Len(p)) \cap DOMAIN f # {} =>
              Exactly(f, q, p, "PATH_ALREADY_EXISTS", f, {})
         /\ f[b].kind = "dir" /\ MadeSet(b, p, n, Len(p)) \cap DOMAIN f = {} =>
              Exactly(f, q, p, "ok", With(f, MadeSet(b, p, n, Len(p))), {})
  BY MkdirAllExpected DEF Exactly

LEMMA MkdirAllBegins ==
  ASSUME ExactInv, NEW c \in Calls, MkdirAll(c), alone[c] # NoTree
  PROVE  ExactOK(c)'
<1>1. /\ Handling(c) /\ pc[c] = "accepted" /\ UNCHANGED fs /\ Goes(c, "stat", path[c])
      /\ request[c].op = "mkdir" /\ request[c].rec = TRUE
  BY DEF Handling, MkdirAll, Handles, Untouched
<1>2. /\ fs = alone[c] /\ WellFormedFS(alone[c]) /\ NoPath \notin DOMAIN alone[c]
      /\ DOMAIN pc = Calls /\ DOMAIN work = Calls /\ DOMAIN answer = Calls /\ DOMAIN out = Calls
      /\ UNCHANGED <<path, request, alone[c]>>
  BY <1>1, ExactKnows
<1>3. pc'[c] = "stat"
  BY <1>1, <1>2, WhereItGoes
<1>. QED  BY <1>1, <1>2, <1>3 DEF ExactOK

LEMMA StatUpExact ==
  ASSUME ExactInv, NEW c \in Calls, StatUp(c), alone[c] # NoTree
  PROVE  ExactOK(c)'
<1>. DEFINE p == path[c]
            x == EvalSymlinks(fs, work[c])
<1>1. Handling(c) /\ pc[c] = "stat" /\ UNCHANGED fs
  BY DEF Handling, StatUp, Untouched
<1>2. /\ WellFormedFS(fs) /\ NoPath \notin DOMAIN fs /\ fs = alone[c] /\ out[c] = {} /\ IsSeq(p)
      /\ DOMAIN pc = Calls /\ DOMAIN work = Calls /\ DOMAIN answer = Calls /\ DOMAIN out = Calls
      /\ UNCHANGED <<path, request, alone[c]>> /\ Deepest(fs, p, work[c]) /\ OpOK(c)
  BY <1>1, ExactKnows DEF Pathed
<1>3. /\ request[c].op = "mkdir" /\ request[c].rec = TRUE /\ Asks(request[c], "mkdir", TRUE)
  BY <1>1, <1>2 DEF OpOK, Asks
<1>4. CASE x = NoPath /\ Goes(c, "stat", Parent(work[c]))
  <2>1. pc'[c] = "stat"
    BY <1>2, <1>4, WhereItGoes
  <2>. QED  BY <1>1, <1>2, <1>3, <2>1 DEF ExactOK
<1>5. ASSUME x # NoPath
      PROVE  \E n : LeadsTo(fs, p, n, x) /\ n \in 0..Len(p) /\ work[c] = SubSeq(p, 1, n)
  BY <1>2, <1>5 DEF Deepest, LeadsTo
<1>6. Len(p) \in Nat /\ SubSeq(p, 1, Len(p)) = p /\ \A n \in 0..Len(p) : Len(SubSeq(p, 1, n)) = n
  BY <1>2, WholePrefix, PrefixOf, LenProperties DEF IsSeq
<1>7. CASE x # NoPath /\ fs[x].kind # "dir" /\ Replies(c, classify("ENOTDIR"), {})
  <2>1. PICK n : LeadsTo(fs, p, n, x)
    BY <1>5, <1>7
  <2>2. Exactly(fs, request[c], p, "IO_ERROR", fs, {})
    BY <1>2, <1>3, <1>7, <2>1, MkdirAllIsExact
  <2>3. pc'[c] = "answered" /\ answer'[c] = "IO_ERROR" /\ out'[c] = {}
    BY <1>2, <1>7, WhereItGoes DEF classify
  <2>. QED  BY <1>1, <1>2, <2>2, <2>3, AnswersExactly
<1>8. CASE x # NoPath /\ fs[x].kind = "dir" /\ work[c] # p /\ Goes(c, "make", work[c])
  <2>1. PICK n : LeadsTo(fs, p, n, x) /\ n \in 0..Len(p) /\ work[c] = SubSeq(p, 1, n)
    BY <1>5, <1>8
  <2>2. n \in Nat /\ n <= n /\ n < Len(p)
    BY <1>6, <1>8, <2>1
  <2>3. DownTo(fs, fs, p, n, x, n)
    BY <1>2, <1>8, <2>1, DownBegins
  <2>4. pc'[c] = "make" /\ work'[c] = work[c]
    BY <1>2, <1>8, WhereItGoes
  <2>5. MakingExact(c)'
    <3>. HIDE DEF x
    <3>. QED  BY <1>1, <1>2, <1>8, <2>1, <2>2, <2>3, <2>4 DEF MakingExact
  <2>. QED  BY <1>1, <1>2, <1>3, <2>4, <2>5 DEF ExactOK
<1>9. CASE x # NoPath /\ fs[x].kind = "dir" /\ work[c] = p /\ Replies(c, "ok", {})
  <2>1. PICK n : LeadsTo(fs, p, n, x) /\ n \in 0..Len(p) /\ work[c] = SubSeq(p, 1, n)
    BY <1>5, <1>9
  <2>2. n = Len(p)
    BY <1>6, <1>9, <2>1
  <2>3. MadeSet(x, p, n, Len(p)) = {}
    <3>1. (n + 1)..Len(p) = {}
      BY <1>6, <2>2
    <3>. QED  BY <3>1 DEF MadeSet
  <2>4. With(fs, {}) = fs
    BY <1>2, TreeIsItself DEF With
  <2>5. Exactly(fs, request[c], p, "ok", With(fs, MadeSet(x, p, n, Len(p))), {})
    BY ZenonT(60), <1>2, <1>3, <1>9, <2>1, <2>3, MkdirAllIsExact
  <2>6. pc'[c] = "answered" /\ answer'[c] = "ok" /\ out'[c] = {}
    BY <1>2, <1>9, WhereItGoes
  <2>. QED  BY <1>1, <1>2, <2>3, <2>4, <2>5, <2>6, AnswersExactly
<1>. QED  BY <1>4, <1>7, <1>8, <1>9 DEF StatUp

\* A call that is making its path, at what it is at.
AtName(c, n, b, k) ==
  /\ LeadsTo(alone[c], path[c], n, b) /\ alone[c][b].kind = "dir"
  /\ k \in Nat /\ n <= k /\ k < Len(path[c]) /\ work[c] = SubSeq(path[c], 1, k)

\* One more directory of the path is there.
LEMMA IsThereExact ==
  ASSUME ExactInv, NEW c \in Calls, Handling(c), alone[c] # NoTree, pc[c] \in {"make", "lstat"},
         IsThere(c), NEW n, NEW b, NEW k, AtName(c, n, b, k),
         DownTo(alone[c], fs', path[c], n, b, k + 1)
  PROVE  ExactOK(c)'
<1>. DEFINE f == alone[c]
            p == path[c]
<1>1. /\ WellFormedFS(f) /\ NoPath \notin DOMAIN f /\ out[c] = {} /\ IsSeq(p) /\ OpOK(c)
      /\ DOMAIN pc = Calls /\ DOMAIN work = Calls /\ DOMAIN answer = Calls /\ DOMAIN out = Calls
      /\ UNCHANGED <<path, request, alone[c]>>
  BY ExactKnows DEF Pathed
<1>2. Asks(request[c], "mkdir", TRUE)
  BY <1>1 DEF OpOK, Asks
<1>3. /\ LeadsTo(f, p, n, b) /\ f[b].kind = "dir" /\ k \in Nat /\ n <= k /\ k < Len(p) /\ n \in Nat
      /\ Len(p) \in Nat
  BY <1>1, LenProperties DEF AtName, LeadsTo, IsSeq
<1>4. k + 1 \in 0..Len(p) /\ k + 1 \in Nat /\ n <= k + 1 /\ k \in 0..Len(p)
  BY <1>3
<1>5. Len(work[c]) = k /\ Len(SubSeq(p, 1, k + 1)) = k + 1 /\ SubSeq(p, 1, Len(p)) = p
  BY <1>1, <1>4, PrefixOf, WholePrefix DEF AtName, IsSeq
<1>6. NextDown(c) = SubSeq(p, 1, k + 1)
  BY <1>5 DEF NextDown
<1>7. CASE NextDown(c) = p
  <2>1. k + 1 = Len(p)
    BY <1>5, <1>6, <1>7
  <2>2. MadeSet(b, p, n, Len(p)) \cap DOMAIN f = {} /\ fs' = With(f, MadeSet(b, p, n, Len(p)))
    BY <2>1 DEF DownTo
  <2>3. Exactly(f, request[c], p, "ok", fs', {})
    <3>. HIDE DEF f, p
    <3>. QED  BY <1>1, <1>2, <1>3, <2>2, MkdirAllIsExact
  <2>4. pc'[c] = "answered" /\ answer'[c] = "ok" /\ out'[c] = {}
    BY <1>1, <1>7, WhereItGoes DEF IsThere
  <2>. QED  BY <1>1, <2>3, <2>4, AnswersExactly
<1>8. CASE NextDown(c) # p
  <2>1. k + 1 < Len(p)
    BY <1>3, <1>5, <1>6, <1>8
  <2>2. pc'[c] = "make" /\ work'[c] = SubSeq(p, 1, k + 1)
    BY ZenonT(60), <1>1, <1>6, <1>8, WhereItGoes DEF IsThere
  <2>3. MakingExact(c)'
    <3>. DEFINE j == k + 1
    <3>1. /\ LeadsTo(f, p, n, b) /\ f[b].kind = "dir" /\ j \in Nat /\ n <= j /\ j < Len(p)
          /\ work'[c] = SubSeq(p, 1, j) /\ DownTo(f, fs', p, n, b, j)
      BY <1>3, <1>4, <2>1, <2>2
    <3>. HIDE DEF j
    <3>. QED  BY <1>1, <2>2, <3>1 DEF MakingExact
  <2>. QED  BY <1>1, <1>2, <2>2, <2>3 DEF ExactOK
<1>. QED  BY <1>7, <1>8

\* What the call knows of the name it is to make.
LEMMA MakingKnows ==
  ASSUME ExactInv, NEW c \in Calls, Handling(c), alone[c] # NoTree, pc[c] \in {"make", "lstat"}
  PROVE  \E n, b, k : LET x == Made(b, path[c], n, k + 1)
                      IN  /\ AtName(c, n, b, k) /\ DownTo(alone[c], fs, path[c], n, b, k)
                          /\ Spot(fs, NextDown(c)) = x /\ x # NoPath
                          /\ pc[c] = "lstat" => x \in DOMAIN fs /\ answer[c] = "PATH_ALREADY_EXISTS"
<1>. DEFINE f == alone[c]
            p == path[c]
<1>1. WellFormedFS(fs) /\ WellFormedFS(f) /\ IsSeq(p) /\ MakingExact(c)
  BY ExactKnows DEF Pathed, ExactOK
<1>2. PICK n, b : \E k \in Nat :
        /\ AtName(c, n, b, k) /\ DownTo(f, fs, p, n, b, k)
        /\ pc[c] = "lstat" => Made(b, p, n, k + 1) \in DOMAIN fs /\ answer[c] = "PATH_ALREADY_EXISTS"
  BY <1>1 DEF MakingExact, AtName
<1>3. PICK k \in Nat :
        /\ AtName(c, n, b, k) /\ DownTo(f, fs, p, n, b, k)
        /\ pc[c] = "lstat" => Made(b, p, n, k + 1) \in DOMAIN fs /\ answer[c] = "PATH_ALREADY_EXISTS"
  BY <1>2
<1>4. LeadsTo(f, p, n, b) /\ n <= k /\ k < Len(p) /\ work[c] = SubSeq(p, 1, k)
  BY <1>3 DEF AtName
<1>5. Len(SubSeq(p, 1, k)) = k /\ Made(b, p, n, k + 1) # NoPath
      /\ Spot(fs, SubSeq(p, 1, k + 1)) = Made(b, p, n, k + 1)
  <2>. HIDE DEF f, p
  <2>. QED  BY <1>1, <1>3, <1>4, DownNext
<1>6. Spot(fs, NextDown(c)) = Made(b, p, n, k + 1)
  BY <1>4, <1>5 DEF NextDown
<1>. QED  BY <1>3, <1>5, <1>6

LEMMA MakeDownExact ==
  ASSUME ExactInv, NEW c \in Calls, MakeDown(c), alone[c] # NoTree
  PROVE  ExactOK(c)'
<1>. DEFINE f == alone[c]
            p == path[c]
            y == Spot(fs, NextDown(c))
<1>1. Handling(c) /\ pc[c] = "make"
  BY DEF Handling, MakeDown
<1>2. /\ WellFormedFS(f) /\ NoPath \notin DOMAIN f /\ IsSeq(p)
      /\ WellFormedFS(fs) /\ NoPath \notin DOMAIN fs
      /\ DOMAIN pc = Calls /\ DOMAIN work = Calls /\ DOMAIN answer = Calls /\ DOMAIN out = Calls
      /\ UNCHANGED <<path, request, alone[c]>>
  BY <1>1, ExactKnows DEF Pathed
<1>3. PICK n, b, k : /\ AtName(c, n, b, k) /\ DownTo(f, fs, p, n, b, k)
                     /\ y = Made(b, p, n, k + 1) /\ y # NoPath
  BY <1>1, MakingKnows
<1>4. WellFormedFS(fs')
  BY <1>1, HandlingKeepsTree DEF ExactInv, InsideInv, PathInv
<1>5. LeadsTo(f, p, n, b) /\ k \in Nat /\ n <= k /\ k < Len(p)
  BY <1>3 DEF AtName
<1>6. MkdirErr(fs, NextDown(c)) = IF y \in DOMAIN fs THEN "EEXIST" ELSE "none"
  BY <1>3 DEF MkdirErr
<1>7. CASE y \notin DOMAIN fs
  <2>1. fs' = WithDir(fs, y) /\ IsThere(c)
    BY <1>6, <1>7 DEF MakeDown, Writes
  <2>2. NoPath \notin DOMAIN fs'
    BY <1>2, <1>3, <2>1 DEF WithDir
  <2>3. DownTo(f, fs', p, n, b, k + 1)
    <3>. HIDE DEF f, p, y
    <3>. QED  BY <1>2, <1>3, <1>4, <1>5, <1>7, <2>1, <2>2, DownMakes
  <2>. QED  BY <1>1, <1>3, <2>1, <2>3, IsThereExact
<1>8. CASE y \in DOMAIN fs
  <2>1. pc'[c] = "lstat" /\ answer'[c] = "PATH_ALREADY_EXISTS" /\ UNCHANGED <<work, fs>>
    BY <1>2, <1>6, <1>8 DEF MakeDown, Untouched, classify
  <2>2. MakingExact(c)'
    <3>. HIDE DEF y
    <3>. QED  BY <1>2, <1>3, <1>5, <1>8, <2>1 DEF MakingExact, AtName
  <2>. QED  BY <1>1, <1>2, <2>1, <2>2 DEF ExactOK
<1>. QED  BY <1>7, <1>8

LEMMA LstatDownExact ==
  ASSUME ExactInv, NEW c \in Calls, LstatDown(c), alone[c] # NoTree
  PROVE  ExactOK(c)'
<1>. DEFINE f == alone[c]
            p == path[c]
            y == Spot(fs, NextDown(c))
<1>1. Handling(c) /\ pc[c] = "lstat" /\ UNCHANGED fs
  BY DEF Handling, LstatDown, Untouched
<1>2. /\ WellFormedFS(f) /\ NoPath \notin DOMAIN f /\ IsSeq(p) /\ OpOK(c)
      /\ WellFormedFS(fs) /\ NoPath \notin DOMAIN fs
      /\ DOMAIN pc = Calls /\ DOMAIN work = Calls /\ DOMAIN answer = Calls /\ DOMAIN out = Calls
  BY <1>1, ExactKnows DEF Pathed
<1>3. Asks(request[c], "mkdir", TRUE)
  BY <1>1, <1>2 DEF OpOK, Asks
<1>4. PICK n, b, k : /\ AtName(c, n, b, k) /\ DownTo(f, fs, p, n, b, k)
                     /\ y = Made(b, p, n, k + 1) /\ y \in DOMAIN fs
                     /\ answer[c] = "PATH_ALREADY_EXISTS"
  BY <1>1, MakingKnows
<1>5. LeadsTo(f, p, n, b) /\ f[b].kind = "dir" /\ k \in Nat /\ n <= k /\ k < Len(p)
  BY <1>4 DEF AtName
<1>6. fs = f /\ fs[y].kind # "dir" /\ MadeSet(b, p, n, Len(p)) \cap DOMAIN f # {}
  <2>. HIDE DEF f, p, y
  <2>. QED  BY <1>2, <1>4, <1>5, DownMeets
<1>7. Replies(c, "PATH_ALREADY_EXISTS", {})
  BY <1>4, <1>6 DEF LstatDown
<1>8. pc'[c] = "answered" /\ answer'[c] = "PATH_ALREADY_EXISTS" /\ out'[c] = {}
  BY <1>2, <1>7, WhereItGoes
<1>9. Exactly(f, request[c], p, "PATH_ALREADY_EXISTS", f, {})
  <2>. HIDE DEF f, p, y
  <2>. QED  BY <1>2, <1>3, <1>5, <1>6, MkdirAllIsExact
<1>. QED  BY <1>1, <1>6, <1>8, <1>9, AnswersExactly

-----------------------------------------------------------------------------
(* Every step.                                                             *)

\* A handler's steps stay those of its tool.
LEMMA HandlingKeepsOp ==
  ASSUME ExactInv, NEW c \in Calls, Handling(c)
  PROVE  OpOK(c)'
<1>1. OpOK(c) /\ DOMAIN pc = Calls /\ UNCHANGED request
  BY HandlerSteps DEF ExactInv, InsideInv, PathInv, TreeInv, RootsInv, Shapes
<1>. USE DEF OpOK, Handles, Goes, Replies
<1>2. CASE ListAllowedDirs(c) \/ Mkdir(c) \/ MkdirAll(c) \/ StatUp(c)
  BY <1>1, <1>2 DEF ListAllowedDirs, Mkdir, MkdirAll, StatUp
<1>3. CASE MakeDown(c) \/ LstatDown(c)
  BY <1>1, <1>3 DEF MakeDown, LstatDown, IsThere
<1>4. CASE ReadDir(c) \/ Info(c) \/ Listed(c)
  BY <1>1, <1>4 DEF ReadDir, Info, Listed
<1>5. CASE GuardRoots(c) \/ RemoveOne(c) \/ RemoveAll(c) \/ OpenParent(c)
  BY <1>1, <1>5 DEF GuardRoots, RemoveOne, RemoveAll, OpenParent
<1>6. CASE Unlink(c) \/ Rmdir(c)
  BY <1>1, <1>6 DEF Unlink, Rmdir, Popped
<1>. QED  BY <1>2, <1>3, <1>4, <1>5, <1>6 DEF Handling

LEMMA HandlingExact ==
  ASSUME ExactInv, NEW c \in Calls, Handling(c)
  PROVE  ExactOK(c)'
<1>. SUFFICES ASSUME alone'[c] # NoTree PROVE ExactOK(c)'
  BY DEF ExactOK
<1>1. alone[c] # NoTree
  BY AloneFacts DEF ExactInv, InsideInv
<1>2. CASE ListAllowedDirs(c)
  <2>1. pc'[c] = "answered" /\ request[c].op = "list_allowed_dirs"
    BY <1>2, HandlingFacts DEF ExactInv, InsideInv, PathInv, TreeInv, ListAllowedDirs, Handles
  <2>. QED  BY <1>1, <2>1, AnswersExactly
<1>. QED
  BY <1>1, <1>2, MkdirExact, MkdirAllBegins, StatUpExact, MakeDownExact, LstatDownExact,
     ReadDirExact, InfoExact, ListedExact, GuardRootsExact, RemoveOneExact, RemoveAllExact,
     OpenParentExact, UnlinkExact, RmdirExact DEF Handling

LEMMA ExactInvInit == SessionInit => ExactInv
  BY InsideInvInit, ListInvInit DEF SessionInit, Init, ExactInv, OpOK, ExactOK

LEMMA ExactInvStep == ExactInv /\ [SessionNext]_sessionVars => ExactInv'
<1>. SUFFICES ASSUME ExactInv, [SessionNext]_sessionVars PROVE ExactInv'
  OBVIOUS
<1>0. /\ InsideInv' /\ ListInv' /\ PathInv /\ TreeInv /\ RootsInv
      /\ DOMAIN pc = Calls /\ DOMAIN path = Calls /\ DOMAIN request = Calls
      /\ DOMAIN work = Calls /\ DOMAIN answer = Calls /\ DOMAIN out = Calls
      /\ DOMAIN alone = Calls /\ WellFormedFS(fs) /\ NoPath \notin DOMAIN fs
  BY InsideInvStep, ListInvStep
     DEF ExactInv, InsideInv, PathInv, TreeInv, RootsInv, Shapes, AllPaths
<1>1. \A c \in Calls : OpOK(c) /\ ExactOK(c)
  BY DEF ExactInv
\* The steps of a handler, and what they have to know.
<1>. DEFINE Steps == {"stat", "make", "lstat", "info", "rm", "open", "empty", "answered"}
<1>2. ASSUME NEW c \in Calls, pc'[c] \notin Steps,
             UNCHANGED <<alone[c], fs>>, pc[c] \notin Steps
      PROVE  OpOK(c)' /\ ExactOK(c)'
  BY <1>1, <1>2 DEF OpOK, ExactOK
<1>3. ASSUME NEW c \in Calls, Handling(c) PROVE ExactInv'
  <2>1. /\ UNCHANGED <<path, request>>
        /\ \A o \in Calls \ {c} : UNCHANGED <<pc[o], work[o], answer[o], out[o]>>
    BY <1>0, <1>3, HandlerSteps, HandlingFacts DEF locals
  <2>2. \A o \in Calls \ {c} : alone'[o] # NoTree => UNCHANGED <<alone[o], fs>>
    BY <1>0, <1>3, AloneFacts
  <2>3. \A o \in Calls \ {c} : OpOK(o)' /\ ExactOK(o)'
    BY <1>1, <2>1, <2>2, ExactStays
  <2>4. OpOK(c)' /\ ExactOK(c)'
    BY <1>3, HandlingKeepsOp, HandlingExact
  <2>. QED  BY <1>0, <2>3, <2>4 DEF ExactInv
<1>4. ASSUME NEW c \in Calls, SandboxStep(c) \/ Edits(c) PROVE ExactInv'
  <2>1. UNCHANGED <<fs, request, work, answer, out, alone>>
    BY <1>0, <1>4, LookingFacts, EditingFacts
       DEF SandboxStep, PathStep, EditStep, Looking, Editing, Edits, BeginAdd, BeginRemove, Begin,
           world, session
  <2>2. /\ \A o \in Calls \ {c} : UNCHANGED <<pc[o], path[o]>>
        /\ pc[c] \notin Steps /\ pc'[c] \notin Steps
    BY ZenonT(60), <1>0, <1>4 DEF SandboxStep, Edits, BeginAdd, BeginRemove, Begin, PathStep, EditStep, Goto,
         ListRoots, EvalRoot, StatRoot, InstallRoots, Lexical, EvalParent, EvalFound, CheckReal,
         AddResolve, AddStat, AddRuntimeRoot, RemoveResolve, RemoveRuntimeRoot, world, locals
  <2>3. OpOK(c)' /\ ExactOK(c)'
    BY <1>2, <2>1, <2>2
  <2>4. \A o \in Calls \ {c} : OpOK(o)' /\ ExactOK(o)'
    BY <1>1, <2>1, <2>2, ExactStays
  <2>. QED  BY <1>0, <2>3, <2>4 DEF ExactInv
<1>5. ASSUME NEW c \in Calls, Start(c) \/ Finish(c) PROVE ExactInv'
  <2>1. /\ UNCHANGED fs /\ pc'[c] \in {"pull", "idle"} /\ alone'[c] \in {fs, NoTree}
        /\ \A o \in Calls \ {c} :
             UNCHANGED <<pc[o], path[o], request[o], work[o], answer[o], out[o], alone[o]>>
    BY <1>0, <1>5 DEF Start, Finish, Begin, Forget, Goto, world
  <2>2. \A o \in Calls \ {c} : OpOK(o)' /\ ExactOK(o)'
    BY <1>1, <2>1, ExactStays
  <2>3. OpOK(c)' /\ ExactOK(c)'
    BY <1>0, <2>1 DEF OpOK, ExactOK
  <2>. QED  BY <1>0, <2>2, <2>3 DEF ExactInv
<1>6. CASE OthersWrite
  <2>1. UNCHANGED <<pc, path, request, work, answer, out>> /\ \A c \in Calls : alone'[c] = NoTree
    BY <1>6 DEF OthersWrite, FilesystemChanges, Noticed, locals
  <2>2. \A c \in Calls : OpOK(c)' /\ ExactOK(c)'
    BY <1>1, <2>1, ExactStays
  <2>. QED  BY <1>0, <2>2 DEF ExactInv
<1>7. CASE (ClientChangesRoots /\ UNCHANGED session) \/ UNCHANGED sessionVars
  <2>1. UNCHANGED <<fs, pc, path, request, work, answer, out, alone>>
    BY <1>7 DEF ClientChangesRoots, sessionVars, vars, world, session, locals
  <2>2. \A c \in Calls : OpOK(c)' /\ ExactOK(c)'
    BY <1>1, <2>1, ExactStays
  <2>. QED  BY <1>0, <2>2 DEF ExactInv
<1>8. ASSUME NEW c \in Calls, Works(c) PROVE ExactInv'
  BY <1>3, <1>4, <1>8 DEF Works, Handling
<1>. QED
  BY <1>4, <1>5, <1>6, <1>7, <1>8 DEF SessionNext

\* On a tree that nobody else changes, every call answers what its tool's page
\* says and leaves the tree as the page says, whatever the tree, the path and
\* the number of steps it takes (tools.go:454, :498, :554).
THEOREM UndisturbedAlwaysExact == SessionSpec => []UndisturbedIsExact
<1>1. ExactInv => UndisturbedIsExact
  BY DEF ExactInv, ExactOK, AnswerExact, Exactly, UndisturbedIsExact
<1>2. SessionSpec => []ExactInv
  BY ExactInvInit, ExactInvStep, PTL DEF SessionSpec
<1>. QED  BY <1>1, <1>2, PTL

=============================================================================
