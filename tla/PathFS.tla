------------------------------- MODULE PathFS -------------------------------
(***************************************************************************)
(* Paths and the part of a filesystem that internal/sandbox looks at.      *)
(*                                                                         *)
(* A path is an absolute, cleaned path: the sequence of its names, << >>   *)
(* being "/".  A filesystem is a function from the paths that exist to     *)
(* nodes; a symbolic link holds the absolute path it denotes.  Nothing     *)
(* else about a file matters to the sandbox.                               *)
(***************************************************************************)
EXTENDS Naturals, FiniteSets, Sequences, SequencesExt

CONSTANTS
  DotDotNames,  \* names that merely begin with "..", such as "..data"
  MaxLinks,     \* links one EvalSymlinks call follows before it gives up
  NoPath        \* EvalSymlinks failed

ASSUME PathFSAssumption == MaxLinks \in Nat

Dir        == [kind |-> "dir",  to |-> << >>]
File       == [kind |-> "file", to |-> << >>]
Link(path) == [kind |-> "link", to |-> path]

(***************************************************************************)
(* What the operator or a caller types: an absolute path, or one relative  *)
(* to a directory.  Names are joined and "." and ".." are removed from the *)
(* text alone (filepath.Clean), before any link is looked at.              *)
(***************************************************************************)
IsPathArg(raw) == raw.names \in Seq(ToSet(raw.names))

CleanStep(done, name) ==
  CASE name = "."  -> done
    [] name = ".." -> IF done = << >> THEN << >> ELSE Front(done)
    [] OTHER       -> Append(done, name)

Clean(names) ==
  LET cleaned[n \in 0..Len(names)] ==
        IF n = 0 THEN << >> ELSE CleanStep(cleaned[n - 1], names[n])
  IN  cleaned[Len(names)]

Joined(base, raw) ==
  IF raw.abs THEN Clean(raw.names) ELSE Clean(base \o raw.names)

Parent(path) == IF path = << >> THEN path ELSE Front(path)

-----------------------------------------------------------------------------

LinkPositions(fs, path) ==
  {i \in 1..Len(path) : /\ SubSeq(path, 1, i) \in DOMAIN fs
                        /\ fs[SubSeq(path, 1, i)].kind = "link"}

\* Replace the first link on the way, if there is one, by what it denotes.
FollowOnce(fs, path) ==
  LET links == LinkPositions(fs, path)
      first == CHOOSE i \in links : \A j \in links : i <= j
  IN  IF links = {} THEN path
      ELSE fs[SubSeq(path, 1, first)].to \o SubSeq(path, first + 1, Len(path))

\* filepath.EvalSymlinks: the physical path, or NoPath when some component
\* is missing, a link dangles or the links never end.  What a number of links
\* leads to is kept as a set of one path, for TLC to compute it once.
EvalSymlinks(fs, path) ==
  LET followed[n \in 0..MaxLinks] ==
        IF n = 0 THEN {path} ELSE {FollowOnce(fs, p) : p \in followed[n - 1]}
      ends == {p \in followed[MaxLinks] \cap DOMAIN fs : LinkPositions(fs, p) = {}}
  IN  IF ends = {} THEN NoPath ELSE CHOOSE p \in ends : TRUE

\* The directory a path leads to, by its physical path; NoPath if the path
\* does not resolve or names something else.
ExistingDir(fs, path) ==
  LET real == EvalSymlinks(fs, path)
  IN  IF real # NoPath /\ fs[real].kind = "dir" THEN real ELSE NoPath

\* os.Stat, which follows links, and IsDir.
IsDirectory(fs, path) == ExistingDir(fs, path) # NoPath

(***************************************************************************)
(* withinAnyRoot's test of one root.  filepath.Rel of a path outside the   *)
(* root begins with "..", and so does that of a path whose first name      *)
(* below the root begins with "..": the prefix test rejects both.          *)
(***************************************************************************)
WithinRoot(root, path) ==
  /\ IsPrefix(root, path)
  /\ \/ Len(path) = Len(root)
     \/ path[Len(root) + 1] \notin DotDotNames

WithinAny(roots, path) == \E r \in roots : WithinRoot(r, path)

\* A tree is a function of finitely many paths; paths are sequences, what
\* links hold too, the root is a directory and so is the parent of everything
\* that exists: what an operating system guarantees.
WellFormedFS(fs) ==
  /\ IsFiniteSet(DOMAIN fs) /\ fs = [p \in DOMAIN fs |-> fs[p]]
  /\ \A p \in DOMAIN fs : p \in Seq(ToSet(p)) /\ fs[p].to \in Seq(ToSet(fs[p].to))
  /\ << >> \in DOMAIN fs /\ fs[<< >>] = Dir
  /\ \A p \in DOMAIN fs : p # << >> => /\ Parent(p) \in DOMAIN fs
                                       /\ fs[Parent(p)].kind = "dir"
=============================================================================
