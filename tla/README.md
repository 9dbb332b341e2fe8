# Verification of the shell MCP server

TLA+ models of the Go program in `src/`: an MCP server that offers a fixed set
of file tools and `exec` to a language model, inside a set of allowed
directories.  The models are checked with TLC on small instances, and the
safety properties of all components are proved with TLAPS for every value of
the constants, with the exceptions that section 5 ends with.

## 1. The system

`cmd/shellmcp/main.go` parses the launch flags, builds one `Sandbox` and one
blob `Store`, and registers the tools of `internal/tools` with the MCP SDK.
The SDK runs every `tools/call` on a goroutine of its own and cancels a call's
context when the client cancels it or goes away.  **Handlers therefore
interleave**, and nothing but the mutexes of `Sandbox` and `Store` serializes
them; the filesystem is shared with every other program of the machine.

| component | state | operations | depends on |
|---|---|---|---|
| sandbox (`internal/sandbox`) | `configRoots`, `protocolRoots`, `runtimeRoots` under one RWMutex | `New`, `SetClientRoots`, `Resolve`, `AddRuntimeRoot`, `RemoveRuntimeRoot`, `Roots` | filesystem; client (`roots/list`) |
| blob store (`internal/blob`) | `entries`: handle to bytes and deadline, under a mutex | `Put`, `Get`, `Release`, `Len` | clock |
| process runner (`internal/process`) | none of its own | `Run` | os/exec: child, three pipes, watcher goroutine, a copier or feeder for each pipe |
| read_file, write_file, copy_file | the filesystem | one handler each | sandbox, blob store |
| walk (`internal/walk`) | none; one `Result` per walk | `Walk` with predicates | filesystem, sandbox (links), glob, rgx |
| find, replace | the filesystem | one handler each | walk, rgx |
| mkdir, ls, rm | the filesystem | one handler each | sandbox |
| list/add/remove_allowed_dir | - | one handler each | sandbox |
| release_blob | - | one handler | blob store |
| glob, rgx | none (pure) | `Match`, `Expand`; `Compile` | - |
| error classification (`internal/tools/errors.go`) | none (pure) | `classify`, `codedError` | - |

How they interact:

* Every handler that takes a path first calls `refreshClientRoots`: one
  `roots/list` round trip to the client, whose answer replaces
  `protocolRoots`.  Then it calls `Resolve`, and then uses the path **as
  written**, in system calls of its own.
* `read_file` puts large binary contents into the blob store and answers with a
  handle; `write_file` takes a handle in place of contents.
* `find` and `replace` call `Walk`, which calls `Resolve` for each link.
* `find` and `replace` check their glob by one trial match and compile their
  regex before the walk, which then asks `glob.Match` about every entry.

What is hard in this code, and what makes each component correct:

* **sandbox.**  `Resolve` reads the roots twice, the lists are replaced and
  edited by other calls in between, the tree and its links change, and the
  loop climbs to an ancestor that exists.  It must accept only what was
  allowed, refuse only for a cause, and come to an end; roots must be physical
  paths, or everything below them is refused; a removed directory must be out.
* **blob store.**  A `Put` sweeps the entries of others, and the clock moves
  between its two readings.  A lease that runs must be found with its bytes,
  a released one never again, and no path may keep the mutex.
* **process runner.**  Deadline, cancellation, exit, kill, and the draining of
  the output race.  An exit must come with all of the output, nothing may be
  left behind, and a command that hangs must not hang its call.
* **file tools.**  Each is several system calls: check, open (with truncation),
  transfer.  A call nobody disturbs must be exact; `copy_file` without
  `overwrite` must keep what is there; appends must not be lost.
* **walk, find, replace.**  The tree changes between listing a directory,
  looking at an entry and reading it; a limit is reached at some depth and must
  be reported through all the levels above.  Nothing may be reported twice or
  that never qualified, nothing may be missed silently, and `replace` must
  rewrite just what it reports.
* **mkdir, ls, rm.**  `os.MkdirAll` and `os.RemoveAll` are loops of looks and
  changes, and `ls` asks for the names first and for their types later, while
  other calls make and remove the same entries.  Calls that make the same
  directories must not fail each other, a root must survive, a listing must be
  true, and a call nobody disturbs must do what its page says, error code
  included.
* **glob, rgx.**  Patterns go through two readers that do not agree by
  themselves: the translation of brackets and `filepath.Match`; the lexical
  scanners of `rgx` and Go's parser.  A pattern must match, compile or be
  refused as it was meant, and no pattern may stop the server.

The hazards are listed one by one, at their lines, in `PROJECT.json`.

## 2. The modules

| module | what it is |
|---|---|
| `PathFS` | paths, trees with links, `EvalSymlinks`, `resolveExistingDir`, the containment test `WithinRoot`; shared by the modules about paths |
| `Sandbox` | the allow-list as concurrent calls use it; EXTENDS `PathFS` |
| `SandboxProofs` | lemmas about sequences, trees and what `EvalSymlinks` finds; theorems about `Sandbox` |
| `BlobLease` | what the blob store promises: atomic leases, no table, no lock |
| `BlobStore` | the locked table with its sweep; implements `BlobLease` |
| `BlobStoreProofs` | theorems about `BlobStore`, the implementation included |
| `Process` | `exec`: handler, os/exec's watcher, copiers and feeder, child, left-behind process |
| `ProcessProofs` | theorems about `Process` |
| `Session` | mkdir, ls, rm and list_allowed_dirs from the refresh of the roots to the last system call, with `classify`; EXTENDS `Sandbox` |
| `SessionProofs` | theorems about `Session`: roots, trees, ls, where calls act, and that a call on a tree of its own does just what its tool is for |
| `FileTools` | read_file, write_file, copy_file and rm on files, system call by system call |
| `FileToolsProofs` | theorems about `FileTools` |
| `TreeSearch` | `Walk` with its predicates, `find` and `replace`, over a changing tree |
| `TreeSearchProofs` | theorems about `TreeSearch` |
| `Glob` | `glob.Match` with all it calls, as functions on sequences of characters |
| `GlobMeaning` | what a path pattern should match, said of the atoms it was written with; EXTENDS `Glob` |
| `GlobProofs` | what `Glob` computes: lemmas about its functions, and a theorem about `MatchSegs` |
| `Rgx` | `rgx.Compile` up to `regexp.Compile`, and what its input should come out as |
| `Query` | `find` and `replace` as far as patterns go: trial match, compilation, one match per entry; EXTENDS `GlobMeaning` and `Rgx` |
| `QueryProofs` | what a glob expands to and matches, against `GlobMeaning`; what `Rgx` computes; theorems about `Query` |
| `MC*` | the constants of the runs |

### Sandbox

`configRoots`, `protocolRoots` and `runtimeRoots` are the fields of the same
names.  The mutex is taken and released within each access (`Roots`,
`SetClientRoots`' assignment, the edits of the runtime list), so each access is
one step and no lock variable is needed.  A path call takes the steps
`ListRoots` (the client answers with the roots it has at that moment),
`EvalRoot` and `StatRoot` for each entry of the answer (the two looks of
`resolveExistingDir`; the entries are a set, so they come in any order),
`InstallRoots`, `Lexical` (the first test), `EvalParent` and `EvalFound` (one
`EvalSymlinks` each) and `CheckReal` (the second test, with the roots read
again).  `AddResolve`, `AddStat` and `RemoveResolve` are what happens before the
lock is taken, `AddRuntimeRoot` and `RemoveRuntimeRoot` what happens under it.
At launch `New` resolves each argument in one tree and looks at it in another.
One `EvalSymlinks`, which in Go is one `lstat` per name, is one look at the
tree.  The environment changes the client's roots and the tree, at most
`MaxChanges` times.  `ever` and `steady` are history: the roots allowed at some
moment, and at every moment, since the call began.  Names are TLA+ strings taken
whole; all that is kept of their spelling is whether they begin with two dots
(`DotDotNames`), since the containment test looks at that.

### BlobStore

`entries` is the map, `holder` the mutex.  A call arrives, waits, works and
unlocks; `Put` works in two steps, `Sweep` and `Insert`, since the clock may
move between them.  `drawn` holds the handles that `randomHandle` returned:
collisions of 128 random bits are left out.  `granted` and `released` are
history, and the variables of `BlobLease`: `Leases`, the instance of it that
`BlobStore` implements, gets `now`, `granted`, `released` and `reply` as they
are, so `entries` may hold no more and no less than those promises need.

### Process

The handler's `pc` follows `cmd.Run`: start, wait for the child (`Reap`), take
the watcher's error (`Verdict`), wait for the two copiers and the feeder of
stdin (`Drained`), then Run's reading of the outcome (`TimedOut`, `Exited`,
`StartFailed`); before it, the call may be refused (`Refuse`).  `written`,
`pipe` and `captured` count the chunks of stdout and of stderr; `unfed` and
`fed` those of stdin, which is only fed when there is any.  The child ends by
itself at any time, or dies of a signal; before that it may leave behind a
process (`Fork`) that keeps any of the three pipes open (`held`), and closes
them when it likes. A child that closes a pipe of its own and goes on is left
out.  os/exec is not part of the repository and is modelled from how `Run` uses
it (no `WaitDelay`, `bytes.Buffer` for the outputs); `Wrapped` is what a
`time.Duration`, whose values are below `DurationLimit` (2^63 in Go), holds of
the product of `timeout_seconds` and `Second`.  Time is counted in ticks,
`Second` of them to a second.

### Session

`Session` composes the handlers with the sandbox: `pc` goes through the steps of
`Sandbox` up to `accepted`, and from there through the handler's, on the **same
tree** `fs`, and with the path as it was written.  `request` holds the
arguments, `work` what the loop in hand has got to (the path `os.MkdirAll` is
at, the names `ls` has still to ask about, the stack of `os.RemoveAll`),
`answer` the code and `out` the listing.  Package os is external and modelled
from its documentation and from how the handlers use it: one step is one look at
the tree (`StatUp`, `LstatDown`, `ReadDir`, `Info`, `OpenParent`) or one change
of it (`Mkdir`, `MakeDown`, `Unlink`, `Rmdir`); `os.Remove`, which is unlink and
then rmdir, is one step, and so is reading a directory. `list_allowed_dirs`
branches off after `InstallRoots`, where the others go on to the first test.
`alone` and `kept` are history: the tree a call began with, as long as nobody
else has changed it, and the same as long as nobody else has removed or replaced
anything.  `Expected` is the definition `UndisturbedIsExact` holds the calls
against: each tool said in one expression, of one tree.

A directory that `os.RemoveAll` has open is known by its physical path, so one
that is removed and made again counts as the same.  Permissions, loops of
links and failing disks are left out.

### Glob, Rgx and Query

A pattern is the sequence of its characters.  `Glob` follows the code: `Expand`,
`splitSegments`, the memoised `MatchSegs`, `MatchSegment`, `Translate`, and
`filepath.Match` (external) after them.  A panic is a verdict of its own.  What
the code does by a loop or by calling itself is a function defined by recursion
over the pattern.  `GlobMeaning` says what a pattern **means** that was written
as a sequence of atoms (a star, a character out of a set, a slash, a choice,
something malformed), and scans nothing: `Denotes` compares atoms with the name.
Which atoms there are is its assumption `GlobAtomsAssumption`.  `Rgx` does the
same with nodes (`IsNode`): each has the text as it is written and as it should
come out.  A class is a node by Rust's rules (`IsClass`: classes nest, and a `]`
that stands first is a member), not by those of the scanners; its sort
(`ClassSort`) says what Rust finds in it and whether a `]` in it has ended the
class for the scanners by then.  The two scanners of `rgx` are one operator,
since they differ only in `\Q...\E`.  `Query` is the handler: a caller's atoms
and nodes are its request, and what it finds, compiles and answers is held
against them.

### FileTools

A name is linked to an inode, so two names may be one file (hard and symbolic
links), and an open file outlives its name.  Contents are sequences of chunks;
one system call transfers one chunk when it reads or copies, all of the data
when it writes, or a prefix when the disk is full.  O_APPEND takes the offset
at the instant of the write.  `quiet` says that nobody else wrote to the files
the call has open.

### TreeSearch

A path is the sequence of its names; names are numbers in their lexicographic
order.  `stack` is the recursion of `walkDir`: for each level the directory and
the entries not yet taken, as they were **when the directory was listed**.  A
link passes the sandbox (`Approve`) when it is met, is looked at in the next step
(`StatLink`), and contents are read later still (`Search`, `Load`,
`OpenForWriting`).  `Resolve` answers with the path as it was written, so every
look, listing and open goes by that path and follows the links that are on it
**then** (`Real`, in the current `target`).  Of a text
only the number of matches is kept, so that `replace` turns `n` matches into
`n * grows`.  Other programs edit, create, remove (with everything below) and
put a link in the place of whatever was there, or one that leads elsewhere
(`PutLink`), at most `MaxChanges` times.  `ever`, `steady` and `relinked` are
history: the files that qualified at some moment of the call, and at every
moment, and the paths at which a link came, went, was led elsewhere or got or
lost what it leads to.  `Qualifies` is the definition the walk is held
against: what the documents say is found, said of one tree at one moment.

## 3. The runs

| run | checks | bounds |
|---|---|---|
| `sandbox` | `AcceptedWasAllowed`, `RefusedHadCause`, `RootsArePhysical`, `RemoveIsFinal` | 2 calls of any kind, 4 trees that differ in what `/d/l` is, 2 client answers, 2 changes |
| `blob` | `TableMatchesLeases`, `ImplementsLeases`, `CallsReturn` | 2 callers, 2 handles, 2 contents, time to live 1, time up to 3 |
| `process` | `ExitIsWhole`, `NothingLeftBehind`, `KilledForCause`, `StartFailedHasCause`, `CallReturns` | 2 chunks of output through pipes of 1, no input or 2 chunks of it, time up to 4, timeouts none, short and overflowing |
| `files` | `QuietCallsAreExact`, `SteadyDstIsKept`, `AppendsAreKept` | 3 calls out of 15 requests, a file of 2 chunks with 2 names |
| `tree` | `ReportIsOrdered`, `SteadyFilesAreFound`, `ReportedQualified`, `QuietReplaceIsExact`, `CallsReturn` | 4 names (1 hidden), 2 levels, 1 call, 3 trees, 2 changes at 5 paths, new links to 2 places |
| `patterns` | `FoundAreDenoted`, `GlobErrorsAreTrue`, `CompiledAsMeant`, `UnsupportedIsExact` | globs of up to 3 of 10 atoms and of up to 4 segments with `**`, 10 names of up to 4 segments; regexes of up to 3 of 12 nodes, or with one of 4 constructs of Rust's, 2 nested classes and 3 hidden operations |
| `session` | `ListedIsThere`, `UndisturbedIsExact`, `MkdirsDoNotCollide`, `ListedAreRoots`, `ActsInside`, `RootsAreNotRemoved`, `CallsReturn` | 2 calls (7 requests), 2 trees, 2 client answers, 1 change by others, links in and out of the roots |

Each of these also checks the module's type invariant.  The remaining runs show
a disagreement of section 4.

Why the bounds are enough.

* `sandbox`: the two tests of `Resolve` are disturbed by one other call that
  edits or installs between them; two calls of which each may be any number of
  calls in a row (a call returns and begins anew) give every such order.  The
  trees are those that make a link lead out of the root, a directory or a file
  replace it, and its target vanish; so an argument is a link to a directory at
  one of the two looks at it, and a file, or nothing, at the other.  `Symmetric`
  permutes the calls, which no definition tells apart; it is not used with
  liveness.
* `blob`: an entry granted at 0 with time to live 1 is good at 0 and 1, expired
  at 2, and another is granted meanwhile by the other caller; with three
  instants all the orders of grant, expiry, sweep and question occur.
* `process`: each pipe is shorter than what may go through it, so the child may
  end with output still on its way or with input still to be written, and the
  clock passes both timeouts.
* `files`: two calls suffice for each hazard, the third may remove or make the
  name meanwhile.
* `tree`: limits 1, 2 and the default of 3 are reached at the top, in the
  nested directory and never; the hidden name, links inside, outside and to
  nowhere, a link to a link, a locked file, a file that is not UTF-8 and a pipe
  all occur.  Two changes are enough to put a link and take it away again, or to
  swap a directory before it is opened and what is in it afterwards.
* `session`: one call walks `/d/l/a/b`, through the link `/d/l` to the root `/e`
  that the client names; the other one makes `/d/l/a/b` too, lists `/d/l`,
  removes `/d/l/a` or `/e` itself, or lists the allowed directories.  So a directory is missing, appears, or goes
  between any two looks of the first call, a second call's `rm -r` sees an
  entry appear in the directory it lists, and a root is removed or stops being
  one between the test and the removal.  Runtime roots are off (the default),
  so the roots change by the client alone.  No tree of the run has a link to a
  directory where another one has nothing; what mkdir -p does when another
  program puts one there in time (`Mkdir` fails, and `Lstat` finds no
  directory) is covered by the proof of `MkdirsDoNotCollide`, which allows for
  it.
* `patterns`: the atoms are those the translations treat differently: a leading
  dot, an escape, a bracket that begins with `]`, one that is negated and holds
  a named class, choices that nest, hold slashes and are empty, and two kinds of
  malformed ones, which also stand in a choice beside an alternative that is
  well formed.  With four segments out of `**`, `*` and `a`, the memo is
  asked again for each of its keys.

Deadlock is checked in every run.  Where a system may stop for good (all calls
done, or blocked at a pipe) there is an explicit `Stop` or `AllDone` step.

**Fairness.**  A goroutine that can take a step takes it (weak fairness of the
handlers' actions, of os/exec's watcher, copiers and feeder): the Go scheduler
is preemptive.  `Lock` of the blob store is strongly fair, because `sync.Mutex`
hands itself to a waiter that has waited for long (its starvation mode).  In
`Process` time passes, a deadline that is over fires, and a killed child dies.
Nothing is assumed of the environment otherwise: clients need not cancel or
change roots, other programs need not do anything, and a child or the process it
leaves behind need never read, write, exit or close anything.  In `Session`
every handler goes on, and so does the answer to `roots/list`, which comes or
fails; with that, the climbs of `Resolve` and `os.MkdirAll` end although the
tree changes under them.  In `TreeSearch` `Refuse` is in one fairness conjunct
with the walk, so that it need never happen, and a full disk is never required.

## 4. Where code and documents disagree

Five runs each violate one statement taken from the repository's comments or
documents.

| run | statement | what happens |
|---|---|---|
| `sandbox_stale` | pulling the roots for each call means they are never stale (`tools.go:48`) | two overlapping calls: the older answer is installed last |
| `process_hang` | `exec` runs with a timeout (`README.md:39`) | after the kill, Run waits for a process that holds one of the command's three pipes |
| `copy_self` | no partial or corrupted copy (`copy-file/SKILL.md:8`) | copying a file onto another name of itself empties it and succeeds |
| `rgx_class` | shorthands inside a class are left untouched (`rgx.go:277`) | `[^]\w]` and `[[:alpha:]\w]` are taken to end at their first `]`, and the `\w` is rewritten |
| `glob_panic` | a plain `[:` falls through to ordinary characters (`glob.go:263`) | `[[:]` makes `writePosixClass` slice with its bounds in the wrong order; nothing in the repository recovers the panic (that the SDK does not either is assumed) |

The models contain more of the kind, which have no run of their own:

* what resolves inside a root is allowed (`sandbox.go:20`), but `..data`,
  directly below a root, is refused: the test for `..` is a prefix test;
* a write against an expired handle fails with BLOB_EXPIRED (`api-spec.md:141`),
  unless a sweep or an earlier `Get` removed the entry: then BLOB_NOT_FOUND;
* where `replace` fails, the files after the failure are not changed
  (`replace/SKILL.md:29`), but the file in hand may be left empty;
* rm refuses to remove an allowed root (`api-spec.md:406`), compared as the path
  was written with the physical path of the root: a root reached through a link
  above it, or lying below a removed directory, goes (the exception that
  `RootsAreNotRemoved` names);
* `rm -r` answers `removed: true` for a path that does not exist, and may answer
  DIRECTORY_NOT_EMPTY when another call makes an entry in time;
* a symlink that leads outside or nowhere is skipped, and a symlinked directory
  never descended into (`walk.go:164-167`), but the walk goes by paths: a
  directory that became a link after it was listed is opened and walked wherever
  it leads, and a dangling link passes `Resolve`, which climbs to its directory,
  so that what then appears at its end is reported, outside of the roots or not
  (the exception that `ReportedQualified` names);
* an invalid glob is INVALID_GLOB (`find/SKILL.md:32`), but the one trial match
  with "probe" does not see the error of `{[b,*}`, where another alternative
  matches, nor that of `a/[b`, where the first segment differs; the walk then
  ends with IO_ERROR (why `GlobErrorsAreTrue` says which errors the trial finds);
* set operations in classes are rejected and never reinterpreted (`rgx.go:80`,
  `api-spec.md:61`), but `[[a-z]&&[a]]`, `[[:alpha:]~~x]` and `[^]&&a]` are taken
  to end at their first `]`, and pass (the sort "hidden", which
  `UnsupportedIsExact` leaves out);
* `[--a]` and `[!-&&]`, in which Rust sees no operation, and `\Q[--\E`, which the
  translation takes for a literal, are refused as set operations;
* roots are stored "resolved, absolute" (`sandbox.go:64`), but `resolveExistingDir`
  looks twice: a file that becomes a link to a directory after `EvalSymlinks` and
  before `Stat` is stored as a root, and what is below it is refused (why
  `RootsArePhysical` does not speak of one moment);
* `[a-]`, `{{a,b}}` and a first segment `\.x` match other names in this matcher
  than in bash: `filepath.Match` has no trailing `-`, a group without commas of
  its own is kept as text, and the dot is looked for in the pattern as written;
* a path written through the link that was given as a root is refused by the
  first test, since roots are stored as physical paths;
* a runtime root added through a link cannot be removed by that path once the
  link has gone;
* `Len` counts expired entries until the next sweep;
* a command that exits in time is reported as timed out when the deadline
  passes while its output is still being collected; a command that exits with 0
  as its call is cancelled is reported as PROCESS_START_FAILED (the exception
  that `StartFailedHasCause` names); a `timeout_seconds` that overflows is over
  at once;
* `copy_file` without `overwrite` replaces a file created between its test and
  its open (why `SteadyDstIsKept` speaks of a destination that was there all
  the time); two overwriting `write_file` calls may leave a mix of both;
  `write_file` without any content field empties the file;
* where one file is found under two names, a dry run of `replace` counts it
  twice and the real one does not; `find` takes a named pipe for a file, and
  blocks when it has to read one (the exception in `CallsReturn`).

## 5. What is proved

All theorems hold for every value of the constants that satisfies the module's
named assumptions.  In the modules of proofs each theorem comes with its
inductive invariant, a lemma that it holds initially, and one that every step
preserves it, with one step of the proof for each action.

**Paths and trees** (in `SandboxProofs`).  `PathFSAssumption`: the number of links
the operating system follows is a natural number.  The functions in
`EvalSymlinks` and `Clean` are defined by recursion over a number; that they
exist and are unique is shown by looking at the least number for which they
would not.  From that, for every well formed tree (finitely many entries, paths
and the targets of links are sequences, a directory above every entry): what
`EvalSymlinks` returns is there, has no link on the way to it and resolves to
itself (`EvalIsPhysical`); it stays what it is as long as entries are only added
(`EvalStays`); a path that resolves does so through its directory and the entry
of its last name (`EntryLeads`), and conversely an entry that is no link is where
the path to it leads (`EvalOfEntry`).

**Sandbox.**  `SandboxAssumption`: there is at least one launch root and one
tree, trees are well formed, path arguments are sequences of names, and the
value for "no path" is none.  Nothing is assumed of how many calls, trees, roots
and changes there are.

* `TypesAlwaysOK`.  `TypeOK` is not inductive, since a list on its way to
  `InstallRoots`, and a directory on its way to `AddRuntimeRoot`, are locals of
  a call; `TypeInv` adds `LocalsOK`, which says what they hold between the steps.
* `ResolveIsSafe` (`AcceptedWasAllowed`) and `ResolveRefusesForCause`
  (`RefusedHadCause`).  The inductive invariant `AnswerInv` says of each
  call in flight that the roots allowed now lie between `steady` and `ever`
  (`Bracketed`), and what its tests have found so far, in terms of `ever` for
  those passed and `steady` for those failed.  Containment grows with the set
  of roots (`WithinAnyGrows`), which carries a finding over the edits of other
  calls.
* `RootsAlwaysPhysical` (`RootsArePhysical`).  `PhysicalInv` says it of the three
  lists and of what a call holds on its way to one: between the two looks, a
  path that was physical in some tree; after the second, one that also led to a
  directory in some tree.  That what `EvalSymlinks` returns is its own physical
  path is `EvalIsPhysical`.
* `RemovalsAreFinal` (`RemoveIsFinal`), an action property, from `OnceInv`: no
  root is twice on the runtime list, so that one removal is enough.

**Blob store.**  `BlobAssumption`: `None` is neither an entry, a lease nor a
caller, answers are no bytes, and times are numbers.

* `TypesAlwaysOK` and `TableAlwaysMatches` follow from `IInv`: `TypeOK`, the
  shapes of arguments at each step, mutual exclusion, that the handle of a
  `Put` in flight has been drawn by it alone and stored by nobody, and
  `TableMatchesLeases` itself.
* `StoreImplementsLeases`: `Spec => ImplementsLeases`.  `IInv` gives every step
  of the table its step, or none, of `BlobLease` (`StepImplements`): the step
  that takes effect is the one under the lock that answers.

**Process.**  `ProcessAssumption`: the bounds are positive numbers, the timeouts
asked for are integers, and the lengths of stdin are numbers.  One inductive
invariant, `IInv`, gives `TypesAlwaysOK`, `ExitIsAlwaysWhole`,
`NothingIsLeftBehind`, `KillsHaveCause` and `StartFailuresHaveCause`.  Its
parts: the handler's place tells how far child, watcher and error have got
(`HandlerOK`); which error goes with which end of the child (`ErrorOK`); nothing
is killed, and nobody says so, before the context is done (`CauseOK`); who can
still write (`OutputOK`); and what was answered, held against all that
(`ResultOK`).  The last two are why an exit is whole: the copiers are waited
for, and then both pipes are empty and nobody holds them.

**Session.**  `SessionAssumption`: requests are of the four tools, only `mkdir` and
`rm` are recursive, and "no path" is no sequence.  Seven inductive invariants;
the first three build on each other, and the others on `PathInv`:

* `RootsInv`: the roots are bracketed by a call's two histories, a call past
  `GuardRoots` is not about a root that was allowed all the time, and a listing
  was right while it ran.  It gives `ListedAlwaysAreRoots` and, for the action
  property, `RootsAreNeverRemoved`.
* `TreeInv` adds that the tree stays well formed, whatever the handlers make and
  remove, and that a call has a code exactly when it has answered or looks
  whether a failed `Mkdir` matters: `SessionTypesAlwaysOK`.
* `PathInv` adds that arguments and roots are sequences wherever a call keeps them.
* `ListInv` adds that what an `ls` has read, and what it has still to ask about, is
  there: `ListedAlwaysThere`.  It needs `ExistingDirStays`, since the listed
  directory is found again by its path, links included, in every step.
* `InsideInv` adds, for a call whose tree nobody else changes, what it has
  established: the deepest part of the path that resolves, as Resolve has found
  it, still is that (`TestedOK`); the directory mkdir -p has come to lies in a
  root (`MakingOK`); so does everything on the stack of rm -r, unless it is a
  link that leads into one (`RemovingOK`).  From that, `ChangesInside` and
  `ActsAlwaysInside`.  The point of the proof is `SpotInside`: the entry package
  os acts on, found by the path as it was written, is where Resolve's physical
  path says, or a link that leads there.
* `MakesInv`: what mkdir -p has climbed past was missing when
  the call began, and where it has come to on the way down stays a directory as
  long as nothing is removed: `MkdirsNeverCollide`.
* `ExactInv` (on top of `InsideInv` and `ListInv`): how far a
  call has got, as a function of the tree it began with (`alone`).  mkdir -p has
  made the path down to the name it is at, and nothing else (`DownTo`); ls has a
  line for each entry whose name it is not still to ask about (`ListingExact`);
  rm -r has removed nothing but what lies below its target, and whatever a listed
  directory still has is further up its stack (`StackOK`), which is why its Rmdir
  finds every directory empty.  When the call answers, that is what `Expected`
  says in one expression: `UndisturbedAlwaysExact`.  The point that took a proof
  to see is `DownMeets`: mkdir -p meets something in its way only right below the
  deepest path that resolves, before it has made anything, and that is an entry
  that does not resolve, such as a dangling link; so a refused call leaves the
  tree as it was.

**File tools.**  `FileAssumption` and `RequestAssumption`: names lead to inodes or
nowhere, contents are sequences of chunks, and requests have the fields their
tool takes.

* `TypesAlwaysOK`, from `TypeInv`, which says what a call has open at each stage.
* `SteadyDstAlwaysKept`: by `FreeInv`, a copy past its own look at the destination
  has seen it free, and whoever finds it free later has it on record.
* `AppendsAlwaysKept`: by `AppendInv`, whoever writes without appending has marked
  its file from its open on, and in a file without the mark all that was
  appended is there in one piece, since it only grows at its end.
* `QuietCallsAlwaysExact`: by `ExactInv`, what has been read or copied is the
  beginning of the source, and what is written over is empty, as long as nobody
  else writes to the files.

**Walk, find, replace.**  `SearchAssumption`, `PathAssumption`, `TreeAssumption` and
`SearchRequestAssumption`: names are finitely many numbers, what is above a path
is a path and what is below a path inside is inside, trees have a directory
above every entry, and at the beginning no link is on the way to the root.
Links may lead anywhere, to links and in circles too.

* `TypesAlwaysOK`, from `TypeInv`: the tree stays one (`TreeInv`), and the state is
  that of the stage the call has reached (`CallInv`).
* `ReportsAlwaysOrdered`, from `OrderInv`: every entry still on the stack comes
  after all that was reported, after the path at hand and after the directories
  below its own; that orders a report made from lists of different moments.
* `ReportedAlwaysQualified`, from `EverInv`: no directory on the stack is hidden; as
  long as nobody has touched a link on the way to it (`Untouched`), there is none
  (`Straight`); a listed file that matches then qualified when the list was
  made, and a link at hand still leads where the sandbox found it to
  (`LedInside`).
* `SteadyAlwaysFound`, from `SteadyInv` on top of `EverInv`: whatever has
  qualified all the time has been reported, or an entry on the stack leads to
  it.
* `QuietReplacesAlwaysExact`, from `ReplaceInv`: how far the rewriting has come,
  for each of its stages.

**Patterns.**  `AlphabetAssumption`, `GlobAtomsAssumption`, `GlobsAssumption`,
`RegexesAssumption` and `NamesAssumption` say what patterns are written with and
what names are; every one of them speaks of any number of atoms, nodes and
characters.

* The functions of `Rgx` and `Glob` are defined by recursion over what is left
  of the pattern.  That they exist is not for free in TLA+: `SolutionExists`
  shows it of every definition whose step only looks at smaller arguments, by
  induction over the size (`SizeInduction`), and the equation of each follows.
* `SegmentsAreLaid` (in `GlobProofs`), about `MatchSegs` for any pattern
  segments and any name: by induction over what is left of both, memo included.
  The memo it is called with holds right answers only (`Faithful`), which every
  call keeps.  So a match means that the segments can be laid over the name,
  "**" over segments without a leading dot; a mismatch means that they cannot,
  even if those that cannot be read were taken to match anything; and an error,
  or the panic, comes from a segment looked at with a segment of the name.
* `TidyExpands` and `MatchIsMeant` (in `QueryProofs`), for patterns of any atoms,
  with braces in braces to any depth: what glob.Match says of a name is what was
  meant.  The argument follows the code.  The scan of a brace (`Expand`) is a
  walk over the pattern with a state, whether it is after a backslash and how
  deep in braces; from atom to atom that state is what the atoms say
  (`Run`), so an opening brace is met just where a choice is, its commas are
  those between the branches, and what is quoted is passed over.
  The alternatives are then the texts of `Chosen`, by induction over the size of
  the text.  Cutting the text of an alternative at "/" gives the texts of its
  segments (`SplitAs`).  A segment is translated atom by atom and what it is
  translated to is tried on a name: both readers of a bracket, the translation's and
  that of path.Match, come to the same items, which is the part by
  induction over the items.  With `SegmentsAreLaid`, an alternative matches just
  the names it denotes, and the verdicts of the alternatives decide (`DecidedIs`).
  The hypotheses are those of `GlobsAssumption`: a backslash with nothing after
  it, or a bracket left open, stands at the end of its segment, since in front of
  anything else it would not be that atom; names have neither empty parts
  nor "." or "..", which is what the walk hands to Match.  Atoms write a brace or
  a comma that is meant as itself with a backslash; a group with one branch, an
  unmatched brace and a brace in a bracket are no atoms, so nothing is said of
  patterns that have them.  A panic of
  `writePosixClass` decides nothing; that it happens is the run `glob_panic`.
* `TranslatedIs` and `UnsupportedIs`, by induction over the nodes: whatever
  follows a node, the scanner reads the node to its end and is then where it
  was before it, so that it finds a shorthand or a construct of Rust's wherever
  it stands, and none that only looks like one.  Of a class, `IsClass` says where
  Rust ends it, and the proof where the scanner does: at the same "]" for the sort
  "plain"; after the operation for "rust"; before it for "hidden" and "nested",
  where what it takes the rest for, other classes perhaps, holds no operation.
* `Inv`: how far the handler has got (`Progress`), what the glob was asked and
  said (`GlobAnswers`), and what became of the regex (`RegexAnswers`).  It gives
  `TypesHold`, `CompiledAsMeantHolds` and `UnsupportedIsExactHolds`, and with
  `MatchIsMeant` also `FoundAreDenotedHolds` and `GlobErrorsAreTrueHolds`.  It is
  needed because what was found is an answer to names that are no longer in
  the state: `Progress` keeps that what has been taken off the list has been asked.

**Only model-checked.**

* Liveness (`CallsReturn` of `BlobStore`, `TreeSearch` and `Session`, `CallReturns`
  of `Process`): out of the prover's reach.
* The five statements of section 4's table: they do not hold.

## 6. What is not modelled

* The window between `Resolve` and the system calls of `read_file`,
  `write_file`, `copy_file` and `exec`: `Session` has it for mkdir, ls and rm,
  whose path goes the same way, and `TreeSearch` for the root of a walk and the
  links in it.
* In `TreeSearch` the allowed roots stay as they are while a walk runs, its root is
  given by a physical path, and `Resolve` of a link is one look at the tree; what
  `Sandbox` shows of `Resolve` holds for each.
* Regex classes in which a doubled `-`, `&` or `~` is no operation, and `\Q...\E`
  literals with a `[`: nodes of sort "tricky", of which nothing is claimed.  A class
  inside a class that begins with "]" is no node.
* Go's regexp, and what a compiled pattern matches; in globs, characters beyond
  the alphabet of the run, so the named classes are cut down to it.
* Permissions and `classify`'s case for them; the sources and the order in the
  answer of `list_allowed_dirs`.
* Flag parsing and the SDK's transport; JSON formats; the spelling of paths
  beyond "." , ".." and leading dots; file modes, sizes and times; Windows.
* `exec`'s arguments and environment, which only pass through; what is written
  on its stdin, of which only the amount counts.

## 7. Plan

Order: what guards everything first (`Sandbox`), then the shared mutable state
(`BlobStore`), then the concurrency of `Process`, then the handlers, then their
compositions.  Done: the modules of section 2 and the proofs of section 5.
Next:

1. read_file and write_file composed with `BlobStore`.
