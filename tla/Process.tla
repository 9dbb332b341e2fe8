------------------------------ MODULE Process ------------------------------
(***************************************************************************)
(* The exec tool: internal/process.Run and the handler's timeout.  Many    *)
(* parties work on one command: the handler's goroutine, which starts the  *)
(* child and waits for it; os/exec's watcher, which kills the child when   *)
(* the context is done; os/exec's two copiers, which drain the pipes of    *)
(* stdout and stderr, and its feeder, which fills that of stdin; and the   *)
(* child with the process it leaves behind.  Run asks the context for its  *)
(* verdict only after all of that is over.                                 *)
(***************************************************************************)
EXTENDS Integers

CONSTANTS
  Requested,       \* the timeout_seconds arguments callers pass
  Second,          \* time.Second, in clock ticks
  DurationLimit,   \* a time.Duration is below this many ticks, 2^63 in Go
  DefaultSeconds,  \* the timeout when none is asked for
  Inputs,          \* the lengths of their stdin arguments, in chunks
  MayFork,         \* the child may leave a process that keeps its pipes open
  PipeCapacity,    \* chunks a pipe holds
  MaxOutput,       \* chunks the child and its helper write at most
  MaxTime          \* the clock stops there

ASSUME ProcessAssumption ==
  /\ Requested \subseteq Int /\ Inputs \subseteq Nat /\ MayFork \in BOOLEAN
  /\ {Second, DurationLimit, DefaultSeconds, PipeCapacity, MaxOutput, MaxTime}
       \subseteq Nat \ {0}

VARIABLES
  now,       \* the clock
  timeout,   \* spec.Timeout, in ticks
  ctxErr,    \* ctx.Err(): "none", then "deadline" or "canceled" for ever
  pc,        \* the handler's goroutine
  err,       \* the error of cmd.Run so far: "none", "start", "ctx" or "exit"
  child,     \* "unborn", "running", "zombie" or "reaped"
  status,    \* how the child ended: "none", "zero", "nonzero" or "killed"
  signaled,  \* a kill is on its way to the child
  forked,    \* the child has left a process behind, its helper
  held,      \* the pipes of the child that the helper keeps open
  watcher,   \* the watcher: "off", "watching" or "killed"
  watchErr,  \* the error it will hand to Wait
  feeder,    \* the feeder: "off" or "feeding"
  unfed,     \* chunks of stdin it has still to write
  fed,       \* chunks in the pipe of stdin
  written,   \* chunks written to each pipe of output
  pipe,      \* chunks in it
  captured,  \* chunks in its buffer
  result     \* what the tool answers

clock   == <<now, timeout>>
helper  == <<forked, held>>
kid     == <<child, status, signaled, helper>>
watch   == <<watcher, watchErr>>
input   == <<feeder, unfed, fed>>
output  == <<written, pipe, captured>>
vars    == <<clock, ctxErr, pc, err, kid, watch, input, output, result>>

Outlets == {"stdout", "stderr"}
Ends    == {"stdin"} \cup Outlets

NoResult == [kind |-> "none", status |-> "none"]

Init ==
  /\ now = 0 /\ timeout = 0
  /\ ctxErr = "none" /\ pc = "called" /\ err = "none"
  /\ child = "unborn" /\ status = "none"
  /\ signaled = FALSE /\ forked = FALSE /\ held = {}
  /\ watcher = "off" /\ watchErr = "none"
  /\ feeder = "off" /\ unfed = 0 /\ fed = 0
  /\ written = [s \in Outlets |-> 0] /\ pipe = written /\ captured = written
  /\ result = NoResult

Goto(from, to) == pc = from /\ pc' = to

-----------------------------------------------------------------------------
(* The context.  WithTimeout is done at once when the timeout is not       *)
(* positive.                                                               *)

\* What a two's complement Duration holds of a product.
Wrapped(n) == ((n + DurationLimit) % (2 * DurationLimit)) - DurationLimit

Begin ==
  /\ Goto("called", "start")
  /\ \E n \in Requested :
       timeout' = IF n > 0 THEN Wrapped(n * Second) ELSE DefaultSeconds * Second
  /\ ctxErr' = IF timeout' > 0 \/ ctxErr # "none" THEN ctxErr ELSE "deadline"
  /\ unfed' \in Inputs
  /\ UNCHANGED <<now, err, kid, watch, feeder, fed, output, result>>

\* An empty command, or a working directory that Resolve refuses.
Refuse ==
  /\ Goto("called", "returned")
  /\ result' = [kind |-> "refused", status |-> status]
  /\ UNCHANGED <<clock, ctxErr, err, kid, watch, input, output>>

DeadlineFires ==
  /\ pc # "called" /\ ctxErr = "none" /\ now >= timeout
  /\ ctxErr' = "deadline"
  /\ UNCHANGED <<clock, pc, err, kid, watch, input, output, result>>

\* The client cancels the call, or goes away.
ClientCancels ==
  /\ pc # "returned" /\ ctxErr = "none"
  /\ ctxErr' = "canceled"
  /\ UNCHANGED <<clock, pc, err, kid, watch, input, output, result>>

\* Time is counted from the call on.
Tick ==
  /\ pc # "called" /\ now < MaxTime
  /\ now' = now + 1
  /\ UNCHANGED <<timeout, ctxErr, pc, err, kid, watch, input, output, result>>

-----------------------------------------------------------------------------
(* cmd.Run: Start, then Wait, which collects the child, the watcher's      *)
(* verdict, and the feeder with the copiers, in this order.                *)

StartRefused ==
  /\ Goto("start", "classify")
  /\ ctxErr # "none"
  /\ err' = "ctx"
  /\ UNCHANGED <<clock, ctxErr, kid, watch, input, output, result>>

StartFails ==
  /\ Goto("start", "classify")
  /\ ctxErr = "none"
  /\ err' = "start"
  /\ UNCHANGED <<clock, ctxErr, kid, watch, input, output, result>>

Start ==
  /\ Goto("start", "wait")
  /\ ctxErr = "none"
  /\ child' = "running" /\ watcher' = "watching"
  /\ feeder' = IF unfed > 0 THEN "feeding" ELSE "off"
  /\ UNCHANGED <<clock, ctxErr, err, status, signaled, helper, watchErr,
                 unfed, fed, output, result>>

\* A mutant: the child is not waited for.
Reap_NoWait ==
  /\ Goto("wait", "verdict")
  /\ UNCHANGED <<clock, ctxErr, err, kid, watch, input, output, result>>

Reap ==
  /\ Goto("wait", "verdict")
  /\ child = "zombie"
  /\ child' = "reaped"
  /\ err' = IF status = "zero" THEN "none" ELSE "exit"
  /\ UNCHANGED <<clock, ctxErr, status, signaled, helper, watch, input, output, result>>

\* The watcher hands over its error, none if it has nothing to say yet; the
\* child's own error counts more.
Verdict ==
  /\ Goto("verdict", "drain")
  /\ err' = IF err = "none" THEN watchErr ELSE err
  /\ watcher' = "off"
  /\ UNCHANGED <<clock, ctxErr, kid, watchErr, input, output, result>>

\* A mutant: stderr is taken as it is when the child has ended.
Drained_StdoutOnly ==
  /\ Goto("drain", "classify")
  /\ feeder = "off" /\ pipe.stdout = 0 /\ "stdout" \notin held
  /\ UNCHANGED <<clock, ctxErr, err, kid, watch, input, output, result>>

\* A copier is done when nobody holds the writing end of its pipe any more.
Drained ==
  /\ Goto("drain", "classify")
  /\ feeder = "off"
  /\ \A s \in Outlets : pipe[s] = 0 /\ s \notin held
  /\ UNCHANGED <<clock, ctxErr, err, kid, watch, input, output, result>>

\* The feeder writes until all is written or nobody can read it any more,
\* which it takes for a success.
HasReader == child = "running" \/ "stdin" \in held

Feed ==
  /\ feeder = "feeding"
  /\ \/ /\ HasReader /\ unfed > 0 /\ fed < PipeCapacity
        /\ unfed' = unfed - 1 /\ fed' = fed + 1
        /\ UNCHANGED feeder
     \/ /\ unfed = 0 \/ ~HasReader
        /\ feeder' = "off"
        /\ UNCHANGED <<unfed, fed>>
  /\ UNCHANGED <<clock, ctxErr, pc, err, kid, watch, output, result>>

\* A mutant: a chunk is kept twice.
Copy_Twice(s) ==
  /\ pipe[s] > 0
  /\ pipe' = [pipe EXCEPT ![s] = @ - 1] /\ captured' = [captured EXCEPT ![s] = @ + 2]
  /\ UNCHANGED <<clock, ctxErr, pc, err, kid, watch, input, written, result>>

Copy(s) ==
  /\ pipe[s] > 0
  /\ pipe' = [pipe EXCEPT ![s] = @ - 1] /\ captured' = [captured EXCEPT ![s] = @ + 1]
  /\ UNCHANGED <<clock, ctxErr, pc, err, kid, watch, input, written, result>>

\* Mutants: the watcher does not wait for the context; it kills nothing.
Watch_Eager ==
  /\ watcher = "watching"
  /\ watcher' = "killed"
  /\ signaled' = (child = "running")
  /\ watchErr' = IF child = "reaped" THEN "none" ELSE "ctx"
  /\ UNCHANGED <<clock, ctxErr, pc, err, child, status, helper, input, output, result>>

Watch_NoKill ==
  /\ watcher = "watching" /\ ctxErr # "none"
  /\ watcher' = "killed"
  /\ watchErr' = IF child = "reaped" THEN "none" ELSE "ctx"
  /\ UNCHANGED <<clock, ctxErr, pc, err, kid, input, output, result>>

\* The watcher kills the child.  A child that has ended is still there to be
\* signaled until it is reaped; after that there is nothing to report.
Watch ==
  /\ watcher = "watching" /\ ctxErr # "none"
  /\ watcher' = "killed"
  /\ signaled' = (child = "running")
  /\ watchErr' = IF child = "reaped" THEN "none" ELSE "ctx"
  /\ UNCHANGED <<clock, ctxErr, pc, err, child, status, helper, input, output, result>>

-----------------------------------------------------------------------------
(* Run's reading of the outcome, and the handler's: an error of Run is     *)
(* PROCESS_START_FAILED.                                                   *)

Answer(kind) ==
  /\ Goto("classify", "returned")
  /\ result' = [kind |-> kind, status |-> status]
  /\ UNCHANGED <<clock, ctxErr, err, kid, watch, input, output>>

\* A mutant: the error of cmd.Run is looked at before the deadline.
StartFailed_First == err \in {"start", "ctx"} /\ Answer("startFailed")

TimedOut    == ctxErr = "deadline" /\ Answer("timedOut")
Exited      == ctxErr # "deadline" /\ err \in {"none", "exit"} /\ Answer("exited")
StartFailed == ctxErr # "deadline" /\ err \in {"start", "ctx"} /\ Answer("startFailed")

-----------------------------------------------------------------------------
(* The child and the process it may leave behind, which keeps some of its  *)
(* pipes.  A child that closes a pipe of its own before it ends is left    *)
(* out.                                                                    *)

Write(s) ==
  /\ child = "running" \/ s \in held
  /\ written.stdout + written.stderr < MaxOutput /\ pipe[s] < PipeCapacity
  /\ written' = [written EXCEPT ![s] = @ + 1] /\ pipe' = [pipe EXCEPT ![s] = @ + 1]
  /\ UNCHANGED <<clock, ctxErr, pc, err, kid, watch, input, captured, result>>

Read ==
  /\ HasReader /\ fed > 0
  /\ fed' = fed - 1
  /\ UNCHANGED <<clock, ctxErr, pc, err, kid, watch, feeder, unfed, output, result>>

Fork ==
  /\ MayFork /\ child = "running" /\ ~forked
  /\ forked' = TRUE /\ held' \in SUBSET Ends
  /\ UNCHANGED <<clock, ctxErr, pc, err, child, status, signaled, watch,
                 input, output, result>>

Close(e) ==
  /\ e \in held
  /\ held' = held \ {e}
  /\ UNCHANGED <<clock, ctxErr, pc, err, child, status, signaled, forked, watch,
                 input, output, result>>

End(how) ==
  /\ child = "running"
  /\ child' = "zombie" /\ status' = how
  /\ UNCHANGED <<clock, ctxErr, pc, err, signaled, helper, watch, input, output, result>>

Exit == End("zero") \/ End("nonzero")

Die == signaled /\ End("killed")

-----------------------------------------------------------------------------

Handler ==
  \/ Begin \/ Refuse \/ StartRefused \/ StartFails \/ Start
  \/ Reap \/ Verdict \/ Drained
  \/ TimedOut \/ Exited \/ StartFailed

Stop == pc = "returned" /\ UNCHANGED vars

Next ==
  \/ Handler \/ Watch \/ Feed \/ \E s \in Outlets : Copy(s) \/ Write(s)
  \/ DeadlineFires \/ ClientCancels \/ Tick
  \/ Read \/ Fork \/ (\E e \in Ends : Close(e)) \/ Exit \/ Die
  \/ Stop

Spec == Init /\ [][Next]_vars

\* Goroutines that can run do run, time passes, and a killed child dies.  A
\* child or a helper need never read, write, exit or close anything.
FairSpec ==
  /\ Spec
  /\ WF_vars(Handler) /\ WF_vars(Watch)
  /\ WF_vars(Feed) /\ \A s \in Outlets : WF_vars(Copy(s))
  /\ WF_vars(Tick) /\ WF_vars(DeadlineFires) /\ WF_vars(Die)

-----------------------------------------------------------------------------
(* Properties.                                                             *)

\* Every variable holds values of the kind the code gives it, and no output
\* is lost or invented between the child and the buffers.
TypeOK ==
  /\ now \in 0..MaxTime
  /\ timeout \in -DurationLimit..(DurationLimit - 1) \cup {DefaultSeconds * Second}
  /\ ctxErr \in {"none", "deadline", "canceled"}
  /\ pc \in {"called", "start", "wait", "verdict", "drain", "classify", "returned"}
  /\ err \in {"none", "start", "ctx", "exit"}
  /\ child \in {"unborn", "running", "zombie", "reaped"}
  /\ status \in {"none", "zero", "nonzero", "killed"}
  /\ (child \in {"zombie", "reaped"}) <=> (status # "none")
  /\ {signaled, forked} \subseteq BOOLEAN /\ held \subseteq Ends
  /\ watcher \in {"off", "watching", "killed"} /\ watchErr \in {"none", "ctx"}
  /\ feeder \in {"off", "feeding"} /\ unfed \in Nat /\ fed \in 0..PipeCapacity
  /\ pipe \in [Outlets -> 0..PipeCapacity]
  /\ {written, captured} \subseteq [Outlets -> 0..MaxOutput]
  /\ \A s \in Outlets : written[s] = pipe[s] + captured[s]
  /\ result \in [kind : {"none", "refused", "timedOut", "exited", "startFailed"},
                 status : {"none", "zero", "nonzero", "killed"}]

\* An exit code is only reported with all the output there will ever be on
\* both pipes, of a child that was collected, and the status is its own.
ExitIsWhole ==
  result.kind = "exited" =>
    /\ child = "reaped" /\ result.status = status
    /\ captured = written /\ held \cap Outlets = {}

\* Whatever the call answers, it leaves neither its child, nor a zombie, nor
\* its watcher or its feeder behind.
NothingLeftBehind ==
  pc = "returned" => child \in {"unborn", "reaped"} /\ watcher = "off" /\ feeder = "off"

\* A child only dies of a kill, and a call only says that the time was over,
\* after the caller gave up or the timeout in force had passed; and a call
\* whose child was killed does not claim an exit it did not see.
KilledForCause ==
  /\ status = "killed" \/ result.kind = "timedOut" =>
       /\ ctxErr # "none"
       /\ ctxErr = "deadline" => now >= timeout
  /\ status = "killed" /\ pc = "returned" =>
       result.kind = "timedOut" \/ ctxErr = "canceled"

\* PROCESS_START_FAILED means that the command never ran, with one exception:
\* a command that ended with status 0 while its caller cancelled the call.
StartFailedHasCause ==
  result.kind = "startFailed" =>
    \/ child = "unborn"
    \/ status = "zero" /\ ctxErr = "canceled"

\* A child that hangs for ever does not hang its call: it is killed in time,
\* and the call returns, unless a process that the child left behind keeps
\* stdout or stderr open for ever, or keeps stdin open and does not read what
\* is still to be written to it.
CallReturns ==
  \/ <>(pc = "returned")
  \/ \E s \in Outlets : <>[](s \in held)
  \/ <>[]("stdin" \in held /\ unfed > 0)

(***************************************************************************)
(* What the documents say and the code does not do.                        *)
(***************************************************************************)

\* "spawn ... capture stdout/stderr/exit code, with a timeout" (README.md:39):
\* once the time is over, the call returns.
TimeoutBoundsCall == ctxErr = "deadline" ~> pc = "returned"
=============================================================================
