--------------------------- MODULE ProcessProofs ---------------------------
(***************************************************************************)
(* What exec answers is true, and it leaves nothing behind: for any        *)
(* timeouts, any amount of output and any order of the deadline, the       *)
(* cancellation, the exit, the kill and the draining of the pipes.         *)
(***************************************************************************)
EXTENDS Process, TLAPS

\* The handler's place tells how far child, watcher and error have got.
HandlerOK ==
  /\ pc = "called" => now = 0 /\ timeout = 0 /\ ctxErr # "deadline"
  /\ pc \in {"called", "start"} =>
       child = "unborn" /\ err = "none" /\ watcher = "off" /\ feeder = "off"
  /\ pc = "wait" =>
       child \in {"running", "zombie"} /\ err = "none" /\ watcher # "off"
  /\ pc = "verdict" =>
       /\ child = "reaped" /\ watcher # "off"
       /\ err = IF status = "zero" THEN "none" ELSE "exit"
  /\ pc \in {"drain", "classify", "returned"} => watcher = "off"
  /\ pc = "drain" => child = "reaped"
  /\ pc \in {"classify", "returned"} => child \in {"unborn", "reaped"} /\ feeder = "off"

\* The error of cmd.Run, from the verdict on.  Of a child that ran it is the
\* child's own, or the context's if the child ended with 0.
ErrorOK ==
  pc \in {"drain", "classify", "returned"} =>
    \/ result.kind = "refused" /\ child = "unborn" /\ err = "none"
    \/ child = "unborn" /\ err \in {"start", "ctx"}
    \/ child = "reaped" /\ status = "zero" /\ err \in {"none", "ctx"}
    \/ child = "reaped" /\ status # "zero" /\ err = "exit"

\* Nothing is killed, and nobody says so, before the context is done, and the
\* context is only done by time when the time is over.
CauseOK ==
  /\ watcher = "killed" \/ watchErr = "ctx" \/ err = "ctx" \/ signaled
       \/ status = "killed" => ctxErr # "none"
  /\ ctxErr = "deadline" => now >= timeout

\* Nobody writes before the child is born, or once the pipes have been drained.
OutputOK ==
  /\ child = "unborn" => held = {} /\ pipe = [s \in Outlets |-> 0]
  /\ pc \in {"classify", "returned"} => pipe = [s \in Outlets |-> 0] /\ held \cap Outlets = {}

\* What was answered, held against the state it is about.
ResultOK ==
  /\ pc # "returned" => result = NoResult
  /\ pc = "returned" =>
       /\ result.status = status
       /\ \/ result.kind = "refused" /\ child = "unborn"
          \/ result.kind = "timedOut" /\ ctxErr = "deadline"
          \/ result.kind = "exited" /\ err \in {"none", "exit"}
          \/ result.kind = "startFailed" /\ err = "start"
          \/ result.kind = "startFailed" /\ err = "ctx"
               /\ (child = "unborn" \/ ctxErr = "canceled")
       /\ status = "killed" =>
            result.kind = "timedOut" \/ ctxErr = "canceled"

IInv == TypeOK /\ HandlerOK /\ ErrorOK /\ CauseOK /\ OutputOK /\ ResultOK

-----------------------------------------------------------------------------

LEMMA ModIsBelow ==
  ASSUME NEW n \in Int, NEW m \in Nat \ {0}
  PROVE  n % m \in 0..(m - 1)
  OBVIOUS

\* A Duration holds what the multiplication leaves of a product.
LEMMA WrappedFits ==
  ASSUME NEW n \in Int
  PROVE  Wrapped(n) \in -DurationLimit..(DurationLimit - 1)
<1>1. DurationLimit \in Nat \ {0}
  BY ProcessAssumption
<1>2. (n + DurationLimit) % (2 * DurationLimit) \in 0..(2 * DurationLimit - 1)
  <2>1. n + DurationLimit \in Int /\ 2 * DurationLimit \in Nat \ {0}
    BY <1>1
  <2>. QED  BY <2>1, ModIsBelow
<1>. QED  BY <1>1, <1>2 DEF Wrapped

LEMMA IInvInit == Init => IInv
<1>1. /\ DurationLimit \in Nat \ {0} /\ PipeCapacity \in Nat
      /\ MaxOutput \in Nat /\ MaxTime \in Nat
  BY ProcessAssumption
<1>2. Init => {signaled, forked} \subseteq BOOLEAN
  BY DEF Init
<1>3. Init => TypeOK
  BY <1>1, <1>2 DEF Init, NoResult, TypeOK, Outlets
<1>. QED
  BY <1>3 DEF Init, NoResult, IInv, HandlerOK, ErrorOK, CauseOK, OutputOK, ResultOK

LEMMA IInvStep == IInv /\ [Next]_vars => IInv'
<1>. SUFFICES ASSUME IInv, [Next]_vars PROVE IInv'
  OBVIOUS
<1>. USE DEF IInv, Goto, clock, helper, kid, watch, input, output
<1>1. CASE Begin
  <2>1. PICK n \in Requested :
          timeout' = IF n > 0 THEN Wrapped(n * Second) ELSE DefaultSeconds * Second
    BY <1>1 DEF Begin
  <2>2. /\ timeout' \in Int
        /\ timeout' \in -DurationLimit..(DurationLimit - 1) \cup {DefaultSeconds * Second}
    <3>1. n * Second \in Int /\ DefaultSeconds * Second \in Int
      BY ProcessAssumption
    <3>. QED  BY <2>1, <3>1, WrappedFits, ProcessAssumption
  <2>3. TypeOK'
    BY <1>1, <2>2, ProcessAssumption DEF Begin, TypeOK
  <2>4. CauseOK'
    BY <1>1, <2>2 DEF Begin, TypeOK, HandlerOK, CauseOK
  <2>5. HandlerOK' /\ ErrorOK' /\ OutputOK' /\ ResultOK'
    BY <1>1 DEF Begin, HandlerOK, ErrorOK, OutputOK, ResultOK
  <2>. QED  BY <2>3, <2>4, <2>5
<1>2. CASE Refuse
  BY <1>2 DEF Refuse, TypeOK, HandlerOK, ErrorOK, CauseOK, OutputOK, ResultOK
<1>3. CASE StartRefused \/ StartFails \/ Start
  <2>1. TypeOK'
    BY <1>3 DEF StartRefused, StartFails, Start, TypeOK, HandlerOK
  <2>2. HandlerOK' /\ ErrorOK'
    BY <1>3 DEF StartRefused, StartFails, Start, HandlerOK, ErrorOK
  <2>3. CauseOK' /\ OutputOK' /\ ResultOK'
    BY <1>3 DEF StartRefused, StartFails, Start, HandlerOK, CauseOK, OutputOK, ResultOK
  <2>. QED  BY <2>1, <2>2, <2>3
<1>4. CASE Reap
  <2>1. TypeOK' /\ HandlerOK' /\ ErrorOK'
    BY <1>4 DEF Reap, TypeOK, HandlerOK, ErrorOK
  <2>2. CauseOK' /\ OutputOK' /\ ResultOK'
    BY <1>4 DEF Reap, CauseOK, OutputOK, ResultOK
  <2>. QED  BY <2>1, <2>2
<1>5. CASE Verdict
  <2>1. TypeOK' /\ HandlerOK' /\ ErrorOK'
    BY <1>5 DEF Verdict, TypeOK, HandlerOK, ErrorOK
  <2>2. CauseOK' /\ OutputOK' /\ ResultOK'
    BY <1>5 DEF Verdict, TypeOK, CauseOK, OutputOK, ResultOK
  <2>. QED  BY <2>1, <2>2
<1>6. CASE Drained
  BY <1>6 DEF Drained, TypeOK, HandlerOK, ErrorOK, CauseOK, OutputOK, ResultOK
<1>7. CASE TimedOut \/ Exited \/ StartFailed
  <2>1. TypeOK' /\ HandlerOK' /\ CauseOK' /\ OutputOK'
    BY <1>7 DEF TimedOut, Exited, StartFailed, Answer, TypeOK, HandlerOK, CauseOK, OutputOK
  <2>3. ErrorOK'
    BY <1>7 DEF TimedOut, Exited, StartFailed, Answer, ErrorOK, ResultOK, NoResult
  <2>2. ResultOK'
    BY <1>7 DEF TimedOut, Exited, StartFailed, Answer, TypeOK, ErrorOK, CauseOK, ResultOK,
                NoResult
  <2>. QED  BY <2>1, <2>2, <2>3
<1>8. CASE Watch
  BY <1>8 DEF Watch, TypeOK, HandlerOK, ErrorOK, CauseOK, OutputOK, ResultOK
<1>9. CASE \E s \in Outlets : Copy(s) \/ Write(s)
  <2>0. PICK s \in Outlets : Copy(s) \/ Write(s)
    BY <1>9
  <2>1. TypeOK'
    BY <2>0, ProcessAssumption DEF Copy, Write, TypeOK, Outlets
  <2>2. OutputOK'
    BY <2>0 DEF Copy, Write, TypeOK, HandlerOK, OutputOK
  <2>3. HandlerOK' /\ ErrorOK' /\ CauseOK' /\ ResultOK'
    BY <2>0 DEF Copy, Write, HandlerOK, ErrorOK, CauseOK, ResultOK
  <2>. QED  BY <2>1, <2>2, <2>3
<1>10. CASE DeadlineFires \/ ClientCancels \/ Tick
  <2>1. TypeOK' /\ HandlerOK' /\ ErrorOK' /\ OutputOK'
    BY <1>10, ProcessAssumption DEF DeadlineFires, ClientCancels, Tick, TypeOK,
                                   HandlerOK, ErrorOK, OutputOK
  <2>2. timeout \in Int /\ now \in Int
    BY ProcessAssumption DEF TypeOK
  <2>3. CauseOK'
    BY <1>10, <2>2 DEF DeadlineFires, ClientCancels, Tick, CauseOK
  <2>4. ResultOK'
    BY <1>10 DEF DeadlineFires, ClientCancels, Tick, CauseOK, ResultOK
  <2>. QED  BY <2>1, <2>3, <2>4
<1>11. CASE Feed \/ Read
  <2>1. TypeOK'
    BY <1>11, ProcessAssumption DEF Feed, Read, TypeOK
  <2>2. HandlerOK' /\ ErrorOK' /\ CauseOK' /\ OutputOK' /\ ResultOK'
    BY <1>11 DEF Feed, Read, HandlerOK, ErrorOK, CauseOK, OutputOK, ResultOK
  <2>. QED  BY <2>1, <2>2
<1>12. CASE Fork \/ \E e \in Ends : Close(e)
  <2>1. CASE Fork
    BY <2>1 DEF Fork, TypeOK, HandlerOK, ErrorOK, CauseOK, OutputOK, ResultOK
  <2>2. CASE \E e \in Ends : Close(e)
    BY <2>2 DEF Close, TypeOK, HandlerOK, ErrorOK, CauseOK, OutputOK, ResultOK
  <2>. QED  BY <1>12, <2>1, <2>2
<1>13. CASE Exit \/ Die
  <2>1. TypeOK' /\ HandlerOK' /\ ErrorOK'
    BY <1>13 DEF Exit, Die, End, TypeOK, HandlerOK, ErrorOK
  <2>2. CauseOK' /\ OutputOK' /\ ResultOK'
    BY <1>13 DEF Exit, Die, End, HandlerOK, CauseOK, OutputOK, ResultOK
  <2>. QED  BY <2>1, <2>2
<1>14. CASE UNCHANGED vars
  BY <1>14 DEF vars, TypeOK, HandlerOK, ErrorOK, CauseOK, OutputOK, ResultOK
<1>. QED
  BY <1>1, <1>2, <1>3, <1>4, <1>5, <1>6, <1>7, <1>8, <1>9, <1>10,
     <1>11, <1>12, <1>13, <1>14
     DEF Next, Handler, Stop

LEMMA IInvAlways == Spec => []IInv
  BY IInvInit, IInvStep, PTL DEF Spec

\* Every variable always has its type, a timeout that was multiplied fits its
\* Duration, and no chunk is lost or invented between the child and the buffers.
THEOREM TypesAlwaysOK == Spec => []TypeOK
  BY IInvAlways, PTL DEF IInv

\* An exit is only ever reported of a child that was collected, with its own
\* status and with all the output there will ever be.
THEOREM ExitIsAlwaysWhole == Spec => []ExitIsWhole
<1>1. IInv => ExitIsWhole
  BY DEF IInv, TypeOK, HandlerOK, ErrorOK, OutputOK, ResultOK, NoResult, ExitIsWhole
<1>. QED  BY <1>1, IInvAlways, PTL

\* A call that has returned has no child, no zombie, no watcher and no feeder
\* left.
THEOREM NothingIsLeftBehind == Spec => []NothingLeftBehind
<1>1. IInv => NothingLeftBehind
  BY DEF IInv, HandlerOK, NothingLeftBehind
<1>. QED  BY <1>1, IInvAlways, PTL

\* A child is only killed, and a time-out only reported, when the caller has
\* given up or the timeout in force is over; and the answer admits the kill.
THEOREM KillsHaveCause == Spec => []KilledForCause
<1>1. IInv => KilledForCause
  BY DEF IInv, CauseOK, ResultOK, NoResult, KilledForCause
<1>. QED  BY <1>1, IInvAlways, PTL

\* PROCESS_START_FAILED means that no command ran, except for one that ended
\* with status 0 while its caller cancelled the call.
THEOREM StartFailuresHaveCause == Spec => []StartFailedHasCause
<1>1. IInv => StartFailedHasCause
  BY DEF IInv, ErrorOK, ResultOK, NoResult, StartFailedHasCause
<1>. QED  BY <1>1, IInvAlways, PTL
=============================================================================
