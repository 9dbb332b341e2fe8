----------------------------- MODULE BlobLease -----------------------------
(***************************************************************************)
(* What internal/blob promises: a handle is a lease on bytes that ends at  *)
(* a deadline or when it is released.  There is no table to clean up here: *)
(* a lease that was granted is remembered for ever, and whether it still   *)
(* runs is read off the clock.                                             *)
(***************************************************************************)
EXTENDS Naturals

CONSTANTS
  Callers,   \* the calls that use the store
  Handles,   \* everything a caller may pass for a handle
  Blobs,     \* contents
  TTL,       \* how long a lease runs
  MaxTime,   \* the clock stops there
  None       \* no lease; no reply

VARIABLES
  now,       \* the clock
  granted,   \* the lease of each handle, or None
  released,  \* handles given back
  reply      \* the answer each caller is looking at, or None

leaseVars == <<now, granted, released, reply>>

Lease(data, deadline) == [data |-> data, deadline |-> deadline]

Expired(lease) == now > lease.deadline

Granted(h) == granted[h] # None
Live(h)    == Granted(h) /\ h \notin released /\ ~Expired(granted[h])

Answer(c, op, h, result) ==
  reply' = [reply EXCEPT ![c] = [op |-> op, handle |-> h, result |-> result]]

LeaseInit ==
  /\ now = 0
  /\ granted = [h \in Handles |-> None]
  /\ released = {}
  /\ reply = [c \in Callers |-> None]

Tick ==
  /\ now < MaxTime
  /\ now' = now + 1
  /\ UNCHANGED <<granted, released, reply>>

Grant(c, h, b) ==
  /\ ~Granted(h)
  /\ granted' = [granted EXCEPT ![h] = Lease(b, now + TTL)]
  /\ Answer(c, "put", h, "ok")
  /\ UNCHANGED <<now, released>>

\* A live lease gives its bytes.  "expired" may be said of a lease that ran
\* out and was never released, "notfound" of everything that is not live.
Serve(c, h) ==
  /\ IF Live(h)
     THEN Answer(c, "get", h, granted[h].data)
     ELSE \/ Answer(c, "get", h, "notfound")
          \/ /\ Granted(h) /\ h \notin released
             /\ Answer(c, "get", h, "expired")
  /\ UNCHANGED <<now, granted, released>>

\* Only the release that ends a live lease is told so.
GiveBack(c, h) ==
  /\ released' = IF Granted(h) THEN released \cup {h} ELSE released
  /\ Answer(c, "release", h, IF Live(h) THEN "released" ELSE "absent")
  /\ UNCHANGED <<now, granted>>

Forget(c) ==
  /\ reply' = [reply EXCEPT ![c] = None]
  /\ UNCHANGED <<now, granted, released>>

LeaseNext ==
  \/ Tick
  \/ \E c \in Callers :
       \/ Forget(c)
       \/ \E h \in Handles : Serve(c, h) \/ GiveBack(c, h) \/ \E b \in Blobs : Grant(c, h, b)

LeaseSpec == LeaseInit /\ [][LeaseNext]_leaseVars
=============================================================================
