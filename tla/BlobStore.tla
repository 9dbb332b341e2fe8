----------------------------- MODULE BlobStore -----------------------------
(***************************************************************************)
(* internal/blob: the table behind the blob handles of read_file.  Calls   *)
(* come from concurrent tool handlers; each takes the store's mutex, works *)
(* on the map and reads the clock, which moves on its own meanwhile.  Put  *)
(* reads it twice: once to sweep out expired entries, once to stamp the    *)
(* new one.                                                                *)
(***************************************************************************)
EXTENDS Naturals

CONSTANTS Callers, Handles, Blobs, TTL, MaxTime, None

ASSUME BlobAssumption ==
  /\ TTL \in Nat /\ MaxTime \in Nat
  /\ None \notin [data : Blobs, expiresAt : Nat] \cup [data : Blobs, deadline : Nat]
  /\ None \notin Callers
  /\ {"notfound", "expired"} \cap Blobs = {}

VARIABLES
  now,       \* time.Now, monotonic
  entries,   \* Store.entries: a map, None where a handle is absent
  holder,    \* who holds Store.mu, or None
  pc,        \* where each caller is
  arg,       \* what it called with
  reply,     \* what it was answered, or None
  drawn,     \* handles randomHandle has returned: it never repeats one
  \* History, read by the properties alone:
  granted,   \* what was stored under each handle, and until when
  released   \* handles that Release found

store   == <<entries, granted, released>>
vars    == <<now, store, holder, pc, arg, reply, drawn>>

Entry(data, expiresAt) == [data |-> data, expiresAt |-> expiresAt]

\* now().After(expiresAt): an entry is still good at its last instant.
After(entry) == now > entry.expiresAt

Present == {h \in Handles : entries[h] # None}

Init ==
  /\ now = 0
  /\ entries = [h \in Handles |-> None]
  /\ holder = None
  /\ pc = [c \in Callers |-> "idle"]
  /\ arg = [c \in Callers |-> None]
  /\ reply = [c \in Callers |-> None]
  /\ drawn = {}
  /\ granted = [h \in Handles |-> None]
  /\ released = {}

-----------------------------------------------------------------------------
(* A caller arrives, waits for the mutex, and leaves with its reply.       *)

Arrive(c, op, h, data) ==
  /\ pc[c] = "idle"
  /\ pc' = [pc EXCEPT ![c] = "lock"]
  /\ arg' = [arg EXCEPT ![c] = [op |-> op, handle |-> h, data |-> data]]
  /\ UNCHANGED <<now, store, holder, reply>>

\* Put draws its handle before it takes the lock.
CallPut(c) ==
  \E h \in Handles \ drawn, b \in Blobs :
    Arrive(c, "put", h, b) /\ drawn' = drawn \cup {h}

CallGet(c) ==
  \E h \in Handles : Arrive(c, "get", h, None) /\ UNCHANGED drawn

CallRelease(c) ==
  \E h \in Handles : Arrive(c, "release", h, None) /\ UNCHANGED drawn

Lock(c) ==
  /\ pc[c] = "lock" /\ holder = None
  /\ holder' = c
  /\ pc' = [pc EXCEPT ![c] = arg[c].op]
  /\ UNCHANGED <<now, store, arg, reply, drawn>>

Unlock(c, result) ==
  /\ holder' = None
  /\ pc' = [pc EXCEPT ![c] = "done"]
  /\ reply' = [reply EXCEPT ![c] =
                 [op |-> arg[c].op, handle |-> arg[c].handle, result |-> result]]
  /\ UNCHANGED <<now, arg, drawn>>

Return(c) ==
  /\ pc[c] = "done"
  /\ pc' = [pc EXCEPT ![c] = "idle"]
  /\ reply' = [reply EXCEPT ![c] = None]
  /\ arg' = [arg EXCEPT ![c] = None]
  /\ UNCHANGED <<now, store, holder, drawn>>

-----------------------------------------------------------------------------
(* The operations, under the mutex.                                        *)

\* A mutant: entries go at their last instant, not after it.
Sweep_TooEarly(c) ==
  /\ pc[c] = "put"
  /\ entries' = [h \in Handles |-> IF h \in Present /\ now >= entries[h].expiresAt
                                   THEN None ELSE entries[h]]
  /\ pc' = [pc EXCEPT ![c] = "insert"]
  /\ UNCHANGED <<now, granted, released, holder, arg, reply, drawn>>

\* sweepLocked: every expired entry goes.
Sweep(c) ==
  /\ pc[c] = "put"
  /\ entries' = [h \in Handles |-> IF h \in Present /\ After(entries[h])
                                   THEN None ELSE entries[h]]
  /\ pc' = [pc EXCEPT ![c] = "insert"]
  /\ UNCHANGED <<now, granted, released, holder, arg, reply, drawn>>

\* Mutants: the entry expires at a moment the caller was not promised; the
\* mutex stays taken.
Insert_TwiceTTL(c) ==
  /\ pc[c] = "insert"
  /\ entries' = [entries EXCEPT ![arg[c].handle] = Entry(arg[c].data, now + TTL + TTL)]
  /\ granted' = [granted EXCEPT ![arg[c].handle] =
                   [data |-> arg[c].data, deadline |-> now + TTL]]
  /\ UNCHANGED released
  /\ Unlock(c, "ok")

Insert_KeepsLock(c) ==
  /\ pc[c] = "insert"
  /\ pc' = [pc EXCEPT ![c] = "done"]
  /\ UNCHANGED <<now, store, holder, arg, reply, drawn>>

Insert(c) ==
  /\ pc[c] = "insert"
  /\ entries' = [entries EXCEPT ![arg[c].handle] = Entry(arg[c].data, now + TTL)]
  /\ granted' = [granted EXCEPT ![arg[c].handle] =
                   [data |-> arg[c].data, deadline |-> now + TTL]]
  /\ UNCHANGED released
  /\ Unlock(c, "ok")

\* Get: an expired entry is removed as it is reported.
GetFound(c) ==
  LET e == entries[arg[c].handle]
  IN  /\ pc[c] = "get"
      /\ e # None /\ ~After(e)
      /\ UNCHANGED store
      /\ Unlock(c, e.data)

GetExpired(c) ==
  LET e == entries[arg[c].handle]
  IN  /\ pc[c] = "get"
      /\ e # None /\ After(e)
      /\ entries' = [entries EXCEPT ![arg[c].handle] = None]
      /\ UNCHANGED <<granted, released>>
      /\ Unlock(c, "expired")

GetMissing(c) ==
  /\ pc[c] = "get"
  /\ entries[arg[c].handle] = None
  /\ UNCHANGED store
  /\ Unlock(c, "notfound")

\* A mutant: an expired entry counts as released.
Release_AnyEntry(c) ==
  LET h == arg[c].handle
  IN  /\ pc[c] = "release"
      /\ entries' = [entries EXCEPT ![h] = None]
      /\ released' = IF granted[h] # None THEN released \cup {h} ELSE released
      /\ UNCHANGED granted
      /\ Unlock(c, IF entries[h] # None THEN "released" ELSE "absent")

\* Release: whatever was there goes; "released" only if it was still good.
Release(c) ==
  LET h == arg[c].handle
  IN  /\ pc[c] = "release"
      /\ entries' = [entries EXCEPT ![h] = None]
      /\ released' = IF granted[h] # None THEN released \cup {h} ELSE released
      /\ UNCHANGED granted
      /\ Unlock(c, IF entries[h] # None /\ ~After(entries[h])
                   THEN "released" ELSE "absent")

Tick ==
  /\ now < MaxTime
  /\ now' = now + 1
  /\ UNCHANGED <<store, holder, pc, arg, reply, drawn>>

Work(c) ==
  \/ Sweep(c) \/ Insert(c)
  \/ GetFound(c) \/ GetExpired(c) \/ GetMissing(c)
  \/ Release(c)

Next ==
  \/ Tick
  \/ \E c \in Callers :
       CallPut(c) \/ CallGet(c) \/ CallRelease(c) \/ Lock(c) \/ Work(c) \/ Return(c)

Spec == Init /\ [][Next]_vars

\* sync.Mutex hands itself to a waiter that has waited long (starvation
\* mode), so Lock is strongly fair; a goroutine that holds it does run.
FairSpec == Spec /\ \A c \in Callers : WF_vars(Work(c)) /\ SF_vars(Lock(c))

-----------------------------------------------------------------------------
(* Properties.                                                             *)

\* Every variable holds values of the kind the code gives it, and an entry
\* never outlives the longest lease that can be promised.
TypeOK ==
  /\ now \in 0..MaxTime
  /\ \A h \in Handles :
       entries[h] # None =>
         entries[h].data \in Blobs /\ entries[h].expiresAt \in TTL..(now + TTL)
  /\ holder \in Callers \cup {None}
  /\ pc \in [Callers -> {"idle", "lock", "put", "insert", "get", "release", "done"}]
  /\ drawn \subseteq Handles
  /\ released \subseteq Handles

\* The table agrees with the promises: it holds every lease that still runs,
\* with its bytes and its deadline, and nothing that was never promised or
\* was given back; only a lease that ran out may be missing.
TableMatchesLeases ==
  \A h \in Handles :
    /\ entries[h] # None =>
         /\ granted[h] # None /\ h \notin released
         /\ entries[h] = Entry(granted[h].data, granted[h].deadline)
    /\ granted[h] # None /\ h \notin released /\ entries[h] = None
         => now > granted[h].deadline

\* The store implements the leases: with the table and the mutex left out,
\* each operation answers as if it were done at one instant.
Leases == INSTANCE BlobLease WITH now <- now, granted <- granted, released <- released, reply <- reply
ImplementsLeases == Leases!LeaseSpec

\* Every call comes back: no path through an operation keeps the mutex.
CallsReturn == \A c \in Callers : pc[c] = "lock" ~> pc[c] = "done"
=============================================================================
