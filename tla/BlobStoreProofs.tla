-------------------------- MODULE BlobStoreProofs --------------------------
(***************************************************************************)
(* The store keeps its leases, for any number of callers and handles, any  *)
(* TTL and any clock.                                                      *)
(***************************************************************************)
EXTENDS BlobStore, TLAPS

Busy == {"put", "insert", "get", "release"}

\* A put that has drawn its handle and not stored it yet.
Putting(c) == pc[c] \in {"lock", "put", "insert"} /\ arg[c].op = "put"

\* Every map has its keys, and every value its fields.
Shapes ==
  /\ DOMAIN entries = Handles /\ DOMAIN granted = Handles
  /\ DOMAIN arg = Callers /\ DOMAIN reply = Callers
  /\ \A h \in Handles :
       granted[h] \in [data : Blobs, deadline : Nat] \cup {None}
  /\ \A h \in Handles : entries[h] \in [data : Blobs, expiresAt : Nat] \cup {None}
  /\ \A c \in Callers : pc[c] \in {"lock"} \cup Busy =>
       /\ arg[c] = [op |-> arg[c].op, handle |-> arg[c].handle, data |-> arg[c].data]
       /\ arg[c].op \in {"put", "get", "release"}
       /\ arg[c].handle \in Handles
       /\ arg[c].op = "put" => arg[c].data \in Blobs
  /\ \A c \in Callers : pc[c] \in {"put", "get", "release"} => arg[c].op = pc[c]
  /\ \A c \in Callers : pc[c] = "insert" => arg[c].op = "put"

\* Only the caller that holds the mutex is inside an operation.
MutexOK == \A c \in Callers : pc[c] \in Busy => holder = c

\* A handle that was drawn is stored once at most, by the caller that drew it.
DrawnOK ==
  /\ \A h \in Handles : granted[h] # None => h \in drawn
  /\ released \subseteq {h \in Handles : granted[h] # None}
  /\ \A c \in Callers : Putting(c) =>
       arg[c].handle \in drawn /\ granted[arg[c].handle] = None
  /\ \A c, o \in Callers :
       Putting(c) /\ Putting(o) /\ c # o => arg[c].handle # arg[o].handle

IInv == TypeOK /\ Shapes /\ MutexOK /\ DrawnOK /\ TableMatchesLeases

LEMMA IInvInit == Init => IInv
  BY BlobAssumption DEF Init, IInv, TypeOK, Shapes, MutexOK, DrawnOK, Putting, Busy,
                        TableMatchesLeases, Present

LEMMA IInvStep == IInv /\ [Next]_vars => IInv'
<1>. SUFFICES ASSUME IInv, [Next]_vars PROVE IInv'
  OBVIOUS
<1>. USE BlobAssumption DEF IInv, Busy
<1>1. ASSUME NEW c \in Callers, CallPut(c) PROVE IInv'
  <2>1. TypeOK' /\ Shapes' /\ MutexOK' /\ TableMatchesLeases'
    BY <1>1 DEF CallPut, Arrive, store, TypeOK, Shapes, MutexOK, TableMatchesLeases, Entry
  <2>2. DrawnOK'
    BY <1>1 DEF CallPut, Arrive, store, TypeOK, Shapes, DrawnOK, Putting
  <2>. QED  BY <2>1, <2>2
<1>2. ASSUME NEW c \in Callers, CallGet(c) \/ CallRelease(c) PROVE IInv'
  <2>1. TypeOK' /\ Shapes' /\ MutexOK' /\ TableMatchesLeases'
    BY <1>2 DEF CallGet, CallRelease, Arrive, store, TypeOK, Shapes, MutexOK,
                TableMatchesLeases, Entry
  <2>2. DrawnOK'
    BY <1>2 DEF CallGet, CallRelease, Arrive, store, TypeOK, Shapes, DrawnOK, Putting
  <2>. QED  BY <2>1, <2>2
<1>3. ASSUME NEW c \in Callers, Lock(c) \/ Return(c) PROVE IInv'
  <2>1. TypeOK' /\ Shapes' /\ MutexOK' /\ TableMatchesLeases'
    BY <1>3 DEF Lock, Return, store, TypeOK, Shapes, MutexOK, TableMatchesLeases, Entry
  <2>2. DrawnOK'
    BY <1>3 DEF Lock, Return, store, TypeOK, Shapes, DrawnOK, Putting
  <2>. QED  BY <2>1, <2>2
<1>4. ASSUME NEW c \in Callers, Sweep(c) PROVE IInv'
  <2>1. TypeOK' /\ Shapes' /\ MutexOK'
    BY <1>4 DEF Sweep, TypeOK, Shapes, MutexOK, Present
  <2>2. TableMatchesLeases'
    BY <1>4 DEF Sweep, TypeOK, Shapes, TableMatchesLeases, Present, After, Entry
  <2>3. DrawnOK'
    BY <1>4 DEF Sweep, TypeOK, Shapes, DrawnOK, Putting
  <2>. QED  BY <2>1, <2>2, <2>3
<1>5. ASSUME NEW c \in Callers, Insert(c) PROVE IInv'
  <2>1. /\ arg[c].handle \in Handles /\ arg[c].data \in Blobs /\ Putting(c)
        /\ granted[arg[c].handle] = None /\ arg[c].handle \in drawn
        /\ arg[c].handle \notin released
    BY <1>5 DEF Insert, Shapes, DrawnOK, Putting
  <2>2. TypeOK'
    BY <1>5, <2>1 DEF Insert, Unlock, TypeOK, Shapes, Entry
  <2>3. Shapes'
    BY <1>5, <2>1 DEF Insert, Unlock, TypeOK, Shapes, Entry
  <2>4. MutexOK'
    BY <1>5 DEF Insert, Unlock, TypeOK, MutexOK
  <2>5. TableMatchesLeases'
    BY <1>5, <2>1 DEF Insert, Unlock, TypeOK, Shapes, TableMatchesLeases, Entry
  <2>6. DrawnOK'
    BY <1>5, <2>1 DEF Insert, Unlock, TypeOK, Shapes, DrawnOK, Putting
  <2>. QED  BY <2>2, <2>3, <2>4, <2>5, <2>6
<1>6. ASSUME NEW c \in Callers, GetFound(c) \/ GetMissing(c) PROVE IInv'
  <2>1. TypeOK' /\ Shapes' /\ MutexOK' /\ TableMatchesLeases'
    BY <1>6 DEF GetFound, GetMissing, Unlock, store, TypeOK, Shapes, MutexOK,
                TableMatchesLeases, Entry
  <2>2. DrawnOK'
    BY <1>6 DEF GetFound, GetMissing, Unlock, store, TypeOK, Shapes, DrawnOK, Putting
  <2>. QED  BY <2>1, <2>2
<1>7. ASSUME NEW c \in Callers, GetExpired(c) PROVE IInv'
  <2>1. TypeOK' /\ Shapes' /\ MutexOK' /\ TableMatchesLeases'
    BY <1>7 DEF GetExpired, Unlock, After, TypeOK, Shapes, MutexOK,
                TableMatchesLeases, Entry
  <2>2. DrawnOK'
    BY <1>7 DEF GetExpired, Unlock, TypeOK, Shapes, DrawnOK, Putting
  <2>. QED  BY <2>1, <2>2
<1>8. ASSUME NEW c \in Callers, Release(c) PROVE IInv'
  <2>1. TypeOK' /\ Shapes' /\ MutexOK' /\ TableMatchesLeases'
    BY <1>8 DEF Release, Unlock, TypeOK, Shapes, MutexOK, TableMatchesLeases, Entry
  <2>2. DrawnOK'
    BY <1>8 DEF Release, Unlock, TypeOK, Shapes, DrawnOK, Putting
  <2>. QED  BY <2>1, <2>2
<1>9. CASE Tick
  BY <1>9 DEF Tick, store, TypeOK, Shapes, MutexOK, DrawnOK, Putting,
              TableMatchesLeases, Entry
<1>10. CASE UNCHANGED vars
  BY <1>10 DEF vars, store, TypeOK, Shapes, MutexOK, DrawnOK, Putting,
               TableMatchesLeases
<1>. QED
  BY <1>1, <1>2, <1>3, <1>4, <1>5, <1>6, <1>7, <1>8, <1>9, <1>10 DEF Next, Work

LEMMA IInvAlways == Spec => []IInv
  BY IInvInit, IInvStep, PTL DEF Spec

\* Every variable always has its type, and no entry outlives now + TTL.
THEOREM TypesAlwaysOK == Spec => []TypeOK
  BY IInvAlways, PTL DEF IInv

\* The table holds every lease that still runs and nothing that was never
\* granted or was given back, whatever the callers and the clock do.
THEOREM TableAlwaysMatches == Spec => []TableMatchesLeases
  BY IInvAlways, PTL DEF IInv

-----------------------------------------------------------------------------
(* Refinement: an operation takes effect in the step that answers it; all  *)
(* other steps of the store are stutters of the leases.                    *)

LEMMA StepImplements ==
  IInv /\ [Next]_vars => [Leases!LeaseNext]_(Leases!leaseVars)
<1>. SUFFICES ASSUME IInv, [Next]_vars
              PROVE  [Leases!LeaseNext]_(Leases!leaseVars)
  OBVIOUS
<1>. USE BlobAssumption DEF IInv
<1>1. ASSUME NEW c \in Callers,
             CallPut(c) \/ CallGet(c) \/ CallRelease(c) \/ Lock(c) \/ Sweep(c)
      PROVE  UNCHANGED Leases!leaseVars
  BY <1>1 DEF CallPut, CallGet, CallRelease, Arrive, Lock, Sweep, store,
              Leases!leaseVars
<1>2. ASSUME NEW c \in Callers, Insert(c)
      PROVE  Leases!Grant(c, arg[c].handle, arg[c].data)
  BY <1>2 DEF Insert, Unlock, Shapes, DrawnOK, Putting, Busy, Leases!Grant,
              Leases!Granted, Leases!Lease, Leases!Answer
<1>3. ASSUME NEW c \in Callers, GetFound(c)
      PROVE  Leases!Serve(c, arg[c].handle)
  <2>1. /\ arg[c].handle \in Handles /\ arg[c].op = "get"
        /\ Leases!Live(arg[c].handle)
        /\ entries[arg[c].handle].data = granted[arg[c].handle].data
    BY <1>3 DEF GetFound, Shapes, Busy, After, TableMatchesLeases, Entry,
                Leases!Live, Leases!Granted, Leases!Expired
  <2>. QED
    BY <1>3, <2>1 DEF GetFound, Unlock, store, Leases!Serve, Leases!Answer
<1>4. ASSUME NEW c \in Callers, GetExpired(c)
      PROVE  Leases!Serve(c, arg[c].handle)
  <2>1. /\ arg[c].handle \in Handles /\ arg[c].op = "get"
        /\ Leases!Granted(arg[c].handle) /\ arg[c].handle \notin released
        /\ ~Leases!Live(arg[c].handle)
    BY <1>4 DEF GetExpired, Shapes, Busy, After, TableMatchesLeases, Entry,
                Leases!Live, Leases!Granted, Leases!Expired
  <2>. QED
    BY <1>4, <2>1 DEF GetExpired, Unlock, Leases!Serve, Leases!Answer
<1>5. ASSUME NEW c \in Callers, GetMissing(c)
      PROVE  Leases!Serve(c, arg[c].handle)
  <2>1. arg[c].handle \in Handles /\ arg[c].op = "get"
    BY <1>5 DEF GetMissing, Shapes, Busy
  <2>2. ~Leases!Live(arg[c].handle)
    BY <1>5, <2>1 DEF GetMissing, TableMatchesLeases, Leases!Live,
                      Leases!Granted, Leases!Expired
  <2>. QED
    BY <1>5, <2>1, <2>2 DEF GetMissing, Unlock, store, Leases!Serve, Leases!Answer
<1>6. ASSUME NEW c \in Callers, Release(c)
      PROVE  Leases!GiveBack(c, arg[c].handle)
  <2>1. arg[c].handle \in Handles /\ arg[c].op = "release"
    BY <1>6 DEF Release, Shapes, Busy
  <2>2. Leases!Live(arg[c].handle) <=>
          entries[arg[c].handle] # None /\ ~After(entries[arg[c].handle])
    BY <2>1 DEF TypeOK, Shapes, After, TableMatchesLeases, Entry, Leases!Live,
                Leases!Granted, Leases!Expired
  <2>. QED
    BY <1>6, <2>1, <2>2 DEF Release, Unlock, Leases!GiveBack, Leases!Granted,
                            Leases!Answer
<1>7. ASSUME NEW c \in Callers, Return(c)
      PROVE  Leases!Forget(c)
  BY <1>7 DEF Return, store, Leases!Forget
<1>8. Tick => Leases!Tick
  BY DEF Tick, store, Leases!Tick
<1>9. UNCHANGED vars => UNCHANGED Leases!leaseVars
  BY DEF vars, store, Leases!leaseVars
<1>10. ASSUME NEW c \in Callers, Work(c)
       PROVE  [Leases!LeaseNext]_(Leases!leaseVars)
  <2>1. Sweep(c) => UNCHANGED Leases!leaseVars
    BY <1>1
  <2>2. Insert(c) => Leases!LeaseNext
    <3>1. Insert(c) => arg[c].handle \in Handles /\ arg[c].data \in Blobs
      BY DEF Insert, Shapes, Busy
    <3>. QED  BY <1>2, <3>1 DEF Leases!LeaseNext
  <2>3. pc[c] \in {"get", "release"} => arg[c].handle \in Handles
    BY DEF Shapes, Busy
  <2>4. GetFound(c) \/ GetExpired(c) \/ GetMissing(c) => Leases!LeaseNext
    BY <1>3, <1>4, <1>5, <2>3 DEF Leases!LeaseNext, GetFound, GetExpired, GetMissing
  <2>5. Release(c) => Leases!LeaseNext
    BY <1>6, <2>3 DEF Leases!LeaseNext, Release
  <2>. QED  BY <1>10, <2>1, <2>2, <2>4, <2>5 DEF Work
<1>. QED
  BY <1>1, <1>7, <1>8, <1>9, <1>10 DEF Next, Leases!LeaseNext

\* The store implements the leases of BlobLease: although Put works in two
\* steps and reads the clock twice, and expired entries vanish at moments the
\* callers cannot see, every call is answered as if done at one instant.
THEOREM StoreImplementsLeases == Spec => ImplementsLeases
<1>1. Init => Leases!LeaseInit
  BY DEF Init, Leases!LeaseInit
<1>. QED
  BY <1>1, IInvAlways, StepImplements, PTL DEF Spec, ImplementsLeases, Leases!LeaseSpec
=============================================================================
