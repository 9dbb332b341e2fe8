-------------------------- MODULE FileToolsProofs --------------------------
(***************************************************************************)
(* What FileTools.tla promises, for every number of calls, every tree of   *)
(* names and inodes, and all contents and requests.                        *)
(***************************************************************************)
EXTENDS FileTools, SequenceTheorems, TLAPS

Files == Inodes \ Dirs

Stages == {"idle", "prepare", "statSrc", "statDst", "openIn", "openOut", "transfer",
           "unlink", "done"}

\* Where a call can be and what it has open there.
StageOK(c) ==
  /\ IF pc[c] = "idle" THEN req[c] = NoRequest ELSE req[c] \in Requests
  /\ pc[c] \in {"statSrc", "statDst"} => req[c].tool = "copy"
  /\ pc[c] = "openIn"   => req[c].tool \in {"read", "copy"}
  /\ pc[c] = "openOut"  => req[c].tool \in {"write", "copy"}
  /\ pc[c] = "transfer" => req[c].tool # "rm"
  /\ pc[c] = "unlink"   => req[c].tool = "rm"
  /\ in[c] # NoInode => pc[c] \in {"openOut", "transfer", "done"}
  /\ out[c] # NoInode => pc[c] \in {"transfer", "done"} /\ req[c].tool \in {"write", "copy"}
  /\ pc[c] = "openOut" /\ req[c].tool = "copy" => in[c] \in Files
  /\ pc[c] = "transfer" \/ (pc[c] = "done" /\ result[c] # "failed") =>
       /\ req[c].tool \in {"read", "copy"}  => in[c] \in Files
       /\ req[c].tool \in {"write", "copy"} => out[c] \in Files
  /\ pc[c] \notin {"transfer", "done"} => pos[c] = 0 /\ got[c] = << >>

Types ==
  /\ link \in [Names -> Inodes \cup {NoInode}]
  /\ content \in [Inodes -> Seq(Chunks)]
  /\ pc \in [Calls -> Stages]
  /\ DOMAIN req = Calls
  /\ in \in [Calls -> Files \cup {NoInode}]
  /\ out \in [Calls -> Files \cup {NoInode}]
  /\ pos \in [Calls -> Nat]
  /\ got \in [Calls -> Seq(Chunks)]
  /\ result \in [Calls -> {"none", "failed", "ok", "text", "base64", "blob"}]
  /\ DOMAIN absent = Calls /\ DOMAIN quiet = Calls

TypeInv == Types /\ \A c \in Calls : StageOK(c)

-----------------------------------------------------------------------------
(* What is written.                                                        *)

LEMMA WriteAtIsSeq ==
  ASSUME NEW old \in Seq(Chunks), NEW data \in Seq(Chunks), NEW offset \in Nat
  PROVE  WriteAt(old, offset, data) \in Seq(Chunks)
<1>. DEFINE size == IF Len(old) > offset + Len(data) THEN Len(old) ELSE offset + Len(data)
            byte(k) == CASE k > offset /\ k <= offset + Len(data) -> data[k - offset]
                         [] k <= Len(old) /\ ~(k > offset /\ k <= offset + Len(data)) -> old[k]
                         [] OTHER -> Hole
<1>1. /\ Len(old) \in Nat /\ Len(data) \in Nat
      /\ \A k \in 1..Len(old) : old[k] \in Chunks
      /\ \A k \in 1..Len(data) : data[k] \in Chunks
  BY ElementOfSeq, LenProperties
<1>2. size \in Nat
  BY <1>1
<1>3. \A k \in 1..size : byte(k) \in Chunks
  BY <1>1, FileAssumption
<1>. HIDE DEF size, byte
<1>4. [k \in 1..size |-> byte(k)] \in Seq(Chunks)
  BY <1>2, <1>3, SeqDef
<1>. QED  BY <1>4 DEF WriteAt, size, byte

\* At the end, a write appends.
LEMMA WriteAtEnd ==
  ASSUME NEW old \in Seq(Chunks), NEW data \in Seq(Chunks)
  PROVE  WriteAt(old, Len(old), data) = old \o data
<1>1. Len(old) \in Nat /\ Len(data) \in Nat
  BY LenProperties
<1>. DEFINE w == WriteAt(old, Len(old), data)
<1>2. w = [k \in 1..(Len(old) + Len(data)) |->
             IF k <= Len(old) THEN old[k] ELSE data[k - Len(old)]]
  BY <1>1 DEF WriteAt
<1>3. old \o data = [k \in 1..(Len(old) + Len(data)) |->
                       IF k <= Len(old) THEN old[k] ELSE data[k - Len(old)]]
  <2>1. /\ old \o data \in Seq(Chunks) /\ Len(old \o data) = Len(old) + Len(data)
        /\ \A k \in 1..(Len(old) + Len(data)) :
             (old \o data)[k] = IF k <= Len(old) THEN old[k] ELSE data[k - Len(old)]
    BY ConcatProperties
  <2>. DEFINE both == old \o data
  <2>. HIDE DEF both
  <2>2. DOMAIN both = 1..(Len(old) + Len(data)) /\ both = [k \in DOMAIN both |-> both[k]]
    BY <1>1, <2>1, LenProperties DEF both
  <2>3. both = [k \in 1..(Len(old) + Len(data)) |->
                  IF k <= Len(old) THEN old[k] ELSE data[k - Len(old)]]
    BY <2>1, <2>2 DEF both
  <2>. QED  BY <2>3 DEF both
<1>. QED  BY <1>2, <1>3

\* Over an empty file, only the data remain.
LEMMA WriteAtStart ==
  ASSUME NEW data \in Seq(Chunks)
  PROVE  WriteAt(<< >>, 0, data) = data
<1>1. << >> \in Seq(Chunks) /\ Len(<< >>) = 0
  OBVIOUS
<1>2. WriteAt(<< >>, Len(<< >>), data) = << >> \o data
  BY <1>1, WriteAtEnd
<1>3. << >> \o data = data
  BY ConcatEmptySeq
<1>. QED  BY <1>1, <1>2, <1>3

-----------------------------------------------------------------------------
(* Types.                                                                  *)

\* A call keeps its hands off the locals of the others.
Frame(c) ==
  \A o \in Calls \ {c} :
    UNCHANGED <<pc[o], req[o], in[o], out[o], pos[o], got[o], result[o]>>

LEMMA StepFrame ==
  ASSUME TypeInv, NEW c \in Calls, Begin(c) \/ Step(c)
  PROVE  Frame(c)
<1>. USE DEF TypeInv, Types, Frame, Goto, Finish, locals
<1>1. CASE Begin(c) \/ Prepare(c) \/ Refuse(c)
  BY <1>1 DEF Begin, Prepare, Refuse
<1>2. CASE StatSrc(c) \/ SrcFails(c) \/ StatDst(c) \/ DstExists(c)
  BY <1>2 DEF StatSrc, SrcFails, StatDst, DstExists
<1>3. CASE OpenIn(c) \/ OpenOutNew(c) \/ OpenOutOld(c) \/ OpenOutFails(c)
  BY <1>3 DEF OpenIn, OpenOutNew, OpenOutOld, OpenOutFails
<1>4. CASE ReadChunk(c) \/ ReadEnd(c) \/ Write(c) \/ WriteFails(c)
  BY <1>4 DEF ReadChunk, ReadEnd, Write, WriteFails
<1>5. CASE CopyChunk(c) \/ CopyEnd(c) \/ CopyFails(c) \/ Unlink(c)
  BY <1>5 DEF CopyChunk, CopyEnd, CopyFails, Unlink
<1>. QED
  BY <1>1, <1>2, <1>3, <1>4, <1>5 DEF Step

LEMMA StoreTypes ==
  ASSUME TypeInv, NEW c \in Calls, NEW i \in Inodes, NEW chunks \in Seq(Chunks), Store(c, i, chunks)
  PROVE  content' \in [Inodes -> Seq(Chunks)] /\ DOMAIN quiet' = Calls
  BY DEF TypeInv, Types, Store

LEMMA TypeInvInit == Init => TypeInv
<1>. SUFFICES ASSUME Init PROVE TypeInv
  OBVIOUS
<1>1. << >> \in Seq(Chunks)
  OBVIOUS
<1>. QED  BY <1>1, FileAssumption DEF Init, TypeInv, Types, StageOK, Stages, NoRequest

LEMMA TypeInvStep == TypeInv /\ [Next]_vars => TypeInv'
<1>. SUFFICES ASSUME TypeInv, [Next]_vars PROVE TypeInv'
  OBVIOUS
<1>0. ASSUME NEW c \in Calls, Frame(c), StageOK(c)' PROVE \A o \in Calls : StageOK(o)'
  <2>1. ASSUME NEW o \in Calls \ {c} PROVE StageOK(o)'
    BY <1>0, <2>1 DEF Frame, TypeInv, Types, StageOK
  <2>. QED  BY <1>0, <2>1
<1>1. ASSUME NEW c \in Calls, Begin(c) PROVE TypeInv'
  <2>1. StageOK(c)'
    BY ZenonT(60), <1>1 DEF Begin, Goto, TypeInv, Types, StageOK
  <2>2. Types'
    BY <1>1 DEF Begin, Goto, Stages, locals, history, TypeInv, Types
  <2>. QED  BY <1>0, <1>1, <2>1, <2>2, StepFrame DEF Step, TypeInv
<1>2. ASSUME NEW c \in Calls, Prepare(c) PROVE TypeInv'
  <2>1. First[req[c].tool] = CASE req[c].tool = "read"  -> "openIn"
                               [] req[c].tool = "write" -> "openOut"
                               [] req[c].tool = "copy"  -> "statSrc"
                               [] req[c].tool = "rm"    -> "unlink"
    BY <1>2, RequestAssumption DEF Prepare, Goto, First, TypeInv, Types, StageOK
  <2>2. req[c].tool \in {"read", "write", "copy", "rm"}
    BY <1>2, RequestAssumption DEF Prepare, Goto, TypeInv, Types, StageOK
  <2>3. StageOK(c)'
    BY <1>2, <2>1, <2>2 DEF Prepare, Goto, TypeInv, Types, StageOK, locals
  <2>4. Types'
    BY <1>2, <2>1, <2>2 DEF Prepare, Goto, Stages, locals, history, TypeInv, Types
  <2>. QED  BY <1>0, <1>2, <2>3, <2>4, StepFrame DEF Step, TypeInv
<1>3. ASSUME NEW c \in Calls, Refuse(c) \/ SrcFails(c) \/ DstExists(c) \/ OpenOutFails(c) \/ CopyFails(c)
      PROVE  TypeInv'
  <2>1. StageOK(c)'
    BY <1>3 DEF Refuse, SrcFails, DstExists, OpenOutFails, CopyFails, Finish, Goto, TypeInv, Types, StageOK
  <2>2. Types'
    <3>1. CASE Refuse(c)
      BY <3>1 DEF Refuse, Finish, Goto, Stages, history, locals, TypeInv, Types
    <3>2. CASE SrcFails(c)
      BY <3>2 DEF SrcFails, Finish, Goto, Stages, history, locals, TypeInv, Types
    <3>3. CASE DstExists(c)
      BY <3>3 DEF DstExists, Finish, Goto, Stages, history, locals, TypeInv, Types
    <3>4. CASE OpenOutFails(c)
      BY <3>4 DEF OpenOutFails, Finish, Goto, Stages, history, locals, TypeInv, Types
    <3>5. CASE CopyFails(c)
      BY <3>5 DEF CopyFails, Finish, Goto, Stages, history, locals, TypeInv, Types
    <3>. QED  BY <1>3, <3>1, <3>2, <3>3, <3>4, <3>5
  <2>. QED  BY <1>0, <1>3, <2>1, <2>2, StepFrame DEF Step, TypeInv
<1>4. ASSUME NEW c \in Calls, StatSrc(c) \/ StatDst(c) PROVE TypeInv'
  <2>1. StageOK(c)'
    BY <1>4 DEF StatSrc, StatDst, Goto, TypeInv, Types, StageOK, locals
  <2>2. Types'
    BY <1>4 DEF StatSrc, StatDst, Goto, Stages, locals, history, TypeInv, Types
  <2>. QED  BY <1>0, <1>4, <2>1, <2>2, StepFrame DEF Step, TypeInv
<1>5. ASSUME NEW c \in Calls, OpenIn(c) PROVE TypeInv'
  <2>1. link[req[c].src] \in Files
    BY <1>5, RequestAssumption DEF OpenIn, Goto, NotAFile, Exists, Files, TypeInv, Types, StageOK
  <2>2. StageOK(c)'
    BY <1>5, <2>1 DEF OpenIn, Goto, TypeInv, Types, StageOK
  <2>3. Types'
    BY <1>5, <2>1 DEF OpenIn, Goto, Stages, history, locals, TypeInv, Types
  <2>. QED  BY <1>0, <1>5, <2>2, <2>3, StepFrame DEF Step, TypeInv
<1>6. ASSUME NEW c \in Calls, OpenOutNew(c) PROVE TypeInv'
  <2>1. PICK i \in Unused : /\ link' = [link EXCEPT ![req[c].dst] = i]
                            /\ out' = [out EXCEPT ![c] = i]
                            /\ Store(c, i, << >>)
    BY <1>6 DEF OpenOutNew
  <2>2. i \in Files /\ i \in Inodes
    BY DEF Unused, Files
  <2>3. content' \in [Inodes -> Seq(Chunks)] /\ DOMAIN quiet' = Calls
    <3>1. << >> \in Seq(Chunks)
      OBVIOUS
    <3>. QED  BY <2>1, <2>2, <3>1, StoreTypes
  <2>4. StageOK(c)'
    BY <1>6, <2>1, <2>2 DEF OpenOutNew, Goto, TypeInv, Types, StageOK
  <2>5. Types'
    BY <1>6, <2>1, <2>2, <2>3 DEF OpenOutNew, Goto, Stages, locals, history, TypeInv, Types
  <2>. QED  BY <1>0, <1>6, <2>4, <2>5, StepFrame DEF Step, TypeInv
<1>7. ASSUME NEW c \in Calls, OpenOutOld(c) PROVE TypeInv'
  <2>. DEFINE i == link[req[c].dst]
  <2>1. i \in Files /\ i \in Inodes
    <3>1. req[c].dst \in Names
      BY <1>7, RequestAssumption DEF OpenOutOld, Goto, TypeInv, StageOK
    <3>. QED  BY <1>7, <3>1 DEF OpenOutOld, NotAFile, Exists, Files, TypeInv, Types
  <2>2. content' \in [Inodes -> Seq(Chunks)] /\ DOMAIN quiet' = Calls
    <3>1. << >> \in Seq(Chunks)
      OBVIOUS
    <3>. QED  BY <1>7, <2>1, <3>1, StoreTypes DEF OpenOutOld, TypeInv, Types
  <2>3. StageOK(c)'
    BY <1>7, <2>1 DEF OpenOutOld, Goto, TypeInv, Types, StageOK
  <2>4. Types'
    BY <1>7, <2>1, <2>2 DEF OpenOutOld, Goto, Stages, locals, history, TypeInv, Types
  <2>. QED  BY <1>0, <1>7, <2>3, <2>4, StepFrame DEF Step, TypeInv
<1>8. ASSUME NEW c \in Calls, ReadChunk(c) PROVE TypeInv'
  <2>1. in[c] \in Inodes
    BY <1>8 DEF ReadChunk, TypeInv, Types, StageOK, Files
  <2>2. content[in[c]][pos[c] + 1] \in Chunks
    <3>1. content[in[c]] \in Seq(Chunks) /\ pos[c] \in Nat
      BY <2>1 DEF TypeInv, Types
    <3>2. pos[c] + 1 \in 1..Len(content[in[c]])
      BY <1>8, <3>1, LenProperties DEF ReadChunk, AtEnd
    <3>. QED  BY <3>1, <3>2, ElementOfSeq
  <2>3. got' \in [Calls -> Seq(Chunks)]
    BY <1>8, <2>2, AppendProperties DEF ReadChunk, TypeInv, Types
  <2>4. StageOK(c)'
    BY <1>8 DEF ReadChunk, TypeInv, Types, StageOK
  <2>5. Types'
    BY <1>8, <2>3 DEF ReadChunk, history, locals, TypeInv, Types
  <2>. QED  BY <1>0, <1>8, <2>4, <2>5, StepFrame DEF Step, TypeInv
<1>9. ASSUME NEW c \in Calls, ReadEnd(c) \/ CopyEnd(c) PROVE TypeInv'
  <2>1. Encoded(req[c].encoding, got[c]) \in {"failed", "text", "base64", "blob"}
    BY DEF Encoded
  <2>2. StageOK(c)'
    BY <1>9, <2>1 DEF ReadEnd, CopyEnd, Finish, Goto, TypeInv, Types, StageOK
  <2>3. Types'
    <3>1. CASE ReadEnd(c)
      BY <2>1, <3>1 DEF ReadEnd, Finish, Goto, Stages, history, TypeInv, Types
    <3>2. CASE CopyEnd(c)
      BY <3>2 DEF CopyEnd, Finish, Goto, Stages, history, TypeInv, Types
    <3>. QED  BY <1>9, <3>1, <3>2
  <2>. QED  BY <1>0, <1>9, <2>2, <2>3, StepFrame DEF Step, TypeInv
<1>10. ASSUME NEW c \in Calls, Write(c) \/ WriteFails(c) \/ CopyChunk(c) PROVE TypeInv'
  <2>1. out[c] \in Inodes /\ content[out[c]] \in Seq(Chunks) /\ Len(content[out[c]]) \in Nat
    BY <1>10, RequestAssumption, LenProperties
       DEF Write, WriteFails, CopyChunk, Finish, Goto, TypeInv, Types, StageOK, Files
  <2>2. \E chunks \in Seq(Chunks) : Store(c, out[c], chunks)
    <3>1. req[c].data \in Seq(Chunks)
      BY <1>10, RequestAssumption
         DEF Write, WriteFails, CopyChunk, Finish, Goto, TypeInv, Types, StageOK
    <3>2. CASE Write(c)
      BY <2>1, <3>1, <3>2, WriteAtIsSeq DEF Write
    <3>3. CASE WriteFails(c)
      <4>1. ASSUME NEW n \in 0..(Len(req[c].data) - 1) PROVE SubSeq(req[c].data, 1, n) \in Seq(Chunks)
        BY <3>1, LenProperties
      <4>. QED  BY <2>1, <3>3, <4>1, WriteAtIsSeq DEF WriteFails
    <3>4. CASE CopyChunk(c)
      <4>1. content[in[c]] \in Seq(Chunks) /\ pos[c] \in Nat
        BY <3>4 DEF CopyChunk, TypeInv, Types, StageOK, Files
      <4>2. pos[c] + 1 \in 1..Len(content[in[c]])
        BY <3>4, <4>1, LenProperties DEF CopyChunk, AtEnd
      <4>3. <<content[in[c]][pos[c] + 1]>> \in Seq(Chunks)
        BY <4>1, <4>2, ElementOfSeq
      <4>. QED  BY <2>1, <3>4, <4>1, <4>3, WriteAtIsSeq DEF CopyChunk
    <3>. QED  BY <1>10, <3>2, <3>3, <3>4
  <2>3. content' \in [Inodes -> Seq(Chunks)] /\ DOMAIN quiet' = Calls
    BY <2>1, <2>2, StoreTypes
  <2>4. StageOK(c)'
    BY <1>10 DEF Write, WriteFails, CopyChunk, Finish, Goto, TypeInv, Types, StageOK
  <2>5. Types'
    <3>1. CASE Write(c) \/ WriteFails(c)
      BY ZenonT(60), <2>3, <3>1 DEF Write, WriteFails, Finish, Goto, Stages, TypeInv, Types
    <3>2. CASE CopyChunk(c)
      BY <2>3, <3>2 DEF CopyChunk, TypeInv, Types
    <3>. QED  BY <1>10, <3>1, <3>2
  <2>. QED  BY <1>0, <1>10, <2>4, <2>5, StepFrame DEF Step, TypeInv
<1>11. ASSUME NEW c \in Calls, Unlink(c) PROVE TypeInv'
  <2>1. StageOK(c)'
    BY <1>11 DEF Unlink, Finish, Goto, TypeInv, Types, StageOK
  <2>2. Types'
    BY <1>11 DEF Unlink, Finish, Goto, Stages, locals, history, TypeInv, Types
  <2>. QED  BY <1>0, <1>11, <2>1, <2>2, StepFrame DEF Step, TypeInv
<1>12. CASE UNCHANGED vars
  BY <1>12 DEF TypeInv, Types, StageOK, vars, locals, history
<1>. QED
  BY <1>1, <1>2, <1>3, <1>4, <1>5, <1>6, <1>7, <1>8, <1>9, <1>10, <1>11, <1>12
     DEF Next, Step, AllDone

\* Every variable always has its type: no handler ever has a directory open,
\* and every file holds chunks, holes included.
THEOREM TypesAlwaysOK == Spec => []TypeOK
<1>1. TypeInv => TypeOK
  BY DEF TypeInv, Types, StageOK, TypeOK, Stages, Files
<1>2. Spec => []TypeInv
  BY TypeInvInit, TypeInvStep, PTL DEF Spec
<1>. QED  BY <1>1, <1>2, PTL

LEMMA TypeInvAlways == Spec => []TypeInv
  BY TypeInvInit, TypeInvStep, PTL DEF Spec

-----------------------------------------------------------------------------
(* copy_file without overwrite.                                            *)

\* Whoever has begun has seen its destination free if it is free now; past its
\* own look at it, the copy has seen it free.
FreeWasSeen(c) ==
  /\ pc[c] # "idle" /\ req[c].dst \in Names /\ ~Exists(req[c].dst) => absent[c]
  /\ /\ req[c].tool = "copy" /\ ~req[c].overwrite
     /\ pc[c] \in {"openIn", "openOut"} \/ out[c] # NoInode
     => absent[c]

FreeInv == \A c \in Calls : FreeWasSeen(c)

LEMMA FreeInvStep == TypeInv /\ FreeInv /\ [Next]_vars => FreeInv'
<1>. SUFFICES ASSUME TypeInv, FreeInv, [Next]_vars PROVE FreeInv'
  OBVIOUS
<1>. USE DEF FreeInv
<1>1. ASSUME NEW c \in Calls, Frame(c), UNCHANGED <<link, absent>>, FreeWasSeen(c)' PROVE FreeInv'
  <2>1. ASSUME NEW o \in Calls \ {c} PROVE FreeWasSeen(o)'
    BY <1>1, <2>1 DEF Frame, FreeWasSeen, Exists
  <2>. QED  BY <1>1, <2>1
<1>2. ASSUME NEW c \in Calls, Begin(c) PROVE FreeInv'
  <2>1. FreeWasSeen(c)'
    BY ZenonT(60), <1>2 DEF Begin, Goto, FreeWasSeen, Exists, TypeInv, Types, StageOK
  <2>2. ASSUME NEW o \in Calls \ {c} PROVE FreeWasSeen(o)'
    <3>1. UNCHANGED <<pc[o], req[o], out[o], link>>
      BY <1>2, <2>2, StepFrame DEF Begin, Frame
    <3>2. absent'[o] = absent[o]
      BY <1>2, <2>2 DEF Begin, TypeInv, Types
    <3>. QED  BY <3>1, <3>2 DEF FreeWasSeen, Exists
  <2>. QED  BY <2>1, <2>2
<1>3. ASSUME NEW c \in Calls,
             \/ Prepare(c) \/ Refuse(c) \/ StatSrc(c) \/ SrcFails(c) \/ DstExists(c)
             \/ OpenIn(c) \/ OpenOutFails(c)
      PROVE  FreeInv'
  <2>1. UNCHANGED <<link, absent>> /\ Frame(c)
    BY <1>3, StepFrame
       DEF Step, Prepare, Refuse, StatSrc, SrcFails, DstExists, OpenIn, OpenOutFails, history
  <2>2. pc[c] = "prepare" => /\ req[c].tool \in {"read", "write", "copy", "rm"}
                             /\ out[c] = NoInode
    BY RequestAssumption DEF TypeInv, StageOK
  <2>3. FreeWasSeen(c)'
    <3>1. CASE Prepare(c)
      BY <2>1, <2>2, <3>1
         DEF Prepare, First, Goto, locals, FreeWasSeen, Exists, TypeInv, Types, StageOK
    <3>2. CASE Refuse(c) \/ StatSrc(c) \/ SrcFails(c) \/ DstExists(c) \/ OpenIn(c) \/ OpenOutFails(c)
      BY <2>1, <3>2
         DEF Refuse, StatSrc, SrcFails, DstExists, OpenIn, OpenOutFails, Finish, Goto,
             locals, FreeWasSeen, Exists, TypeInv, Types, StageOK
    <3>. QED  BY <1>3, <3>1, <3>2
  <2>. QED  BY <1>1, <2>1, <2>3
<1>4. ASSUME NEW c \in Calls, StatDst(c) PROVE FreeInv'
  <2>1. UNCHANGED <<link, absent>> /\ Frame(c)
    BY <1>4, StepFrame DEF Step, StatDst, history
  <2>2. absent[c]
    BY <1>4, RequestAssumption DEF StatDst, Goto, FreeWasSeen, TypeInv, StageOK
  <2>3. FreeWasSeen(c)'
    BY <2>1, <2>2 DEF FreeWasSeen
  <2>. QED  BY <1>1, <2>1, <2>3
<1>5. ASSUME NEW c \in Calls,
             \/ ReadChunk(c) \/ ReadEnd(c) \/ Write(c) \/ WriteFails(c)
             \/ CopyChunk(c) \/ CopyEnd(c) \/ CopyFails(c)
      PROVE  FreeInv'
  <2>1. /\ UNCHANGED <<link, absent, req, out>> /\ Frame(c)
        /\ pc[c] = "transfer" /\ pc'[c] \in {"transfer", "done"}
    BY <1>5, StepFrame
       DEF Step, ReadChunk, ReadEnd, Write, WriteFails, CopyChunk, CopyEnd, CopyFails,
           Finish, Goto, history, TypeInv, Types
  <2>2. FreeWasSeen(c)'
    BY <2>1 DEF FreeWasSeen, Exists
  <2>. QED  BY <1>1, <2>1, <2>2
<1>6. ASSUME NEW c \in Calls, OpenOutNew(c) \/ OpenOutOld(c) PROVE FreeInv'
  <2>1. \A n \in Names : ~Exists(n)' => ~Exists(n)
    BY <1>6, FileAssumption DEF OpenOutNew, OpenOutOld, Unused, Exists, TypeInv, Types
  <2>2. UNCHANGED <<absent, req>> /\ pc[c] = "openOut"
    BY <1>6 DEF OpenOutNew, OpenOutOld, Goto
  <2>3. FreeWasSeen(c)'
    BY <2>1, <2>2 DEF FreeWasSeen
  <2>4. ASSUME NEW o \in Calls \ {c} PROVE FreeWasSeen(o)'
    BY <1>6, <2>1, <2>2, <2>4, StepFrame DEF Step, Frame, FreeWasSeen
  <2>. QED  BY <2>3, <2>4
<1>7. ASSUME NEW c \in Calls, Unlink(c) PROVE FreeInv'
  <2>1. ASSUME NEW o \in Calls PROVE FreeWasSeen(o)'
    <3>1. /\ pc'[o] = "idle" <=> pc[o] = "idle"
          /\ pc'[o] \in {"openIn", "openOut"} => pc[o] = pc'[o]
          /\ UNCHANGED <<req, out>>
      BY <1>7 DEF Unlink, Finish, Goto, TypeInv, Types
    <3>2. absent[o] => absent'[o]
      BY <1>7 DEF Unlink
    <3>3. ASSUME pc[o] # "idle", req[o].dst \in Names, ~Exists(req[o].dst)' PROVE absent'[o]
      BY <1>7, <3>2, <3>3 DEF Unlink, Finish, Goto, Exists, FreeWasSeen, TypeInv, Types
    <3>. QED  BY <3>1, <3>2, <3>3 DEF FreeWasSeen
  <2>. QED  BY <2>1
<1>8. CASE UNCHANGED vars
  BY <1>8 DEF vars, locals, history, FreeWasSeen, Exists
<1>. QED
  BY <1>2, <1>3, <1>4, <1>5, <1>6, <1>7, <1>8 DEF Next, Step, AllDone

\* copy_file without overwrite opens no destination that was there all the
\* time, whatever other calls make and remove between its look and its open.
THEOREM SteadyDstAlwaysKept == Spec => []SteadyDstIsKept
<1>1. Init => TypeInv /\ FreeInv
  BY ZenonT(60), TypeInvInit DEF Init, FreeInv, FreeWasSeen, NoRequest
<1>2. (TypeInv /\ FreeInv) /\ [Next]_vars => (TypeInv /\ FreeInv)'
  BY TypeInvStep, FreeInvStep
<1>3. FreeInv => SteadyDstIsKept
  BY DEF FreeInv, FreeWasSeen, SteadyDstIsKept
<1>. QED  BY <1>1, <1>2, <1>3, PTL DEF Spec

-----------------------------------------------------------------------------
(* Appends.                                                                *)

LEMMA PrefixIs ==
  ASSUME NEW s \in Seq(Chunks), NEW t \in Seq(Chunks)
  PROVE  IsPrefix(s, t) <=> Len(s) <= Len(t) /\ \A j \in 1..Len(s) : s[j] = t[j]
<1>1. /\ Len(s) \in Nat /\ Len(t) \in Nat
      /\ \A j \in 1..Len(s) : s[j] \in Chunks
      /\ \A j \in 1..Len(t) : t[j] \in Chunks
  BY ElementOfSeq, LenProperties
<1>2. /\ SubSeq(s, 1, Len(s)) \in Seq(Chunks) /\ Len(SubSeq(s, 1, Len(s))) = Len(s)
      /\ \A j \in 1..Len(s) : SubSeq(s, 1, Len(s))[j] = s[j]
  BY <1>1, SubSeqProperties
<1>3. CASE Len(s) <= Len(t)
  <2>1. /\ SubSeq(t, 1, Len(s)) \in Seq(Chunks) /\ Len(SubSeq(t, 1, Len(s))) = Len(s)
        /\ \A j \in 1..Len(s) : SubSeq(t, 1, Len(s))[j] = t[j]
    BY <1>1, <1>3, SubSeqProperties
  <2>2. SubSeq(s, 1, Len(s)) = SubSeq(t, 1, Len(s)) <=> \A j \in 1..Len(s) : s[j] = t[j]
    BY <1>1, <1>2, <2>1, SeqEqual
  <2>. QED  BY <1>3, <2>2 DEF IsPrefix
<1>4. CASE ~(Len(s) <= Len(t))
  BY <1>4 DEF IsPrefix
<1>. QED  BY <1>3, <1>4

Occurs(data, s) == \E k \in 0..Len(s) : IsPrefix(data, SubSeq(s, k + 1, Len(s)))

LEMMA OccursIs ==
  ASSUME NEW data \in Seq(Chunks), NEW s \in Seq(Chunks)
  PROVE  Occurs(data, s) <=>
           \E k \in 0..Len(s) : k + Len(data) <= Len(s) /\ \A j \in 1..Len(data) : s[k + j] = data[j]
<1>1. Len(data) \in Nat /\ Len(s) \in Nat /\ \A j \in 1..Len(s) : s[j] \in Chunks
  BY ElementOfSeq, LenProperties
<1>2. ASSUME NEW k \in 0..Len(s)
      PROVE  IsPrefix(data, SubSeq(s, k + 1, Len(s))) <=>
               k + Len(data) <= Len(s) /\ \A j \in 1..Len(data) : s[k + j] = data[j]
  <2>. DEFINE t == SubSeq(s, k + 1, Len(s))
  <2>1. /\ t \in Seq(Chunks) /\ Len(t) = Len(s) - k
        /\ \A j \in 1..(Len(s) - k) : t[j] = s[k + j]
    <3>1. \A j \in (k + 1)..Len(s) : s[j] \in Chunks
      BY <1>1
    <3>2. /\ t \in Seq(Chunks)
          /\ Len(t) = IF k + 1 <= Len(s) THEN Len(s) - (k + 1) + 1 ELSE 0
          /\ \A j \in 1..(Len(s) - (k + 1) + 1) : t[j] = s[(k + 1) + j - 1]
      BY <1>1, <3>1, SubSeqProperties
    <3>. HIDE DEF t
    <3>. QED  BY <1>1, <3>2
  <2>. HIDE DEF t
  <2>2. IsPrefix(data, t) <=> Len(data) <= Len(t) /\ \A j \in 1..Len(data) : data[j] = t[j]
    BY <2>1, PrefixIs
  <2>3. IsPrefix(data, t) <=>
          k + Len(data) <= Len(s) /\ \A j \in 1..Len(data) : s[k + j] = data[j]
    BY <1>1, <2>1, <2>2
  <2>. QED  BY <2>3 DEF t
<1>. QED  BY <1>2 DEF Occurs

LEMMA OccursInConcat ==
  ASSUME NEW a \in Seq(Chunks), NEW b \in Seq(Chunks), NEW data \in Seq(Chunks)
  PROVE  /\ Occurs(data, a) => Occurs(data, a \o b)
         /\ Occurs(b, a \o b)
<1>1. /\ Len(a) \in Nat /\ Len(b) \in Nat /\ Len(data) \in Nat
      /\ a \o b \in Seq(Chunks) /\ Len(a \o b) = Len(a) + Len(b)
      /\ \A k \in 1..(Len(a) + Len(b)) : (a \o b)[k] = IF k <= Len(a) THEN a[k] ELSE b[k - Len(a)]
  BY ConcatProperties, LenProperties
<1>. DEFINE both == a \o b
<1>. HIDE DEF both
<1>2. ASSUME Occurs(data, a) PROVE Occurs(data, both)
  <2>1. PICK k \in 0..Len(a) : /\ k + Len(data) <= Len(a)
                               /\ \A j \in 1..Len(data) : a[k + j] = data[j]
    BY <1>2, OccursIs
  <2>2. /\ k \in 0..Len(both) /\ k + Len(data) <= Len(both)
        /\ \A j \in 1..Len(data) : both[k + j] = data[j]
    BY <1>1, <2>1 DEF both
  <2>. QED  BY <1>1, <2>2, OccursIs DEF both
<1>3. Occurs(b, both)
  <2>1. /\ Len(a) \in 0..Len(both) /\ Len(a) + Len(b) <= Len(both)
        /\ \A j \in 1..Len(b) : both[Len(a) + j] = b[j]
    BY <1>1 DEF both
  <2>. QED  BY <1>1, <2>1, OccursIs DEF both
<1>. QED  BY <1>2, <1>3 DEF both

\* Whoever writes without appending has marked its file, and what has been
\* appended to a file without such a mark is in it.
AppendKept(c) ==
  /\ pc[c] = "transfer" /\ req[c].tool \in {"write", "copy"} /\ ~req[c].append
     => out[c] \in clobbered
  /\ /\ Succeeded(c) /\ req[c].tool = "write" /\ req[c].append /\ out[c] \notin clobbered
     => Occurs(req[c].data, content[out[c]])

AppendInv == \A c \in Calls : AppendKept(c)

\* No step takes the mark off a file that is in use, and a file without it
\* only grows at its end.
LEMMA StepGrows ==
  ASSUME TypeInv, AppendInv, NEW c \in Calls, Begin(c) \/ Step(c), NEW i \in Inodes \ Unused
  PROVE  /\ i \in clobbered => i \in clobbered'
         /\ i \in clobbered' \/ \E d \in Seq(Chunks) : content'[i] = content[i] \o d
<1>0. content[i] \in Seq(Chunks) /\ << >> \in Seq(Chunks) /\ content[i] \o << >> = content[i]
  BY ConcatEmptySeq DEF TypeInv, Types
<1>1. CASE UNCHANGED <<content, clobbered>>
  BY <1>0, <1>1
<1>2. CASE OpenOutNew(c)
  <2>1. PICK n \in Unused : /\ content' = [content EXCEPT ![n] = << >>]
                            /\ clobbered' \in {clobbered \ {n}, clobbered \cup {n}}
    BY <1>2 DEF OpenOutNew, Store
  <2>2. content'[i] = content[i] \o << >>
    BY <1>0, <2>1 DEF TypeInv, Types
  <2>. QED  BY <1>0, <2>1, <2>2
<1>3. CASE OpenOutOld(c)
  <2>1. CASE req[c].append
    BY <1>0, <1>3, <2>1 DEF OpenOutOld, Clobber
  <2>2. CASE ~req[c].append
    <3>1. /\ content' = [content EXCEPT ![link[req[c].dst]] = << >>]
          /\ clobbered' = clobbered \cup {link[req[c].dst]}
      BY <1>3, <2>2 DEF OpenOutOld, Clobber, Store
    <3>2. CASE i = link[req[c].dst]
      BY <3>1, <3>2
    <3>3. CASE i # link[req[c].dst]
      <4>1. content'[i] = content[i] \o << >>
        BY <1>0, <3>1, <3>3 DEF TypeInv, Types
      <4>. QED  BY <1>0, <3>1, <4>1
    <3>. QED  BY <3>2, <3>3
  <2>. QED  BY <2>1, <2>2
<1>4. ASSUME NEW chunks, Store(c, out[c], chunks), UNCHANGED clobbered,
             pc[c] = "transfer", req[c].tool \in {"write", "copy"},
             req[c].append => \E d \in Seq(Chunks) : chunks = content[out[c]] \o d
      PROVE  /\ i \in clobbered => i \in clobbered'
             /\ i \in clobbered' \/ \E d \in Seq(Chunks) : content'[i] = content[i] \o d
  <2>1. CASE i # out[c]
    <3>1. content'[i] = content[i] \o << >>
      BY <1>0, <1>4, <2>1 DEF Store, TypeInv, Types
    <3>. QED  BY <1>0, <1>4, <3>1
  <2>2. CASE i = out[c] /\ req[c].append
    <3>1. content'[i] = chunks
      BY <1>4, <2>2 DEF Store, TypeInv, Types
    <3>. QED  BY <1>4, <2>2, <3>1
  <2>3. CASE i = out[c] /\ ~req[c].append
    BY <1>4, <2>3 DEF AppendInv, AppendKept
  <2>. QED
    BY <2>1, <2>2, <2>3
<1>5. ASSUME pc[c] = "transfer", req[c].tool \in {"write", "copy"}
      PROVE  content[out[c]] \in Seq(Chunks) /\ req[c].data \in Seq(Chunks)
             /\ (req[c].append => req[c].tool = "write")
  BY <1>5, RequestAssumption DEF TypeInv, Types, StageOK, Files
<1>6. CASE Write(c)
  <2>1. req[c].append => WriteAt(content[out[c]], Len(content[out[c]]), req[c].data)
                           = content[out[c]] \o req[c].data
    BY <1>5, <1>6, WriteAtEnd DEF Write, Finish, Goto
  <2>. QED  BY <1>4, <1>5, <1>6, <2>1 DEF Write, Finish, Goto
<1>7. CASE WriteFails(c)
  <2>1. PICK n \in 0..(Len(req[c].data) - 1) :
          Store(c, out[c], WriteAt(content[out[c]],
                                   IF req[c].append THEN Len(content[out[c]]) ELSE 0,
                                   SubSeq(req[c].data, 1, n)))
    BY <1>7 DEF WriteFails
  <2>2. SubSeq(req[c].data, 1, n) \in Seq(Chunks)
    BY <1>5, <1>7, LenProperties DEF WriteFails, Finish, Goto
  <2>3. WriteAt(content[out[c]], Len(content[out[c]]), SubSeq(req[c].data, 1, n))
          = content[out[c]] \o SubSeq(req[c].data, 1, n)
    BY <1>5, <1>7, <2>2, WriteAtEnd DEF WriteFails, Finish, Goto
  <2>. QED  BY <1>4, <1>7, <2>1, <2>2, <2>3 DEF WriteFails, Finish, Goto
<1>8. CASE CopyChunk(c)
  BY <1>4, <1>5, <1>8 DEF CopyChunk
<1>. QED
  BY <1>1, <1>2, <1>3, <1>6, <1>7, <1>8
     DEF Step, Begin, Prepare, Refuse, StatSrc, SrcFails, StatDst, DstExists, OpenIn, OpenOutFails,
         ReadChunk, ReadEnd, CopyEnd, CopyFails, Unlink, history

\* A call's own step.
LEMMA OwnAppendKept ==
  ASSUME TypeInv, AppendInv, NEW c \in Calls, Begin(c) \/ Step(c)
  PROVE  AppendKept(c)'
<1>. USE DEF AppendInv, AppendKept, Succeeded, TypeInv, Types
<1>1. CASE Begin(c) \/ Refuse(c) \/ SrcFails(c) \/ DstExists(c) \/ OpenOutFails(c)
           \/ WriteFails(c) \/ CopyFails(c)
  BY <1>1 DEF Begin, Refuse, SrcFails, DstExists, OpenOutFails, WriteFails, CopyFails, Finish, Goto
<1>2. CASE Prepare(c)
  <2>1. First[req[c].tool] \in {"openIn", "openOut", "statSrc", "unlink"}
    BY <1>2, RequestAssumption DEF Prepare, Goto, First, StageOK
  <2>. QED  BY <1>2, <2>1 DEF Prepare, Goto
<1>3. CASE StatSrc(c) \/ StatDst(c) \/ OpenIn(c)
  BY <1>3 DEF StatSrc, StatDst, OpenIn, Goto, StageOK
<1>4. CASE OpenOutNew(c) \/ OpenOutOld(c)
  BY <1>4 DEF OpenOutNew, OpenOutOld, Clobber, Goto
<1>5. CASE ReadChunk(c) \/ CopyChunk(c)
  BY <1>5 DEF ReadChunk, CopyChunk, history
<1>6. CASE ReadEnd(c) \/ CopyEnd(c) \/ Unlink(c)
  BY <1>6 DEF ReadEnd, CopyEnd, Unlink, Finish, Goto, StageOK
<1>7. CASE Write(c)
  <2>1. /\ content[out[c]] \in Seq(Chunks) /\ req[c].data \in Seq(Chunks) /\ out[c] \in Inodes
        /\ pc'[c] = "done" /\ UNCHANGED <<req, out>>
    BY <1>7, RequestAssumption DEF Write, Finish, Goto, StageOK, Files
  <2>2. ASSUME req[c].append PROVE Occurs(req[c].data, content'[out[c]])
    <3>1. content'[out[c]] = content[out[c]] \o req[c].data
      BY <1>7, <2>1, <2>2, WriteAtEnd DEF Write, Store
    <3>. QED  BY <2>1, <3>1, OccursInConcat
  <2>. QED  BY <2>1, <2>2
<1>. QED
  BY <1>1, <1>2, <1>3, <1>4, <1>5, <1>6, <1>7 DEF Step

LEMMA AppendInvStep == TypeInv /\ AppendInv /\ [Next]_vars => AppendInv'
<1>. SUFFICES ASSUME TypeInv, AppendInv, [Next]_vars PROVE AppendInv'
  OBVIOUS
<1>1. ASSUME NEW c \in Calls, Begin(c) \/ Step(c), NEW o \in Calls \ {c} PROVE AppendKept(o)'
  <2>1. UNCHANGED <<pc[o], req[o], out[o], result[o]>>
    BY <1>1, StepFrame DEF Frame
  <2>2. ASSUME \/ pc[o] = "transfer" /\ req[o].tool \in {"write", "copy"}
               \/ Succeeded(o) /\ req[o].tool = "write"
        PROVE  out[o] \in Inodes \ Unused
    BY <2>2 DEF TypeInv, StageOK, Succeeded, Files, Unused
  <2>3. ASSUME Succeeded(o), req[o].tool = "write", req[o].append, out[o] \notin clobbered'
        PROVE  Occurs(req[o].data, content'[out[o]])
    <3>1. PICK d \in Seq(Chunks) : content'[out[o]] = content[out[o]] \o d
      BY <1>1, <2>2, <2>3, StepGrows
    <3>2. Occurs(req[o].data, content[out[o]])
      BY <1>1, <2>2, <2>3, StepGrows DEF AppendInv, AppendKept
    <3>3. content[out[o]] \in Seq(Chunks) /\ req[o].data \in Seq(Chunks)
      BY <2>2, <2>3, RequestAssumption DEF TypeInv, Types, StageOK, Succeeded
    <3>. QED  BY <3>1, <3>2, <3>3, OccursInConcat
  <2>4. ASSUME pc[o] = "transfer", req[o].tool \in {"write", "copy"}, ~req[o].append
        PROVE  out[o] \in clobbered'
    BY <1>1, <2>2, <2>4, StepGrows DEF AppendInv, AppendKept
  <2>. QED  BY <2>1, <2>3, <2>4 DEF AppendKept, Succeeded
<1>2. ASSUME NEW c \in Calls, Begin(c) \/ Step(c) PROVE AppendInv'
  BY <1>1, <1>2, OwnAppendKept DEF AppendInv
<1>3. CASE UNCHANGED vars
  BY <1>3 DEF vars, locals, history, AppendInv, AppendKept, Succeeded
<1>. QED
  BY <1>2, <1>3 DEF Next, AllDone

\* What a call has appended stays in the file, in one piece, as long as all
\* who write to it append: in whatever order their opens and writes fall.
THEOREM AppendsAlwaysKept == Spec => []AppendsAreKept
<1>1. Init => TypeInv /\ AppendInv
  BY TypeInvInit DEF Init, AppendInv, AppendKept, Succeeded
<1>2. (TypeInv /\ AppendInv) /\ [Next]_vars => (TypeInv /\ AppendInv)'
  BY TypeInvStep, AppendInvStep
<1>3. AppendInv => AppendsAreKept
  BY DEF AppendInv, AppendKept, AppendsAreKept, Occurs
<1>. QED  BY <1>1, <1>2, <1>3, PTL DEF Spec

-----------------------------------------------------------------------------
(* Calls nobody disturbs.                                                  *)

Prefix(s, n) == SubSeq(s, 1, n)

\* As long as nobody else has written to its files, what a call has read or
\* copied is the beginning of its source, and what it writes over is empty.
ExactSoFar(c) ==
  quiet[c] =>
    /\ pc[c] = "transfer" /\ req[c].tool = "read" =>
         pos[c] <= Len(content[in[c]]) /\ got[c] = Prefix(content[in[c]], pos[c])
    /\ pc[c] = "transfer" /\ req[c].tool = "copy" /\ in[c] # out[c] =>
         pos[c] <= Len(content[in[c]]) /\ content[out[c]] = Prefix(content[in[c]], pos[c])
    /\ pc[c] = "transfer" /\ req[c].tool = "write" /\ ~req[c].append => content[out[c]] = << >>
    /\ Succeeded(c) =>
         /\ req[c].tool = "read" => got[c] = content[in[c]]
         /\ req[c].tool = "copy" /\ in[c] # out[c] => content[out[c]] = content[in[c]]
         /\ req[c].tool = "write" =>
              IF req[c].append THEN IsSuffix(req[c].data, content[out[c]])
                               ELSE content[out[c]] = req[c].data

ExactInv == \A c \in Calls : ExactSoFar(c)

LEMMA PrefixFacts ==
  ASSUME NEW s \in Seq(Chunks)
  PROVE  /\ Prefix(s, 0) = << >>
         /\ Prefix(s, Len(s)) = s
         /\ \A n \in 0..(Len(s) - 1) : /\ Prefix(s, n) \in Seq(Chunks) /\ Len(Prefix(s, n)) = n
                                       /\ Prefix(s, n + 1) = Append(Prefix(s, n), s[n + 1])
<1>1. Len(s) \in Nat /\ \A j \in 1..Len(s) : s[j] \in Chunks
  BY ElementOfSeq, LenProperties
<1>2. \A n \in 0..Len(s) : /\ Prefix(s, n) \in Seq(Chunks) /\ Len(Prefix(s, n)) = n
                           /\ \A j \in 1..n : Prefix(s, n)[j] = s[j]
  <2>. SUFFICES ASSUME NEW n \in 0..Len(s)
                PROVE  /\ Prefix(s, n) \in Seq(Chunks) /\ Len(Prefix(s, n)) = n
                       /\ \A j \in 1..n : Prefix(s, n)[j] = s[j]
    OBVIOUS
  <2>1. /\ SubSeq(s, 1, n) \in Seq(Chunks)
        /\ Len(SubSeq(s, 1, n)) = IF 1 <= n THEN n - 1 + 1 ELSE 0
        /\ \A j \in 1..(n - 1 + 1) : SubSeq(s, 1, n)[j] = s[1 + j - 1]
    BY <1>1, SubSeqProperties
  <2>. QED  BY <1>1, <2>1 DEF Prefix
<1>3. Prefix(s, 0) = << >>
  BY <1>1, <1>2, EmptySeq
<1>4. Prefix(s, Len(s)) = s
  BY <1>1, <1>2, SeqEqual
<1>5. ASSUME NEW n \in 0..(Len(s) - 1)
      PROVE  Prefix(s, n + 1) = Append(Prefix(s, n), s[n + 1])
  <2>1. /\ Append(Prefix(s, n), s[n + 1]) \in Seq(Chunks)
        /\ Len(Append(Prefix(s, n), s[n + 1])) = n + 1
        /\ \A j \in 1..n : Append(Prefix(s, n), s[n + 1])[j] = s[j]
        /\ Append(Prefix(s, n), s[n + 1])[n + 1] = s[n + 1]
    <3>1. /\ Prefix(s, n) \in Seq(Chunks) /\ Len(Prefix(s, n)) = n
          /\ \A j \in 1..n : Prefix(s, n)[j] = s[j]
          /\ s[n + 1] \in Chunks
      BY <1>1, <1>2
    <3>. QED  BY <3>1, AppendProperties
  <2>2. /\ Prefix(s, n + 1) \in Seq(Chunks) /\ Len(Prefix(s, n + 1)) = n + 1
        /\ \A j \in 1..(n + 1) : Prefix(s, n + 1)[j] = s[j]
    BY <1>1, <1>2
  <2>3. \A j \in 1..(n + 1) : Prefix(s, n + 1)[j] = Append(Prefix(s, n), s[n + 1])[j]
    BY <2>1, <2>2
  <2>. QED  BY <2>1, <2>2, <2>3, SeqEqual
<1>. QED  BY <1>1, <1>2, <1>3, <1>4, <1>5

LEMMA ConcatHasSuffix ==
  ASSUME NEW a \in Seq(Chunks), NEW b \in Seq(Chunks)
  PROVE  IsSuffix(b, a \o b)
<1>. DEFINE both == a \o b
<1>1. /\ Len(a) \in Nat /\ Len(b) \in Nat
      /\ both \in Seq(Chunks) /\ Len(both) = Len(a) + Len(b)
      /\ \A k \in 1..(Len(a) + Len(b)) : both[k] = IF k <= Len(a) THEN a[k] ELSE b[k - Len(a)]
  BY ConcatProperties, LenProperties
<1>. HIDE DEF both
<1>2. ASSUME NEW s \in Seq(Chunks)
      PROVE  /\ Reverse(s) \in Seq(Chunks) /\ Len(Reverse(s)) = Len(s)
             /\ \A j \in 1..Len(s) : Reverse(s)[j] = s[(Len(s) - j) + 1]
  <2>1. Len(s) \in Nat /\ \A j \in 1..Len(s) : s[j] \in Chunks
    BY ElementOfSeq, LenProperties
  <2>2. Reverse(s) = [j \in 1..Len(s) |-> s[(Len(s) - j) + 1]]
    BY DEF Reverse
  <2>3. Reverse(s) \in [1..Len(s) -> Chunks]
    BY <2>1, <2>2
  <2>4. Reverse(s) \in Seq(Chunks)
    BY <2>1, <2>3, SeqDef
  <2>5. Len(Reverse(s)) = Len(s)
    BY <2>1, <2>3, <2>4, LenProperties
  <2>. QED  BY <2>2, <2>4, <2>5
<1>3. Len(Reverse(b)) <= Len(Reverse(both))
  BY <1>1, <1>2
<1>4. ASSUME NEW j \in 1..Len(b) PROVE Reverse(b)[j] = Reverse(both)[j]
  <2>1. /\ (Len(both) - j) + 1 \in 1..(Len(a) + Len(b))
        /\ (Len(both) - j) + 1 > Len(a)
        /\ ((Len(both) - j) + 1) - Len(a) = (Len(b) - j) + 1
    BY <1>1
  <2>2. both[(Len(both) - j) + 1] = b[(Len(b) - j) + 1]
    BY <1>1, <2>1
  <2>3. Reverse(b)[j] = b[(Len(b) - j) + 1] /\ Reverse(both)[j] = both[(Len(both) - j) + 1]
    <3>1. j \in 1..Len(both)
      BY <1>1
    <3>. QED  BY <1>1, <1>2, <3>1
  <2>. QED  BY <2>2, <2>3
<1>5. IsPrefix(Reverse(b), Reverse(both))
  BY <1>1, <1>2, <1>3, <1>4, PrefixIs
<1>. QED  BY <1>5 DEF IsSuffix, both

\* Whose step disturbs nothing of a call leaves its files as they were.
LEMMA QuietFrame ==
  ASSUME TypeInv, NEW c \in Calls, Begin(c) \/ Step(c), NEW o \in Calls \ {c}, quiet'[o]
  PROVE  quiet[o] /\ \A i \in {in[o], out[o]} \cap Inodes : content'[i] = content[i]
<1>. USE DEF TypeInv, Types
<1>1. CASE UNCHANGED <<content, quiet>>
  BY <1>1
<1>2. ASSUME NEW i, NEW chunks, Store(c, i, chunks)
      PROVE  quiet[o] /\ \A k \in {in[o], out[o]} \cap Inodes : content'[k] = content[k]
  BY <1>2 DEF Store
<1>3. CASE OpenOutNew(c) \/ OpenOutOld(c)
  BY <1>1, <1>2, <1>3 DEF OpenOutNew, OpenOutOld
<1>4. CASE Write(c) \/ WriteFails(c) \/ CopyChunk(c)
  BY <1>2, <1>4 DEF Write, WriteFails, CopyChunk
<1>. QED
  BY <1>1, <1>3, <1>4
     DEF Step, Begin, Prepare, Refuse, StatSrc, SrcFails, StatDst, DstExists, OpenIn, OpenOutFails,
         ReadChunk, ReadEnd, CopyEnd, CopyFails, Unlink, history

LEMMA OthersExact ==
  ASSUME TypeInv, ExactInv, NEW c \in Calls, Begin(c) \/ Step(c), NEW o \in Calls \ {c}
  PROVE  ExactSoFar(o)'
<1>. SUFFICES ASSUME quiet'[o] PROVE ExactSoFar(o)'
  BY DEF ExactSoFar
<1>1. UNCHANGED <<pc[o], req[o], in[o], out[o], pos[o], got[o], result[o]>>
  BY StepFrame DEF Frame
<1>2. ExactSoFar(o) /\ quiet[o]
  BY QuietFrame DEF ExactInv
<1>3. pc[o] = "transfer" \/ Succeeded(o) =>
        /\ req[o].tool \in {"read", "copy"}  => content'[in[o]] = content[in[o]]
        /\ req[o].tool \in {"write", "copy"} => content'[out[o]] = content[out[o]]
  <2>1. pc[o] = "transfer" \/ Succeeded(o) =>
          /\ req[o].tool \in {"read", "copy"}  => in[o] \in Inodes
          /\ req[o].tool \in {"write", "copy"} => out[o] \in Inodes
    BY DEF TypeInv, StageOK, Succeeded, Files
  <2>. QED  BY <2>1, QuietFrame
<1>. QED  BY <1>1, <1>2, <1>3 DEF ExactSoFar, Succeeded

\* The call's own steps keep it so, as long as nobody has been in its way.
LEMMA OwnExact ==
  ASSUME TypeInv, ExactInv, NEW c \in Calls, Begin(c) \/ Step(c)
  PROVE  ExactSoFar(c)'
<1>. SUFFICES ASSUME quiet'[c] PROVE ExactSoFar(c)'
  BY DEF ExactSoFar
<1>. USE DEF TypeInv, Types, StageOK
<1>1. /\ pc[c] = "transfer" /\ req[c].tool \in {"read", "copy"} =>
           in[c] \in Inodes /\ content[in[c]] \in Seq(Chunks) /\ Len(content[in[c]]) \in Nat
      /\ pc[c] = "transfer" /\ req[c].tool \in {"write", "copy"} =>
           out[c] \in Inodes /\ content[out[c]] \in Seq(Chunks)
      /\ pc[c] # "idle" => req[c].data \in Seq(Chunks)
      /\ pos[c] \in Nat
  BY RequestAssumption, LenProperties DEF Files
<1>2. pc[c] = "transfer" => quiet[c] /\ ExactSoFar(c)
  <2>1. ASSUME NEW i, NEW chunks, Store(c, i, chunks) PROVE quiet[c]
    BY <2>1 DEF Store
  <2>2. pc[c] = "transfer" /\ (Write(c) \/ WriteFails(c) \/ CopyChunk(c)) => quiet[c]
    BY <2>1 DEF Write, WriteFails, CopyChunk
  <2>3. pc[c] = "transfer" /\ (ReadChunk(c) \/ ReadEnd(c) \/ CopyEnd(c) \/ CopyFails(c)) => quiet[c]
    BY DEF ReadChunk, ReadEnd, CopyEnd, CopyFails, history
  <2>4. pc[c] = "transfer" =>
          \/ Write(c) \/ WriteFails(c) \/ CopyChunk(c)
          \/ ReadChunk(c) \/ ReadEnd(c) \/ CopyEnd(c) \/ CopyFails(c)
    BY DEF Step, Begin, Prepare, Refuse, StatSrc, SrcFails, StatDst, DstExists, OpenIn, OpenOutNew,
           OpenOutOld, OpenOutFails, Unlink, Finish, Goto
  <2>. QED  BY <2>2, <2>3, <2>4 DEF ExactInv
<1>3. CASE Begin(c) \/ Prepare(c) \/ StatSrc(c) \/ StatDst(c)
  <2>1. First[req[c].tool] \in {"openIn", "openOut", "statSrc", "unlink"} \/ ~Prepare(c)
    BY RequestAssumption DEF Prepare, Goto, First
  <2>. QED  BY <1>3, <2>1 DEF Begin, Prepare, StatSrc, StatDst, Goto, ExactSoFar, Succeeded
<1>4. CASE Refuse(c) \/ SrcFails(c) \/ DstExists(c) \/ OpenOutFails(c) \/ WriteFails(c) \/ CopyFails(c)
  BY <1>4 DEF Refuse, SrcFails, DstExists, OpenOutFails, WriteFails, CopyFails, Finish, Goto,
              ExactSoFar, Succeeded
<1>5. CASE OpenIn(c)
  <2>1. req[c].tool \in {"read", "copy"} /\ link[req[c].src] \in Inodes
    BY <1>5, RequestAssumption DEF OpenIn, Goto, NotAFile, Exists
  <2>2. content[link[req[c].src]] \in Seq(Chunks)
    BY <2>1
  <2>3. /\ pc'[c] = IF req[c].tool = "copy" THEN "openOut" ELSE "transfer"
        /\ in'[c] = link[req[c].src] /\ pos'[c] = 0 /\ got'[c] = << >>
        /\ UNCHANGED <<content, req>>
    BY <1>5 DEF OpenIn, Goto
  <2>4. Prefix(content[link[req[c].src]], 0) = << >> /\ Len(content[link[req[c].src]]) \in Nat
    BY <2>2, PrefixFacts, LenProperties
  <2>. QED  BY <2>1, <2>3, <2>4 DEF ExactSoFar, Succeeded
<1>6. CASE OpenOutNew(c) \/ OpenOutOld(c)
  <2>1. req[c].tool \in {"write", "copy"} /\ (req[c].append => req[c].tool = "write")
    BY <1>6, RequestAssumption DEF OpenOutNew, OpenOutOld, Goto
  <2>2. /\ pc'[c] = "transfer" /\ pos'[c] = 0
        /\ UNCHANGED <<req, in>>
    BY <1>6 DEF OpenOutNew, OpenOutOld, Goto
  <2>3. /\ out'[c] \in Inodes
        /\ req[c].append \/ content' = [content EXCEPT ![out'[c]] = << >>]
    <3>1. CASE OpenOutNew(c)
      BY <3>1 DEF OpenOutNew, Unused, Store
    <3>2. CASE OpenOutOld(c)
      BY <3>2, <2>1, RequestAssumption DEF OpenOutOld, Goto, NotAFile, Exists, Store
    <3>. QED  BY <1>6, <3>1, <3>2
  <2>4. ASSUME req[c].tool = "copy"
        PROVE  in[c] # out'[c] => /\ Len(content'[in[c]]) \in Nat
                                  /\ content'[out'[c]] = Prefix(content'[in[c]], 0)
    <3>1. in[c] \in Inodes /\ content[in[c]] \in Seq(Chunks)
      BY <1>6, <2>4 DEF OpenOutNew, OpenOutOld, Goto, Files
    <3>2. Prefix(content[in[c]], 0) = << >> /\ Len(content[in[c]]) \in Nat
      BY <3>1, PrefixFacts, LenProperties
    <3>. QED  BY <2>1, <2>3, <2>4, <3>1, <3>2
  <2>. QED  BY <2>1, <2>2, <2>3, <2>4 DEF ExactSoFar, Succeeded
<1>7. CASE ReadChunk(c)
  <2>. DEFINE s == content[in[c]]
  <2>1. /\ pos[c] \in 0..(Len(s) - 1) /\ s \in Seq(Chunks) /\ Len(s) \in Nat
        /\ got[c] = Prefix(s, pos[c])
    BY <1>1, <1>2, <1>7 DEF ReadChunk, AtEnd, ExactSoFar
  <2>2. Append(got[c], s[pos[c] + 1]) = Prefix(s, pos[c] + 1)
    BY SMTT(60), <2>1, PrefixFacts
  <2>3. /\ got'[c] = Append(got[c], s[pos[c] + 1]) /\ pos'[c] = pos[c] + 1
        /\ pc'[c] = "transfer" /\ req[c].tool = "read" /\ UNCHANGED <<content, req, in>>
    BY <1>7 DEF ReadChunk
  <2>. QED  BY <2>1, <2>2, <2>3 DEF ExactSoFar, Succeeded
<1>8. CASE ReadEnd(c)
  <2>1. got[c] = content[in[c]]
    BY <1>1, <1>2, <1>8, PrefixFacts DEF ReadEnd, AtEnd, ExactSoFar
  <2>. QED  BY <1>8, <2>1 DEF ReadEnd, Finish, Goto, ExactSoFar, Succeeded
<1>9. CASE Write(c)
  <2>. DEFINE old == content[out[c]]
              data == req[c].data
  <2>1. /\ pc[c] = "transfer" /\ pc'[c] = "done" /\ req[c].tool = "write"
        /\ UNCHANGED <<req, out>> /\ old \in Seq(Chunks) /\ data \in Seq(Chunks)
    BY <1>1, <1>9 DEF Write, Finish, Goto
  <2>2. content'[out[c]] = WriteAt(old, IF req[c].append THEN Len(old) ELSE 0, data)
    BY <1>1, <1>9, <2>1 DEF Write, Store
  <2>3. CASE req[c].append
    <3>1. content'[out[c]] = old \o data
      BY <2>1, <2>2, <2>3, WriteAtEnd
    <3>2. IsSuffix(data, old \o data)
      BY <2>1, ConcatHasSuffix
    <3>. QED  BY <2>1, <2>3, <3>1, <3>2 DEF ExactSoFar, Succeeded
  <2>4. CASE ~req[c].append
    <3>1. old = << >>
      BY <1>2, <2>1, <2>4 DEF ExactSoFar
    <3>2. content'[out[c]] = data
      BY <2>1, <2>2, <2>4, <3>1, WriteAtStart
    <3>. QED  BY <2>1, <2>4, <3>2 DEF ExactSoFar, Succeeded
  <2>. QED  BY <2>3, <2>4
<1>10. CASE CopyChunk(c)
  <2>. DEFINE s == content[in[c]]
              t == content[out[c]]
  <2>1. /\ pc[c] = "transfer" /\ pc'[c] = "transfer" /\ req[c].tool = "copy"
        /\ pos'[c] = pos[c] + 1 /\ UNCHANGED <<req, in, out>>
    BY <1>10 DEF CopyChunk
  <2>2. SUFFICES ASSUME in[c] # out[c]
                 PROVE  /\ pos[c] + 1 <= Len(content'[in[c]])
                        /\ content'[out[c]] = Prefix(content'[in[c]], pos[c] + 1)
    BY <2>1 DEF ExactSoFar, Succeeded
  <2>3. /\ pos[c] \in 0..(Len(s) - 1) /\ s \in Seq(Chunks) /\ t \in Seq(Chunks)
        /\ Len(s) \in Nat /\ t = Prefix(s, pos[c])
    BY <1>1, <1>2, <1>10, <2>1, <2>2 DEF CopyChunk, AtEnd, ExactSoFar
  <2>4. /\ content'[in[c]] = s
        /\ content'[out[c]] = WriteAt(t, pos[c], <<s[pos[c] + 1]>>)
    BY <1>1, <1>10, <2>1, <2>2 DEF CopyChunk, Store
  <2>5. Len(t) = pos[c] /\ Append(t, s[pos[c] + 1]) = Prefix(s, pos[c] + 1)
    BY <2>3, PrefixFacts
  <2>6. WriteAt(t, pos[c], <<s[pos[c] + 1]>>) = Append(t, s[pos[c] + 1])
    <3>1. s[pos[c] + 1] \in Chunks
      BY <2>3, ElementOfSeq
    <3>2. <<s[pos[c] + 1]>> \in Seq(Chunks)
      BY <3>1
    <3>3. WriteAt(t, Len(t), <<s[pos[c] + 1]>>) = t \o <<s[pos[c] + 1]>>
      BY <2>3, <3>2, WriteAtEnd
    <3>4. t \o <<s[pos[c] + 1]>> = Append(t, s[pos[c] + 1])
      BY <2>3, <3>1, AppendIsConcat
    <3>. QED  BY <2>5, <3>3, <3>4
  <2>. QED  BY <2>3, <2>4, <2>5, <2>6
<1>11. CASE CopyEnd(c)
  <2>1. in[c] # out[c] => content[out[c]] = content[in[c]]
    BY <1>1, <1>2, <1>11, PrefixFacts DEF CopyEnd, AtEnd, ExactSoFar
  <2>. QED  BY <1>11, <2>1 DEF CopyEnd, Finish, Goto, ExactSoFar, Succeeded
<1>12. CASE Unlink(c)
  BY <1>12 DEF Unlink, Finish, Goto, ExactSoFar, Succeeded
<1>. QED
  BY <1>3, <1>4, <1>5, <1>6, <1>7, <1>8, <1>9, <1>10, <1>11, <1>12 DEF Step

LEMMA ExactInvStep == TypeInv /\ ExactInv /\ [Next]_vars => ExactInv'
<1>. SUFFICES ASSUME TypeInv, ExactInv, [Next]_vars PROVE ExactInv'
  OBVIOUS
<1>1. ASSUME NEW c \in Calls, Begin(c) \/ Step(c) PROVE ExactInv'
  BY <1>1, OwnExact, OthersExact DEF ExactInv
<1>2. CASE UNCHANGED vars
  BY <1>2 DEF vars, locals, history, ExactInv, ExactSoFar, Succeeded
<1>. QED
  BY <1>1, <1>2 DEF Next, AllDone

\* A call nobody disturbed answers with, copies or leaves behind exactly what
\* it should, however its system calls fall between those of the others.
THEOREM QuietCallsAlwaysExact == Spec => []QuietCallsAreExact
<1>1. Init => TypeInv /\ ExactInv
  BY TypeInvInit DEF Init, ExactInv, ExactSoFar, Succeeded
<1>2. (TypeInv /\ ExactInv) /\ [Next]_vars => (TypeInv /\ ExactInv)'
  BY TypeInvStep, ExactInvStep
<1>3. ExactInv => QuietCallsAreExact
  BY DEF ExactInv, ExactSoFar, QuietCallsAreExact
<1>. QED  BY <1>1, <1>2, <1>3, PTL DEF Spec
=============================================================================
