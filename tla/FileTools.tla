----------------------------- MODULE FileTools -----------------------------
(***************************************************************************)
(* read_file, write_file, copy_file and rm on files, as concurrent calls.  *)
(* A handler checks, opens and transfers in separate system calls, and     *)
(* nothing serializes the handlers: every system call is a step.  A path   *)
(* is a name that is linked to an inode; two names may share one (hard and *)
(* symbolic links), and an open file outlives its name.  Contents are      *)
(* sequences of chunks, the unit in which one system call transfers data.  *)
(***************************************************************************)
EXTENDS Naturals, Sequences, FiniteSets, SequencesExt

CONSTANTS
  Calls,      \* the calls, each made once
  Names,      \* the paths they use, as Resolve returned them
  RootNames,  \* those that are allowed roots themselves
  Inodes, Dirs, NoInode,
  Chunks,     \* the data
  Binary,     \* chunks that are not valid UTF-8
  Hole,       \* what a write beyond the end leaves before it
  Threshold,  \* blobThresholdBytes, in chunks
  Requests,   \* the arguments callers pass
  Links, Contents \* the initial names and contents

NoRequest == [tool |-> "none", src |-> "", dst |-> "", fields |-> {}, data |-> << >>,
              append |-> FALSE, overwrite |-> FALSE, encoding |-> "auto"]

ASSUME FileAssumption ==
  /\ RootNames \subseteq Names /\ Dirs \subseteq Inodes /\ Binary \subseteq Chunks
  /\ NoInode \notin Inodes /\ Hole \in Chunks /\ Threshold \in Nat
  /\ Links \in [Names -> Inodes \cup {NoInode}]
  /\ Contents \in [Inodes -> Seq(Chunks)]

\* Only write_file has an argument "append".
ASSUME RequestAssumption ==
  \A r \in Requests :
    /\ r.tool \in {"read", "write", "copy", "rm"}
    /\ r.tool \in {"read", "copy"} => r.src \in Names
    /\ r.tool # "read" => r.dst \in Names
    /\ r.data \in Seq(Chunks)
    /\ {r.append, r.overwrite} \subseteq BOOLEAN /\ (r.append => r.tool = "write")

VARIABLES
  link,     \* the inode of each name
  content,  \* the chunks of each inode
  pc, req,  \* where each call is, and its arguments
  in, out,  \* the inodes it has open
  pos,      \* its position in them
  got,      \* what read_file has read
  result,   \* what it answers: "none", "failed" or a kind of success
  \* History, read by the properties alone:
  absent,   \* the destination was missing at some moment of the call
  quiet,    \* nobody else wrote to the files the call had open
  clobbered \* inodes opened by a writer that does not append

locals  == <<req, in, out, pos, got, result>>
history == <<absent, quiet, clobbered>>
vars    == <<link, content, pc, locals, history>>

Exists(name) == link[name] # NoInode

Init ==
  /\ link = Links /\ content = Contents
  /\ pc = [c \in Calls |-> "idle"]
  /\ req = [c \in Calls |-> NoRequest]
  /\ in = [c \in Calls |-> NoInode] /\ out = [c \in Calls |-> NoInode]
  /\ pos = [c \in Calls |-> 0]
  /\ got = [c \in Calls |-> << >>]
  /\ result = [c \in Calls |-> "none"]
  /\ absent = [c \in Calls |-> FALSE]
  /\ quiet = [c \in Calls |-> TRUE]
  /\ clobbered = {}

Goto(c, from, to) == pc[c] = from /\ pc' = [pc EXCEPT ![c] = to]

Finish(c, from, kind) ==
  /\ Goto(c, from, "done")
  /\ result' = [result EXCEPT ![c] = kind]

\* The chunks of inode i change; whoever else has it open is disturbed.
Store(c, i, chunks) ==
  /\ content' = [content EXCEPT ![i] = chunks]
  /\ quiet' = [o \in Calls |-> quiet[o] /\ (o = c \/ i \notin {in[o], out[o]})]

\* Write data at an offset; a hole fills the gap behind a shorter file.
WriteAt(old, offset, data) ==
  LET size == IF Len(old) > offset + Len(data) THEN Len(old) ELSE offset + Len(data)
  IN  [k \in 1..size |-> CASE k > offset /\ k <= offset + Len(data) -> data[k - offset]
                            [] k <= Len(old) /\ ~(k > offset /\ k <= offset + Len(data)) -> old[k]
                            [] OTHER -> Hole]

-----------------------------------------------------------------------------
(* Each of Calls is one call; whoever calls again is another of them.      *)

Begin(c) ==
  \E r \in Requests :
    /\ Goto(c, "idle", "prepare")
    /\ req' = [req EXCEPT ![c] = r]
    /\ absent' = [absent EXCEPT ![c] = r.dst \in Names /\ ~Exists(r.dst)]
    /\ UNCHANGED <<link, content, in, out, pos, got, result, quiet, clobbered>>

First == [read |-> "openIn", write |-> "openOut", copy |-> "statSrc", rm |-> "unlink"]

\* Everything before the first look at the file: write_file's count of its
\* content fields, then its blob or base64 data, then Resolve.  All but the
\* count may also go wrong for reasons of their own.
Prepare(c) ==
  /\ Cardinality(req[c].fields) <= 1
  /\ Goto(c, "prepare", First[req[c].tool])
  /\ UNCHANGED <<link, content, locals, history>>

Refuse(c) ==
  /\ Finish(c, "prepare", "failed")
  /\ UNCHANGED <<link, content, req, in, out, pos, got, history>>

-----------------------------------------------------------------------------
(* copy_file looks before it opens.                                        *)

NotAFile(name) == ~Exists(name) \/ link[name] \in Dirs

StatSrc(c) ==
  /\ Goto(c, "statSrc", IF req[c].overwrite THEN "openIn" ELSE "statDst")
  /\ ~NotAFile(req[c].src)
  /\ UNCHANGED <<link, content, locals, history>>

\* The source cannot be copied or opened for reading.
SrcFails(c) ==
  /\ pc[c] \in {"statSrc", "openIn"} /\ NotAFile(req[c].src)
  /\ Finish(c, pc[c], "failed")
  /\ UNCHANGED <<link, content, req, in, out, pos, got, history>>

\* A mutant: whether the destination exists is not asked.
StatDst_Skipped(c) ==
  /\ Goto(c, "statDst", "openIn")
  /\ UNCHANGED <<link, content, locals, history>>

StatDst(c) ==
  /\ Goto(c, "statDst", "openIn")
  /\ ~Exists(req[c].dst)
  /\ UNCHANGED <<link, content, locals, history>>

DstExists(c) ==
  /\ Finish(c, "statDst", "failed")
  /\ Exists(req[c].dst)
  /\ UNCHANGED <<link, content, req, in, out, pos, got, history>>

-----------------------------------------------------------------------------
(* Opening.                                                                *)

OpenIn(c) ==
  /\ Goto(c, "openIn", IF req[c].tool = "copy" THEN "openOut" ELSE "transfer")
  /\ ~NotAFile(req[c].src)
  /\ in' = [in EXCEPT ![c] = link[req[c].src]]
  /\ UNCHANGED <<link, content, req, out, pos, got, result, history>>

Unused == {i \in Inodes \ Dirs : /\ \A n \in Names : link[n] # i
                                 /\ \A c \in Calls : in[c] # i /\ out[c] # i}

Clobber(c, i) ==
  clobbered' = IF req[c].append THEN clobbered ELSE clobbered \cup {i}

\* O_CREATE, then O_TRUNC unless the call appends.
OpenOutNew(c) ==
  /\ Goto(c, "openOut", "transfer")
  /\ ~Exists(req[c].dst)
  /\ \E i \in Unused :
       /\ link' = [link EXCEPT ![req[c].dst] = i]
       /\ out' = [out EXCEPT ![c] = i]
       /\ Store(c, i, << >>)
       /\ clobbered' = IF req[c].append THEN clobbered \ {i} ELSE clobbered \cup {i}
  /\ UNCHANGED <<req, in, pos, got, result, absent>>

\* Mutants: the old contents are not cut off; directories are opened too.
OpenOutOld_NoTrunc(c) ==
  LET i == link[req[c].dst]
  IN  /\ Goto(c, "openOut", "transfer")
      /\ ~NotAFile(req[c].dst)
      /\ out' = [out EXCEPT ![c] = i]
      /\ Clobber(c, i)
      /\ UNCHANGED <<link, content, req, in, pos, got, result, absent, quiet>>

OpenOutOld_AnyKind(c) ==
  LET i == link[req[c].dst]
  IN  /\ Goto(c, "openOut", "transfer")
      /\ Exists(req[c].dst)
      /\ out' = [out EXCEPT ![c] = i]
      /\ Store(c, i, << >>)
      /\ Clobber(c, i)
      /\ UNCHANGED <<link, req, in, pos, got, result, absent>>

OpenOutOld(c) ==
  LET i == link[req[c].dst]
  IN  /\ Goto(c, "openOut", "transfer")
      /\ ~NotAFile(req[c].dst)
      /\ out' = [out EXCEPT ![c] = i]
      /\ IF req[c].append THEN UNCHANGED <<content, quiet>> ELSE Store(c, i, << >>)
      /\ Clobber(c, i)
      /\ UNCHANGED <<link, req, in, pos, got, result, absent>>

OpenOutFails(c) ==
  /\ Finish(c, "openOut", "failed")
  /\ NotAFile(req[c].dst) /\ (Exists(req[c].dst) \/ Unused = {})
  /\ UNCHANGED <<link, content, req, in, out, pos, got, history>>

-----------------------------------------------------------------------------
(* Transferring.                                                           *)

AtEnd(c) == pos[c] >= Len(content[in[c]])

\* os.ReadFile reads until it meets the end of the file.
ReadChunk(c) ==
  /\ pc[c] = "transfer" /\ req[c].tool = "read" /\ ~AtEnd(c)
  /\ got' = [got EXCEPT ![c] = Append(@, content[in[c]][pos[c] + 1])]
  /\ pos' = [pos EXCEPT ![c] = @ + 1]
  /\ UNCHANGED <<link, content, pc, req, in, out, result, history>>

\* What read_file answers with what it read.
Encoded(encoding, data) ==
  LET valid  == ToSet(data) \cap Binary = {}
      base64 == IF Len(data) > Threshold THEN "blob" ELSE "base64"
  IN  CASE encoding = "auto"   -> IF valid THEN "text" ELSE base64
        [] encoding = "text"   -> IF valid THEN "text" ELSE "failed"
        [] encoding = "base64" -> base64
        [] OTHER               -> "failed"

ReadEnd(c) ==
  /\ pc[c] = "transfer" /\ req[c].tool = "read" /\ AtEnd(c)
  /\ Finish(c, "transfer", Encoded(req[c].encoding, got[c]))
  /\ UNCHANGED <<link, content, req, in, out, pos, got, history>>

\* A mutant: O_APPEND is forgotten.
Write_AtStart(c) ==
  /\ Finish(c, "transfer", "ok")
  /\ req[c].tool = "write"
  /\ Store(c, out[c], WriteAt(content[out[c]], 0, req[c].data))
  /\ UNCHANGED <<link, req, in, out, pos, got, absent, clobbered>>

\* The data of write_file go out in one system call; with O_APPEND the
\* offset is the end of the file at that instant.
Write(c) ==
  LET offset == IF req[c].append THEN Len(content[out[c]]) ELSE 0
  IN  /\ Finish(c, "transfer", "ok")
      /\ req[c].tool = "write"
      /\ Store(c, out[c], WriteAt(content[out[c]], offset, req[c].data))
      /\ UNCHANGED <<link, req, in, out, pos, got, absent, clobbered>>

\* A full disk: part of the data was written.
WriteFails(c) ==
  LET offset == IF req[c].append THEN Len(content[out[c]]) ELSE 0
  IN  /\ Finish(c, "transfer", "failed")
      /\ req[c].tool = "write"
      /\ \E n \in 0..(Len(req[c].data) - 1) :
           Store(c, out[c], WriteAt(content[out[c]], offset, SubSeq(req[c].data, 1, n)))
      /\ UNCHANGED <<link, req, in, out, pos, got, absent, clobbered>>

\* io.Copy between files moves a chunk with one copy_file_range.
CopyChunk(c) ==
  /\ pc[c] = "transfer" /\ req[c].tool = "copy" /\ ~AtEnd(c)
  /\ Store(c, out[c], WriteAt(content[out[c]], pos[c], <<content[in[c]][pos[c] + 1]>>))
  /\ pos' = [pos EXCEPT ![c] = @ + 1]
  /\ UNCHANGED <<link, pc, req, in, out, got, result, absent, clobbered>>

CopyEnd(c) ==
  /\ pc[c] = "transfer" /\ req[c].tool = "copy" /\ AtEnd(c)
  /\ Finish(c, "transfer", "ok")
  /\ UNCHANGED <<link, content, req, in, out, pos, got, history>>

CopyFails(c) ==
  /\ Finish(c, "transfer", "failed")
  /\ req[c].tool = "copy"
  /\ UNCHANGED <<link, content, req, in, out, pos, got, history>>

\* rm of a file: roots are refused, a missing name is an error.
Unlink(c) ==
  LET name == req[c].dst
      gone == Exists(name) /\ name \notin RootNames
  IN  /\ pc[c] = "unlink"
      /\ Finish(c, "unlink", IF gone THEN "ok" ELSE "failed")
      /\ link' = IF gone THEN [link EXCEPT ![name] = NoInode] ELSE link
      /\ absent' = [o \in Calls |-> absent[o] \/ (gone /\ pc[o] # "idle" /\ req[o].dst = name)]
      /\ UNCHANGED <<content, req, in, out, pos, got, quiet, clobbered>>

Step(c) ==
  \/ Prepare(c) \/ Refuse(c)
  \/ StatSrc(c) \/ SrcFails(c) \/ StatDst(c) \/ DstExists(c)
  \/ OpenIn(c) \/ OpenOutNew(c) \/ OpenOutOld(c) \/ OpenOutFails(c)
  \/ ReadChunk(c) \/ ReadEnd(c)
  \/ Write(c) \/ WriteFails(c)
  \/ CopyChunk(c) \/ CopyEnd(c) \/ CopyFails(c)
  \/ Unlink(c)

AllDone == (\A c \in Calls : pc[c] = "done") /\ UNCHANGED vars

Next == (\E c \in Calls : Begin(c) \/ Step(c)) \/ AllDone

Spec == Init /\ [][Next]_vars

-----------------------------------------------------------------------------
(* Properties.                                                             *)

\* Every variable holds values of the kind the code gives it.
TypeOK ==
  /\ link \in [Names -> Inodes \cup {NoInode}]
  /\ \A i \in Inodes : content[i] \in Seq(Chunks)
  /\ pc \in [Calls -> {"idle", "prepare", "statSrc", "statDst", "openIn", "openOut",
                       "transfer", "unlink", "done"}]
  /\ \A c \in Calls : req[c] \in Requests \cup {NoRequest}
  /\ in \in [Calls -> (Inodes \ Dirs) \cup {NoInode}]
  /\ out \in [Calls -> (Inodes \ Dirs) \cup {NoInode}]
  /\ result \in [Calls -> {"none", "failed", "ok", "text", "base64", "blob"}]

Succeeded(c) == pc[c] = "done" /\ result[c] # "failed"

\* A call that nobody disturbed does exactly what it says: it returns, copies
\* or leaves behind precisely the bytes of the file it read or the data it was
\* given, nothing of what the file held before.
QuietCallsAreExact ==
  \A c \in Calls : Succeeded(c) /\ quiet[c] =>
    /\ req[c].tool = "read" => got[c] = content[in[c]]
    /\ req[c].tool = "copy" /\ in[c] # out[c] => content[out[c]] = content[in[c]]
    /\ req[c].tool = "write" =>
         IF req[c].append THEN IsSuffix(req[c].data, content[out[c]])
                          ELSE content[out[c]] = req[c].data

\* copy_file without overwrite never touches a destination that was there all
\* the time: it goes on only if the name was free at some moment of the call.
SteadyDstIsKept ==
  \A c \in Calls :
    /\ req[c].tool = "copy" /\ ~req[c].overwrite
    /\ out[c] # NoInode
    => absent[c]

\* Appends to one file do not overwrite each other, in whatever order their
\* opens and writes fall.
AppendsAreKept ==
  \A c \in Calls :
    /\ Succeeded(c) /\ req[c].tool = "write" /\ req[c].append
    /\ out[c] \notin clobbered
    => \E k \in 0..Len(content[out[c]]) :
         IsPrefix(req[c].data, SubSeq(content[out[c]], k + 1, Len(content[out[c]])))

(***************************************************************************)
(* What the documents say and the code does not do.                        *)
(***************************************************************************)

\* "no risk of a partial or corrupted copy" (skills/copy-file/SKILL.md:8):
\* a copy that reports success, with nobody else around, leaves its source
\* as it was.
CopyKeepsSource ==
  [][\A c \in Calls :
        req[c].tool = "copy" /\ in[c] # NoInode => content'[in[c]] = content[in[c]]]_vars
=============================================================================
