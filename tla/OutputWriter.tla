---------------------------- MODULE OutputWriter ----------------------------
(***************************************************************************)
(* writeOutputFile and installTemporaryFileWithoutOverwrite of the command *)
(* line tool (cmd/ocsf-toolkit/output.go): several invocations that write  *)
(* the same path, each a system call at a time.  Any call may fail, any    *)
(* invocation may be killed, and the machine may lose power, which drops   *)
(* what no file sync has secured.                                          *)
(*                                                                         *)
(* The filesystem is modelled as output.go uses it: names that point to    *)
(* inodes, an exclusive create, a link that may be unsupported, a rename.  *)
(* Directory entries survive a power loss; the program never syncs them.   *)
(* os.Remove, whose result the program drops, is assumed to succeed.       *)
(***************************************************************************)
EXTENDS Naturals

CONSTANTS
    Writer,       \* invocations that write the path
    Overwriters,  \* those started with --overwrite
    Prior,        \* the author of a file that was there before
    None,         \* no inode, no author
    Blocks        \* bound: writes it takes to complete a file

ASSUME WriterAssumption ==
    /\ Overwriters \subseteq Writer
    /\ Prior \notin Writer /\ None \notin Writer /\ Prior # None
    /\ None \notin [by : Writer \cup {Prior}, kind : {"temp", "copy"}]
    /\ Blocks \in Nat \ {0}

Inode == [by : Writer \cup {Prior}, kind : {"temp", "copy"}]

Temp(w) == [by |-> w, kind |-> "temp"]  \* os.CreateTemp in the directory
Copy(w) == [by |-> w, kind |-> "copy"]  \* created at the path itself
Old     == Temp(Prior)

VARIABLES
    pc,      \* the next step of each invocation
    ok,      \* invocations whose writeOutputFile is going to return nil
    dest,    \* inode at the output path
    staged,  \* invocations whose temporary file still has its name
    data,    \* blocks in each inode
    synced,  \* blocks secured by a sync
    mode,    \* permission bits of each inode
    initial  \* the output path before the first invocation

vars == <<pc, ok, dest, staged, data, synced, mode, initial>>

Running(w) == pc[w] \notin {"done", "killed"}

Init ==
    /\ pc = [w \in Writer |-> "create"]
    /\ ok = {} /\ staged = {}
    /\ initial \in {None, Old} /\ dest = initial
    /\ data = [i \in Inode |-> IF i = Old THEN Blocks ELSE 0]
    /\ synced = data
    /\ mode = [i \in Inode |-> IF i = Old THEN "custom" ELSE "private"]

-----------------------------------------------------------------------------
(* Staging.                                                                *)

Create(w) ==
    /\ pc[w] = "create"
    /\ staged' = staged \cup {w}
    /\ pc' = [pc EXCEPT ![w] = "write"]
    /\ UNCHANGED <<ok, dest, data, synced, mode, initial>>

(* No directory or no temporary file: nothing to clean up.                 *)
CreateFails(w) ==
    /\ pc[w] = "create"
    /\ pc' = [pc EXCEPT ![w] = "done"]
    /\ UNCHANGED <<ok, dest, staged, data, synced, mode, initial>>

(* Slip: the temporary file is installed before it is complete.            *)
WriteOne(w) ==
    /\ pc[w] = "write"
    /\ data' = [data EXCEPT ![Temp(w)] = 1]
    /\ pc' = [pc EXCEPT ![w] = "sync"]
    /\ UNCHANGED <<ok, dest, staged, synced, mode, initial>>

(* Slip: the end is noticed one block late.                                *)
WriteLate(w) ==
    /\ pc[w] = "write"
    /\ data' = [data EXCEPT ![Temp(w)] = @ + 1]
    /\ pc' = [pc EXCEPT ![w] = IF data[Temp(w)] = Blocks THEN "sync" ELSE "write"]
    /\ UNCHANGED <<ok, dest, staged, synced, mode, initial>>

Write(w) ==
    /\ pc[w] = "write"
    /\ data' = [data EXCEPT ![Temp(w)] = @ + 1]
    /\ pc' = [pc EXCEPT ![w] = IF data'[Temp(w)] = Blocks THEN "sync" ELSE "write"]
    /\ UNCHANGED <<ok, dest, staged, synced, mode, initial>>

(* Slip: the file is closed without a sync.                                *)
SyncSkipped(w) ==
    /\ pc[w] = "sync"
    /\ pc' = [pc EXCEPT ![w] = IF w \in Overwriters THEN "inspect" ELSE "link"]
    /\ UNCHANGED <<ok, dest, staged, data, synced, mode, initial>>

(* Sync and Close.                                                         *)
Sync(w) ==
    /\ pc[w] = "sync"
    /\ synced' = [synced EXCEPT ![Temp(w)] = data[Temp(w)]]
    /\ pc' = [pc EXCEPT ![w] = IF w \in Overwriters THEN "inspect" ELSE "link"]
    /\ UNCHANGED <<ok, dest, staged, data, mode, initial>>

(* Slip: a failed step is retried without limit.                           *)
FailRetried(w) ==
    /\ pc[w] \in {"write", "sync", "inspect", "rename", "link", "open"}
    /\ data' = [data EXCEPT ![Temp(w)] = 0]
    /\ pc' = [pc EXCEPT ![w] = "write"]
    /\ UNCHANGED <<ok, dest, staged, synced, mode, initial>>

(* An error before the installation: the deferred os.Remove takes the      *)
(* temporary file away.                                                    *)
Fail(w) ==
    /\ pc[w] \in {"write", "sync", "inspect", "rename", "link", "open"}
    /\ pc' = [pc EXCEPT ![w] = "unlink"]
    /\ UNCHANGED <<ok, dest, staged, data, synced, mode, initial>>

-----------------------------------------------------------------------------
(* Installing with --overwrite.                                            *)

(* Slip: the permission bits of the file to be replaced are not taken over. *)
InspectOnly(w) ==
    /\ pc[w] = "inspect"
    /\ pc' = [pc EXCEPT ![w] = "rename"]
    /\ UNCHANGED <<ok, dest, staged, data, synced, mode, initial>>

(* Stat and Chmod; the temporary file is nobody else's, so the two are one *)
(* step to the others.                                                     *)
Inspect(w) ==
    /\ pc[w] = "inspect"
    /\ mode' = IF dest = None THEN mode ELSE [mode EXCEPT ![Temp(w)] = mode[dest]]
    /\ pc' = [pc EXCEPT ![w] = "rename"]
    /\ UNCHANGED <<ok, dest, staged, data, synced, initial>>

Rename(w) ==
    /\ pc[w] = "rename"
    /\ dest' = Temp(w)
    /\ staged' = staged \ {w}
    /\ ok' = ok \cup {w}
    /\ pc' = [pc EXCEPT ![w] = "done"]
    /\ UNCHANGED <<data, synced, mode, initial>>

-----------------------------------------------------------------------------
(* Installing without it.                                                  *)

(* Slip: the link replaces what is there.                                  *)
LinkReplaces(w) ==
    /\ pc[w] = "link"
    /\ dest' = Temp(w)
    /\ ok' = ok \cup {w}
    /\ pc' = [pc EXCEPT ![w] = "unlink"]
    /\ UNCHANGED <<staged, data, synced, mode, initial>>

Link(w) ==
    /\ pc[w] = "link" /\ dest = None
    /\ dest' = Temp(w)
    /\ ok' = ok \cup {w}
    /\ pc' = [pc EXCEPT ![w] = "unlink"]
    /\ UNCHANGED <<staged, data, synced, mode, initial>>

(* The link is refused for another reason than an existing file.           *)
LinkUnsupported(w) ==
    /\ pc[w] = "link"
    /\ pc' = [pc EXCEPT ![w] = "open"]
    /\ UNCHANGED <<ok, dest, staged, data, synced, mode, initial>>

OpenExclusive(w) ==
    /\ pc[w] = "open" /\ dest = None
    /\ dest' = Copy(w)
    /\ pc' = [pc EXCEPT ![w] = "copy"]
    /\ UNCHANGED <<ok, staged, data, synced, mode, initial>>

CopyBlock(w) ==
    /\ pc[w] = "copy"
    /\ data' = [data EXCEPT ![Copy(w)] = @ + 1]
    /\ pc' = [pc EXCEPT ![w] = IF data'[Copy(w)] = data[Temp(w)] THEN "syncCopy" ELSE "copy"]
    /\ UNCHANGED <<ok, dest, staged, synced, mode, initial>>

SyncCopy(w) ==
    /\ pc[w] = "syncCopy"
    /\ synced' = [synced EXCEPT ![Copy(w)] = data[Copy(w)]]
    /\ ok' = ok \cup {w}
    /\ pc' = [pc EXCEPT ![w] = "unlink"]
    /\ UNCHANGED <<dest, staged, data, mode, initial>>

(* Slip: a failed copy is left at the path.                                *)
CopyAbandoned(w) ==
    /\ pc[w] \in {"copy", "syncCopy"}
    /\ pc' = [pc EXCEPT ![w] = "unlink"]
    /\ UNCHANGED <<ok, dest, staged, data, synced, mode, initial>>

(* The deferred os.Remove(path) removes whatever the name points to.       *)
CopyFails(w) ==
    /\ pc[w] \in {"copy", "syncCopy"}
    /\ dest' = None
    /\ pc' = [pc EXCEPT ![w] = "unlink"]
    /\ UNCHANGED <<ok, staged, data, synced, mode, initial>>

(* Slip: the temporary file is kept after a successful link.               *)
UnlinkOnFailure(w) ==
    /\ pc[w] = "unlink"
    /\ staged' = IF w \in ok THEN staged ELSE staged \ {w}
    /\ pc' = [pc EXCEPT ![w] = "done"]
    /\ UNCHANGED <<ok, dest, data, synced, mode, initial>>

Unlink(w) ==
    /\ pc[w] = "unlink"
    /\ staged' = staged \ {w}
    /\ pc' = [pc EXCEPT ![w] = "done"]
    /\ UNCHANGED <<ok, dest, data, synced, mode, initial>>

-----------------------------------------------------------------------------
(* The environment.                                                        *)

Kill(w) ==
    /\ Running(w)
    /\ pc' = [pc EXCEPT ![w] = "killed"]
    /\ UNCHANGED <<ok, dest, staged, data, synced, mode, initial>>

PowerLoss ==
    /\ \E w \in Writer : Running(w)
    /\ pc' = [w \in Writer |-> IF Running(w) THEN "killed" ELSE pc[w]]
    /\ data' \in [Inode -> 0 .. Blocks]
    /\ \A i \in Inode : synced[i] <= data'[i] /\ data'[i] <= data[i]
    /\ UNCHANGED <<ok, dest, staged, synced, mode, initial>>

Step(w) ==
    \/ Create(w) \/ CreateFails(w) \/ Write(w) \/ Sync(w) \/ Fail(w)
    \/ Inspect(w) \/ Rename(w)
    \/ Link(w) \/ LinkUnsupported(w) \/ OpenExclusive(w)
    \/ CopyBlock(w) \/ SyncCopy(w) \/ CopyFails(w) \/ Unlink(w)

Next == (\E w \in Writer : Step(w) \/ Kill(w)) \/ PowerLoss

(* An invocation that is not killed takes its next step eventually: system *)
(* calls return.                                                           *)
Spec == Init /\ [][Next]_vars /\ \A w \in Writer : WF_vars(Step(w))

-----------------------------------------------------------------------------
TypeOK ==
    /\ pc \in [Writer -> {"create", "write", "sync", "inspect", "rename", "link", "open",
                          "copy", "syncCopy", "unlink", "done", "killed"}]
    /\ ok \subseteq Writer /\ staged \subseteq Writer
    /\ dest \in Inode \cup {None} /\ initial \in {None, Old}
    /\ data \in [Inode -> 0 .. Blocks] /\ synced \in [Inode -> 0 .. Blocks]
    /\ mode \in [Inode -> {"custom", "private"}]

(* Every invocation carries the same flag.                                 *)
Uniform == Overwriters \in {{}, Writer}

Told == {w \in ok : pc[w] = "done"}
Complete(i) == data[i] = Blocks

(* "An ordinary encoding or write failure does not leave a partial file at *)
(* the real destination": what a reader finds is complete, except while    *)
(* the exclusive fallback copies or where it was killed.                   *)
NoTornFile ==
    dest # None /\ ~Complete(dest) =>
      dest.kind = "copy" /\ pc[dest.by] \in {"copy", "killed"}

(* A reported success survives a power loss: the file of an invocation     *)
(* that returned nil is secured as long as it is at the path.              *)
SuccessDurable ==
    dest # None /\ dest.by \in Told => synced[dest] = Blocks

(* No invocation that returned leaves its temporary file behind.           *)
TempTidied == \A w \in Writer : pc[w] = "done" => w \notin staged

(* README: "files selected as output destinations are replaced while       *)
(* preserving their existing permission bits"; also when several           *)
(* invocations replace each other's files.                                 *)
PermissionsKept ==
    initial = Old /\ Overwriters = Writer => dest # None /\ mode[dest] = mode[Old]

(* Every invocation returns unless it is killed.                           *)
InvocationsEnd == \A w \in Writer : <>(~Running(w))

(* What a reader of the path finds, a copy that is not complete left out.  *)
A == INSTANCE AtomicFile WITH
       content <- IF dest # None /\ Complete(dest) THEN dest.by ELSE None,
       told    <- Told

(* Complete files only, replaced at once with --overwrite and never        *)
(* without it: the steps of any number of invocations, their failures and  *)
(* their crashes are steps of AtomicFile.                                  *)
ImplementsAtomicFile == A!Spec

(* Without --overwrite at most one invocation reports success, and a       *)
(* reader finds its complete file from then on.                            *)
OneWinner == A!OneWinner
=============================================================================
