---------------------------- MODULE OutputProofs ----------------------------
(***************************************************************************)
(* Theorems about OutputWriter, for any number of invocations, any mix of  *)
(* --overwrite flags unless a theorem says otherwise, and any file length. *)
(***************************************************************************)
EXTENDS OutputWriter, TLAPS

(* What an invocation has secured by the step it is about to take.         *)
Secured(w) ==
    /\ pc[w] = "create" => data[Temp(w)] = 0 /\ w \notin staged
    /\ pc[w] = "write" => data[Temp(w)] < Blocks
    /\ pc[w] = "sync" => data[Temp(w)] = Blocks
    /\ pc[w] \in {"inspect", "rename", "link", "open", "copy", "syncCopy"} =>
         data[Temp(w)] = Blocks /\ synced[Temp(w)] = Blocks
    /\ pc[w] \in {"create", "write", "sync", "inspect", "rename", "link", "open"} =>
         data[Copy(w)] = 0
    /\ pc[w] = "copy" => data[Copy(w)] < Blocks
    /\ pc[w] = "syncCopy" => data[Copy(w)] = Blocks
    /\ pc[w] = "done" => w \notin staged

(* The flag decides the way, and success comes at its end.                 *)
OnItsWay(w) ==
    /\ pc[w] \in {"inspect", "rename"} => w \in Overwriters
    /\ pc[w] \in {"link", "open", "copy", "syncCopy"} => w \notin Overwriters
    /\ w \in ok => pc[w] \in {"unlink", "done", "killed"}
    /\ w \in ok /\ w \in Overwriters => pc[w] = "done"

(* What can be at the path.                                                *)
Installed ==
    /\ \A i \in Inode : synced[i] <= data[i]
    /\ dest = Old => synced[Old] = Blocks
    /\ dest # Copy(Prior)
    /\ \A w \in Overwriters : dest # Copy(w)
    /\ \A w \in Writer :
         /\ dest = Temp(w) => w \in ok /\ synced[Temp(w)] = Blocks
         /\ dest = Copy(w) => \/ w \in ok /\ synced[Copy(w)] = Blocks
                              \/ w \notin ok /\ pc[w] \in {"copy", "syncCopy", "killed"}

(* Without --overwrite whoever holds the path keeps it.                    *)
Holder ==
    Overwriters = {} =>
      \A w \in Writer :
         /\ w \in ok => dest \in {Temp(w), Copy(w)}
         /\ pc[w] \in {"copy", "syncCopy"} => dest = Copy(w)

IInv ==
    /\ TypeOK
    /\ \A w \in Writer : Secured(w) /\ OnItsWay(w)
    /\ Installed
    /\ Holder

(* Inodes: a name for each, and each name for one.                         *)
LEMMA Inodes ==
    /\ \A w \in Writer \cup {Prior} : Temp(w) \in Inode /\ Copy(w) \in Inode
    /\ \A v, w \in Writer \cup {Prior} :
         /\ Temp(v) = Temp(w) => v = w
         /\ Copy(v) = Copy(w) => v = w
         /\ Temp(v) # Copy(w)
    /\ \A i \in Inode : i = Temp(i.by) \/ i = Copy(i.by)
    /\ \A w \in Writer \cup {Prior} : Temp(w).by = w /\ Copy(w).by = w
    /\ \A w \in Writer \cup {Prior} : Temp(w).kind = "temp" /\ Copy(w).kind = "copy"
    /\ None \notin Inode /\ Old \in Inode /\ Old = Temp(Prior)
BY WriterAssumption DEF Inode, Temp, Copy, Old

(* Nobody has begun, and the path is as it was found.                      *)
LEMMA InitialState == Init => IInv
<1> SUFFICES ASSUME Init PROVE IInv
  OBVIOUS
<1>1. TypeOK
  BY WriterAssumption, Inodes DEF Init, TypeOK
<1>2. \A w \in Writer : Secured(w) /\ OnItsWay(w)
  BY WriterAssumption, Inodes DEF Init, Secured, OnItsWay
<1>3. Installed
  BY WriterAssumption, Inodes DEF Init, Installed
<1>4. Holder
  BY DEF Init, Holder
<1>5. QED BY <1>1, <1>2, <1>3, <1>4 DEF IInv

-----------------------------------------------------------------------------
(* Every step keeps the invariant.                                         *)

(* Writing, securing or giving up the temporary file.                      *)
LEMMA StagingPreserves ==
    ASSUME IInv, NEW v \in Writer, Create(v) \/ CreateFails(v) \/ Write(v) \/ Sync(v) \/ Fail(v)
    PROVE  IInv'
<1> USE WriterAssumption, Inodes
<1>1. TypeOK'
  BY DEF IInv, TypeOK, Secured, Create, CreateFails, Write, Sync, Fail
<1>2. ASSUME NEW w \in Writer PROVE Secured(w)'
  BY <1>1 DEF IInv, TypeOK, Secured, Create, CreateFails, Write, Sync, Fail
<1>3. ASSUME NEW w \in Writer PROVE OnItsWay(w)'
  BY DEF IInv, TypeOK, OnItsWay, Create, CreateFails, Write, Sync, Fail
<1>4. Installed'
  BY DEF IInv, TypeOK, Secured, OnItsWay, Installed, Create, CreateFails, Write, Sync, Fail
<1>5. Holder'
  BY DEF IInv, TypeOK, OnItsWay, Holder, Create, CreateFails, Write, Sync, Fail
<1>6. QED BY <1>1, <1>2, <1>3, <1>4, <1>5 DEF IInv

(* Installing with --overwrite.                                            *)
LEMMA ReplacingPreserves ==
    ASSUME IInv, NEW v \in Writer, Inspect(v) \/ Rename(v)
    PROVE  IInv'
<1> USE WriterAssumption, Inodes
<1>1. TypeOK'
  BY DEF IInv, TypeOK, Secured, Inspect, Rename
<1>2. ASSUME NEW w \in Writer PROVE Secured(w)'
  BY <1>1 DEF IInv, TypeOK, Secured, Inspect, Rename
<1>3. ASSUME NEW w \in Writer PROVE OnItsWay(w)'
  BY DEF IInv, TypeOK, OnItsWay, Inspect, Rename
<1>4. Installed'
  BY DEF IInv, TypeOK, Secured, OnItsWay, Installed, Inspect, Rename
<1>5. Holder'
  BY DEF IInv, TypeOK, OnItsWay, Holder, Inspect, Rename
<1>6. QED BY <1>1, <1>2, <1>3, <1>4, <1>5 DEF IInv

(* Installing without it: the link or the exclusive create.                *)
LEMMA ClaimingPreserves ==
    ASSUME IInv, NEW v \in Writer, Link(v) \/ LinkUnsupported(v) \/ OpenExclusive(v)
    PROVE  IInv'
<1> USE WriterAssumption, Inodes
<1>1. TypeOK'
  BY DEF IInv, TypeOK, Secured, Link, LinkUnsupported, OpenExclusive
<1>2. ASSUME NEW w \in Writer PROVE Secured(w)'
  BY <1>1 DEF IInv, TypeOK, Secured, Link, LinkUnsupported, OpenExclusive
<1>3. ASSUME NEW w \in Writer PROVE OnItsWay(w)'
  BY DEF IInv, TypeOK, OnItsWay, Link, LinkUnsupported, OpenExclusive
<1>4. Installed'
  BY DEF IInv, TypeOK, Secured, OnItsWay, Installed, Link, LinkUnsupported, OpenExclusive
<1>5. Holder'
  BY DEF IInv, TypeOK, OnItsWay, Holder, Link, LinkUnsupported, OpenExclusive
<1>6. QED BY <1>1, <1>2, <1>3, <1>4, <1>5 DEF IInv

(* Installing without it: the copy.                                        *)
LEMMA CopyingPreserves ==
    ASSUME IInv, NEW v \in Writer, CopyBlock(v) \/ SyncCopy(v) \/ CopyFails(v)
    PROVE  IInv'
<1> USE WriterAssumption, Inodes
<1>1. TypeOK'
  BY DEF IInv, TypeOK, Secured, CopyBlock, SyncCopy, CopyFails
<1>2. ASSUME NEW w \in Writer PROVE Secured(w)'
  BY <1>1 DEF IInv, TypeOK, Secured, CopyBlock, SyncCopy, CopyFails
<1>3. ASSUME NEW w \in Writer PROVE OnItsWay(w)'
  BY DEF IInv, TypeOK, OnItsWay, CopyBlock, SyncCopy, CopyFails
<1>4. Installed'
  BY DEF IInv, TypeOK, Secured, OnItsWay, Installed, CopyBlock, SyncCopy, CopyFails
<1>5. Holder'
  BY DEF IInv, TypeOK, OnItsWay, Holder, CopyBlock, SyncCopy, CopyFails
<1>6. QED BY <1>1, <1>2, <1>3, <1>4, <1>5 DEF IInv

(* Cleaning up, or being killed before that.                               *)
LEMMA EndingPreserves ==
    ASSUME IInv, NEW v \in Writer, Unlink(v) \/ Kill(v)
    PROVE  IInv'
<1> USE WriterAssumption, Inodes
<1>1. TypeOK'
  BY DEF IInv, TypeOK, Secured, Unlink, Kill, Running
<1>2. ASSUME NEW w \in Writer PROVE Secured(w)'
  BY <1>1 DEF IInv, TypeOK, Secured, Unlink, Kill, Running
<1>3. ASSUME NEW w \in Writer PROVE OnItsWay(w)'
  BY DEF IInv, TypeOK, OnItsWay, Unlink, Kill, Running
<1>4. Installed'
  BY DEF IInv, TypeOK, Secured, OnItsWay, Installed, Unlink, Kill, Running
<1>5. Holder'
  BY DEF IInv, TypeOK, OnItsWay, Holder, Unlink, Kill, Running
<1>6. QED BY <1>1, <1>2, <1>3, <1>4, <1>5 DEF IInv

(* A power loss takes unsynced blocks from everyone and the processes.     *)
LEMMA PowerLossPreserves ==
    ASSUME IInv, PowerLoss PROVE IInv'
<1> USE WriterAssumption, Inodes
<1>1. TypeOK'
  BY DEF IInv, TypeOK, PowerLoss, Running
<1>2. \A i \in Inode : synced[i] <= data'[i] /\ data'[i] \in 0 .. Blocks /\ synced[i] \in 0 .. Blocks
  BY DEF IInv, TypeOK, PowerLoss
<1>3. ASSUME NEW w \in Writer PROVE Secured(w)' /\ OnItsWay(w)'
  BY DEF IInv, TypeOK, Secured, OnItsWay, PowerLoss, Running
<1>4. Installed'
  BY <1>2 DEF IInv, TypeOK, OnItsWay, Installed, PowerLoss, Running
<1>5. Holder'
  BY DEF IInv, TypeOK, OnItsWay, Holder, PowerLoss, Running
<1>6. QED BY <1>1, <1>3, <1>4, <1>5 DEF IInv

(* The inductive invariant of writeOutputFile, of which the properties follow. *)
THEOREM Invariant == Spec => []IInv
<1>1. IInv /\ [Next]_vars => IInv'
  <2> SUFFICES ASSUME IInv, [Next]_vars PROVE IInv'
    OBVIOUS
  <2>1. ASSUME NEW w \in Writer, Step(w) \/ Kill(w) PROVE IInv'
    BY <2>1, StagingPreserves, ReplacingPreserves, ClaimingPreserves, CopyingPreserves,
       EndingPreserves DEF Step
  <2>2. CASE UNCHANGED vars
    BY <2>2 DEF vars, IInv, TypeOK, Secured, OnItsWay, Installed, Holder
  <2>3. QED BY <2>1, <2>2, PowerLossPreserves DEF Next
<1>2. QED BY InitialState, <1>1, PTL DEF Spec

-----------------------------------------------------------------------------
(* What it means for one path.                                             *)

(* Inodes, steps, flags and the path keep their types.                     *)
THEOREM OutputTypeCorrect == Spec => []TypeOK
<1>1. IInv => TypeOK
  BY DEF IInv
<1>2. QED BY <1>1, Invariant, PTL

(* Nobody ever finds a partial file that an invocation which returned has  *)
(* left (writeOutputFile), with any mix of flags.                          *)
THEOREM NothingTorn == Spec => []NoTornFile
<1>1. IInv => NoTornFile
  <2> SUFFICES ASSUME IInv, dest # None, ~Complete(dest)
               PROVE  dest.kind = "copy" /\ pc[dest.by] \in {"copy", "killed"}
    BY DEF NoTornFile
  <2> USE WriterAssumption, Inodes
  <2>0. dest \in Inode /\ data[dest] # Blocks
    BY DEF IInv, TypeOK, Complete
  <2>1. synced[dest] # Blocks
    BY <2>0, WriterAssumption DEF IInv, TypeOK, Installed
  <2>2. PICK w \in Writer : dest = Copy(w)
    BY <2>0, <2>1 DEF IInv, Installed, Inode
  <2>3. pc[w] \in {"copy", "killed"}
    BY <2>0, <2>1, <2>2 DEF IInv, Installed, Secured
  <2>4. QED BY <2>2, <2>3
<1>2. QED BY <1>1, Invariant, PTL

(* A file whose invocation returned nil is secured (the Sync calls), with  *)
(* any mix of flags.                                                       *)
THEOREM SuccessIsDurable == Spec => []SuccessDurable
<1>1. IInv => SuccessDurable
  <2> SUFFICES ASSUME IInv, dest # None, dest.by \in ok PROVE synced[dest] = Blocks
    BY DEF SuccessDurable, Told
  <2>1. dest \in Inode /\ dest.by \in Writer
    BY DEF IInv, TypeOK
  <2>2. QED BY <2>1, Inodes DEF IInv, Installed
<1>2. QED BY <1>1, Invariant, PTL

(* No invocation that returned leaves its temporary file (the deferred     *)
(* os.Remove and its cancellation after the rename).                       *)
THEOREM TemporariesTidied == Spec => []TempTidied
<1>1. IInv => TempTidied
  BY DEF IInv, TempTidied, Secured
<1>2. QED BY <1>1, Invariant, PTL

(* The bits handed on: an invocation that is about to rename carries those *)
(* of the file that was there first, whoever it took them from.            *)
Bits ==
    initial = Old /\ Overwriters = Writer =>
      /\ dest # None /\ mode[dest] = mode[Old]
      /\ \A w \in Writer : pc[w] = "rename" => mode[Temp(w)] = mode[Old]

(* Every step hands the bits on.                                           *)
LEMMA BitsPreserved ==
    ASSUME IInv, Bits, NEW v \in Writer, Step(v) \/ Kill(v)
    PROVE  Bits'
<1> USE WriterAssumption, Inodes
<1>1. initial' = initial
  BY DEF Step, Create, CreateFails, Write, Sync, Fail, Inspect, Rename, Link, LinkUnsupported,
     OpenExclusive, CopyBlock, SyncCopy, CopyFails, Unlink, Kill
<1> SUFFICES ASSUME initial = Old, Overwriters = Writer
             PROVE  /\ dest' # None /\ mode'[dest'] = mode'[Old]
                    /\ \A w \in Writer : pc'[w] = "rename" => mode'[Temp(w)] = mode'[Old]
  BY <1>1 DEF Bits
<1>2. dest # None /\ mode[dest] = mode[Old] /\ dest \in Inode /\ v \in Overwriters
  BY DEF Bits, IInv, TypeOK
<1>3. \A w \in Writer : pc[w] = "rename" => mode[Temp(w)] = mode[Old]
  BY DEF Bits
<1>4. CASE Inspect(v)
  <2>1. mode' = [mode EXCEPT ![Temp(v)] = mode[Old]] /\ dest' = dest
    BY <1>2, <1>4 DEF Inspect
  <2>2. \A i \in Inode : mode'[i] = IF i = Temp(v) THEN mode[Old] ELSE mode[i]
    BY <2>1 DEF IInv, TypeOK
  <2>3. \A w \in Writer : pc'[w] = "rename" => pc[w] = "rename" \/ w = v
    BY <1>4 DEF Inspect, IInv, TypeOK
  <2>4. QED BY <1>2, <1>3, <2>1, <2>2, <2>3
<1>5. CASE Rename(v)
  BY <1>2, <1>3, <1>5 DEF Rename, IInv, TypeOK
<1>6. CASE Link(v) \/ LinkUnsupported(v) \/ OpenExclusive(v) \/ CopyBlock(v) \/ SyncCopy(v) \/ CopyFails(v)
  BY <1>2, <1>6 DEF Link, LinkUnsupported, OpenExclusive, CopyBlock, SyncCopy, CopyFails,
     IInv, OnItsWay
<1>7. CASE Create(v) \/ CreateFails(v) \/ Write(v) \/ Sync(v) \/ Fail(v) \/ Unlink(v) \/ Kill(v)
  BY <1>2, <1>3, <1>7 DEF Create, CreateFails, Write, Sync, Fail, Unlink, Kill, IInv, TypeOK
<1>8. QED BY <1>4, <1>5, <1>6, <1>7 DEF Step

(* Invocations that replace each other's files keep the permission bits of *)
(* the file that was there first (the Stat and Chmod before the rename).   *)
THEOREM PermissionsAreKept == Spec => []PermissionsKept
<1>1. Init => Bits
  BY WriterAssumption, Inodes DEF Init, Bits
<1>2. IInv /\ Bits /\ [Next]_vars => Bits'
  <2> SUFFICES ASSUME IInv, Bits, [Next]_vars PROVE Bits'
    OBVIOUS
  <2>1. CASE PowerLoss
    BY <2>1 DEF PowerLoss, Running, Bits, IInv, TypeOK
  <2>2. CASE UNCHANGED vars
    BY <2>2 DEF vars, Bits
  <2>3. QED BY <2>1, <2>2, BitsPreserved DEF Next
<1>3. Bits => PermissionsKept
  BY DEF Bits, PermissionsKept
<1>4. QED BY <1>1, <1>2, <1>3, Invariant, PTL DEF Spec

-----------------------------------------------------------------------------
(* The refinement.                                                         *)

Content == IF dest # None /\ Complete(dest) THEN dest.by ELSE None

(* A step of an invocation is a step of the abstract file or none at all.  *)
LEMMA StepRefines ==
    ASSUME IInv, Uniform, NEW w \in Writer, Step(w) \/ Kill(w)
    PROVE  [A!Next]_<<Content, Told>>
<1> USE WriterAssumption, Inodes
<1>0. IInv'
  BY StagingPreserves, ReplacingPreserves, ClaimingPreserves, CopyingPreserves,
     EndingPreserves DEF Step
<1>1. CASE Create(w) \/ CreateFails(w) \/ Sync(w) \/ Fail(w) \/ Inspect(w) \/ LinkUnsupported(w) \/ Kill(w)
  <2>1. Told' = Told
    BY <1>1 DEF IInv, TypeOK, OnItsWay, Told, Kill, Running,
       Create, CreateFails, Sync, Fail, Inspect, LinkUnsupported
  <2>2. Content' = Content
    BY <1>1 DEF Content, Complete, Create, CreateFails, Sync, Fail, Inspect, LinkUnsupported, Kill
  <2>3. QED BY <2>1, <2>2
<1>2. CASE Write(w)
  <2>1. dest # Temp(w) /\ Told' = Told
    BY <1>2 DEF IInv, TypeOK, OnItsWay, Installed, Told, Write
  <2>2. Content' = Content
    BY <1>2, <2>1 DEF IInv, TypeOK, Content, Complete, Write
  <2>3. QED BY <2>1, <2>2
<1>3. CASE Rename(w)
  <2>1. w \in Overwriters /\ w \notin ok
    BY <1>3 DEF IInv, OnItsWay, Rename
  <2>2. Told' = Told \cup {w}
    BY <1>3 DEF IInv, TypeOK, Told, Rename
  <2>3. Content' = w
    BY <1>3 DEF IInv, Secured, Content, Complete, Rename
  <2>4. A!Replace(w)
    BY <2>1, <2>2, <2>3 DEF A!Replace, Content, Told
  <2>5. QED BY <2>4 DEF A!Next
<1>4. CASE Link(w)
  <2>1. w \notin Overwriters /\ Told' = Told
    BY <1>4 DEF IInv, TypeOK, OnItsWay, Told, Link
  <2>2. Content = None /\ Content' = w
    BY <1>4 DEF IInv, Secured, Content, Complete, Link
  <2>3. A!Claim(w)
    BY <2>1, <2>2 DEF A!Claim, Content
  <2>4. QED BY <2>3 DEF A!Next
<1>5. CASE OpenExclusive(w)
  <2>1. Told' = Told
    BY <1>5 DEF IInv, TypeOK, OnItsWay, Told, OpenExclusive
  <2>2. Content = None /\ Content' = None
    BY <1>5 DEF IInv, Secured, Content, Complete, OpenExclusive
  <2>3. QED BY <2>1, <2>2
<1>6. CASE CopyBlock(w)
  <2>1. w \notin Overwriters /\ Told' = Told /\ dest = Copy(w)
    BY <1>6 DEF IInv, TypeOK, OnItsWay, Told, Uniform, Holder, CopyBlock
  <2>2. Content = None
    BY <1>6, <2>1 DEF IInv, TypeOK, Secured, Content, Complete, CopyBlock
  <2>3. Content' \in {None, w}
    BY <1>6, <2>1 DEF Content, CopyBlock
  <2>4. Content' = w => A!Claim(w)
    BY <2>1, <2>2 DEF A!Claim, Content
  <2>5. QED BY <2>1, <2>2, <2>3, <2>4 DEF A!Next
<1>7. CASE SyncCopy(w)
  BY <1>7 DEF IInv, TypeOK, OnItsWay, Told, Content, Complete, SyncCopy
<1>8. CASE CopyFails(w)
  <2>1. w \notin Overwriters /\ w \notin ok /\ Told' = Told /\ dest = Copy(w)
    BY <1>8 DEF IInv, TypeOK, OnItsWay, Told, Uniform, Holder, CopyFails
  <2>2. Content \in {None, w} /\ Content' = None
    BY <1>8, <2>1 DEF Content, CopyFails
  <2>3. Content = w => A!Withdraw(w)
    BY <2>1, <2>2 DEF A!Withdraw, Content, Told
  <2>4. QED BY <2>1, <2>2, <2>3 DEF A!Next
<1>9. CASE Unlink(w)
  <2>1. Content' = Content
    BY <1>9 DEF Content, Complete, Unlink
  <2>2. CASE w \in ok
    <3>1. w \notin Overwriters /\ dest \in {Temp(w), Copy(w)}
      BY <1>9, <2>2 DEF IInv, OnItsWay, Uniform, Holder, Unlink
    <3>2. dest \in Inode /\ dest.by = w /\ synced[dest] = Blocks
      BY <2>2, <3>1 DEF IInv, Installed
    <3>3. data[dest] = Blocks
      BY <3>2 DEF IInv, TypeOK, Installed
    <3>4. Content = w
      BY <3>2, <3>3 DEF Content, Complete
    <3>5. Told' = Told \cup {w}
      BY <1>9, <2>2 DEF IInv, TypeOK, Told, Unlink
    <3>6. A!Report(w)
      BY <2>1, <3>1, <3>4, <3>5 DEF A!Report, Content, Told
    <3>7. QED BY <3>6 DEF A!Next
  <2>3. CASE w \notin ok
    <3>1. Told' = Told
      BY <1>9, <2>3 DEF IInv, TypeOK, Told, Unlink
    <3>2. QED BY <2>1, <3>1
  <2>4. QED BY <2>2, <2>3
<1>10. QED
  BY <1>1, <1>2, <1>3, <1>4, <1>5, <1>6, <1>7, <1>8, <1>9 DEF Step

(* A power loss withdraws at most a copy nobody has reported.              *)
LEMMA PowerLossRefines ==
    ASSUME IInv, Uniform, PowerLoss
    PROVE  [A!Next]_<<Content, Told>>
<1> USE WriterAssumption, Inodes
<1>1. Told' = Told
  BY DEF IInv, TypeOK, OnItsWay, Told, PowerLoss, Running
<1>2. CASE dest = None
  BY <1>1, <1>2 DEF Content, PowerLoss
<1>3. CASE dest # None /\ synced[dest] = Blocks
  <2>1. data[dest] = Blocks /\ data'[dest] = Blocks
    BY <1>3 DEF IInv, TypeOK, PowerLoss
  <2>2. QED BY <1>1, <1>3, <2>1 DEF Content, Complete, PowerLoss
<1>4. CASE dest # None /\ synced[dest] # Blocks
  <2>1. PICK w \in Writer : dest = Copy(w) /\ w \notin ok
    BY <1>4 DEF IInv, TypeOK, Installed, Inode
  <2>2. w \notin Overwriters
    BY <2>1 DEF IInv, Installed
  <2>3. Content \in {None, w} /\ Content' \in {None, w}
    BY <2>1 DEF Content, PowerLoss
  <2>4. data[dest] # Blocks => data'[dest] # Blocks
    BY <1>4 DEF IInv, TypeOK, PowerLoss
  <2>5. Content = None => Content' = None
    BY <1>4, <2>1, <2>4 DEF Content, Complete, PowerLoss
  <2>6. Content = w /\ Content' = None => A!Withdraw(w)
    BY <1>1, <2>1, <2>2 DEF A!Withdraw, Content, Told
  <2>7. QED BY <1>1, <2>3, <2>5, <2>6 DEF A!Next
<1>5. QED BY <1>2, <1>3, <1>4

(* When every invocation carries the same flag, writeOutputFile implements *)
(* AtomicFile: whole files only, and no replacement without --overwrite.   *)
THEOREM WriterRefinesFile == ASSUME Uniform PROVE Spec => ImplementsAtomicFile
<1>1. Init => A!Init
  BY WriterAssumption, Inodes DEF Init, A!Init, Told, Complete
<1>2. IInv /\ [Next]_vars => [A!Next]_<<Content, Told>>
  <2>1. CASE UNCHANGED vars
    BY <2>1 DEF vars, Content, Told, Complete
  <2>2. QED BY <2>1, StepRefines, PowerLossRefines DEF Next
<1>3. QED
  BY <1>1, <1>2, Invariant, PTL DEF Spec, ImplementsAtomicFile, A!Spec, Content

(* The no-overwrite guarantee, of the program.                             *)
THEOREM NoOverwriteGuarantee == Spec => []OneWinner
<1>1. IInv => OneWinner
  <2> SUFFICES ASSUME IInv, Overwriters = {}, NEW w \in Told
               PROVE  Content = w
    BY DEF OneWinner, A!OneWinner, Content
  <2>1. w \in Writer /\ dest \in {Temp(w), Copy(w)}
    BY DEF IInv, TypeOK, Told, Holder
  <2>2. dest \in Inode /\ dest.by = w
    BY <2>1, Inodes
  <2>3. synced[dest] = Blocks
    BY <2>1 DEF IInv, Installed, Told
  <2>4. data[dest] = Blocks
    BY <2>2, <2>3, WriterAssumption DEF IInv, TypeOK, Installed
  <2>5. QED BY <2>2, <2>4, Inodes DEF Content, Complete
<1>2. QED BY <1>1, Invariant, PTL
=============================================================================
