----------------------------- MODULE AtomicFile -----------------------------
(***************************************************************************)
(* What the command line tool promises of one output path: a reader of the *)
(* path finds a complete file or none, whole outputs replace each other at *)
(* once, and without --overwrite nothing that is there is ever replaced.   *)
(* OutputWriter implements this with temporary files, links and copies.    *)
(***************************************************************************)
CONSTANTS
    Writer,       \* invocations that write to the path
    Overwriters,  \* those started with --overwrite
    Prior,        \* the author of a file that was there before
    None          \* no complete file

VARIABLES
    content,  \* author of the complete file at the path, or None
    told      \* invocations that reported success

Init ==
    /\ content \in {Prior, None}
    /\ told = {}

(* With --overwrite the file appears and success is reported at once, once. *)
Replace(w) ==
    /\ w \in Overwriters \ told
    /\ content' = w
    /\ told' = told \cup {w}

(* Without it a free path is claimed first; the claim is withdrawn if a    *)
(* later step fails, and success is reported only while it stands.         *)
Claim(w) ==
    /\ w \in Writer \ Overwriters /\ content = None
    /\ content' = w
    /\ UNCHANGED told

Withdraw(w) ==
    /\ content = w /\ w \in Writer \ (Overwriters \cup told)
    /\ content' = None
    /\ UNCHANGED told

Report(w) ==
    /\ content = w /\ w \in Writer \ Overwriters
    /\ told' = told \cup {w}
    /\ UNCHANGED content

Next == \E w \in Writer : Replace(w) \/ Claim(w) \/ Withdraw(w) \/ Report(w)

Spec == Init /\ [][Next]_<<content, told>>

-----------------------------------------------------------------------------
(* The no-overwrite guarantee (docs/engineering/project-decisions.md:139): *)
(* when nobody overwrites, at most one invocation reports success and the  *)
(* path holds its file from then on.                                       *)
OneWinner == Overwriters = {} => told \subseteq {content}
=============================================================================
