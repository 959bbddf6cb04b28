----------------------------- MODULE TypeTable -----------------------------
(***************************************************************************)
(* What a schema promises to the pipelines built on it: whoever asks for   *)
(* the validation cache gets the same answer, a table that resolves every  *)
(* type or an error with a reason, and nobody gets one that is half built. *)
(***************************************************************************)
EXTENDS TypeGraph

CONSTANTS
    Caller  \* pipelines being built, concurrently

VARIABLES
    types,   \* the dictionary
    value,   \* what the cache has become
    answer   \* what each caller was told

(* An error is right if there is something wrong, a table if it resolves   *)
(* every type and nothing is.                                              *)
Right(v) ==
    \/ v.verdict = "table" /\ ~Cyclic(types) /\ IsTable(types, v.table)
    \/ v.verdict = "cycle" /\ Cyclic(types)
    \/ /\ v.verdict = "values"
       /\ \E t \in DOMAIN types, p \in Type : Leads(types, t, p) /\ Uncompilable(types, t, p)

Init ==
    /\ value = Undecided
    /\ answer = [c \in Caller |-> Undecided]

Decide ==
    /\ value = Undecided
    /\ Right(value')
    /\ UNCHANGED <<types, answer>>

Reply(c) ==
    /\ value # Undecided /\ answer[c] = Undecided
    /\ answer' = [answer EXCEPT ![c] = value]
    /\ UNCHANGED <<types, value>>

Next == Decide \/ \E c \in Caller : Reply(c)

Spec == Init /\ [][Next]_<<types, value, answer>>
=============================================================================
