---------------------------- MODULE BatchStream ----------------------------
(***************************************************************************)
(* What a scan promises to the operator above it: the record batches of    *)
(* several sources, those of one source in order, each at most once; an    *)
(* end only after all of them; and an error where a source is broken.      *)
(* The consumer may drop the stream at any moment.                         *)
(***************************************************************************)
EXTENDS Integers, Sequences

CONSTANTS
    Broken   \* the batch a source yields where it cannot be decoded

VARIABLES
    batches,  \* per source, the sequence of its batches; never changes
    got,      \* per source, how many of them were handed over
    status    \* "open", "end", "error" or "dropped"

vars == <<batches, got, status>>

Left(s) == got[s] < Len(batches[s])

Init ==
    /\ got = [s \in DOMAIN batches |-> 0]
    /\ status = "open"

Deliver(s) ==
    /\ status = "open" /\ Left(s)
    /\ batches[s][got[s] + 1] # Broken
    /\ got' = [got EXCEPT ![s] = @ + 1]
    /\ UNCHANGED <<batches, status>>

Fail(s) ==
    /\ status = "open" /\ Left(s)
    /\ batches[s][got[s] + 1] = Broken
    /\ status' = "error"
    /\ UNCHANGED <<batches, got>>

End ==
    /\ status = "open"
    /\ \A s \in DOMAIN batches : ~Left(s)
    /\ status' = "end"
    /\ UNCHANGED <<batches, got>>

Drop ==
    /\ status = "open"
    /\ status' = "dropped"
    /\ UNCHANGED <<batches, got>>

Next == End \/ Drop \/ \E s \in DOMAIN batches : Deliver(s) \/ Fail(s)

\* The stream never keeps its consumer waiting for ever.
Spec == Init /\ [][Next]_vars /\ WF_vars(Next)
=============================================================================
