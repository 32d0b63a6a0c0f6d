----------------------------- MODULE WriteBehind -----------------------------
(* A memory that is written to a file behind its back. A flush takes the whole  *)
(* content of the memory, one flush at a time, so the file always holds the     *)
(* content of one earlier moment, and never goes back.                          *)
(*                                                                              *)
(* A flush that fails leaves some of what it was to write, and is not repeated. *)
(* From then on flushes take some of the memory only, until the file is made    *)
(* anew. All the while each item in the file is one that the memory has held.   *)
CONSTANTS Key, Value,
          Start \* what the file and the memory hold at first

VARIABLES memory,   \* the content readers see
          flushing, \* the content of the running flush, or of the file
          file,
          damaged   \* an error was seen

vars == <<memory, flushing, file, damaged>>

Init == memory = Start /\ flushing = Start /\ file = Start /\ damaged = FALSE

\* Each item of "mixed" is one of the old or the new content.
Mixture(mixed, old, new) ==
    mixed \in [Key -> Value] /\ \A k \in Key : mixed[k] \in {old[k], new[k]}

\* What a flush that begins now takes of the memory.
Takes(content, old) ==
    content = memory \/ (damaged /\ Mixture(content, old, memory))

Change ==
    /\ memory' \in [Key -> Value]
    /\ UNCHANGED <<flushing, file, damaged>>

\* A flush begins when none runs.
Begin ==
    /\ flushing = file
    /\ Takes(flushing', file)
    /\ UNCHANGED <<memory, file, damaged>>

\* The running flush ends, and may be followed by the next at once.
End ==
    /\ file' = flushing
    /\ flushing' = flushing \/ Takes(flushing', flushing)
    /\ UNCHANGED <<memory, damaged>>

\* An error outside of a flush.
Damage ==
    /\ damaged' = TRUE
    /\ UNCHANGED <<memory, flushing, file>>

\* The running flush fails: it was written in part, and the next may follow.
Fail ==
    /\ damaged' = TRUE
    /\ Mixture(file', file, flushing)
    /\ Mixture(flushing', file', memory)
    /\ UNCHANGED memory

\* A damaged file is replaced by one with the content of the memory. When that
\* goes wrong some of it is missing.
Recover ==
    /\ damaged
    /\ Mixture(file', Start, memory)
    /\ flushing' = file'
    /\ UNCHANGED <<memory, damaged>>

Next == Change \/ Begin \/ End \/ Damage \/ Fail \/ Recover

Spec == Init /\ [][Next]_vars
=============================================================================
