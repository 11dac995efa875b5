----------------------------- MODULE RequestLog -----------------------------
(***************************************************************************)
(* What the request log promises, without clock, ids, database, faults or  *)
(* restarts: an accepted record waits its turn, is kept at most once and   *)
(* in the order of acceptance, and once it is gone it never returns.  A    *)
(* record may overwrite another only once the environment has let the      *)
(* clock fall behind the log.                                              *)
(*                                                                         *)
(* MemoryStore implements this specification (MemoryStore!Implements).     *)
(***************************************************************************)
EXTENDS Naturals, Sequences, Functions

CONSTANT Capacity    \* records that may wait

VARIABLES
    count,      \* records offered so far
    waiting,    \* accepted records, oldest first
    kept,       \* records in the log
    gone,       \* records that were accepted and are no longer in the log
    behind      \* the clock has fallen behind the log

logVars == <<count, waiting, kept, gone, behind>>

Init == count = 0 /\ waiting = <<>> /\ kept = {} /\ gone = {} /\ behind = FALSE

\* The next record finds room ...
Accept ==
    /\ Len(waiting) < Capacity
    /\ count' = count + 1
    /\ waiting' = Append(waiting, count + 1)
    /\ UNCHANGED <<kept, gone, behind>>

\* ... or is dropped because the queue is full, and only then.
Reject ==
    /\ Len(waiting) = Capacity
    /\ count' = count + 1
    /\ UNCHANGED <<waiting, kept, gone, behind>>

\* The oldest waiting record enters the log; nothing leaves it.
Keep ==
    /\ waiting # <<>>
    /\ waiting' = Tail(waiting)
    /\ kept' = kept \cup {Head(waiting)}
    /\ UNCHANGED <<count, gone, behind>>

\* ... or takes the place of a record of the log, with the clock behind.
Overwrite ==
    /\ behind
    /\ waiting # <<>>
    /\ waiting' = Tail(waiting)
    /\ \E old \in kept :
        /\ kept' = (kept \ {old}) \cup {Head(waiting)}
        /\ gone' = gone \cup {old}
    /\ UNCHANGED <<count, behind>>

\* The oldest waiting record cannot be written.
Fail ==
    /\ waiting # <<>>
    /\ waiting' = Tail(waiting)
    /\ gone' = gone \cup {Head(waiting)}
    /\ UNCHANGED <<count, kept, behind>>

\* The process ends: what waited is lost, what was kept stays.
Abandon ==
    /\ waiting' = <<>>
    /\ gone' = gone \cup Range(waiting)
    /\ UNCHANGED <<count, kept, behind>>

\* Records whose retention has ended leave the log.
Expire ==
    \E old \in SUBSET kept :
        /\ kept' = kept \ old
        /\ gone' = gone \cup old
        /\ UNCHANGED <<count, waiting, behind>>

\* The clock falls behind, for good.
FallBehind ==
    /\ behind' = TRUE
    /\ UNCHANGED <<count, waiting, kept, gone>>

Next == Accept \/ Reject \/ Keep \/ Overwrite \/ Fail \/ Abandon \/ Expire
        \/ FallBehind

Spec == Init /\ [][Next]_logVars
==============================================================================
