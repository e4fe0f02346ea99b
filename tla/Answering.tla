------------------------------ MODULE Answering ------------------------------
(***************************************************************************)
(* What the pipeline promises whoever asks: every question ends in one of  *)
(* four ways, and each way says what was done to the database for it.      *)
(*                                                                         *)
(*   - a data answer comes with one query, which passed the guard and has  *)
(*     a limit, and which was executed once;                               *)
(*   - a conceptual answer and a question declined executed nothing;       *)
(*   - a fault may come at any time, and is never taken for an answer.     *)
(***************************************************************************)
EXTENDS SqlGuard

VARIABLES state, \* "idle", "working", or the way the question ended
          posed  \* the query executed for it, or Null

avars == <<state, posed>>

AInit == state = "idle" /\ posed = Null

\* A blank question is declined at once.
Asked ==
    /\ state = "idle"
    /\ state' \in {"working", "declined"}
    /\ UNCHANGED posed

Bounded(query) == Accepted(query) /\ query.limit \in 0..MaxRows

\* Execution, which may be the last thing done, and may fail.
Executed ==
    /\ state = "working" /\ posed = Null
    /\ posed' # Null /\ Bounded(posed')
    /\ state' \in {"working", "data", "fault"}

Closed ==
    /\ state = "working"
    /\ \/ state' = "data" /\ posed # Null
       \/ state' \in {"conceptual", "declined"} /\ posed = Null
       \/ state' = "fault"
    /\ UNCHANGED posed

\* The answer is taken, or its process dies.
Left == state' = "idle" /\ posed' = Null

ANext == Asked \/ Executed \/ Closed \/ Left

ASpec == AInit /\ [][ANext]_avars
=============================================================================
