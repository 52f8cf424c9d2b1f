----------------------------- MODULE WorkPermit -----------------------------
(***************************************************************************)
(* What a managed thread promises to the threads that supervise it,        *)
(* without saying how: the thread works only under a permit; a permit is   *)
(* given only in mode "run"; suspend returns only when the thread has      *)
(* given its permit back and will get no other one until somebody asks it  *)
(* to resume; once in mode "exit" it gets no permit any more, so that it   *)
(* finishes at most the piece of work it already has a permit for.         *)
(***************************************************************************)
CONSTANT Callers

VARIABLES mode,      \* "run", "quiet" or "exit"
          permit,    \* whether the thread holds a permit to work
          call       \* call[c]: the blocking call c is in, or "none"

vars == <<mode, permit, call>>

TypeOK ==
    /\ mode \in {"run", "quiet", "exit"}
    /\ permit \in BOOLEAN
    /\ call \in [Callers -> {"none", "suspend", "resume"}]

Init ==
    /\ mode \in {"run", "quiet"}
    /\ permit = FALSE
    /\ call = [c \in Callers |-> "none"]

Asked(op) == \E c \in Callers : call[c] = op

Ask(c, op) ==
    /\ call[c] = "none"
    /\ call' = [call EXCEPT ![c] = op]
    /\ UNCHANGED <<mode, permit>>

Reply(c) ==
    /\ \/ call[c] = "suspend" /\ mode = "quiet" /\ ~permit
       \/ call[c] = "resume"  /\ mode = "run"
    /\ call' = [call EXCEPT ![c] = "none"]
    /\ UNCHANGED <<mode, permit>>

\* The thread takes a permit for one piece of work, or gives it back.
Grant ==
    /\ mode = "run"
    /\ ~permit
    /\ permit' = TRUE
    /\ UNCHANGED <<mode, call>>

GiveBack ==
    /\ permit
    /\ permit' = FALSE
    /\ UNCHANGED <<mode, call>>

\* The thread itself acknowledges a request to pause ...
Quiesce ==
    /\ mode = "run"
    /\ ~permit
    /\ Asked("suspend")
    /\ mode' = "quiet"
    /\ UNCHANGED <<permit, call>>

\* ... and a request to resume, taking a permit with the same step.
Wake ==
    /\ mode = "quiet"
    /\ Asked("resume")
    /\ mode' = "run"
    /\ permit' = TRUE
    /\ UNCHANGED call

Stop ==
    /\ mode' = "exit"
    /\ UNCHANGED <<permit, call>>

Next ==
    \/ \E c \in Callers : \E op \in {"suspend", "resume"} : Ask(c, op)
    \/ \E c \in Callers : Reply(c)
    \/ Grant
    \/ GiveBack
    \/ Quiesce
    \/ Wake
    \/ Stop

Spec == Init /\ [][Next]_vars
=============================================================================
