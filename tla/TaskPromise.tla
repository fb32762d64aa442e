------------------------------ MODULE TaskPromise ------------------------------
(***************************************************************************)
(* What a pipeline stage promises about a task, without queues, workers or *)
(* restarts: a task is opened, an attempt settles it as done, failed or    *)
(* parked; a parked task opens again when its deferral is over and not     *)
(* before, a failed one only when the operator retries it, and a done task *)
(* is done for ever.  While `reliable` is false (a write of an attempt     *)
(* landed after the attempt was over) nothing is promised; a restart makes *)
(* the stage reliable again.                                               *)
(***************************************************************************)
CONSTANTS Task
VARIABLES phase, reliable

Phases == {"absent", "open", "parked", "failed", "done"}

Moves ==
  { <<"absent", "open">>, <<"absent", "parked">>,
    <<"open", "parked">>, <<"open", "failed">>, <<"open", "done">>,
    <<"parked", "open">>, <<"failed", "open">> }

TypeOK == phase \in [Task -> Phases] /\ reliable \in BOOLEAN

Init == phase = [t \in Task |-> "absent"] /\ reliable = TRUE

Move(t) ==
  \E p \in Phases :
    /\ <<phase[t], p>> \in Moves
    /\ phase' = [phase EXCEPT ![t] = p]
    /\ reliable' \in BOOLEAN

Break == ~reliable' /\ phase' \in [Task -> Phases]

Repair == UNCHANGED phase /\ reliable' = TRUE

Next == (\E t \in Task : Move(t)) \/ Break \/ Repair

Spec == Init /\ [][Next]_<<phase, reliable>>
=============================================================================
