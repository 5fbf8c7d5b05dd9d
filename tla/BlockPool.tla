------------------------------ MODULE BlockPool -----------------------------
(***************************************************************************)
(* What the shared-memory programs promise, without semaphore, offsets or  *)
(* counters: a pool of blocks that its owner fills and closes, each block  *)
(* handed to one worker and completed by that worker, and an owner that    *)
(* reports success only when the pool is closed and every block complete.  *)
(***************************************************************************)
CONSTANTS Pools, Blocks, Workers, Nobody

VARIABLES
    status,   \* [Pools -> [Blocks -> Statuses]]
    worker,   \* who took each block
    closed,   \* the owner fills the pool no more
    success   \* the owner reported success

poolVars == <<status, worker, closed, success>>

Statuses == {"absent", "ready", "taken", "complete"}

Init ==
    /\ status = [m \in Pools |-> [b \in Blocks |-> "absent"]]
    /\ worker = [m \in Pools |-> [b \in Blocks |-> Nobody]]
    /\ closed = [m \in Pools |-> FALSE]
    /\ success = [m \in Pools |-> FALSE]

Publish(m, b) ==
    /\ ~closed[m] /\ status[m][b] = "absent"
    /\ status' = [status EXCEPT ![m][b] = "ready"]
    /\ UNCHANGED <<worker, closed, success>>

Take(m, b, w) ==
    /\ status[m][b] = "ready"
    /\ status' = [status EXCEPT ![m][b] = "taken"]
    /\ worker' = [worker EXCEPT ![m][b] = w]
    /\ UNCHANGED <<closed, success>>

Complete(m, b) ==
    /\ status[m][b] = "taken" /\ worker[m][b] # Nobody
    /\ status' = [status EXCEPT ![m][b] = "complete"]
    /\ worker' = [worker EXCEPT ![m][b] = Nobody]
    /\ UNCHANGED <<closed, success>>

Close(m) ==
    /\ ~closed[m]
    /\ closed' = [closed EXCEPT ![m] = TRUE]
    /\ UNCHANGED <<status, worker, success>>

Succeed(m) ==
    /\ closed[m]
    /\ \A b \in Blocks : status[m][b] \in {"absent", "complete"}
    /\ success' = [success EXCEPT ![m] = TRUE]
    /\ UNCHANGED <<status, worker, closed>>

Next ==
    \E m \in Pools :
       \/ \E b \in Blocks :
             Publish(m, b) \/ Complete(m, b) \/ \E w \in Workers : Take(m, b, w)
       \/ Close(m) \/ Succeed(m)

Spec == Init /\ [][Next]_poolVars
=============================================================================
