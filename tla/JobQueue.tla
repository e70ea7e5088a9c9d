------------------------------ MODULE JobQueue ------------------------------
(***************************************************************************)
(* What the asynchronous work-paper jobs promise, whoever runs them: a job *)
(* is started once, in order of arrival, takes effect at most once and     *)
(* only while it runs, and is reported completed only after its effect.  A *)
(* failed job may have taken effect.                                       *)
(***************************************************************************)
EXTENDS Naturals

CONSTANT Jobs  \* natural numbers, in order of arrival

VARIABLES phase,   \* the life of every job
          applied  \* the jobs that took effect

vars == <<phase, applied>>

Init == /\ phase = [j \in Jobs |-> "none"]
        /\ applied = {}

Move(j, from, to) == /\ phase[j] = from
                     /\ phase' = [phase EXCEPT ![j] = to]

Submit(j) == Move(j, "none", "pending") /\ UNCHANGED applied

Start(j) == /\ Move(j, "pending", "running")
            /\ \A k \in Jobs : phase[k] = "pending" => j <= k
            /\ UNCHANGED applied

Apply(j) == /\ phase[j] = "running"
            /\ j \notin applied
            /\ applied' = applied \cup {j}
            /\ UNCHANGED phase

Complete(j) == /\ j \in applied
               /\ Move(j, "running", "completed")
               /\ UNCHANGED applied

Fail(j) == Move(j, "running", "failed") /\ UNCHANGED applied

Next == \E j \in Jobs : Submit(j) \/ Start(j) \/ Apply(j) \/ Complete(j) \/ Fail(j)

Spec == Init /\ [][Next]_vars

=============================================================================
