---- MODULE MCPanelRetry ----
(* Small instances of PanelRetry. *)
EXTENDS PanelRetry, TLC

\* Attempts, threads and jobs are interchangeable.
Symmetry == Permutations(Attempt) \cup Permutations(Worker) \cup Permutations(Job)

====
