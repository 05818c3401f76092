------------------------------- MODULE MCTasks --------------------------------
\* Model values for the runs of Tasks.
EXTENDS Tasks, TLC

Symmetry == Permutations(Frame) \cup Permutations(Worker)
=============================================================================
