----------------------------- MODULE MCPollLoop -----------------------------
\* PollLoop on small instances; runs and workers are interchangeable.
EXTENDS PollLoop, TLC

Symmetric == Permutations(Workers) \cup Permutations(Jobs)
=============================================================================
