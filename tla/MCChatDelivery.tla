--------------------------- MODULE MCChatDelivery ---------------------------
\* ChatDelivery on small instances; jobs and workers are interchangeable.
EXTENDS ChatDelivery, TLC

Symmetric == Permutations(Workers) \cup Permutations(Jobs)
=============================================================================
