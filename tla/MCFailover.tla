----------------------------- MODULE MCFailover -----------------------------
\* Failover with the default order of the providers.
EXTENDS Failover
CONSTANTS centrifugo, supabase, polling

DefaultOrder == <<centrifugo, supabase, polling>>

\* Automation with and without failback, and a lock; none is what a failed read
\* of the settings yields.
SomePolicies ==
  {[lock |-> None, enabled |-> TRUE, failback |-> TRUE],
   [lock |-> None, enabled |-> TRUE, failback |-> FALSE],
   [lock |-> supabase, enabled |-> TRUE, failback |-> TRUE]}

\* All well; the first one down or not confirmed; the first two down.
Found(c, s) ==
  [p \in {centrifugo, supabase, polling} |->
     CASE p = centrifugo -> c [] p = supabase -> s [] p = polling -> "healthy"]
SomeSnapshots ==
  {Found("healthy", "healthy"), Found("unhealthy", "healthy"),
   Found("unknown", "unhealthy")}
=============================================================================
