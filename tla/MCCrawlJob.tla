----------------------------- MODULE MCCrawlJob ------------------------------
(* Crawls, workers and ticks are interchangeable. *)
EXTENDS CrawlJob, TLC

Symmetric == Permutations(Crawls) \cup Permutations(Workers) \cup Permutations(Ticks)
=============================================================================
