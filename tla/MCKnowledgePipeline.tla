-------------------------- MODULE MCKnowledgePipeline --------------------------
(* Instances of KnowledgePipeline for TLC.  Documents of one kind, requests and *)
(* consumers of one group are interchangeable.                                *)
EXTENDS KnowledgePipeline, TLC

CONSTANTS v1, v2, bad, r1, r2, i1, i2, m1

Alike == Permutations({v1, v2}) \cup Permutations({r1, r2}) \cup Permutations({i1, i2})
================================================================================
