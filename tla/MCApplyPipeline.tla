--------------------------- MODULE MCApplyPipeline ---------------------------
(* ApplyPipeline for three providers and every graph of dependencies among  *)
(* them, cycles included, with a declaration of another platform.  The      *)
(* priority list goes against the alphabet and repeats a name.              *)
EXTENDS ApplyPipeline

MCNames == 1..3
MCPriorities == {<<2, 3, 2>>}
MCGraphs == SUBSET {e \in MCNames \X MCNames : e[1] # e[2]}
MCElsewhere == {<<1, 3>>}
=============================================================================
