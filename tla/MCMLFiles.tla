------------------------------ MODULE MCMLFiles ------------------------------
(***************************************************************************)
(* Two parts of the ML platform that keep files and share none: downloads  *)
(* of a file of two blocks, which the archive may replace by one of three  *)
(* and then by one of one block; and feature pipelines of two engines.     *)
(* A behaviour is one of one part, and the other stays as it began.        *)
(***************************************************************************)
EXTENDS GdeltDownload, FeaturePipeline

CONSTANTS d1, d2, e1, e2, f1, f2

MCSize == <<2, 3, 1>>

\* The same steps with another transform, with columns in another order and
\* read before they may have been computed, and with a cycle.
Step(fn, inputs, deps) == [fn |-> fn, inputs |-> inputs, deps |-> deps]
MCDefinitions ==
  {[a |-> Step("scale", <<"x">>, {}), b |-> Step("ratio", <<"a", "x">>, {"a"}), x |-> Step("count", <<>>, {"b"})],
   [a |-> Step("log", <<"x">>, {}), b |-> Step("ratio", <<"x", "a">>, {"c"})],
   [a |-> Step("scale", <<"x">>, {"b"}), b |-> Step("log", <<"x">>, {"a"})]}

Symmetry == Permutations(Download) \cup Permutations(Engine)

VARIABLE part

MCInit ==
  /\ part \in {"download", "features"}
  /\ Init /\ FeatureInit
  /\ part = "download" => definition = CHOOSE d \in Definitions : TRUE

MCNext ==
  /\ UNCHANGED part
  /\ \/ part = "download" /\ Next /\ UNCHANGED featureVars
     \/ part = "features" /\ FeatureNext /\ UNCHANGED vars
=============================================================================
