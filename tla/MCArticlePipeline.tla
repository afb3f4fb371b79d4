-------------------------- MODULE MCArticlePipeline --------------------------
(***************************************************************************)
(* ArticlePipeline on small instances.  a1 and a2 are syndicated copies of *)
(* one story, a3 is another story.                                         *)
(***************************************************************************)
EXTENDS ArticlePipeline

CONSTANTS a1, a2, a3, k1, k2, p1, p2

AllGroups == {"ml", "db", "em"}
WithoutEmbedding == {"ml", "db"}
MCTopic == {"raw_articles", "processed_articles"}
MCSubscribes == [g \in Group |-> IF g = "ml" THEN "raw_articles"
                                   ELSE "processed_articles"]
Syndicated == {a1, a2}
MCKeyOf == [a \in Article |-> IF a = a3 THEN k2 ELSE k1]
OneKey == {k1}
=============================================================================
