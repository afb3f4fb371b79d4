------------------------ MODULE MCEventIntelligence -------------------------
(***************************************************************************)
(* EventIntelligence with five articles: a1 and a2 share two entities, a3  *)
(* (late) and a4 name a single one, and a5 has a publisher and an alias    *)
(* of an entity of a2.                                                     *)
(***************************************************************************)
EXTENDS EventIntelligence

CONSTANTS a1, a2, a3, a4, a5

MCRaw == [a \in Article |-> CASE a = a1 -> {"iran", "oil"}
                              [] a = a2 -> {"iran", "oil", "united states"}
                              [] a \in {a3, a4} -> {"oil"}
                              [] a = a5 -> {"us", "oil", "reuters"}]
MCNormal == [t \in {"iran", "oil", "united states", "us", "reuters"} |->
               IF t = "us" THEN "united states" ELSE t]
MCBlacklist == {"reuters"}
MCTopic == [a \in Article |-> IF a = a4 THEN "general" ELSE "energy"]
MCPublished == [a \in Article |-> CASE a = a1 -> 0
                                    [] a = a2 -> 30
                                    [] a = a3 -> 100
                                    [] a \in {a4, a5} -> 20]
MCTextScore == [a \in Article |-> [b \in Article |-> IF a = b THEN 100 ELSE 20]]
=============================================================================
