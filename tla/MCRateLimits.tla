---------------------------- MODULE MCRateLimits ----------------------------
(* Small buckets in the code's proportions: requests accrue twice as fast    *)
(* as the others, and a second is longer than a token takes.                 *)
EXTENDS RateLimits

MCCapacity == [b \in Bucket |-> CASE b = "events" -> 2 [] b = "requests" -> 3 [] b = "pairing" -> 1]
MCRate == [b \in Bucket |-> IF b = "requests" THEN 2 ELSE 1]
=============================================================================
