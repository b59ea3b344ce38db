-------------------------- MODULE MCSessionParties --------------------------
(* Two processes with the same producer id, one writer that takes no        *)
(* producer claim, and two runs of build_index.                             *)
EXTENDS SessionParties, TLC

CONSTANTS ego1, ego2, standalone, build1, build2, egoClaim, writerClaim

MCProducers == {ego1, ego2}
MCWriters == {standalone}
MCPublishers == {build1, build2}
MCClaims == {egoClaim, writerClaim}
MCClaimOf == [c \in Producers \cup Writers |->
                 IF c \in Producers THEN egoClaim ELSE writerClaim]

SessionSymmetry == Permutations({ego1, ego2}) \cup Permutations({build1, build2})
=============================================================================
