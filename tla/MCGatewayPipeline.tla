------------------------- MODULE MCGatewayPipeline -------------------------
(* Instances of GatewayPipeline for TLC: two concurrent requests drawn     *)
(* from the kinds that take different branches.                            *)
EXTENDS GatewayMetrics, TLC

CONSTANTS r1, r2

Kind(path, token, pow, mfa) ==
    [path |-> path, token |-> token, jti |-> "j1", pow |-> pow, mfa |-> mfa]

MCKinds == {Kind("preflight", FALSE, FALSE, FALSE), Kind("public", FALSE, FALSE, FALSE),
            Kind("honeypot", FALSE, FALSE, FALSE),
            Kind("auth_only", TRUE, FALSE, FALSE), Kind("service", FALSE, FALSE, FALSE),
            Kind("service", TRUE, TRUE, TRUE), Kind("service", TRUE, FALSE, FALSE)}
MCScores == 0..3
MCLevels == {"Normal", "Critical"}
MCChallengeT == [l \in MCLevels |-> IF l = "Normal" THEN 2 ELSE 1]
MCDenyT == [l \in MCLevels |-> IF l = "Normal" THEN 3 ELSE 2]
MCSymmetry == Permutations(Requests)

=============================================================================
