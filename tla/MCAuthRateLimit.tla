-------------------------- MODULE MCAuthRateLimit --------------------------
(* The limits of a login and of a share's password, scaled down.            *)
EXTENDS AuthRateLimit

MCMaxFailures == [k \in Keys |-> 2]
=============================================================================
