---------------------------- MODULE MCRateLimiter ----------------------------
(* An instance of RateLimiter for TLC: two addresses, two routes. *)
EXTENDS RateLimiter

MCLimit == [submit |-> 1, quote |-> 2]
=============================================================================
