-------------------------- MODULE MCCompositeTraffic --------------------------
(* One composite against the limits of server.ts. *)
EXTENDS CompositeTraffic, TLC

MCLimit == [quote |-> 120, build |-> 30, submit |-> 10] @@
           ("asset-balance" :> 60) @@ ("tx-status" :> 90)
=============================================================================
