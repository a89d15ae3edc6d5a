----------------------------- MODULE RateLimiter -----------------------------
(***************************************************************************)
(* The rate limiter of the web server (web/server.ts): one bucket per      *)
(* address, opened by a request and refilled when its window has passed.   *)
(* Every limited route counts in the same bucket and compares it with a    *)
(* limit of its own.                                                       *)
(*                                                                         *)
(* History, read by properties only: admitted keeps, by address and route, *)
(* the instants at which requests were let through, in order.              *)
(***************************************************************************)
EXTENDS Integers, Sequences

CONSTANTS
  Ip, Route,
  Limit,      \* the max each route passes to rateLimited
  Window,     \* windowMs
  Absent,     \* no entry in rlBuckets
  MaxTime     \* bound on the clock

ASSUME LimiterAssumption ==
  /\ Limit \in [Route -> Nat \ {0}]
  /\ Window \in Nat /\ MaxTime \in Nat
  /\ Absent \notin [count : Nat, resetAt : Nat]

VARIABLES now, rlBuckets, admitted

vars == <<now, rlBuckets, admitted>>

Instants == 0..MaxTime

-----------------------------------------------------------------------------
Init ==
  /\ now = 0
  /\ rlBuckets = [ip \in Ip |-> Absent]
  /\ admitted = [ip \in Ip |-> [route \in Route |-> <<>>]]

\* The next request opens a new bucket.
Fresh(ip) == rlBuckets[ip] = Absent \/ now > rlBuckets[ip].resetAt

FullLate(ip, route) ==   \* mutant: off by one
  ~Fresh(ip) /\ rlBuckets[ip].count > Limit[route]

Full(ip, route) == ~Fresh(ip) /\ rlBuckets[ip].count >= Limit[route]

Counted(ip) ==
  IF Fresh(ip) THEN [count |-> 1, resetAt |-> now + Window]
               ELSE [rlBuckets[ip] EXCEPT !.count = @ + 1]

Admit(ip, route) ==
  /\ ~Full(ip, route)
  /\ rlBuckets' = [rlBuckets EXCEPT ![ip] = Counted(ip)]
  /\ admitted' = [admitted EXCEPT ![ip][route] = Append(@, now)]
  /\ UNCHANGED now

\* Mutant: every refused request starts the window again.
RefuseExtends(ip, route) ==
  /\ Full(ip, route)
  /\ rlBuckets' = [rlBuckets EXCEPT ![ip].resetAt = now + Window]
  /\ UNCHANGED <<now, admitted>>

\* 429: the request does not count.
Refuse(ip, route) == Full(ip, route) /\ UNCHANGED vars

PurgeAll ==   \* mutant: the purge does not look at the windows
  /\ rlBuckets' = [ip \in Ip |-> Absent]
  /\ UNCHANGED <<now, admitted>>

\* The interval of 5 minutes, at whatever instant it fires.
Purge ==
  /\ rlBuckets' = [ip \in Ip |-> IF Fresh(ip) THEN Absent ELSE rlBuckets[ip]]
  /\ UNCHANGED <<now, admitted>>

Advance ==
  /\ now < MaxTime /\ now' = now + 1
  /\ UNCHANGED <<rlBuckets, admitted>>

Next ==
  \/ \E ip \in Ip, route \in Route : Admit(ip, route) \/ Refuse(ip, route)
  \/ Purge \/ Advance

Spec == Init /\ [][Next]_vars

-----------------------------------------------------------------------------
Bucket == [count : Nat \ {0}, resetAt : Nat]

\* Every variable has its type; a bucket never counts beyond the largest limit.
TypeOK ==
  /\ now \in Instants
  /\ rlBuckets \in [Ip -> Bucket \cup {Absent}]
  /\ admitted \in [Ip -> [Route -> Seq(Instants)]]
  /\ \A ip \in Ip :
       rlBuckets[ip] # Absent => \E route \in Route : rlBuckets[ip].count <= Limit[route]

\* However requests to several routes, expiries and purges follow each other,
\* no window of that length sees more than twice a route's limit: so many
\* requests later, the window that began with a request is over.
BurstIsBounded ==
  \A ip \in Ip, route \in Route :
    LET passed == admitted[ip][route]
    IN \A i, j \in DOMAIN passed :
         j - i >= 2 * Limit[route] => passed[j] > passed[i] + Window

\* An address none of whose requests was let through during a window is refused
\* nowhere, even if it went on asking: a refusal never prolongs itself.
QuietIsServed ==
  \A ip \in Ip :
    (\A route \in Route : \A i \in DOMAIN admitted[ip][route] :
       now > admitted[ip][route][i] + Window)
      => \A route \in Route : ~Full(ip, route)
=============================================================================
