--------------------------- MODULE CompositeTraffic ---------------------------
(***************************************************************************)
(* The requests one page sends while it executes one composite swap        *)
(* (web/public/app.js), through the rate limiter.  An instant of the       *)
(* limiter's clock is the 1.5 s between two tries of a poll.               *)
(***************************************************************************)
EXTENDS RateLimiter

CONSTANTS
  Page,        \* the address of the page
  PollTries,   \* tries of pollTxStatus
  BalTries     \* tries of the wait for leg 1's USDC

VARIABLES step, tries, sentAt

\* The route of each request, in the order the page sends them.
Sends ==
  [quote |-> "quote", before |-> "asset-balance", build1 |-> "build",
   confirm1 |-> "asset-balance", submit1 |-> "submit", poll |-> "tx-status",
   receipt |-> "asset-balance", build2 |-> "build", confirm2 |-> "asset-balance",
   submit2 |-> "submit"]

\* What may follow an answer: a venue is polled for or was confirmed synchronously.
Follows ==
  [quote |-> {"before"}, before |-> {"build1"}, build1 |-> {"confirm1"},
   confirm1 |-> {"submit1"}, submit1 |-> {"poll", "receipt"},
   poll |-> {"poll", "receipt", "end"}, receipt |-> {"receipt", "build2"},
   build2 |-> {"confirm2"}, confirm2 |-> {"submit2"}, submit2 |-> {"end"}]

\* A refused balance or status is no news; a refused build or submission ends the
\* attempt with the error modal.
AfterRefusal ==
  [s \in DOMAIN Sends |->
     IF s \in {"quote", "build1", "submit1", "build2", "submit2"} THEN {"refused"}
     ELSE Follows[s] \ (IF s = "poll" THEN {"receipt"} ELSE {})]

Tries(s) == IF s = "poll" THEN PollTries ELSE BalTries

TrafficInit == Init /\ step = "quote" /\ tries = 0 /\ sentAt = 0

\* pollTxStatus waits after a try, the wait for the receipt before each.
Waited == (tries > 0 \/ step = "receipt") => now > sentAt

Send ==
  /\ step \in DOMAIN Sends /\ Waited
  /\ \E next \in IF Full(Page, Sends[step]) THEN AfterRefusal[step] ELSE Follows[step] :
       /\ next = step => tries + 1 < Tries(step)
       /\ step' = next
       /\ tries' = IF next = step THEN tries + 1 ELSE 0
  /\ Admit(Page, Sends[step]) \/ Refuse(Page, Sends[step])
  /\ sentAt' = now

Wait == Advance /\ UNCHANGED <<step, tries, sentAt>>

TrafficSpec == TrafficInit /\ [][Send \/ Wait]_<<vars, step, tries, sentAt>>

\* "/api/build-trustline and /api/submit (10/min)": a page is refused by a route
\* only after it has sent that route as many requests as it admits per minute.
EachRouteHasItsLimit ==
  step \in DOMAIN Sends /\ Full(Page, Sends[step])
    => LET passed == admitted[Page][Sends[step]]
       IN \E i, j \in DOMAIN passed :
            j - i + 1 >= Limit[Sends[step]] /\ passed[j] <= passed[i] + Window
=============================================================================
