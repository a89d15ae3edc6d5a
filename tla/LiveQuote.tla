------------------------------ MODULE LiveQuote ------------------------------
(***************************************************************************)
(* One live quote of the web server (web/quote-api.ts) on the quote engine *)
(* (core/engine.ts, rank.ts, eurc.ts, executable.ts), up to the row the    *)
(* page executes (web/public/choose-exec.js).                              *)
(*                                                                         *)
(* A step is the code between two awaits.  At each await the markets and   *)
(* the services answer anew: two quotes of one venue for one amount may    *)
(* differ, a venue may be missing, and a simulation may fail.  Quotes that *)
(* are not ranked yet are kept by the position of their venue in ADAPTERS. *)
(*                                                                         *)
(* History, read by properties only: the field sim of a quote says what    *)
(* its simulation did, and fills holds the outcomes of the last ones.      *)
(***************************************************************************)
EXTENDS Integers, Sequences, FiniteSets

CONSTANTS
  Adapter,      \* the venues queried, in the order of ADAPTERS
  Amount,       \* the amounts a venue may answer or a simulation may observe
  AmountIn,     \* the BLND quoted
  None          \* no quote

Executable ==
  {"xbull", "soroswap", "horizon", "aquarius", "comet", "ultrastellar", "stellarbroker"}

\* The venues whose quotes are simulated again.
Simulated == {"aquarius", "xbull", "stellarbroker"}

Venue == {Adapter[i] : i \in DOMAIN Adapter}

ASSUME QuoteAssumption ==
  /\ Adapter \in Seq(Executable)
  /\ \A i, j \in DOMAIN Adapter : Adapter[i] = Adapter[j] => i = j
  /\ Amount \subseteq Nat \ {0} /\ AmountIn \in Nat \ {0}

VARIABLES
  pair, pc,
  ranking,            \* result.ranking.ranked
  direct, leg1, leg2, \* result.eurc
  pending,            \* quotes of a leg waiting for their simulations
  answer, fills

vars == <<pair, pc, ranking, direct, leg1, leg2, pending, answer, fills>>

-----------------------------------------------------------------------------
(* Quotes and ranks.                                                       *)

\* The quote of an adapter: Aquarius and StellarBroker only estimate.
Quoted(source, amountIn, net) ==
  [source |-> source, amountIn |-> amountIn, net |-> net, sim |-> "none",
   conf |-> IF source \in {"aquarius", "stellarbroker"} THEN "estimate" ELSE "exact"]

QuoteAllWithNothing(amountIn) ==   \* mutant: a quote of nothing is ranked
  UNION {{[i \in S |-> Quoted(Adapter[i], amountIn, net[i])] : net \in [S -> Amount \cup {0}]}
           : S \in SUBSET DOMAIN Adapter}

\* quoteAll: the venues that answer, whatever becomes of the others; a quote of
\* nothing is ignored by rankQuotes.
QuoteAll(amountIn) ==
  UNION {{[i \in S |-> Quoted(Adapter[i], amountIn, net[i])] : net \in [S -> Amount]}
           : S \in SUBSET DOMAIN Adapter}

\* A stable sort by descending net.
Precedes(quotes, i, j) ==
  \/ quotes[i].net > quotes[j].net
  \/ quotes[i].net = quotes[j].net /\ i < j

Ahead(quotes, i) == {j \in DOMAIN quotes : Precedes(quotes, j, i)}

Ranked(quotes) ==
  [k \in 1..Cardinality(DOMAIN quotes) |->
     quotes[CHOOSE i \in DOMAIN quotes : Cardinality(Ahead(quotes, i)) = k - 1]]

Best(quotes) == IF DOMAIN quotes = {} THEN None ELSE Ranked(quotes)[1]

-----------------------------------------------------------------------------
(* Simulations.                                                            *)

\* What becomes of the simulation of a venue's route: a fill, a fill of nothing, a
\* route that cannot be executed, an RPC error or the watchdog of 15 s; or there is
\* none, the answer of Aquarius having no swap_chain_xdr or that of xBull no route.
\* For StellarBroker whatever is not a fill wholly observed is one case, "mixed".
Outcome(source) ==
  {[kind |-> "fill", net |-> n] : n \in Amount}
    \cup {[kind |-> k, net |-> 0] :
            k \in CASE source = "aquarius" -> {"none", "zero", "null", "throw"}
                    [] source = "xbull" -> {"none", "zero", "throw"}
                    [] source = "stellarbroker" -> {"mixed"}}

Sources(quotes) == {quotes[i].source : i \in DOMAIN quotes}

\* One outcome for each of the quotes that may be simulated.
Outcomes(quotes) ==
  LET S == Sources(quotes) \cap Simulated
  IN {o \in [S -> UNION {Outcome(s) : s \in S}] : \A s \in S : o[s] \in Outcome(s)}

SimulatedKeepingConf(q, o) ==   \* mutant: a failed simulation leaves its mark nowhere
  IF o.kind = "fill"
  THEN [q EXCEPT !.net = o.net, !.sim = "fill",
                 !.conf = IF q.source = "xbull" THEN q.conf ELSE "exact"]
  ELSE [q EXCEPT !.sim = o.kind]

\* A quote once its simulation is over: a fill corrects it and a failure marks it,
\* but xBull keeps its confidence when it is confirmed.  The guards on net > 0n leave a fill of nothing, like no
\* simulation at all, without effect on the row.
AfterSimulation(q, o) ==
  [q EXCEPT
     !.net = IF o.kind = "fill" THEN o.net ELSE q.net,
     !.sim = o.kind,
     !.conf = CASE o.kind = "fill" /\ q.source # "xbull" -> "exact"
                [] o.kind \in {"null", "throw"} -> "estimate"
                [] OTHER -> q.conf]

Resimulated(quotes, o) ==
  [i \in DOMAIN quotes |->
     IF quotes[i].source \in DOMAIN o THEN AfterSimulation(quotes[i], o[quotes[i].source])
     ELSE quotes[i]]

\* makeReSimLeg, with compareEurc's filter: what a leg may be made of.
Playable(q) ==
  /\ ~(q.source = "aquarius" /\ q.sim \in {"null", "zero"})
  /\ q.source \in Executable

Candidates(quotes, o) ==
  LET seen == Resimulated(quotes, o)
  IN [i \in {k \in DOMAIN seen : Playable(seen[k])} |-> seen[i]]

-----------------------------------------------------------------------------
Init ==
  /\ pair \in {"USDC", "EURC"} /\ pc = "quote"
  /\ ranking = <<>> /\ pending = <<>> /\ fills = <<>>
  /\ direct = None /\ leg1 = None /\ leg2 = None /\ answer = None

\* The quotes of the pair.
QuotePair ==
  /\ pc = "quote" /\ pc' = IF pair = "EURC" THEN "compare" ELSE "resim"
  /\ \E quotes \in QuoteAll(AmountIn) : ranking' = Ranked(quotes)
  /\ UNCHANGED <<pair, direct, leg1, leg2, pending, answer, fills>>

\* compareEurc: the direct route is quoted again, along with the first leg.
QuoteDirectAndLeg1 ==
  /\ pc = "compare" /\ pc' = "leg1"
  /\ \E quotes \in QuoteAll(AmountIn) : direct' = Best(quotes)
  /\ pending' \in QuoteAll(AmountIn)
  /\ UNCHANGED <<pair, ranking, leg1, leg2, answer, fills>>

SimulateLeg1 ==
  /\ pc = "leg1"
  /\ \E o \in Outcomes(pending) : leg1' = Best(Candidates(pending, o))
  /\ pc' = IF leg1' = None THEN "resim" ELSE "quote2"
  /\ pending' = <<>>
  /\ UNCHANGED <<pair, ranking, direct, leg2, answer, fills>>

\* Mutant: the second leg is quoted on an amount known before the simulations.
QuoteLeg2OnTheQuote ==
  /\ pc = "quote2" /\ pc' = "leg2"
  /\ \E amount \in Amount : pending' \in QuoteAll(amount)
  /\ UNCHANGED <<pair, ranking, direct, leg1, leg2, answer, fills>>

\* The second leg is quoted on what the first one is seen to give.
QuoteLeg2 ==
  /\ pc = "quote2" /\ pc' = "leg2"
  /\ pending' \in QuoteAll(leg1.net)
  /\ UNCHANGED <<pair, ranking, direct, leg1, leg2, answer, fills>>

SimulateLeg2 ==
  /\ pc = "leg2" /\ pc' = "resim"
  /\ \E o \in Outcomes(pending) : leg2' = Best(Candidates(pending, o))
  /\ pending' = <<>>
  /\ UNCHANGED <<pair, ranking, direct, leg1, answer, fills>>

-----------------------------------------------------------------------------
(* The answer.                                                             *)

\* The fill that replaces a quote of the venue, 0 if there is none: for Aquarius
\* and xBull only one that differs from the ranked quote.
Correction(source, o) ==
  IF source \in DOMAIN o /\ o[source].kind = "fill"
     /\ (source = "stellarbroker"
         \/ \E i \in DOMAIN ranking :
              ranking[i].source = source /\ ranking[i].net # o[source].net)
  THEN o[source].net ELSE 0

\* eurc.direct, compared with the composite after the simulations.
Corrected(o) ==
  IF direct # None /\ Correction(direct.source, o) # 0
  THEN [direct EXCEPT !.net = Correction(direct.source, o)] ELSE direct

ViaUsdc == leg2 # None

\* The row of the composite: two transactions, called observed.
Composite ==
  [source |-> "composite", amountIn |-> AmountIn, net |-> leg2.net, conf |-> "exact",
   sim |-> "none"]

LadderWithComposite(ranked) ==   \* mutant: the composite is listed after the sort
  IF ViaUsdc THEN Append(ranked, Composite) ELSE ranked

\* The ladder: the ranking and the composite, sorted together.
LadderOf(ranked) == Ranked(IF ViaUsdc THEN Append(ranked, Composite) ELSE ranked)

\* The headline of the quote.
BestOf(ranked, d) ==
  CASE pair = "EURC" /\ ViaUsdc /\ (d = None \/ leg2.net > d.net) -> Composite
    [] pair = "EURC" /\ d # None /\ (~ViaUsdc \/ leg2.net <= d.net) -> d
    [] OTHER -> IF DOMAIN ranked = {} THEN None ELSE ranked[1]

\* resimAquariusXbull after its simulations, then the answer.
Resimulate ==
  /\ pc = "resim" /\ pc' = "answered"
  /\ \E o \in Outcomes(ranking) :
       LET ranked == Ranked(Resimulated(ranking, o))
           best == BestOf(ranked, Corrected(o))
       IN /\ ranking' = ranked /\ fills' = o
          /\ direct' = Corrected(o)
          /\ answer' = [best |-> best,
                        ladder |-> IF best = None THEN <<>> ELSE LadderOf(ranked)]
  /\ UNCHANGED <<pair, leg1, leg2, pending>>

\* chooseExec: the row the page executes, the one selected or else the winner.
ChooseExec(selected, ladder) ==
  IF \E i \in DOMAIN ladder : ladder[i].source = selected
  THEN ladder[CHOOSE i \in DOMAIN ladder :
                /\ ladder[i].source = selected
                /\ \A j \in 1..(i - 1) : ladder[j].source # selected]
  ELSE ladder[1]

-----------------------------------------------------------------------------
Next ==
  QuotePair \/ QuoteDirectAndLeg1 \/ SimulateLeg1 \/ QuoteLeg2 \/ SimulateLeg2 \/ Resimulate

Spec == Init /\ [][Next]_vars

-----------------------------------------------------------------------------
Quote ==
  [source : Venue \cup {"composite"}, amountIn : Amount \cup {AmountIn}, net : Amount,
   conf : {"estimate", "exact"}, sim : {"none", "fill", "zero", "null", "mixed", "throw"}]

ASSUME NoneAssumption == None \notin [best : Quote \cup {None}, ladder : Seq(Quote)]

\* Every variable has its type.
TypeOK ==
  /\ pair \in {"USDC", "EURC"}
  /\ pc \in {"quote", "compare", "leg1", "quote2", "leg2", "resim", "answered"}
  /\ ranking \in Seq(Quote)
  /\ \E S \in SUBSET DOMAIN Adapter : pending \in [S -> Quote]
  /\ {direct, leg1, leg2} \subseteq Quote \cup {None}
  /\ answer # None => answer.best \in Quote \cup {None} /\ answer.ladder \in Seq(Quote)
  /\ pc = "answered" <=> answer # None

\* The composite shown hangs together: its second leg is quoted on the net of the
\* first one after its simulation (the fill, or the quote itself where the simulation
\* failed or there was none), and neither leg is an Aquarius route whose simulation
\* found that it cannot be executed or gives nothing.
CompositeIsFed ==
  ViaUsdc =>
    /\ leg2.amountIn = leg1.net
    /\ \A leg \in {leg1, leg2} :
         leg.source = "aquarius" => leg.sim \notin {"null", "zero"}

\* "Tracks whether a sim was attempted but failed (-> downgrade to 'estimate')": no
\* row whose simulation failed is left exact, and an exact row of a venue that is
\* simulated shows what its simulation gave.  An xBull row, exact as quoted, has two
\* ways to keep that word and its quoted net: an answer without a route, which is not
\* simulated, and a simulation that fills nothing.
ObservedIsSimulated ==
  answer # None =>
    \A i \in DOMAIN answer.ladder :
      LET row == answer.ladder[i]
      IN row.source \in Simulated /\ row.conf = "exact"
           => \/ row.sim = "fill" /\ row.net = fills[row.source].net
              \/ row.source = "xbull" /\ row.sim \in {"none", "zero"}

\* The row executed by default has the best net of the ladder, the composite
\* included, and a row that is selected is the row executed.
BestRowIsTheTarget ==
  answer # None =>
    \A i \in DOMAIN answer.ladder :
      /\ ChooseExec("none", answer.ladder).net >= answer.ladder[i].net
      /\ ChooseExec(answer.ladder[i].source, answer.ladder) = answer.ladder[i]

\* "replaces Aquarius and xBull's over-quoted nets with the real on-chain simulated
\* fills [...] Also updates result.eurc.direct / winner for direct EURC": a headline
\* of a venue that was simulated shows what the simulation gave.
HeadlineIsTheFill ==
  answer # None =>
    LET best == answer.best
    IN best # None /\ best.source \in DOMAIN fills /\ fills[best.source].kind = "fill"
         => best.net = fills[best.source].net

=============================================================================
