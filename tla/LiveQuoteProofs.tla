--------------------------- MODULE LiveQuoteProofs ---------------------------
(***************************************************************************)
(* Theorems about LiveQuote, for any venues of the program, in any order,  *)
(* and any amounts.                                                        *)
(***************************************************************************)
EXTENDS LiveQuote, FiniteSetTheorems, TLAPS

-----------------------------------------------------------------------------
(* The sort.                                                               *)

\* Ranked is a permutation of the quotes, in the order of Precedes.
LEMMA RankedPermutes ==
  ASSUME NEW quotes, IsFiniteSet(DOMAIN quotes), DOMAIN quotes \subseteq Int,
         \A i \in DOMAIN quotes : quotes[i].net \in Int
  PROVE  \E at \in Bijection(1..Cardinality(DOMAIN quotes), DOMAIN quotes) :
           /\ Ranked(quotes) = [k \in 1..Cardinality(DOMAIN quotes) |-> quotes[at[k]]]
           /\ \A k, l \in 1..Cardinality(DOMAIN quotes) : k < l => Precedes(quotes, at[k], at[l])
<1> DEFINE D == DOMAIN quotes
           n == Cardinality(D)
           ahead(i) == Cardinality(Ahead(quotes, i))
           at == [k \in 1..n |-> CHOOSE i \in D : ahead(i) = k - 1]
           place == [i \in D |-> ahead(i) + 1]
<1>1. n \in Nat
  BY FS_CardinalityType
<1>2. ASSUME NEW i \in D
      PROVE  /\ IsFiniteSet(Ahead(quotes, i)) /\ Ahead(quotes, i) \subseteq D
             /\ i \notin Ahead(quotes, i)
             /\ ahead(i) \in 0..(n - 1)
  <2>1. Ahead(quotes, i) \subseteq D \ {i}
    BY DEF Ahead, Precedes
  <2>2. IsFiniteSet(D \ {i}) /\ Cardinality(D \ {i}) = n - 1
    BY FS_RemoveElement
  <2>3. IsFiniteSet(Ahead(quotes, i)) /\ ahead(i) <= n - 1
    BY <2>1, <2>2, FS_Subset
  <2>4. ahead(i) \in Nat
    BY <2>3, FS_CardinalityType
  <2> QED
    BY <1>1, <2>1, <2>3, <2>4
<1>3. ASSUME NEW i \in D, NEW j \in D, Precedes(quotes, i, j)
      PROVE  ahead(i) < ahead(j)
  <2>1. Ahead(quotes, i) \subseteq Ahead(quotes, j)
    BY <1>3 DEF Ahead, Precedes
  <2>2. i \in Ahead(quotes, j) /\ i \notin Ahead(quotes, i)
    BY <1>2, <1>3 DEF Ahead
  <2>3. ahead(i) <= ahead(j) /\ ahead(i) # ahead(j)
    BY <1>2, <2>1, <2>2, FS_Subset
  <2>4. ahead(i) \in Int /\ ahead(j) \in Int
    BY <1>2
  <2> QED
    BY <2>3, <2>4
<1>4. \A i, j \in D : i # j => Precedes(quotes, i, j) \/ Precedes(quotes, j, i)
  BY DEF Precedes
<1> HIDE DEF ahead
<1>5. place \in Injection(D, 1..n)
  <2>1. \A i \in D : place[i] = ahead(i) + 1 /\ place[i] \in 1..n /\ ahead(i) \in Int
    BY <1>1, <1>2
  <2>2. \A i, j \in D : place[i] = place[j] => i = j
    BY <1>3, <1>4, <2>1
  <2> QED
    BY <2>1, <2>2 DEF Injection, IsInjective
<1>6. place \in Surjection(D, 1..n)
  <2>1. IsFiniteSet(1..n) /\ Cardinality(1..n) = n
    BY <1>1, FS_Interval
  <2> QED
    BY <1>5, <2>1, FS_Injection
<1>7. ASSUME NEW k \in 1..n PROVE at[k] \in D /\ ahead(at[k]) = k - 1
  <2>1. PICK i \in D : place[i] = k
    BY <1>6 DEF Surjection
  <2>2. ahead(i) = k - 1
    BY <1>2, <2>1 DEF ahead
  <2> QED
    BY <2>2
<1>8. Ranked(quotes) = [k \in 1..n |-> quotes[at[k]]]
  BY DEF Ranked, ahead
<1> HIDE DEF at
<1>9. at \in [1..n -> D]
  BY <1>7 DEF at
<1>10. \A k, l \in 1..n : at[k] = at[l] => k = l
  BY <1>1, <1>7
<1>11. ASSUME NEW i \in D PROVE \E k \in 1..n : at[k] = i
  <2>1. ahead(i) + 1 \in 1..n /\ ahead(i) \in Int
    BY <1>1, <1>2, <1>5 DEF ahead
  <2>2. ahead(at[ahead(i) + 1]) = ahead(i) /\ at[ahead(i) + 1] \in D
    BY <1>7, <2>1
  <2>3. at[ahead(i) + 1] = i
    BY <1>3, <1>4, <2>1, <2>2
  <2> QED
    BY <2>1, <2>3
<1>12. at \in Bijection(1..n, D)
  BY <1>9, <1>10, <1>11 DEF Bijection, Injection, Surjection, IsInjective
<1>13. ASSUME NEW k \in 1..n, NEW l \in 1..n, k < l PROVE Precedes(quotes, at[k], at[l])
  <2>1. ahead(at[k]) < ahead(at[l]) /\ ahead(at[l]) \in Int /\ ahead(at[k]) \in Int
    BY <1>1, <1>7, <1>13
  <2>2. ~Precedes(quotes, at[l], at[k])
    BY <1>3, <1>7, <2>1
  <2> QED
    BY <1>4, <1>7, <2>1, <2>2
<1> QED
  BY <1>8, <1>12, <1>13

Distinct(rows) == \A i, j \in DOMAIN rows : rows[i].source = rows[j].source => i = j

\* Quotes the program ranks: finitely many, each at a position of its own.
Quotes(quotes) ==
  /\ IsFiniteSet(DOMAIN quotes) /\ DOMAIN quotes \subseteq Int
  /\ \A i \in DOMAIN quotes : quotes[i] \in Quote

\* What a ranking holds: the quotes, by descending net, and no venue twice if the
\* quotes hold none twice.
LEMMA RankedRows ==
  ASSUME NEW quotes, Quotes(quotes)
  PROVE  /\ Ranked(quotes) \in Seq(Quote)
         /\ DOMAIN Ranked(quotes) = {} <=> DOMAIN quotes = {}
         /\ \A k \in DOMAIN Ranked(quotes) : \E i \in DOMAIN quotes : Ranked(quotes)[k] = quotes[i]
         /\ \A k, l \in DOMAIN Ranked(quotes) : k <= l => Ranked(quotes)[k].net >= Ranked(quotes)[l].net
         /\ Distinct(quotes) => Distinct(Ranked(quotes))
<1> DEFINE n == Cardinality(DOMAIN quotes)
<1>1. n \in Nat /\ (n = 0 <=> DOMAIN quotes = {})
  BY FS_CardinalityType, FS_EmptySet DEF Quotes
<1>2. \A i \in DOMAIN quotes : quotes[i] \in Quote /\ quotes[i].net \in Int
  <2>1. \A q \in Quote : q.net \in Amount
    BY DEF Quote
  <2>2. Amount \subseteq Int
    BY QuoteAssumption
  <2> QED
    BY <2>1, <2>2 DEF Quotes
<1>3. PICK at \in Bijection(1..n, DOMAIN quotes) :
        /\ Ranked(quotes) = [k \in 1..n |-> quotes[at[k]]]
        /\ \A k, l \in 1..n : k < l => Precedes(quotes, at[k], at[l])
  BY <1>2, RankedPermutes DEF Quotes
<1> HIDE DEF n
<1>4. \A k \in 1..n : at[k] \in DOMAIN quotes
  BY DEF Bijection, Injection
<1>5. \A k, l \in 1..n : at[k] = at[l] => k = l
  BY DEF Bijection, Injection, IsInjective
<1>6. DOMAIN Ranked(quotes) = 1..n /\ \A k \in 1..n : Ranked(quotes)[k] = quotes[at[k]]
  BY <1>3
<1>7. Ranked(quotes) \in Seq(Quote)
  <2>1. Ranked(quotes) \in [1..n -> Quote]
    BY <1>2, <1>3, <1>4
  <2> QED
    BY <1>1, <2>1
<1>8. ASSUME NEW k \in 1..n, NEW l \in 1..n, k <= l
      PROVE  Ranked(quotes)[k].net >= Ranked(quotes)[l].net
  <2>1. quotes[at[k]].net \in Int /\ quotes[at[l]].net \in Int
    BY <1>2, <1>4
  <2>2. CASE k = l
    BY <1>6, <2>1, <2>2
  <2>3. CASE k # l
    <3>1. Precedes(quotes, at[k], at[l])
      BY <1>1, <1>3, <1>8, <2>3
    <3> QED
      BY <1>6, <2>1, <3>1 DEF Precedes
  <2> QED BY <2>2, <2>3
<1>9. Distinct(quotes) => Distinct(Ranked(quotes))
  BY <1>4, <1>5, <1>6 DEF Distinct
<1>10. DOMAIN Ranked(quotes) = {} <=> DOMAIN quotes = {}
  <2>1. 1..n = {} <=> n = 0
    BY <1>1
  <2> QED
    BY <1>1, <1>6, <2>1
<1>11. \A k \in DOMAIN Ranked(quotes) : \E i \in DOMAIN quotes : Ranked(quotes)[k] = quotes[i]
  BY <1>4, <1>6
<1> QED
  BY <1>6, <1>7, <1>8, <1>9, <1>10, <1>11

LEMMA BestIsAQuote ==
  ASSUME NEW quotes, Quotes(quotes)
  PROVE  Best(quotes) # None => \E i \in DOMAIN quotes : Best(quotes) = quotes[i]
<1>1. CASE DOMAIN quotes = {}
  BY <1>1 DEF Best
<1>2. CASE DOMAIN quotes # {}
  <2>1. 1 \in DOMAIN Ranked(quotes)
    BY <1>2, RankedRows
  <2> QED
    BY <1>2, <2>1, RankedRows DEF Best
<1> QED BY <1>1, <1>2

-----------------------------------------------------------------------------
(* Quotes and simulations.                                                 *)

\* A quote as its venue gave it.
AsQuoted(q) ==
  /\ q.sim = "none" /\ q.source \in Venue
  /\ q.source \in {"aquarius", "stellarbroker"} => q.conf = "estimate"

\* The two ways an xBull quote keeps its word "exact" without a fill.
Unobserved(source, kind) == source = "xbull" /\ kind \in {"none", "zero"}

LEMMA VenueFacts ==
  /\ IsFiniteSet(DOMAIN Adapter) /\ DOMAIN Adapter \subseteq Int
  /\ \A i \in DOMAIN Adapter : Adapter[i] \in Venue /\ Adapter[i] \in Executable
  /\ "composite" \notin Venue /\ "none" \notin Venue
<1>1. Adapter \in Seq(Executable)
  BY QuoteAssumption
<1>2. DOMAIN Adapter = 1..Len(Adapter) /\ Len(Adapter) \in Nat
  BY <1>1
<1>3. IsFiniteSet(DOMAIN Adapter) /\ DOMAIN Adapter \subseteq Int
  BY <1>2, FS_Interval
<1>4. \A i \in DOMAIN Adapter : Adapter[i] \in Venue /\ Adapter[i] \in Executable
  BY <1>1 DEF Venue
<1>5. Venue \subseteq Executable
  BY <1>4 DEF Venue
<1>6. "composite" \notin Venue /\ "none" \notin Venue
  BY <1>5 DEF Executable
<1> QED
  BY <1>3, <1>4, <1>6

\* The quotes of a leg or of the pair.
LEMMA QuoteAllGives ==
  ASSUME NEW amountIn \in Amount \cup {AmountIn}, NEW quotes \in QuoteAll(amountIn)
  PROVE  /\ \E S \in SUBSET DOMAIN Adapter : quotes \in [S -> Quote]
         /\ Quotes(quotes) /\ Distinct(quotes)
         /\ \A i \in DOMAIN quotes : AsQuoted(quotes[i]) /\ quotes[i].amountIn = amountIn
<1>0. PICK S \in SUBSET DOMAIN Adapter :
        quotes \in {[i \in S |-> Quoted(Adapter[i], amountIn, net[i])] : net \in [S -> Amount]}
  BY DEF QuoteAll
<1>1. PICK net \in [S -> Amount] : quotes = [i \in S |-> Quoted(Adapter[i], amountIn, net[i])]
  BY <1>0
<1>2. ASSUME NEW i \in S
      PROVE  /\ quotes[i] \in Quote /\ quotes[i].source = Adapter[i]
             /\ quotes[i].amountIn = amountIn /\ AsQuoted(quotes[i])
  <2>1. Adapter[i] \in Venue /\ net[i] \in Amount
    BY VenueFacts
  <2>2. quotes[i] = Quoted(Adapter[i], amountIn, net[i])
    BY <1>1
  <2> QED
    BY <2>1, <2>2 DEF Quoted, Quote, AsQuoted
<1>3. DOMAIN quotes = S /\ quotes \in [S -> Quote]
  BY <1>1, <1>2
<1>4. IsFiniteSet(S) /\ S \subseteq Int
  BY VenueFacts, FS_Subset
<1>5. Quotes(quotes)
  BY <1>2, <1>3, <1>4 DEF Quotes
<1>6. Distinct(quotes)
  BY <1>2, <1>3, QuoteAssumption DEF Distinct
<1> QED
  BY <1>2, <1>3, <1>5, <1>6

\* One quote once its simulation is over.
LEMMA SimulationShows ==
  ASSUME NEW q \in Quote, NEW o \in Outcome(q.source), q.source \in Simulated
  PROVE  /\ AfterSimulation(q, o) \in Quote
         /\ AfterSimulation(q, o).source = q.source
         /\ AfterSimulation(q, o).amountIn = q.amountIn
         /\ AfterSimulation(q, o).sim = o.kind
         /\ o.kind = "fill" => AfterSimulation(q, o).net = o.net
         /\ AsQuoted(q) /\ AfterSimulation(q, o).conf = "exact"
              => o.kind = "fill" \/ Unobserved(q.source, o.kind)
<1>1. /\ o.kind \in {"none", "fill", "zero", "null", "throw", "mixed"}
      /\ o.kind = "fill" => o.net \in Amount
      /\ o.kind = "mixed" => q.source = "stellarbroker"
      /\ q.source \in {"xbull", "aquarius", "stellarbroker"}
      /\ q.source = "stellarbroker" => o.kind \in {"fill", "mixed"}
      /\ q.source = "xbull" => o.kind \in {"fill", "none", "zero", "throw"}
  BY DEF Outcome, Simulated
<1>2. q.conf \in {"estimate", "exact"} /\ q.net \in Amount
  BY DEF Quote
<1> DEFINE net == IF o.kind = "fill" THEN o.net ELSE q.net
           conf == CASE o.kind = "fill" /\ q.source # "xbull" -> "exact"
                     [] o.kind \in {"null", "throw"} -> "estimate"
                     [] OTHER -> q.conf
<1>3. AfterSimulation(q, o) =
        [source |-> q.source, amountIn |-> q.amountIn, net |-> net, conf |-> conf, sim |-> o.kind]
  <2>1. AfterSimulation(q, o) = [q EXCEPT !.net = net, !.sim = o.kind, !.conf = conf]
    BY DEF AfterSimulation
  <2> HIDE DEF net, conf
  <2> QED
    BY <2>1 DEF Quote
<1>4. net \in Amount /\ conf \in {"estimate", "exact"}
  BY <1>1, <1>2
<1>5. AsQuoted(q) /\ conf = "exact" => o.kind = "fill" \/ Unobserved(q.source, o.kind)
  BY <1>1 DEF AsQuoted, Unobserved
<1>6. o.kind = "fill" => net = o.net
  OBVIOUS
<1> HIDE DEF net, conf
<1> QED
  BY <1>1, <1>3, <1>4, <1>5, <1>6 DEF Quote

\* The quotes of one await once their simulations are over.
LEMMA SimulationsShow ==
  ASSUME NEW quotes, Quotes(quotes), NEW o \in Outcomes(quotes)
  PROVE  /\ DOMAIN Resimulated(quotes, o) = DOMAIN quotes
         /\ Quotes(Resimulated(quotes, o))
         /\ Distinct(quotes) => Distinct(Resimulated(quotes, o))
         /\ \A i \in DOMAIN quotes :
              LET q == quotes[i]
                  seen == Resimulated(quotes, o)[i]
              IN /\ seen.source = q.source /\ seen.amountIn = q.amountIn
                 /\ AsQuoted(q) /\ q.source \in Simulated /\ seen.conf = "exact"
                      => \/ seen.sim = "fill" /\ seen.net = o[q.source].net
                         \/ Unobserved(q.source, seen.sim)
         /\ \A s \in DOMAIN o : o[s].kind = "fill" => o[s].net \in Amount
<1> DEFINE seen == Resimulated(quotes, o)
<1>1. /\ DOMAIN o = Sources(quotes) \cap Simulated
      /\ \A s \in DOMAIN o : o[s] \in Outcome(s)
  BY DEF Outcomes
<1>2. DOMAIN seen = DOMAIN quotes
  BY DEF Resimulated
<1>3. \A i \in DOMAIN quotes :
        seen[i] = IF quotes[i].source \in DOMAIN o THEN AfterSimulation(quotes[i], o[quotes[i].source])
                  ELSE quotes[i]
  BY DEF Resimulated
<1> HIDE DEF seen
<1>4. ASSUME NEW i \in DOMAIN quotes
      PROVE  LET q == quotes[i]
             IN /\ seen[i] \in Quote /\ seen[i].source = q.source /\ seen[i].amountIn = q.amountIn
                /\ AsQuoted(q) /\ q.source \in Simulated /\ seen[i].conf = "exact"
                     => \/ seen[i].sim = "fill" /\ seen[i].net = o[q.source].net
                        \/ Unobserved(q.source, seen[i].sim)
  <2> DEFINE q == quotes[i]
  <2>1. q \in Quote
    BY DEF Quotes
  <2>2. CASE q.source \in DOMAIN o
    <3>1. q.source \in Simulated /\ o[q.source] \in Outcome(q.source)
      BY <1>1, <2>2
    <3>2. seen[i] = AfterSimulation(q, o[q.source])
      BY <1>3, <2>2
    <3> HIDE DEF q
    <3> QED
      BY <2>1, <3>1, <3>2, SimulationShows DEF q
  <2>3. CASE q.source \notin DOMAIN o
    <3>1. q.source \notin Simulated
      BY <1>1, <2>3 DEF Sources
    <3> QED
      BY <1>3, <2>1, <2>3, <3>1
  <2> QED
    BY <2>2, <2>3
<1>5. \A s \in DOMAIN o : o[s].kind = "fill" => o[s].net \in Amount
  BY <1>1 DEF Outcome, Simulated
<1>6. Quotes(seen) /\ (Distinct(quotes) => Distinct(seen))
  BY <1>2, <1>4 DEF Quotes, Distinct
<1> QED
  BY <1>2, <1>4, <1>5, <1>6 DEF seen

\* What CompositeIsFed asks of each leg.
Kept(leg) == leg.source = "aquarius" => leg.sim \notin {"null", "zero"}

\* The leg that is kept.
LEMMA LegIsPlayable ==
  ASSUME NEW quotes, Quotes(quotes), NEW o \in Outcomes(quotes), NEW amountIn,
         \A i \in DOMAIN quotes : quotes[i].sim = "none" /\ quotes[i].amountIn = amountIn,
         NEW leg, leg = Best(Candidates(quotes, o)), leg # None
  PROVE  leg \in Quote /\ leg.amountIn = amountIn /\ Kept(leg)
<1> DEFINE seen == Resimulated(quotes, o)
           kept == Candidates(quotes, o)
<1>1. /\ DOMAIN kept = {k \in DOMAIN seen : Playable(seen[k])}
      /\ \A i \in DOMAIN kept : kept[i] = seen[i]
  BY DEF Candidates
<1>2. Quotes(seen) /\ DOMAIN seen = DOMAIN quotes
  BY SimulationsShow
<1>3. \A i \in DOMAIN quotes :
        seen[i].source = quotes[i].source /\ seen[i].amountIn = amountIn
  BY SimulationsShow
<1> HIDE DEF seen, kept
<1>4. Quotes(kept)
  <2>1. DOMAIN kept \subseteq DOMAIN seen
    BY <1>1
  <2>2. IsFiniteSet(DOMAIN kept)
    BY <1>2, <2>1, FS_Subset DEF Quotes
  <2> QED
    BY <1>1, <1>2, <2>1, <2>2 DEF Quotes
<1>5. PICK i \in DOMAIN kept : leg = kept[i]
  BY <1>4, BestIsAQuote DEF kept
<1>6. leg \in Quote /\ i \in DOMAIN quotes /\ leg = seen[i] /\ Playable(leg)
  BY <1>1, <1>2, <1>4, <1>5 DEF Quotes
<1> QED
  BY <1>3, <1>6 DEF Playable, Kept

-----------------------------------------------------------------------------
(* The invariant.                                                          *)

\* A leg waits for its simulations as its venues quoted it.
Waiting ==
  /\ Quotes(pending)
  /\ \A i \in DOMAIN pending : pending[i].sim = "none"
  /\ pc = "leg1" => \A i \in DOMAIN pending : pending[i].amountIn = AmountIn
  /\ pc = "leg2" => \A i \in DOMAIN pending : pending[i].amountIn = leg1.net

\* The second leg follows the first.
Legs ==
  /\ pc \in {"quote2", "leg2"} => leg1 # None
  /\ pc \in {"quote", "compare", "leg1", "quote2", "leg2"} => leg2 = None
  /\ leg1 # None => Kept(leg1)
  /\ leg2 # None => leg1 # None /\ leg2.amountIn = leg1.net /\ Kept(leg2)

\* Before its simulations the ranking is what the venues quoted, each once.
RankingIsQuoted ==
  pc # "answered" => Distinct(ranking) /\ \A k \in DOMAIN ranking : AsQuoted(ranking[k])

QuoteInv ==
  /\ TypeOK /\ Waiting /\ Legs /\ RankingIsQuoted
  /\ ObservedIsSimulated /\ BestRowIsTheTarget

LEMMA InitQuote == Init => QuoteInv
<1> SUFFICES ASSUME Init PROVE QuoteInv
  OBVIOUS
<1> USE DEF Init
<1>1. pending = <<>> /\ DOMAIN pending = {} /\ ranking = <<>> /\ DOMAIN ranking = {}
  OBVIOUS
<1>2. TypeOK
  <2>1. pending \in [{} -> Quote] /\ {} \in SUBSET DOMAIN Adapter
    BY <1>1
  <2>2. ranking \in Seq(Quote)
    OBVIOUS
  <2> QED
    BY <2>1, <2>2 DEF TypeOK
<1>3. Waiting
  BY <1>1, FS_EmptySet DEF Waiting, Quotes
<1>4. Legs /\ RankingIsQuoted
  BY <1>1 DEF Legs, RankingIsQuoted, Distinct
<1>5. ObservedIsSimulated /\ BestRowIsTheTarget
  BY DEF ObservedIsSimulated, BestRowIsTheTarget
<1> QED
  BY <1>2, <1>3, <1>4, <1>5 DEF QuoteInv

\* No quote waits.
LEMMA NothingWaits ==
  ASSUME pending' = <<>>
  PROVE  Waiting' /\ \E S \in SUBSET DOMAIN Adapter : pending' \in [S -> Quote]
<1>1. DOMAIN pending' = {} /\ pending' \in [{} -> Quote]
  OBVIOUS
<1> QED
  BY <1>1, FS_EmptySet DEF Waiting, Quotes

LEMMA StepQuotePair == QuoteInv /\ QuotePair => QuoteInv'
<1> SUFFICES ASSUME QuoteInv, QuotePair PROVE QuoteInv'
  OBVIOUS
<1>1. /\ pc = "quote" /\ pc' \in {"compare", "resim"}
      /\ pair' = pair /\ direct' = direct /\ leg1' = leg1 /\ leg2' = leg2
      /\ pending' = pending /\ answer' = answer /\ answer = None
  BY DEF QuotePair, QuoteInv, TypeOK
<1>2. PICK quotes \in QuoteAll(AmountIn) : ranking' = Ranked(quotes)
  BY DEF QuotePair
<1>3. Quotes(quotes) /\ Distinct(quotes) /\ \A i \in DOMAIN quotes : AsQuoted(quotes[i])
  BY QuoteAllGives
<1>4. ranking' \in Seq(Quote) /\ Distinct(ranking') /\ \A k \in DOMAIN ranking' : AsQuoted(ranking'[k])
  BY <1>2, <1>3, RankedRows
<1>5. TypeOK'
  BY <1>1, <1>4 DEF QuoteInv, TypeOK
<1>6. Waiting' /\ Legs'
  BY <1>1 DEF QuoteInv, Waiting, Legs
<1>7. RankingIsQuoted'
  BY <1>4 DEF RankingIsQuoted, Distinct, AsQuoted
<1>8. ObservedIsSimulated' /\ BestRowIsTheTarget'
  BY <1>1 DEF ObservedIsSimulated, BestRowIsTheTarget
<1> QED
  BY <1>5, <1>6, <1>7, <1>8 DEF QuoteInv

LEMMA StepQuoteDirectAndLeg1 == QuoteInv /\ QuoteDirectAndLeg1 => QuoteInv'
<1> SUFFICES ASSUME QuoteInv, QuoteDirectAndLeg1 PROVE QuoteInv'
  OBVIOUS
<1>1. /\ pc = "compare" /\ pc' = "leg1"
      /\ pair' = pair /\ ranking' = ranking /\ leg1' = leg1 /\ leg2' = leg2
      /\ answer' = answer /\ answer = None
  BY DEF QuoteDirectAndLeg1, QuoteInv, TypeOK
<1>2. direct' \in Quote \cup {None}
  <2>1. PICK quotes \in QuoteAll(AmountIn) : direct' = Best(quotes)
    BY DEF QuoteDirectAndLeg1
  <2>2. Quotes(quotes)
    BY QuoteAllGives
  <2> QED
    BY <2>1, <2>2, BestIsAQuote DEF Quotes
<1>3. pending' \in QuoteAll(AmountIn)
  BY DEF QuoteDirectAndLeg1
<1>4. /\ \E S \in SUBSET DOMAIN Adapter : pending' \in [S -> Quote]
      /\ Quotes(pending')
      /\ \A i \in DOMAIN pending' : AsQuoted(pending'[i]) /\ pending'[i].amountIn = AmountIn
  BY <1>3, QuoteAllGives
<1>5. TypeOK'
  BY <1>1, <1>2, <1>4 DEF QuoteInv, TypeOK
<1>6. Waiting'
  BY <1>1, <1>4 DEF Waiting, AsQuoted, Quotes
<1>7. Legs' /\ RankingIsQuoted'
  BY <1>1 DEF QuoteInv, Legs, RankingIsQuoted
<1>8. ObservedIsSimulated' /\ BestRowIsTheTarget'
  BY <1>1 DEF ObservedIsSimulated, BestRowIsTheTarget
<1> QED
  BY <1>5, <1>6, <1>7, <1>8 DEF QuoteInv

LEMMA StepSimulateLeg1 == QuoteInv /\ SimulateLeg1 => QuoteInv'
<1> SUFFICES ASSUME QuoteInv, SimulateLeg1 PROVE QuoteInv'
  OBVIOUS
<1>1. /\ pc = "leg1" /\ pc' = (IF leg1' = None THEN "resim" ELSE "quote2")
      /\ pair' = pair /\ ranking' = ranking /\ direct' = direct /\ leg2' = leg2
      /\ answer' = answer /\ answer = None /\ pending' = <<>>
  BY DEF SimulateLeg1, QuoteInv, TypeOK
<1>2. PICK o \in Outcomes(pending) : leg1' = Best(Candidates(pending, o))
  BY DEF SimulateLeg1
<1>3. /\ Quotes(pending)
      /\ \A i \in DOMAIN pending : pending[i].sim = "none" /\ pending[i].amountIn = AmountIn
  BY <1>1 DEF QuoteInv, Waiting
<1>4. leg1' # None => leg1' \in Quote /\ Kept(leg1')
  BY <1>2, <1>3, LegIsPlayable
<1>5. TypeOK'
  BY <1>1, <1>4, NothingWaits DEF QuoteInv, TypeOK
<1>6. Waiting'
  BY <1>1, NothingWaits
<1>7. Legs' /\ RankingIsQuoted'
  BY <1>1, <1>4 DEF QuoteInv, Legs, RankingIsQuoted
<1>8. ObservedIsSimulated' /\ BestRowIsTheTarget'
  BY <1>1 DEF ObservedIsSimulated, BestRowIsTheTarget
<1> QED
  BY <1>5, <1>6, <1>7, <1>8 DEF QuoteInv

LEMMA StepQuoteLeg2 == QuoteInv /\ QuoteLeg2 => QuoteInv'
<1> SUFFICES ASSUME QuoteInv, QuoteLeg2 PROVE QuoteInv'
  OBVIOUS
<1>1. /\ pc = "quote2" /\ pc' = "leg2"
      /\ pair' = pair /\ ranking' = ranking /\ direct' = direct /\ leg1' = leg1 /\ leg2' = leg2
      /\ answer' = answer /\ answer = None
  BY DEF QuoteLeg2, QuoteInv, TypeOK
<1>2. leg1 # None /\ leg1 \in Quote /\ leg1.net \in Amount
  BY <1>1 DEF QuoteInv, Legs, TypeOK, Quote
<1>3. pending' \in QuoteAll(leg1.net)
  BY DEF QuoteLeg2
<1>4. /\ \E S \in SUBSET DOMAIN Adapter : pending' \in [S -> Quote]
      /\ Quotes(pending')
      /\ \A i \in DOMAIN pending' : AsQuoted(pending'[i]) /\ pending'[i].amountIn = leg1.net
  BY <1>2, <1>3, QuoteAllGives
<1>5. TypeOK'
  BY <1>1, <1>4 DEF QuoteInv, TypeOK
<1>6. Waiting'
  BY <1>1, <1>4 DEF Waiting, AsQuoted, Quotes
<1>7. Legs' /\ RankingIsQuoted'
  BY <1>1, <1>2 DEF QuoteInv, Legs, RankingIsQuoted
<1>8. ObservedIsSimulated' /\ BestRowIsTheTarget'
  BY <1>1 DEF ObservedIsSimulated, BestRowIsTheTarget
<1> QED
  BY <1>5, <1>6, <1>7, <1>8 DEF QuoteInv

LEMMA StepSimulateLeg2 == QuoteInv /\ SimulateLeg2 => QuoteInv'
<1> SUFFICES ASSUME QuoteInv, SimulateLeg2 PROVE QuoteInv'
  OBVIOUS
<1>1. /\ pc = "leg2" /\ pc' = "resim"
      /\ pair' = pair /\ ranking' = ranking /\ direct' = direct /\ leg1' = leg1
      /\ answer' = answer /\ answer = None /\ pending' = <<>>
  BY DEF SimulateLeg2, QuoteInv, TypeOK
<1>2. PICK o \in Outcomes(pending) : leg2' = Best(Candidates(pending, o))
  BY DEF SimulateLeg2
<1>3. /\ Quotes(pending)
      /\ \A i \in DOMAIN pending : pending[i].sim = "none" /\ pending[i].amountIn = leg1.net
  BY <1>1 DEF QuoteInv, Waiting
<1>4. leg2' # None => leg2' \in Quote /\ Kept(leg2') /\ leg2'.amountIn = leg1.net
  BY <1>2, <1>3, LegIsPlayable
<1>5. TypeOK'
  BY <1>1, <1>4, NothingWaits DEF QuoteInv, TypeOK
<1>6. Waiting'
  BY <1>1, NothingWaits
<1>7. Legs' /\ RankingIsQuoted'
  BY <1>1, <1>4 DEF QuoteInv, Legs, RankingIsQuoted
<1>8. ObservedIsSimulated' /\ BestRowIsTheTarget'
  BY <1>1 DEF ObservedIsSimulated, BestRowIsTheTarget
<1> QED
  BY <1>5, <1>6, <1>7, <1>8 DEF QuoteInv

-----------------------------------------------------------------------------
(* The answer.                                                             *)

\* The ranking and the composite: a row is a row of the ranking or the composite,
\* and no source comes twice.
LEMMA LadderRows ==
  ASSUME NEW ranked \in Seq(Quote), Distinct(ranked),
         \A k \in DOMAIN ranked : ranked[k].source \in Venue,
         ViaUsdc => leg2 \in Quote
  PROVE  /\ LadderOf(ranked) \in Seq(Quote)
         /\ Distinct(LadderOf(ranked))
         /\ \A k, l \in DOMAIN LadderOf(ranked) :
              k <= l => LadderOf(ranked)[k].net >= LadderOf(ranked)[l].net
         /\ \A k \in DOMAIN LadderOf(ranked) :
              \/ \E i \in DOMAIN ranked : LadderOf(ranked)[k] = ranked[i]
              \/ LadderOf(ranked)[k] = Composite
<1> DEFINE rows == IF ViaUsdc THEN Append(ranked, Composite) ELSE ranked
<1>1. /\ Len(ranked) \in Nat /\ DOMAIN ranked = 1..Len(ranked)
      /\ \A k \in DOMAIN ranked : ranked[k] \in Quote
  OBVIOUS
<1>2. ViaUsdc => Composite \in Quote
  BY DEF Composite, Quote
<1>3. CASE ViaUsdc
  <2>1. /\ DOMAIN rows = 1..(Len(ranked) + 1)
        /\ \A k \in 1..Len(ranked) : rows[k] = ranked[k]
        /\ rows[Len(ranked) + 1] = Composite
    BY <1>1, <1>3
  <2>2. Composite.source = "composite" /\ "composite" \notin Venue
    BY VenueFacts DEF Composite
  <2> HIDE DEF rows
  <2>3. \A k \in DOMAIN rows : (k \in DOMAIN ranked /\ rows[k] = ranked[k])
                               \/ (k = Len(ranked) + 1 /\ rows[k] = Composite)
    BY <1>1, <2>1
  <2>4. Distinct(rows)
    BY <1>1, <2>2, <2>3 DEF Distinct
  <2>5. Quotes(rows)
    <3>1. IsFiniteSet(DOMAIN rows) /\ DOMAIN rows \subseteq Int
      BY <1>1, <2>1, FS_Interval
    <3> QED
      BY <1>1, <1>2, <1>3, <2>3, <3>1 DEF Quotes
  <2>6. LadderOf(ranked) = Ranked(rows)
    BY DEF LadderOf, rows
  <2> HIDE DEF rows
  <2> QED
    BY <2>3, <2>4, <2>5, <2>6, RankedRows
<1>4. CASE ~ViaUsdc
  <2>1. LadderOf(ranked) = Ranked(ranked)
    BY <1>4 DEF LadderOf
  <2>2. Quotes(ranked)
    <3>1. IsFiniteSet(DOMAIN ranked) /\ DOMAIN ranked \subseteq Int
      BY <1>1, FS_Interval
    <3> QED
      BY <1>1, <3>1 DEF Quotes
  <2> QED
    BY <2>1, <2>2, RankedRows
<1> QED
  BY <1>3, <1>4

\* Two ways to the row that is executed.
LEMMA ChooseExecFinds ==
  ASSUME NEW ladder \in Seq(Quote), Distinct(ladder), NEW i \in DOMAIN ladder
  PROVE  ChooseExec(ladder[i].source, ladder) = ladder[i]
<1> DEFINE First(j) == /\ ladder[j].source = ladder[i].source
                       /\ \A k \in 1..(j - 1) : ladder[k].source # ladder[i].source
<1>1. DOMAIN ladder = 1..Len(ladder) /\ Len(ladder) \in Nat
  OBVIOUS
<1>2. \A j \in DOMAIN ladder : ladder[j].source = ladder[i].source => j = i
  BY DEF Distinct
<1>3. First(i)
  BY <1>1, <1>2
<1>4. (CHOOSE j \in DOMAIN ladder : First(j)) = i
  BY <1>2, <1>3
<1> QED
  BY <1>4 DEF ChooseExec

LEMMA StepResimulate == QuoteInv /\ Resimulate => QuoteInv'
<1> SUFFICES ASSUME QuoteInv, Resimulate PROVE QuoteInv'
  OBVIOUS
<1>1. /\ pc = "resim" /\ pc' = "answered" /\ answer = None
      /\ pair' = pair /\ leg1' = leg1 /\ leg2' = leg2 /\ pending' = pending
  BY DEF Resimulate, QuoteInv, TypeOK
<1> DEFINE seen(o) == Resimulated(ranking, o)
           ladderOf(o) == IF BestOf(Ranked(seen(o)), Corrected(o)) = None THEN <<>>
                          ELSE LadderOf(Ranked(seen(o)))
<1>2. PICK o \in Outcomes(ranking) :
        /\ ranking' = Ranked(seen(o)) /\ fills' = o /\ direct' = Corrected(o)
        /\ answer' = [best |-> BestOf(Ranked(seen(o)), Corrected(o)), ladder |-> ladderOf(o)]
  BY DEF Resimulate
<1>3. /\ ranking \in Seq(Quote) /\ Distinct(ranking) /\ Quotes(ranking)
      /\ \A k \in DOMAIN ranking : AsQuoted(ranking[k])
  <2>1. ranking \in Seq(Quote)
    BY DEF QuoteInv, TypeOK
  <2>2. /\ DOMAIN ranking = 1..Len(ranking) /\ Len(ranking) \in Nat
        /\ \A k \in DOMAIN ranking : ranking[k] \in Quote
    BY <2>1
  <2>3. Quotes(ranking)
    BY <2>2, FS_Interval DEF Quotes
  <2> QED
    BY <1>1, <2>1, <2>3 DEF QuoteInv, RankingIsQuoted
<1> DEFINE after == seen(o)
           ranked == Ranked(after)
           ladder == ladderOf(o)
<1>4. /\ Quotes(after) /\ Distinct(after) /\ DOMAIN after = DOMAIN ranking
      /\ \A i \in DOMAIN ranking :
           /\ after[i].source = ranking[i].source
           /\ ranking[i].source \in Simulated /\ after[i].conf = "exact"
                => \/ after[i].sim = "fill" /\ after[i].net = o[ranking[i].source].net
                   \/ Unobserved(ranking[i].source, after[i].sim)
      /\ \A s \in DOMAIN o : o[s].kind = "fill" => o[s].net \in Amount
  BY <1>3, SimulationsShow
<1> HIDE DEF seen
<1>5. /\ ranked \in Seq(Quote) /\ Distinct(ranked)
      /\ \A k \in DOMAIN ranked : \E i \in DOMAIN ranking : ranked[k] = after[i]
  BY <1>4, RankedRows
<1> HIDE DEF after
<1>6. \A k \in DOMAIN ranked :
        /\ ranked[k].source \in Venue
        /\ ranked[k].source \in Simulated /\ ranked[k].conf = "exact"
             => \/ ranked[k].sim = "fill" /\ ranked[k].net = o[ranked[k].source].net
                \/ Unobserved(ranked[k].source, ranked[k].sim)
  BY <1>3, <1>4, <1>5 DEF AsQuoted
<1>7. ranking' = ranked /\ answer'.ladder = ladder /\ answer'.best = BestOf(ranked, Corrected(o))
  BY <1>2 DEF after
<1>8. /\ leg1 \in Quote \cup {None} /\ leg2 \in Quote \cup {None} /\ direct \in Quote \cup {None}
      /\ (ViaUsdc => leg2 \in Quote)
  BY DEF QuoteInv, TypeOK, ViaUsdc
<1>9. /\ LadderOf(ranked) \in Seq(Quote) /\ Distinct(LadderOf(ranked))
      /\ \A k, l \in DOMAIN LadderOf(ranked) :
           k <= l => LadderOf(ranked)[k].net >= LadderOf(ranked)[l].net
      /\ \A k \in DOMAIN LadderOf(ranked) :
           \/ \E i \in DOMAIN ranked : LadderOf(ranked)[k] = ranked[i]
           \/ LadderOf(ranked)[k] = Composite
  <2> HIDE DEF ranked
  <2> QED
    BY <1>5, <1>6, <1>8, LadderRows
<1>10. ladder = <<>> \/ ladder = LadderOf(ranked)
  BY DEF after
<1> HIDE DEF ranked, ladder
<1>11. Corrected(o) \in Quote \cup {None}
  <2>1. CASE direct # None /\ Correction(direct.source, o) # 0
    <3>1. Correction(direct.source, o) \in Amount
      BY <1>4, <2>1 DEF Correction
    <3>2. direct \in Quote
      BY <1>8, <2>1
    <3> QED
      BY <2>1, <3>1, <3>2 DEF Corrected, Quote
  <2>2. CASE ~(direct # None /\ Correction(direct.source, o) # 0)
    BY <1>8, <2>2 DEF Corrected
  <2> QED BY <2>1, <2>2
<1>12. BestOf(ranked, Corrected(o)) \in Quote \cup {None}
  <2>1. ViaUsdc => Composite \in Quote
    BY <1>8 DEF Composite, Quote
  <2>2. DOMAIN ranked # {} => ranked[1] \in Quote
    BY <1>5
  <2> QED
    BY <1>11, <2>1, <2>2 DEF BestOf
<1>13. ladder \in Seq(Quote)
  <2>1. <<>> \in Seq(Quote)
    OBVIOUS
  <2> QED
    BY <1>9, <1>10, <2>1
<1>14. TypeOK'
  <2>1. answer' # None
    <3>1. answer' \in [best : Quote \cup {None}, ladder : Seq(Quote)]
      BY <1>2, <1>12, <1>13 DEF ladder, ranked, after
    <3> QED
      BY <3>1, NoneAssumption
  <2>2. pair' \in {"USDC", "EURC"} /\ (\E S \in SUBSET DOMAIN Adapter : pending' \in [S -> Quote])
    BY <1>1 DEF QuoteInv, TypeOK
  <2> QED
    BY <1>1, <1>2, <1>5, <1>7, <1>8, <1>11, <1>12, <1>13, <2>1, <2>2 DEF TypeOK
<1>15. Waiting' /\ Legs' /\ RankingIsQuoted'
  BY <1>1 DEF QuoteInv, Waiting, Legs, RankingIsQuoted
<1>16. ObservedIsSimulated'
  <2> SUFFICES ASSUME NEW i \in DOMAIN ladder, ladder[i].source \in Simulated, ladder[i].conf = "exact"
               PROVE  \/ ladder[i].sim = "fill" /\ ladder[i].net = o[ladder[i].source].net
                      \/ Unobserved(ladder[i].source, ladder[i].sim)
    BY <1>2, <1>7 DEF ObservedIsSimulated, Unobserved
  <2>1. ladder = LadderOf(ranked)
    BY <1>10
  <2>2. ladder[i] # Composite
    BY DEF Composite, Simulated
  <2> QED
    BY <1>6, <1>9, <2>1, <2>2
<1>17. BestRowIsTheTarget'
  <2> SUFFICES ASSUME NEW i \in DOMAIN ladder
               PROVE  /\ ChooseExec("none", ladder).net >= ladder[i].net
                      /\ ChooseExec(ladder[i].source, ladder) = ladder[i]
    BY <1>7 DEF BestRowIsTheTarget
  <2>1. ladder = LadderOf(ranked)
    BY <1>10
  <2>2. 1 \in DOMAIN ladder /\ 1 <= i
    BY <1>13
  <2>3. \A k \in DOMAIN ladder : ladder[k].source # "none"
    <3>1. Composite.source # "none" /\ "none" \notin Venue
      BY VenueFacts DEF Composite
    <3> QED
      BY <1>6, <1>9, <2>1, <3>1
  <2>4. ChooseExec("none", ladder) = ladder[1]
    BY <2>3 DEF ChooseExec
  <2>5. ladder[1].net >= ladder[i].net
    BY <1>9, <2>1, <2>2
  <2> QED
    BY <1>9, <1>13, <2>1, <2>4, <2>5, ChooseExecFinds
<1> QED
  BY <1>14, <1>15, <1>16, <1>17 DEF QuoteInv

LEMMA StepInv == QuoteInv /\ [Next]_vars => QuoteInv'
<1> SUFFICES ASSUME QuoteInv, [Next]_vars PROVE QuoteInv'
  OBVIOUS
<1>1. CASE UNCHANGED vars
  BY <1>1 DEF vars, QuoteInv, TypeOK, Waiting, Legs, RankingIsQuoted, ObservedIsSimulated,
              BestRowIsTheTarget
<1>2. CASE Next
  BY <1>2, StepQuotePair, StepQuoteDirectAndLeg1, StepSimulateLeg1, StepQuoteLeg2,
     StepSimulateLeg2, StepResimulate DEF Next
<1> QED
  BY <1>1, <1>2

LEMMA QuoteIsInvariant == Spec => []QuoteInv
  BY InitQuote, StepInv, PTL DEF Spec

-----------------------------------------------------------------------------
\* Types, for any venues and amounts: whatever the simulations come to, only a
\* quote of something is ranked, sent through a leg or shown.
THEOREM TypeCorrect == Spec => []TypeOK
<1>1. QuoteInv => TypeOK
  BY DEF QuoteInv
<1> QED
  BY <1>1, QuoteIsInvariant, PTL

\* A composite is shown only when its second leg was quoted on the net the first one
\* had after its simulation and neither leg is an Aquarius route whose simulation
\* called it unexecutable or filled nothing.
THEOREM CompositeFed == Spec => []CompositeIsFed
<1>1. QuoteInv => CompositeIsFed
  BY DEF QuoteInv, Legs, Kept, CompositeIsFed, ViaUsdc
<1> QED
  BY <1>1, QuoteIsInvariant, PTL

\* A failed simulation leaves no row exact, and an exact row of a simulated venue
\* shows its fill, but for an xBull row that was not simulated or filled nothing.
THEOREM ObservedSimulated == Spec => []ObservedIsSimulated
<1>1. QuoteInv => ObservedIsSimulated
  BY DEF QuoteInv
<1> QED
  BY <1>1, QuoteIsInvariant, PTL

\* Whatever the simulations and the composite do to the order, the row executed by
\* default is the best one and a selected row is the one executed.
THEOREM BestRowExecuted == Spec => []BestRowIsTheTarget
<1>1. QuoteInv => BestRowIsTheTarget
  BY DEF QuoteInv
<1> QED
  BY <1>1, QuoteIsInvariant, PTL
=============================================================================
