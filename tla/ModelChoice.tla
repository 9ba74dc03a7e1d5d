----------------------------- MODULE ModelChoice ------------------------------
(***************************************************************************)
(* Which models are asked, and in which order: the filters of the fallback *)
(* chain (selection/fallback.ts, exclusions.ts), and the profiles the      *)
(* wizard generates from the discovered models (selection/profiles.ts).    *)
(*                                                                         *)
(* A catalog maps models that have been discovered to their capabilities.  *)
(* What is not known of a model is missing from the record of it.          *)
(***************************************************************************)
EXTENDS Integers, Sequences, SequencesExt, FiniteSets

CONSTANTS MaxAttempts,    \* MAX_FALLBACK_ATTEMPTS
          ProfileConfigs  \* PROFILE_CONFIGS: what a profile is when nothing was discovered

Known(catalog, m, field) == m \in DOMAIN catalog /\ field \in DOMAIN catalog[m]

\* tokens * 1.1 must fit.
Fits(catalog, m, tokens) ==
  Known(catalog, m, "window") => catalog[m].window * 10 >= tokens * 11

CallsTools(catalog, m) == Known(catalog, m, "tools") => catalog[m].tools

Sees(catalog, m) == Known(catalog, m, "vision") => catalog[m].vision

\* Array.filter: the models of a chain that are good, in its order.
Kept(chain, good) ==
  LET kept[n \in 0 .. Len(chain)] ==
        IF n = 0 THEN <<>>
        ELSE IF chain[n] \in good THEN Append(kept[n - 1], chain[n]) ELSE kept[n - 1]
  IN kept[Len(chain)]

\* Mutant: the safety net is missing.
NetMissing(chain, kept) == kept

\* The safety net of every filter: it never empties the chain.
Net(chain, kept) == IF kept = <<>> THEN chain ELSE kept

\* need: [tokens, tools, vision].
FilterChain(chain, excluded, need, catalog) ==
  LET fit == {m \in Range(chain) : need.tokens = 0 \/ Fits(catalog, m, need.tokens)}
      call == {m \in Range(chain) : ~need.tools \/ CallsTools(catalog, m)}
      see == {m \in Range(chain) : ~need.vision \/ Sees(catalog, m)}
      allowed == Net(chain, Kept(chain, Range(chain) \ excluded))
      fitting == Net(allowed, Kept(allowed, fit))
      calling == Net(fitting, Kept(fitting, call))
      seeing == Net(calling, Kept(calling, see))
  IN SubSeq(seeing, 1, IF Len(seeing) < MaxAttempts THEN Len(seeing) ELSE MaxAttempts)
-----------------------------------------------------------------------------
(* buildProfileFromDiscovered; models that compare as equal are in some    *)
(* order, which the code takes from that of their discovery.               *)

Price(catalog, m) == IF Known(catalog, m, "price") THEN catalog[m].price ELSE 0

Pool(catalog) ==
  LET priced == {m \in DOMAIN catalog : Price(catalog, m) > 0}
  IN IF priced = {} THEN DOMAIN catalog ELSE priced

\* The ways to list models, each once.
Lists(models) == {s \in [1 .. Cardinality(models) -> models] : Range(s) = models}

Ascends(catalog, s) ==
  \A i, j \in DOMAIN s : i < j => Price(catalog, s[i]) <= Price(catalog, s[j])

ByPrice(catalog, models) == CHOOSE s \in Lists(models) : Ascends(catalog, s)

\* The place a list shorter than that does not have is taken by the one before.
At(models, n) == models[IF n <= Len(models) THEN n ELSE Len(models)]

Tier(primary, fallbacks) == [primary |-> primary, fallbacks |-> fallbacks]

\* pickDiscoveredFallback: the first of another provider.
Alternative(catalog, primary, candidates) ==
  LET others == Kept(candidates, {m \in Range(candidates) \ {primary} :
                                    catalog[m].provider # catalog[primary].provider})
  IN IF others = <<>> THEN <<>> ELSE <<others[1]>>

WithAlternative(catalog, primary, candidates) ==
  Tier(primary, Alternative(catalog, primary, candidates))

\* Mutant: the list is sorted the other way round.
EcoReversed(catalog) ==
  LET models == Reverse(ByPrice(catalog, Pool(catalog)))
  IN <<Tier(models[1], <<>>), WithAlternative(catalog, At(models, 2), models),
       WithAlternative(catalog, models[1 + Len(models) \div 3], models),
       WithAlternative(catalog, models[1 + Len(models) \div 3], models)>>

Eco(catalog) ==
  LET models == ByPrice(catalog, Pool(catalog))
      mid == models[1 + Len(models) \div 3]
  IN <<Tier(models[1], <<>>),
       WithAlternative(catalog, At(models, 2), models),
       WithAlternative(catalog, mid, models),
       WithAlternative(catalog, mid, models)>>

Thinking(catalog) == {m \in Pool(catalog) : Known(catalog, m, "reasoning") /\ catalog[m].reasoning}

BestThinking(catalog, best) ==
  IF Thinking(catalog) = {} THEN best
  ELSE Last(ByPrice(catalog, Thinking(catalog)))

Premium(catalog) ==
  LET models == Reverse(ByPrice(catalog, Pool(catalog)))
  IN <<WithAlternative(catalog, At(models, 2), models),
       WithAlternative(catalog, models[1], models),
       Tier(models[1], IF Len(models) > 1 THEN <<At(models, 3)>> ELSE <<>>),
       WithAlternative(catalog, BestThinking(catalog, models[1]), models)>>

\* toolChoice counts two and parallelToolCalls one, if they are known.
Richness(catalog, m) == IF Known(catalog, m, "richness") THEN catalog[m].richness ELSE 0

Richer(catalog, m, n) ==
  \/ Richness(catalog, m) > Richness(catalog, n)
  \/ /\ Richness(catalog, m) = Richness(catalog, n)
     /\ Price(catalog, m) > Price(catalog, n)

Agentic(catalog) ==
  LET models == CHOOSE s \in Lists(Pool(catalog)) :
                  \A i, j \in DOMAIN s : i < j => ~Richer(catalog, s[j], s[i])
  IN <<Tier(At(models, 2), <<>>),
       WithAlternative(catalog, models[1], models),
       WithAlternative(catalog, models[1], models),
       WithAlternative(catalog, BestThinking(catalog, models[1]), models)>>

Profile(catalog) ==
  IF DOMAIN catalog = {} THEN ProfileConfigs
  ELSE [eco |-> Eco(catalog), premium |-> Premium(catalog), agentic |-> Agentic(catalog)]
=============================================================================
