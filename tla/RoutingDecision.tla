--------------------------- MODULE RoutingDecision ----------------------------
(***************************************************************************)
(* The routing decision of the proxy (handler.ts:468-657), request after   *)
(* request of a session: TierDecision chooses the tier, ModelChoice the    *)
(* models, while the models are discovered anew, profiles generated from   *)
(* them and models excluded.  The pins and strikes of the session          *)
(* (SessionStore) may replace the tier in between.                         *)
(***************************************************************************)
EXTENDS TierDecision, ModelChoice

CONSTANTS Models,
          Catalogs,   \* what a discovery may return
          Requests,   \* see TierDecision
          Needs,      \* what a request needs of a model
          UserChains  \* chains a user may set up for a tier

Profiles == {"eco", "premium", "agentic"}

ASSUME DecisionAssumption ==
  /\ \A c \in Catalogs :
       /\ DOMAIN c \subseteq Models /\ IsFiniteSet(DOMAIN c)
       /\ \A m \in DOMAIN c : Known(c, m, "price") => c[m].price \in Int
  /\ \A r \in Requests : r.score \in Int /\ r.length \in Nat
  /\ \A n \in Needs : n.tokens \in Nat
  /\ UserChains \subseteq Seq(Models) \ {<<>>}
  /\ \A p \in Profiles, t \in Tiers :
       /\ ProfileConfigs[p][t].primary \in Models
       /\ ProfileConfigs[p][t].fallbacks \in Seq(Models)

VARIABLES history,    \* the session's last tiers
          catalog,    \* discoveredModelsCache
          exclusions,
          tiers       \* tiersByProfile

vars == <<history, catalog, exclusions, tiers>>

Chain(profile, tier) == <<tiers[profile][tier].primary>> \o tiers[profile][tier].fallbacks

Chains == UserChains \cup {Chain(p, t) : p \in Profiles, t \in Tiers}

Init ==
  /\ history = <<>>
  /\ catalog \in Catalogs
  /\ exclusions = {}
  /\ tiers = Profile(catalog)

\* A request is routed; a pin or a third strike may overrule the tier.
Request ==
  /\ \E tier \in {Decide(r, history).tier : r \in Requests} :
       \E final \in {t \in Tiers : t >= tier} : history' = Record(history, final)
  /\ UNCHANGED <<catalog, exclusions, tiers>>

Discover ==
  /\ catalog' \in Catalogs
  /\ UNCHANGED <<history, exclusions, tiers>>

\* The wizard.
Generate ==
  /\ tiers' = Profile(catalog)
  /\ UNCHANGED <<history, catalog, exclusions>>

Exclude ==
  /\ exclusions' \in SUBSET Models
  /\ UNCHANGED <<history, catalog, tiers>>

\* The session goes stale: evictStale.
Evict ==
  /\ history' = <<>>
  /\ UNCHANGED <<catalog, exclusions, tiers>>

Next == Request \/ Discover \/ Generate \/ Exclude \/ Evict

Spec == Init /\ [][Next]_vars
-----------------------------------------------------------------------------
Between(t, tiersOf) == \E low, high \in tiersOf : low <= t /\ t <= high

\* Momentum smooths, it does not leap: the tier it changes a decision to lies
\* between those of the session's last decisions and that of the score itself,
\* whatever the length of the message (momentum.ts:98-135, calcWeight 166-190,
\* with maxWeight as shipped).
MomentumInReach ==
  \A r \in Requests :
    LET scored == Scored(r)
        tier == Decide(r, history).tier
    IN tier # scored.tier => Between(tier, Range(history) \cup {ScoreTier(scored.score)})

\* The four wishes of a request, the most important first.
Wishes(m, need) ==
  <<m \notin exclusions,
    need.tokens = 0 \/ Fits(catalog, m, need.tokens),
    ~need.tools \/ CallsTools(catalog, m),
    ~need.vision \/ Sees(catalog, m)>>

Better(m, n, need) ==
  \E w \in 1 .. 4 :
    /\ Wishes(m, need)[w] /\ ~Wishes(n, need)[w]
    /\ \A v \in 1 .. w - 1 : Wishes(m, need)[v] = Wishes(n, need)[v]

\* The chain that is tried holds exactly the models no other one is better
\* than, in the order set up and no more than MaxAttempts: no safety net
\* brings back what an earlier filter took out (fallback.ts:55-135).
ChainIsBest ==
  \A chain \in Chains, need \in Needs :
    LET best == Kept(chain, {m \in Range(chain) : \A n \in Range(chain) : ~Better(n, m, need)})
    IN FilterChain(chain, exclusions, need, catalog)
         = SubSeq(best, 1, IF Len(best) < MaxAttempts THEN Len(best) ELSE MaxAttempts)

\* A tier of the profile that is to save money never starts with a dearer
\* model than the same tier of the profile that is to be good, however few
\* models were found, unless it is none (profiles.ts:311-377).
EcoNotDearer ==
  \A t \in {Simple, Standard, Complex} :
    DOMAIN catalog # {} =>
      Price(catalog, Eco(catalog)[t].primary) <= Price(catalog, Premium(catalog)[t].primary)
=============================================================================
