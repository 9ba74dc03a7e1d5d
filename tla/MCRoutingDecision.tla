-------------------------- MODULE MCRoutingDecision ---------------------------
(***************************************************************************)
(* Instances of RoutingDecision for TLC: three models, and a request for   *)
(* every path through the scorer at the boundaries of score and length.    *)
(***************************************************************************)
EXTENDS RoutingDecision, TLC

CONSTANTS small, large, dear

Plain ==
  [kind |-> "chat", short |-> FALSE, formal |-> FALSE, large |-> FALSE,
   usesTools |-> FALSE, json |-> FALSE, score |-> 0, classified |-> 0, length |-> 0]

Kinds ==
  {Plain, [Plain EXCEPT !.usesTools = TRUE], [Plain EXCEPT !.short = TRUE],
   [Plain EXCEPT !.short = TRUE, !.json = TRUE], [Plain EXCEPT !.formal = TRUE],
   [Plain EXCEPT !.large = TRUE], [Plain EXCEPT !.kind = "icc", !.usesTools = TRUE],
   [Plain EXCEPT !.kind = "startup"], [Plain EXCEPT !.classified = Complex]}

MCRequests ==
  {[k EXCEPT !.score = s, !.length = n] :
     k \in Kinds, s \in {-60, -11, -10, 7, 8, 34, 35, 80}, n \in {0, 1, 29, 30, 99, 100}}

MCNeeds == [tokens : {0, 9, 10}, tools : BOOLEAN, vision : BOOLEAN]

\* Windows in units of which a request has 0, 9 or 10.
MCCatalogs ==
  {small :> [provider |-> "p", window |-> 10, tools |-> FALSE, vision |-> TRUE, price |-> 1]
     @@ large :> [provider |-> "p", window |-> 11, tools |-> TRUE, vision |-> FALSE, price |-> 2,
                  reasoning |-> TRUE, richness |-> 2]
     @@ dear :> [provider |-> "q", tools |-> TRUE, vision |-> TRUE, price |-> 3, richness |-> 3],
   small :> [provider |-> "p", window |-> 10, price |-> 1]
     @@ dear :> [provider |-> "q", window |-> 9, price |-> 3, vision |-> FALSE, reasoning |-> TRUE],
   large :> [provider |-> "p"],
   <<>>}

\* In the order of their price: gpt-4o-mini, gpt-4o and the rest.
MCProfileConfigs ==
  LET Of(model, others) == [primary |-> model, fallbacks |-> others]
  IN [eco |-> <<Of(small, <<>>), Of(small, <<large>>), Of(large, <<dear>>), Of(large, <<dear>>)>>,
      premium |-> <<Of(large, <<small>>), Of(dear, <<large>>), Of(dear, <<dear, large>>),
                    Of(dear, <<dear>>)>>,
      agentic |-> <<Of(small, <<>>), Of(dear, <<large>>), Of(dear, <<large, dear>>),
                    Of(dear, <<dear, dear>>)>>]

MCUserChains ==
  {<<small, large, dear>>, <<dear, large, small>>, <<large, small>>, <<dear, small, dear>>}
=============================================================================
