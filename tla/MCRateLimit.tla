------------------------------ MODULE MCRateLimit ------------------------------
(***************************************************************************)
(* Small rate limits for RateLimit: the search window is shorter than the  *)
(* life of the cached limits and the others are longer, as at GitHub, and  *)
(* a GraphQL query takes twice what is reserved for it.                    *)
(***************************************************************************)
EXTENDS RateLimit

Per(g, s, c) == [graphql |-> g, search |-> s, core |-> c]

MCLimit   == Per(4, 2, 2)
MCWindow  == Per(3, 1, 3)
MCMinimum == Per(1, 1, 1)
MCCost    == Per(1, 1, 1)
MCPrice   == Per(2, 1, 1)
MCAnswers == {Resources, {}}
=============================================================================
