---------------------------- MODULE MCBackOffice ----------------------------
(* Two handlers, so that any two calls overlap, and one request at a time. *)
EXTENDS BackOffice, TLC

MCTemplates == {[category |-> "orders", channels |-> {EMAIL}]}
MCTwoDays == {[date |-> 1, close |-> "p1"], [date |-> 2, close |-> "p2"]}
\* Two per cent, at least 3; a flat fee of 7, at most 5.
MCRates ==
    [percent |-> [isPercentage |-> TRUE, value |-> 2, min |-> 3, max |-> Unlimited],
     flat |-> [isPercentage |-> FALSE, value |-> 7, min |-> 0, max |-> 5]]
MCWindows == {[from |-> 0, to |-> MaxTime + 1], [from |-> 0, to |-> 1]}
\* The first price fits the cap with either fee, the second does not.
MCPrices == [p1 |-> 100, p2 |-> 200]
MCCaps == [v0 |-> 105, v1 |-> 50]

MCLoads ==
    {[kinds |-> {"reconciliation"}, calls |-> 3, crashes |-> 0, requests |-> 2],
     [kinds |-> {"reconciliation"}, calls |-> 2, crashes |-> 1, requests |-> 1],
     [kinds |-> {"config"}, calls |-> 3, crashes |-> 0, requests |-> 2],
     [kinds |-> {"switches", "entries"}, calls |-> 3, crashes |-> 1, requests |-> 2],
     [kinds |-> {"notifications"}, calls |-> 4, crashes |-> 1, requests |-> 0],
     [kinds |-> {"quotes"}, calls |-> 2, crashes |-> 1, requests |-> 0],
     [kinds |-> {"changes"}, calls |-> 3, crashes |-> 1, requests |-> 2],
     [kinds |-> {"changes", "fees"}, calls |-> 2, crashes |-> 1, requests |-> 1],
     [kinds |-> {"orders", "fees"}, calls |-> 2, crashes |-> 0, requests |-> 0],
     [kinds |-> {"orders", "quotes"}, calls |-> 2, crashes |-> 0, requests |-> 0],
     [kinds |-> {"orders", "switches"}, calls |-> 2, crashes |-> 0, requests |-> 1],
     [kinds |-> {"statements"}, calls |-> 4, crashes |-> 1, requests |-> 0],
     [kinds |-> {"validity"}, calls |-> 0, crashes |-> 0, requests |-> 0]}
MCPaperLoads == {[kinds |-> {"orders", "switches"}, calls |-> 2, crashes |-> 0, requests |-> 1]}
MCQuoteLoads == {[kinds |-> {"quotes"}, calls |-> 2, crashes |-> 0, requests |-> 0]}

Symmetric == Permutations(Staff) \cup Permutations(Handlers)
=============================================================================
