----------------------------- MODULE MCAdapters -----------------------------
(* Adapters with three reads that are alike, the primary indexer with one    *)
(* fall-back for each family of chains, and two price sources.               *)
EXTENDS Adapters, TLC

CONSTANTS r1, r2, r3

MCIndexers == {<<"tether", "etherscan">>, <<"tether", "solana">>}
MCPrices == <<"bitfinex", "coingecko">>
SameReads == Permutations(Reads)
=============================================================================
