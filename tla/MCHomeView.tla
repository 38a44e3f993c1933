----------------------------- MODULE MCHomeView -----------------------------
(* HomeView with two EVM chains of which one has a token, Solana in both     *)
(* pickers and Bitcoin in the settings' one alone.                           *)
EXTENDS HomeView

CONSTANTS ethereum, polygon, solana, bitcoin, usdt, ETH, MATIC, SOL, BTC

MCTokens == [c \in Evm |-> IF c = ethereum THEN {usdt} ELSE {}]
MCSymbol == [c \in Chains |-> CASE c = ethereum -> ETH [] c = polygon -> MATIC
                                [] c = solana -> SOL [] OTHER -> BTC]
=============================================================================
