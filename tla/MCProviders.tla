---------------------------- MODULE MCProviders ----------------------------
(***************************************************************************)
(* Instances of Providers for TLC: DeepSeek, which the legacy settings     *)
(* become and which has a web-search agent, and a chat-only vendor.        *)
(***************************************************************************)
EXTENDS Providers, TLC

CONSTANTS deepseek, minimax, r1, r2

TwoVendors == {deepseek, minimax}
OnlyDeepSeek == {deepseek}
NoVendors == {}
TwoRequests == {r1, r2}
Symmetry == Permutations(TwoRequests)
=============================================================================
