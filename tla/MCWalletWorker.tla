--------------------------- MODULE MCWalletWorker ---------------------------
(* TLC instances of WalletWorker: a store and two loads of the vault, one of *)
(* which may be another operation of it, and a call on an account with the   *)
(* longest work of its source.                                               *)
EXTENDS WalletWorker

CONSTANTS load, store, again, account

MCMayBe(c, op) ==
    \/ c = load /\ op = Load
    \/ c = store /\ op \in {Store, Clear}
    \/ c = again /\ op \in {Load, Address}
    \/ c = account /\ op \in {HasStored, From("spark", <<"send">>)} \cup X402Ops \cup MoonPayOps

=============================================================================
