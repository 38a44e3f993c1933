--------------------------- MODULE MCDappPipeline ---------------------------
(* TLC instances of DappPipeline: two tabs of one browser, one with a dApp.  *)
EXTENDS DappPipeline, TLC

CONSTANTS dapp, other, here, there

MCHome == dapp :> here @@ other :> there
MCVisits == dapp :> {here, there} @@ other :> {}
MCFrames == dapp :> {there} @@ other :> {}

=============================================================================
