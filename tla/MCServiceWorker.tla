--------------------------- MODULE MCServiceWorker ---------------------------
(* TLC instances of ServiceWorker: the calls pages make in each run, and the *)
(* symmetry of the run that checks no liveness.                             *)
EXTENDS ServiceWorker, TLC

CONSTANTS o1, s1, s2, mainnet, other, a0

Call(method, addr, chain) ==
    [origin |-> o1, method |-> method, addr |-> addr, chain |-> chain]

Plain(method) == Call(method, NoAddress, NoChain)
SignWith(s) == Call("sign", [seed |-> s, account |-> a0], NoChain)
SwitchTo(c) == Call("switch", NoAddress, c)

\* The calls that have an effect.
MCEffectCalls == {Plain("connect"), Plain("send"), SignWith(s1), SwitchTo(other)}

\* Every way of a handler through its awaits.
MCMoveCalls ==
    {Plain("accounts"), Plain("connect"), Plain("addChain"), SignWith(s1), SwitchTo(other)}

MCSignCalls == {Plain("connect"), SignWith(s1)}

Symmetry == Permutations(Reqs) \cup Permutations(Surfaces)

=============================================================================
