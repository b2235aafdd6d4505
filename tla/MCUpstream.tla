----------------------------- MODULE MCUpstream -----------------------------
\* Two DoH servers, and one each for DoT and plain DNS.
EXTENDS Upstream, TLC

CONSTANTS d1, d2, tls, p

MCTransportOf == (d1 :> "doh") @@ (d2 :> "doh") @@ (tls :> "dot") @@ (p :> "plain")
MCServersOf == ("doh" :> <<d1, d2>>) @@ ("dot" :> <<tls>>) @@ ("plain" :> <<p>>)
WholeChain == <<"doh", "dot", "plain">>
CallerSymmetry == Permutations(Queries)
=============================================================================
