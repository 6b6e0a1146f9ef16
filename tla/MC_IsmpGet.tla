---------------------------- MODULE MC_IsmpGet -----------------------------
(* A Pop chain whose request store may already hold a get-request made by *)
(* an earlier run, or a Post; the get-request of this run may land in two *)
(* blocks of Pop (a reorganisation), with two possible commitments.       *)
EXTENDS IsmpGet

CONSTANTS p1, p2, s1, c1, c2, c0, k1, k2

MCPopBlocks == {p1, p2}
MCRespBlocks == {s1}
MCOwnCommitments == {c1, c2}
MCGetKeys == <<k1>>
MCGetKeys2 == <<k1, k2>>
(* an earlier run's get-request, stored before ours *)
MCPriorGet ==
  <<[c |-> c0, req |-> [kind |-> "get", src |-> SM("Polkadot", PopId),
                        dst |-> SM("Polkadot", AhId), height |-> 1,
                        keys |-> <<k1>>]]>>
(* a Post stored before ours; it has no height or keys, and the fields    *)
(* are only there to keep records comparable (no action reads them)      *)
MCPriorPost ==
  <<[c |-> c0, req |-> [kind |-> "post", src |-> SM("Polkadot", PopId),
                        dst |-> SM("Polkadot", AhId), height |-> 0,
                        keys |-> <<>>]]>>
(* a fresh chain, or one where an earlier request was stored *)
MCStoresGet == {<<>>, MCPriorGet}
MCStoresPost == {<<>>, MCPriorPost}
MCStoresFresh == {<<>>}
(* a fresh chain, or one where an earlier Get or an earlier Post was stored *)
MCStoresAny == {<<>>, MCPriorGet, MCPriorPost}
=============================================================================
