------------------------------ MODULE MCFetch ------------------------------
(* A bad premirror and a good mirror, or the other way round.              *)
EXTENDS Fetch, TLC

CONSTANTS f1, f2, pre, up, mir

\* "fetch": the premirror is wrong, the source and the mirror are right.  One of
\* the recipes gives no checksum.
BadPremirror == [s \in Source |-> IF s = pre THEN "bad" ELSE "good"]
Pre == <<pre>>
\* "fetch_mirror": the source has changed, the mirror has the file as it was.
BadUpstream == [s \in Source |-> IF s = up THEN "bad" ELSE "good"]
Nowhere == <<>>
Mir == <<mir>>
OneExpects == [f \in Fetcher |-> IF f = f1 THEN "good" ELSE None]
AllExpect == [f \in Fetcher |-> "good"]
=============================================================================
