------------------------------ MODULE MCVulStore ------------------------------
(* Instances of VulStore for TLC. *)
EXTENDS VulStore, TLC

CONSTANTS v1, v2, v3, i1, i2, u1, s1, s2, s3, l1, l2, l3, w1, w2, w3

\* v1 and v2 are one vulnerability in two versions of the project.
TwoVersions == (v1 :> i1 @@ v2 :> i1)
\* v1 is found by vul_handler.py, v2 by strategy_headers.py.
Different   == (v1 :> i1 @@ v2 :> i2)
OneEach     == (s1 :> v1 @@ s2 :> v2)
OwnLocks    == (s1 :> l1 @@ s2 :> l2)
\* s3 is a replay of what s1 shows.
Replay      == (s1 :> v1 @@ s3 :> v1)
OneLock     == (s1 :> l1 @@ s3 :> l1)
\* All three: what the project has in two versions, and a header's.
Three       == (v1 :> i1 @@ v2 :> i1 @@ v3 :> i2)
OneEachOf3  == OneEach @@ (s3 :> v3)
OwnLocksOf3 == OwnLocks @@ (s3 :> l3)

================================================================================
