------------------------------ MODULE MCBroker ------------------------------
(* Instances of the broker for TLC.                                        *)
EXTENDS BrokerProperties, TLC

CONSTANTS j1, j2, j3, w1, w2, c1, v1, v2

OneClaim == {c1}
TwoVersions == {v1, v2}
MessagesOfOneClaim ==
  [topic : {"claims.live", "claims.sweep"}, claim : OneClaim, version : TwoVersions]
TwoJobs == {j1, j2}
ThreeJobs == {j1, j2, j3}
OneWorker == {w1}
TwoWorkers == {w1, w2}
=============================================================================
