----------------------------- MODULE MCPipeline -----------------------------
(* Instances of the claim pipeline for TLC.                                *)
EXTENDS PipelineProperties, TLC

CONSTANTS c1, c2, s1, s2, p1, p2, k1, k2, w1, w2, j1, j2, j3

AllMessages == [claim : Claims, version : 1 .. MaxVersion,
                cause : {"submit", "dispute", "sweep"}]

OneClaim == {c1}
TwoClaims == {c1, c2}
OneSkill == {s1}
TwoSkills == {s1, s2}
TwoPRs == {p1, p2}
OneClient == {k1}
TwoClients == {k1, k2}
OneWorker == {w1}
TwoWorkers == {w1, w2}
OneJob == {j1}
TwoJobs == {j1, j2}
ThreeJobs == {j1, j2, j3}

OneList == {<<p1>>}
ShortLists == {<<p1>>, <<p2>>}
Lists == {<<p1>>, <<p2>>, <<p1, p2>>}
RivalClaims == Permutations(TwoClaims) \cup Permutations(TwoClients)
\* Nothing tells two pull requests of a list of their own, or two job numbers, apart.
EqualEvidence == Permutations(TwoPRs) \cup Permutations(TwoJobs)
OneDeclared == {{s1}}

\* Bounds for the run with two claims, two clients and a worker: a path on
\* which a claim is disputed, fails its checks or is withdrawn is not followed
\* further, and while both clients are between two statements of a request the
\* worker is at rest.
GoesWell == \A c \in Claims : dispute[c] = "none" /\ claims[c].status \notin {"invalid", "withdrawn"}

BothAtWork == \A k \in Clients : client[k].pc # "idle"

RivalsThenEvaluates == GoesWell /\ (BothAtWork => \A w \in Workers : worker[w].pc = "idle")
=============================================================================
