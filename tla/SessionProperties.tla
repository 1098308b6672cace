------------------------- MODULE SessionProperties -------------------------
(***************************************************************************)
(* What the session requests of Sessions must never do, and must do.       *)
(***************************************************************************)
EXTENDS Sessions, FiniteSetsExt

(* Every row is a session of a family that one of its rows names, and every
   request is in a state its statements can leave it in. *)
TypeOK ==
  /\ sessions \in Seq(Session)
  /\ Len(sessions) <= MaxSessions
  /\ accounts \subseteq Contributors
  /\ disabled \subseteq Seats
  /\ request \in [Requests -> Request]

(* A family has one unspent token at most, whatever refreshes, replays and
   sign-outs overlap: two refreshes of one token never both get a successor
   (Rotate spends and inserts in one transaction, under the row's lock). *)
OneUnspentToken ==
  \A f \in Ids : Cardinality({s \in Family(f) : ~sessions[s].used}) <= 1

(* What keeps it: of two sessions of a family one is spent, a request that is
   still to create a session has room for it, and a family is named by a session
   no younger than any of its own. *)
OneOfTwoSpent ==
  \A s, t \in Ids :
    /\ sessions[s].family = sessions[t].family
    /\ ~sessions[s].used /\ ~sessions[t].used
    => s = t

RoomIsKept == Len(sessions) + Cardinality(Creating) <= MaxSessions

FamiliesAreRooted == \A s \in Ids : sessions[s].family <= s

(* A request acts on rows that are there, and the rows its UPDATE ranges over
   are all that its snapshot showed of what it ends, less those that were
   revoked already (RevokeFamily, CloseFamily, RevokeAllForPrincipal). *)
Ends(q, session) ==
  IF q.pc = "removing" THEN session.principal = q.principal
  ELSE q.pc \in {"revoking", "retiring"} /\ session.family = q.family

Sound(q) ==
  /\ q.token <= Len(sessions) /\ q.upTo <= Len(sessions) /\ q.seen \subseteq Ids
  /\ q.pc = "rotating" => q.token \in Ids
  /\ q.pc = "absent" => q.principal \in Contributors
  /\ q.pc = "removing" => q.principal \in Seats
  /\ \A s \in Ids : s <= q.upTo /\ Ends(q, sessions[s]) => s \in q.seen \/ sessions[s].revoked

RequestsAreSound == \A r \in Requests : Sound(request[r])

SessionInvariant == TypeOK /\ OneOfTwoSpent /\ RoomIsKept /\ FamiliesAreRooted /\ RequestsAreSound

Families == INSTANCE TokenFamilies WITH
  Families <- SessionIds,
  newest <- [f \in SessionIds |-> IF f \in Ids /\ Family(f) # {} THEN Max(Family(f)) ELSE 0],
  live <- [f \in SessionIds |-> f \in Ids /\ Unrevoked(Family(f)) # {}]

(* The requests implement the promise of a token family: no interleaving
   revives a family that was closed, or rotates one that is. *)
FamiliesPromise == Families!Spec

Ended(r) == request[r].pc \in {"revoking", "retiring", "removing"} /\ request'[r].pc = "idle"

(* When a replay's revocation, a sign-out or a removal has been committed, the
   only sessions of what it ended that can still be used were created after
   its UPDATE had begun; a request the database aborted ends nothing. *)
SurvivorsAreNew ==
  [][\A r \in Requests : Ended(r) /\ sessions' # sessions =>
       \A s \in DOMAIN sessions' :
         /\ \/ request[r].pc = "removing" /\ sessions'[s].principal = request[r].principal
            \/ request[r].pc # "removing" /\ sessions'[s].family = request[r].family
         /\ ~sessions'[s].revoked
         => s > request[r].upTo]_vars

(* Every request ends: transactions that hold some of their rows and wait for
   the rest never wait for each other for ever, nor one for itself. *)
RequestsEnd == \A r \in Requests : request[r].pc # "idle" ~> request[r].pc = "idle"

(* "... would roll back the revocation it just performed, leaving the compromised
   family alive - the one outcome detecting reuse exists to prevent" (Refresh in
   auth.go): a request that found a token spent leaves nothing it saw usable. *)
DetectionRevokes ==
  [][\A r \in Requests : Ended(r) /\ request[r].pc = "revoking" =>
       \A s \in request[r].seen : sessions'[s].revoked]_vars

(* "Presenting a spent token ... the whole family dies, including the successor
   currently in honest use" and "Logout revokes the whole family" (auth.go): after
   the transaction, no session of the family can be used. *)
RevocationReachesFamily ==
  [][\A r \in Requests : Ended(r) /\ sessions' # sessions /\ request[r].pc # "removing" =>
       \A s \in DOMAIN sessions' :
         sessions'[s].family = request[r].family => sessions'[s].revoked]_vars

(* "A signed-out family ends its access tokens with it": the family whose access
   token asked for the sign-out is not live once it is committed. *)
SignOutEndsItsFamily ==
  [][\A r \in Requests : Ended(r) /\ request[r].pc = "retiring" =>
       \A s \in DOMAIN sessions' :
         sessions'[s].family = request[r].own => sessions'[s].revoked]_vars

=============================================================================
