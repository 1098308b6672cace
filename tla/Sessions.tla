------------------------------ MODULE Sessions ------------------------------
(***************************************************************************)
(* Sign-in, refresh-token rotation and revocation (service/auth.go over    *)
(* repository/postgres/session.go).  A request is a process; a step is a   *)
(* statement of its transaction, as READ COMMITTED shows it: an UPDATE     *)
(* ranges over the rows its snapshot shows, locks them one by one, waits   *)
(* for those another transaction holds while it holds its own, and an      *)
(* INSERT is seen only once it is committed.                               *)
(* Sessions are numbered in the order they are created, and a family is    *)
(* named by its first session.                                             *)
(***************************************************************************)
EXTENDS Naturals, Sequences, FiniteSets

CONSTANTS
  Contributors,  \* accounts a GitHub identity resolves to
  Seats,         \* hirer accounts, which an owner may disable
  Requests,      \* requests in progress at one time
  MaxSessions    \* bound on the sessions ever created

ASSUME SessionsAssumption ==
  /\ MaxSessions \in Nat \ {0}
  /\ Contributors \cap Seats = {}
  /\ Contributors \cup Seats # {}
  /\ IsFiniteSet(Requests)

VARIABLES
  sessions,  \* the sessions table, in creation order
  accounts,  \* the contributors that exist
  disabled,  \* the seats with a disabled_at
  request    \* what each request is doing

vars == <<sessions, accounts, disabled, request>>

Principals == Contributors \cup Seats
SessionIds == 1 .. MaxSessions

Session == [principal : Principals, family : SessionIds, used : BOOLEAN,
            revoked : BOOLEAN, expired : BOOLEAN]

\* token: the session a refresh holds locked; family: the one acted on; own: the
\* one a sign-out was authenticated by; seen: the rows an UPDATE ranges over;
\* held: those of them it has locked; upTo: how many sessions its snapshot showed.
Request == [pc : {"idle", "found", "absent", "rotating", "closing", "revoking", "retiring", "removing"},
            principal : Principals, token : 0 .. MaxSessions, family : 0 .. MaxSessions,
            own : 0 .. MaxSessions,
            seen : SUBSET SessionIds, held : SUBSET SessionIds,
            upTo : 0 .. MaxSessions]

Ids == DOMAIN sessions
Family(f) == {s \in Ids : sessions[s].family = f}
Unrevoked(S) == {s \in S : ~sessions[s].revoked}

Idle(p) == [pc |-> "idle", principal |-> p, token |-> 0, family |-> 0, own |-> 0,
            seen |-> {}, held |-> {}, upTo |-> 0]

NoRequest == Idle(CHOOSE p \in Principals : TRUE)

Init ==
  /\ sessions = <<>>
  /\ accounts = {}
  /\ disabled = {}
  /\ request = [r \in Requests |-> NoRequest]

-----------------------------------------------------------------------------
(* The sessions table                                                      *)

\* The rows a transaction holds, from FOR UPDATE or its UPDATE on, to its end.
Holding(q) == request[q].held \cup {request[q].token}

\* (A fault: an UPDATE sent outside its transaction waits for its own FOR UPDATE.)
LockedByAnyone(s, r) == \E q \in Requests : s \in Holding(q)

Locked(s, r) == \E q \in Requests \ {r} : s \in Holding(q)

\* A session's row when it is created; family 0 starts one.
NewSession(p, f) == [principal |-> p,
                     family |-> IF f = 0 THEN Len(sessions) + 1 ELSE f,
                     used |-> FALSE, revoked |-> FALSE, expired |-> FALSE]

Create(table, p, f) == Append(table, NewSession(p, f))

\* The spent row and its successor, written together.
Rotated(s) ==
  Create([sessions EXCEPT ![s].used = TRUE], sessions[s].principal, sessions[s].family)

\* (A fault: only the newest session is revoked.)
RevokePresented(seen) ==
  [s \in Ids |-> IF s \in seen /\ \A t \in seen : t <= s
                 THEN [sessions[s] EXCEPT !.revoked = TRUE] ELSE sessions[s]]

RevokeFamily(seen) ==
  [s \in Ids |-> IF s \in seen THEN [sessions[s] EXCEPT !.revoked = TRUE] ELSE sessions[s]]

CloseFamily(seen) ==
  [s \in Ids |-> IF s \in seen THEN [sessions[s] EXCEPT !.revoked = TRUE, !.used = TRUE]
                 ELSE sessions[s]]

HeldBy(p) == {s \in Ids : sessions[s].principal = p}

\* RevokeAllForPrincipal shares RevokeFamily's SET clause.
RevokeAllForPrincipal(seen) == RevokeFamily(seen)

FamilyLive(f) == \E s \in Family(f) : ~sessions[s].revoked /\ ~sessions[s].expired

\* Newest first; the caller of Logout may have come by an older one.
ActiveFamilies(p) == {s \in HeldBy(p) : ~sessions[s].revoked /\ ~sessions[s].expired}
ActiveFamily(p) ==
  sessions[CHOOSE s \in ActiveFamilies(p) : \A t \in ActiveFamilies(p) : t <= s].family

-----------------------------------------------------------------------------
(* Requests                                                                *)

\* An access token of family f still acts for p.
ResolvePrincipal(p, f) ==
  /\ FamilyLive(f)
  /\ p \in accounts \cup Seats
  /\ p \notin disabled

Begin(r, p, pc) ==
  /\ request[r].pc = "idle"
  /\ request' = [request EXCEPT ![r] = [Idle(p) EXCEPT !.pc = pc]]
  /\ UNCHANGED <<sessions, accounts, disabled>>

End(r) == request' = [request EXCEPT ![r] = NoRequest]

\* (Faults: a column the WHERE forgets.)
SpendableSpent(s) == ~sessions[s].revoked
SpendableRevoked(s) == ~sessions[s].used

\* What a refresh asks of the row, and Rotate's WHERE asks again.
Spendable(s) == ~sessions[s].used /\ ~sessions[s].revoked

\* (The bound: a request that may create a session has room for it.)
Creating == {q \in Requests : request[q].pc \in {"found", "absent", "rotating"}}
Room == Len(sessions) + Cardinality(Creating) < MaxSessions

\* The ways in, which differ in the accounts they find: a disabled seat is not
\* found by username or by email, and is found by its GitHub identity.
LoginHirer(p) == p \in Seats \ disabled
CompleteGoogle(p) == p \in Seats \ disabled
CompleteGitHubHirer(p) == p \in Seats

\* The account is read first, and the session is created in a later transaction.
SignIn(r, p) ==
  /\ Room
  /\ LoginHirer(p) \/ CompleteGoogle(p) \/ CompleteGitHubHirer(p)
  /\ Begin(r, p, "found")

\* (A fault: a hirer's identity is registered as a contributor's.)
CompleteGitHubAnyone(r, p) ==
  /\ Room
  /\ Begin(r, p, IF p \in accounts THEN "found" ELSE "absent")

CompleteGitHub(r, p) ==
  /\ Room
  /\ p \in Contributors
  /\ Begin(r, p, IF p \in accounts THEN "found" ELSE "absent")

Issue(r) ==
  /\ request[r].pc = "found"
  /\ sessions' = Create(sessions, request[r].principal, 0)
  /\ End(r)
  /\ UNCHANGED <<accounts, disabled>>

\* A first callback writes the account and the session together; the unique
\* identity refuses the second of two that both found none.
FirstCallback(r) ==
  /\ request[r].pc = "absent"
  /\ request[r].principal \notin accounts
  /\ accounts' = accounts \cup {request[r].principal}
  /\ sessions' = Create(sessions, request[r].principal, 0)
  /\ End(r)
  /\ UNCHANGED disabled

SecondCallback(r) ==
  /\ request[r].pc = "absent"
  /\ request[r].principal \in accounts
  /\ End(r)
  /\ UNCHANGED <<sessions, accounts, disabled>>

\* A live token: its row is held until the successor is committed.
Refresh(r, s) ==
  /\ request[r].pc = "idle" /\ s \in Ids /\ ~Locked(s, r) /\ Room
  /\ Spendable(s) /\ ~sessions[s].expired
  /\ request' = [request EXCEPT ![r] = [Idle(sessions[s].principal) EXCEPT
                   !.pc = "rotating", !.token = s, !.family = sessions[s].family]]
  /\ UNCHANGED <<sessions, accounts, disabled>>

Rotate(r) ==
  /\ request[r].pc = "rotating"
  /\ Spendable(request[r].token)
  /\ sessions' = Rotated(request[r].token)
  /\ End(r)
  /\ UNCHANGED <<accounts, disabled>>

\* A spent token of a family not signed out: the family is to be revoked.
DetectReuse(r, s) ==
  LET f == sessions[s].family IN
  /\ request[r].pc = "idle" /\ s \in Ids /\ ~Locked(s, r)
  /\ sessions[s].used /\ ~sessions[s].revoked
  /\ request' = [request EXCEPT ![r] = [Idle(sessions[s].principal) EXCEPT
                   !.pc = "revoking", !.token = s, !.family = f,
                   !.seen = Unrevoked(Family(f)), !.upTo = Len(sessions)]]
  /\ UNCHANGED <<sessions, accounts, disabled>>

\* An UPDATE locks the rows it ranges over in no stated order, each when no other
\* transaction holds it, and keeps those it has while it waits for the next.
LockRow(r, s) ==
  /\ request[r].pc \in {"revoking", "retiring", "removing"}
  /\ s \in request[r].seen \ request[r].held
  /\ ~Locked(s, r)
  /\ request' = [request EXCEPT ![r].held = @ \cup {s}]
  /\ UNCHANGED <<sessions, accounts, disabled>>

Granted(r) == request[r].seen \subseteq request[r].held

Revoke(r) ==
  /\ request[r].pc = "revoking" /\ Granted(r)
  /\ sessions' = RevokeFamily(request[r].seen)
  /\ End(r)
  /\ UNCHANGED <<accounts, disabled>>

\* q's UPDATE has come to a row that p holds.
WaitsFor(q, p) ==
  p # q /\ (request[q].seen \ request[q].held) \cap Holding(p) # {}

\* Replays, sign-outs and removals that wait for each other in a ring: the
\* database aborts one of them, which ends with nothing written.
Deadlock(r) ==
  /\ \E ring \in SUBSET Requests : \E next \in [ring -> ring] :
       /\ r \in ring
       /\ \A p, q \in ring : next[p] = next[q] => p = q
       /\ \A q \in ring : WaitsFor(q, next[q])
  /\ End(r)
  /\ UNCHANGED <<sessions, accounts, disabled>>

\* Signing out with an access token of family f.
Logout(r, p, f) ==
  /\ request[r].pc = "idle" /\ ResolvePrincipal(p, f)
  /\ \E s \in Family(f) : sessions[s].principal = p
  /\ ActiveFamilies(p) # {}
  /\ request' = [request EXCEPT ![r] = [Idle(p) EXCEPT
                   !.pc = "closing", !.family = ActiveFamily(p), !.own = f]]
  /\ UNCHANGED <<sessions, accounts, disabled>>

BeginClose(r) ==
  /\ request[r].pc = "closing"
  /\ request' = [request EXCEPT ![r].pc = "retiring",
                                ![r].seen = Family(request[r].family),
                                ![r].upTo = Len(sessions)]
  /\ UNCHANGED <<sessions, accounts, disabled>>

Close(r) ==
  /\ request[r].pc = "retiring" /\ Granted(r)
  /\ sessions' = CloseFamily(request[r].seen)
  /\ End(r)
  /\ UNCHANGED <<accounts, disabled>>

\* RemoveFromRoster ends a seat: disabled and signed out in one transaction.
BeginRemoval(r, p) ==
  /\ request[r].pc = "idle" /\ p \in Seats \ disabled
  /\ request' = [request EXCEPT ![r] = [Idle(p) EXCEPT
                   !.pc = "removing", !.seen = Unrevoked(HeldBy(p)), !.upTo = Len(sessions)]]
  /\ UNCHANGED <<sessions, accounts, disabled>>

Removal(r) ==
  /\ request[r].pc = "removing" /\ Granted(r)
  /\ sessions' = RevokeAllForPrincipal(request[r].seen)
  /\ disabled' = disabled \cup {request[r].principal}
  /\ End(r)
  /\ UNCHANGED accounts

\* The clock: the oldest session still valid expires first.
Expire ==
  \E s \in Ids :
    /\ ~sessions[s].expired
    /\ \A t \in Ids : t < s => sessions[t].expired
    /\ sessions' = [sessions EXCEPT ![s].expired = TRUE]
    /\ UNCHANGED <<accounts, disabled, request>>

-----------------------------------------------------------------------------
Starts(r) ==
  \/ \E p \in Principals : SignIn(r, p) \/ CompleteGitHub(r, p) \/ BeginRemoval(r, p)
  \/ \E s \in Ids : Refresh(r, s) \/ DetectReuse(r, s)
  \/ \E p \in Principals, f \in SessionIds : Logout(r, p, f)

Continues(r) ==
  \/ Issue(r) \/ FirstCallback(r) \/ SecondCallback(r)
  \/ Rotate(r) \/ Revoke(r) \/ Deadlock(r)
  \/ \E s \in Ids : LockRow(r, s)
  \/ BeginClose(r) \/ Close(r) \/ Removal(r)

Next == (\E r \in Requests : Starts(r) \/ Continues(r)) \/ Expire

Spec == Init /\ [][Next]_vars

\* A request's next statement is run: the handler does not stop between two.
Fairness == \A r \in Requests : WF_vars(Continues(r))
FairSpec == Spec /\ Fairness
=============================================================================
