---------------------------- MODULE SessionProofs ----------------------------
(***************************************************************************)
(* That a token family has one unspent token at most and keeps what        *)
(* TokenFamilies promises, and that what survives a revocation is newer    *)
(* than it, for any accounts, any finite number of requests in progress    *)
(* and any bound on the sessions.                                          *)
(***************************************************************************)
EXTENDS SessionProperties, FiniteSetTheorems, SequenceTheorems, TLAPS

-----------------------------------------------------------------------------
(* The newest of some sessions                                             *)

\* Natural numbers have a least one among them.
LEMMA LeastNatural ==
  ASSUME NEW T \in SUBSET Nat, T # {}
  PROVE  \E m \in T : \A y \in T : m <= y
<1>1. PICK m \in T : \A y \in T : ~(<<y, m>> \in OpToRel(<, Nat))
  BY NatLessThanWellFounded, WFMin
<1>2. \A y \in T : y \in Nat /\ m \in Nat OBVIOUS
<1>3. \A y \in T : <<y, m>> \in Nat \X Nat BY <1>2
<1>4. \A y \in T : ~(y < m) BY <1>1, <1>3 DEF OpToRel
<1> QED BY <1>2, <1>4

\* Sessions have a newest one among them (ActiveFamily's ORDER BY ... LIMIT 1).
LEMMA HasNewest ==
  ASSUME NEW n \in Nat, NEW S \in SUBSET (1 .. n), S # {}
  PROVE  \E m \in S : \A y \in S : y <= m
<1> DEFINE T == {n - s : s \in S}
<1>1. T \in SUBSET Nat /\ T # {} OBVIOUS
<1>2. PICK k \in T : \A y \in T : k <= y BY <1>1, LeastNatural
<1>3. PICK m \in S : k = n - m BY <1>2
<1>4. \A y \in S : n - y \in T OBVIOUS
<1>5. \A y \in S : n - m <= n - y BY <1>2, <1>3, <1>4
<1> QED BY <1>5

\* Max names it.
LEMMA MaxIs ==
  ASSUME NEW S \in SUBSET Nat, NEW m \in S, \A y \in S : y <= m
  PROVE  Max(S) = m
<1>1. \E x \in S : \A y \in S : x >= y BY Zenon, m \in Nat, \A y \in S : y \in Nat /\ m >= y
<1>2. Max(S) \in S /\ \A y \in S : Max(S) >= y
  <2> DEFINE P(x) == x \in S /\ \A y \in S : x >= y
  <2>1. \E x : P(x) BY <1>1
  <2>2. P(CHOOSE x : P(x)) BY <2>1
  <2> QED BY <1>1 DEF Max
<1>3. Max(S) \in Nat /\ m \in Nat BY <1>2
<1>4. Max(S) >= m /\ Max(S) <= m BY <1>2
<1> QED BY <1>3, <1>4

-----------------------------------------------------------------------------
(* The sessions table                                                      *)

\* What every statement does to the table: rows are added at its end, none goes,
\* and what is spent, revoked or somebody's stays so.
Kept ==
  /\ Len(sessions) <= Len(sessions')
  /\ \A s \in Ids :
       /\ sessions'[s].principal = sessions[s].principal
       /\ sessions'[s].family = sessions[s].family
       /\ sessions[s].used => sessions'[s].used
       /\ sessions[s].revoked => sessions'[s].revoked

\* The table as a function of its rows.
LEMMA TableRows ==
  ASSUME TypeOK
  PROVE  /\ Len(sessions) \in Nat /\ Ids = 1 .. Len(sessions) /\ Ids \subseteq SessionIds
         /\ \A s \in Ids : sessions[s] \in Session
<1>1. sessions \in Seq(Session) /\ Len(sessions) <= MaxSessions /\ MaxSessions \in Nat
  BY SessionsAssumption DEF TypeOK
<1>2. /\ Len(sessions) \in Nat /\ DOMAIN sessions = 1 .. Len(sessions)
      /\ \A s \in 1 .. Len(sessions) : sessions[s] \in Session
  BY <1>1, LenProperties, ElementOfSeq
<1> QED BY <1>1, <1>2 DEF Ids, SessionIds

\* The one NoRequest names is somebody (Principals is not empty).
LEMMA NobodyIsSomebody == NoRequest \in Request /\ NoRequest.pc = "idle"
<1>1. (CHOOSE p \in Principals : TRUE) \in Principals BY SessionsAssumption DEF Principals
<1>2. MaxSessions \in Nat BY SessionsAssumption
<1> QED BY <1>1, <1>2 DEF NoRequest, Idle, Request

\* A row Create adds is the last (Create's INSERT).
LEMMA Created ==
  ASSUME TypeOK, Len(sessions) < MaxSessions, NEW table \in Seq(Session),
         Len(table) = Len(sessions), NEW p \in Principals, NEW f \in 0 .. MaxSessions
  PROVE  LET grown == Create(table, p, f)
             n == Len(sessions) + 1
         IN  /\ grown \in Seq(Session) /\ Len(grown) = n
             /\ \A s \in Ids : grown[s] = table[s]
             /\ grown[n] = NewSession(p, f) /\ NewSession(p, f) \in Session
<1> DEFINE n == Len(sessions) + 1
<1>1. Len(sessions) \in Nat /\ MaxSessions \in Nat /\ Ids = 1 .. Len(sessions)
  BY TableRows, SessionsAssumption
<1>2. n \in SessionIds BY <1>1 DEF SessionIds
<1>3. NewSession(p, f) \in Session
  <2>1. CASE f = 0 BY <1>2, <2>1 DEF NewSession, Session
  <2>2. CASE f # 0
    <3>1. f \in SessionIds BY <1>1, <2>2 DEF SessionIds
    <3> QED BY <2>2, <3>1 DEF NewSession, Session
  <2> QED BY <2>1, <2>2
<1>4. /\ Create(table, p, f) \in Seq(Session)
      /\ Len(Create(table, p, f)) = n
      /\ \A s \in 1 .. Len(table) : Create(table, p, f)[s] = table[s]
      /\ Create(table, p, f)[n] = NewSession(p, f)
  BY <1>1, <1>3, AppendProperties DEF Create
<1> QED BY <1>1, <1>3, <1>4

\* An UPDATE that marks the rows it saw leaves the rest of the table alone
\* (RevokeFamily, CloseFamily, RevokeAllForPrincipal).
LEMMA Marked ==
  ASSUME TypeOK, NEW seen,
         \/ sessions' = RevokeFamily(seen)
         \/ sessions' = CloseFamily(seen)
  PROVE  /\ sessions' \in Seq(Session) /\ Len(sessions') = Len(sessions)
         /\ Kept
         /\ \A s \in Ids \cap seen : sessions'[s].revoked
<1>1. /\ Len(sessions) \in Nat /\ Ids = 1 .. Len(sessions)
      /\ \A s \in Ids : sessions[s] \in Session
  BY TableRows
<1>2. \A s \in Ids :
        /\ sessions'[s] \in Session
        /\ sessions'[s].principal = sessions[s].principal
        /\ sessions'[s].family = sessions[s].family
        /\ sessions[s].used => sessions'[s].used
        /\ sessions[s].revoked => sessions'[s].revoked
        /\ s \in seen => sessions'[s].revoked
  <2>1. CASE sessions' = RevokeFamily(seen) BY <1>1, <2>1 DEF RevokeFamily, Session
  <2>2. CASE sessions' = CloseFamily(seen) BY <1>1, <2>2 DEF CloseFamily, Session
  <2> QED BY <2>1, <2>2
<1>3. sessions' = [s \in 1 .. Len(sessions) |-> sessions'[s]]
  BY <1>1 DEF RevokeFamily, CloseFamily
<1>4. sessions' \in Seq(Session)
  BY <1>1, <1>2, <1>3, IsASeq
<1>5. Len(sessions') = Len(sessions) BY <1>1, <1>3, <1>4, LenProperties
<1> QED BY <1>1, <1>2, <1>4, <1>5 DEF Kept

-----------------------------------------------------------------------------
(* What the parts of the invariant take to be kept                         *)

\* A request stays sound while the rows it saw are kept: those added since are
\* beyond its snapshot.
LEMMA SoundStays ==
  ASSUME SessionInvariant, Kept, sessions' \in Seq(Session),
         \/ UNCHANGED request
         \/ \E r \in Requests, q \in Request :
              Sound(q) /\ request' = [request EXCEPT ![r] = q]
  PROVE  RequestsAreSound' /\ request' \in [Requests -> Request]
<1>1. /\ Len(sessions) \in Nat /\ Ids = 1 .. Len(sessions) /\ Ids \subseteq SessionIds
      /\ \A s \in Ids : sessions[s] \in Session
  BY TableRows DEF SessionInvariant
<1>2. Len(sessions') \in Nat /\ Ids' = 1 .. Len(sessions')
  BY LenProperties DEF Ids
<1>3. request \in [Requests -> Request] BY DEF SessionInvariant, TypeOK
<1>4. request' \in [Requests -> Request]
  <2>1. CASE UNCHANGED request BY <1>3, <2>1
  <2>2. CASE \E r \in Requests, q \in Request : Sound(q) /\ request' = [request EXCEPT ![r] = q]
    BY <1>3, <2>2
  <2> QED BY <2>1, <2>2
<1>5. ASSUME NEW r \in Requests PROVE Sound(request'[r])
  <2>1. Sound(request[r]) BY DEF SessionInvariant, RequestsAreSound
  <2>2. CASE UNCHANGED request BY <2>1, <2>2
  <2>3. CASE \E t \in Requests, q \in Request : Sound(q) /\ request' = [request EXCEPT ![t] = q]
    <3>1. PICK t \in Requests, q \in Request : Sound(q) /\ request' = [request EXCEPT ![t] = q]
      BY <2>3
    <3>2. request'[r] = IF r = t THEN q ELSE request[r] BY <1>3, <3>1
    <3> QED BY <2>1, <3>1, <3>2
  <2> QED BY <2>2, <2>3
<1>6. ASSUME NEW r \in Requests
      PROVE  Sound(request[r])'
  <2> DEFINE q == request'[r]
  <2>1. Sound(q) /\ q \in Request BY <1>4, <1>5
  <2> HIDE DEF q
  <2>2. q.token \in Nat /\ q.upTo \in Nat BY <2>1, SessionsAssumption DEF Request
  <2>3. /\ q.token <= Len(sessions') /\ q.upTo <= Len(sessions') /\ q.seen \subseteq Ids'
        /\ q.pc = "rotating" => q.token \in Ids'
        /\ q.pc = "absent" => q.principal \in Contributors
        /\ q.pc = "removing" => q.principal \in Seats
    BY <1>1, <1>2, <2>1, <2>2 DEF Sound, Kept
  <2>4. ASSUME NEW s \in Ids', s <= q.upTo, Ends(q, sessions'[s])
        PROVE  s \in q.seen \/ sessions'[s].revoked
    <3>1. s \in Ids BY <1>1, <1>2, <2>1, <2>2, <2>4 DEF Sound
    <3>2. Ends(q, sessions[s]) BY <2>4, <3>1 DEF Ends, Kept
    <3> QED BY <2>1, <2>4, <3>1, <3>2 DEF Sound, Kept
  <2> QED BY <2>3, <2>4 DEF Sound, q
<1> QED BY <1>4, <1>6 DEF RequestsAreSound

\* The requests that may still create a session are finitely many.
LEMMA CreatingIsFinite ==
  IsFiniteSet(Creating) /\ Cardinality(Creating) \in Nat
BY SessionsAssumption, FS_Subset, FS_CardinalityType DEF Creating

\* A request that takes room asked for it; one that creates a session gives its
\* own back (Room).
LEMMA RoomStays ==
  ASSUME SessionInvariant, NEW r \in Requests, NEW q,
         request' = [request EXCEPT ![r] = q],
         Len(sessions') \in Nat,
         \/ /\ Len(sessions') = Len(sessions)
            /\ Room \/ q.pc \notin {"found", "absent", "rotating"}
         \/ /\ Len(sessions') = Len(sessions) + 1
            /\ r \in Creating /\ q.pc \notin {"found", "absent", "rotating"}
  PROVE  RoomIsKept'
<1> DEFINE n == Cardinality(Creating)
<1>1. /\ Len(sessions) \in Nat /\ MaxSessions \in Nat /\ n \in Nat /\ IsFiniteSet(Creating)
      /\ Len(sessions) + n <= MaxSessions
  BY TableRows, SessionsAssumption, CreatingIsFinite DEF SessionInvariant, RoomIsKept
<1>2. \A t \in Requests : request'[t] = IF t = r THEN q ELSE request[t]
  BY DEF SessionInvariant, TypeOK
<1>3. CASE q.pc \notin {"found", "absent", "rotating"}
  <2>1. Creating' = Creating \ {r} BY <1>2, <1>3 DEF Creating
  <2>2. Cardinality(Creating \ {r}) = IF r \in Creating THEN n - 1 ELSE n
    BY <1>1, FS_RemoveElement
  <2>3. Cardinality(Creating') = IF r \in Creating THEN n - 1 ELSE n BY <2>1, <2>2
  <2> QED BY <1>1, <2>3 DEF RoomIsKept
<1>4. CASE q.pc \in {"found", "absent", "rotating"}
  <2>1. Room /\ Len(sessions') = Len(sessions) BY <1>4
  <2>2. Creating' = Creating \cup {r} BY <1>2, <1>4 DEF Creating
  <2>3. Cardinality(Creating \cup {r}) = IF r \in Creating THEN n ELSE n + 1
    BY <1>1, FS_AddElement
  <2>4. Cardinality(Creating') <= n + 1 /\ Cardinality(Creating') \in Nat
    BY <1>1, <2>2, <2>3
  <2>5. Len(sessions) + n < MaxSessions BY <2>1 DEF Room
  <2> HIDE DEF n
  <2> QED BY <1>1, <2>1, <2>4, <2>5 DEF RoomIsKept
<1> QED BY <1>3, <1>4

\* Rows that are only marked leave families rooted and one of two spent.
LEMMA FamiliesStay ==
  ASSUME SessionInvariant, Kept, Len(sessions') = Len(sessions), sessions' \in Seq(Session)
  PROVE  OneOfTwoSpent' /\ FamiliesAreRooted'
<1>1. Ids' = Ids BY TableRows, LenProperties DEF SessionInvariant, Ids
<1>2. OneOfTwoSpent' BY <1>1 DEF SessionInvariant, OneOfTwoSpent, Kept
<1>3. FamiliesAreRooted' BY <1>1 DEF SessionInvariant, FamiliesAreRooted, Kept
<1> QED BY <1>2, <1>3

-----------------------------------------------------------------------------
(* The steps                                                               *)

\* Nothing has been created, and nobody is served.
LEMMA InitSessions == Init => SessionInvariant
<1> SUFFICES ASSUME Init PROVE SessionInvariant OBVIOUS
<1>1. /\ sessions = <<>> /\ accounts = {} /\ disabled = {}
      /\ request = [r \in Requests |-> NoRequest]
  BY DEF Init
<1>2. sessions \in Seq(Session) /\ Len(sessions) = 0 /\ Ids = {}
  BY <1>1, EmptySeq DEF Ids
<1>3. NoRequest \in Request /\ NoRequest.pc = "idle" BY NobodyIsSomebody
<1>4. MaxSessions \in Nat BY SessionsAssumption
<1>5. TypeOK BY <1>1, <1>2, <1>3, <1>4 DEF TypeOK
<1>6. RoomIsKept
  <2>1. Creating = {} BY <1>1, <1>3 DEF Creating
  <2>2. Cardinality(Creating) = 0 BY <2>1, FS_EmptySet
  <2> QED BY <1>2, <1>4, <2>2 DEF RoomIsKept
<1>7. RequestsAreSound
  <2>1. /\ NoRequest.token = 0 /\ NoRequest.upTo = 0 /\ NoRequest.seen = {}
    BY DEF NoRequest, Idle
  <2> QED BY <1>1, <1>2, <1>3, <2>1 DEF RequestsAreSound, Sound
<1>8. OneOfTwoSpent /\ FamiliesAreRooted BY <1>2 DEF OneOfTwoSpent, FamiliesAreRooted
<1> QED BY <1>5, <1>6, <1>7, <1>8 DEF SessionInvariant

\* A request that only reads, or is told no, leaves the table alone.
LEMMA RequestMoves ==
  ASSUME SessionInvariant, NEW r \in Requests, NEW q \in Request, Sound(q),
         request' = [request EXCEPT ![r] = q],
         UNCHANGED <<sessions, accounts, disabled>>,
         Room \/ q.pc \notin {"found", "absent", "rotating"}
  PROVE  SessionInvariant' /\ Kept
<1>1. sessions' \in Seq(Session) /\ Len(sessions') = Len(sessions) /\ Len(sessions) \in Nat
  BY TableRows DEF SessionInvariant, TypeOK
<1>2. Kept BY <1>1 DEF Kept
<1>3. RequestsAreSound' /\ request' \in [Requests -> Request] BY <1>1, <1>2, SoundStays
<1>4. RoomIsKept' BY <1>1, RoomStays
<1>5. OneOfTwoSpent' /\ FamiliesAreRooted' BY <1>1, <1>2, FamiliesStay
<1>6. TypeOK' BY <1>3 DEF SessionInvariant, TypeOK
<1> QED BY <1>2, <1>3, <1>4, <1>5, <1>6 DEF SessionInvariant

\* A request that acts on nothing yet is sound.
LEMMA IdleIsSound ==
  ASSUME NEW q \in Request, q.token = 0, q.upTo = 0, q.seen = {},
         q.pc \in {"idle", "found", "absent", "closing"},
         q.pc = "absent" => q.principal \in Contributors, TypeOK
  PROVE  Sound(q)
<1>1. Len(sessions) \in Nat /\ Ids = 1 .. Len(sessions) BY TableRows
<1> QED BY <1>1 DEF Sound, Ends

\* The idle request is.
LEMMA NobodyIsSound == TypeOK => Sound(NoRequest)
<1>1. NoRequest.token = 0 /\ NoRequest.upTo = 0 /\ NoRequest.seen = {} BY DEF NoRequest, Idle
<1> QED BY <1>1, NobodyIsSomebody, IdleIsSound

\* What the states of a request are.
PCs == {"idle", "found", "absent", "rotating", "closing", "revoking", "retiring", "removing"}

\* A token's row is locked (Refresh).
LEMMA TokenChanges ==
  ASSUME NEW q \in Request, NEW pc \in PCs, NEW token \in 0 .. MaxSessions, NEW f \in 0 .. MaxSessions
  PROVE  [q EXCEPT !.pc = pc, !.token = token, !.family = f] \in Request
<1> DEFINE a == [q EXCEPT !.pc = pc]
           ab == [a EXCEPT !.token = token]
<1>1. a \in Request BY DEF Request, PCs
<1> HIDE DEF a
<1>2. ab \in Request BY <1>1 DEF Request
<1> HIDE DEF ab
<1>3. [ab EXCEPT !.family = f] \in Request BY <1>2 DEF Request
<1> QED BY <1>3 DEF a, ab

\* The sessions that go are looked up (DetectReuse, BeginClose, BeginRemoval).
LEMMA SeenChanges ==
  ASSUME NEW q \in Request, NEW pc \in PCs, NEW seen \in SUBSET SessionIds, NEW n \in 0 .. MaxSessions
  PROVE  [q EXCEPT !.pc = pc, !.seen = seen, !.upTo = n] \in Request
<1> DEFINE a == [q EXCEPT !.pc = pc]
           as == [a EXCEPT !.seen = seen]
<1>1. a \in Request BY DEF Request, PCs
<1> HIDE DEF a
<1>2. as \in Request BY <1>1 DEF Request
<1> HIDE DEF as
<1>3. [as EXCEPT !.upTo = n] \in Request BY <1>2 DEF Request
<1> QED BY <1>3 DEF a, as

\* The family of a used token is looked up (DetectReuse).
LEMMA ReuseChanges ==
  ASSUME NEW q \in Request, NEW pc \in PCs, NEW token \in 0 .. MaxSessions,
         NEW f \in 0 .. MaxSessions, NEW seen \in SUBSET SessionIds, NEW n \in 0 .. MaxSessions
  PROVE  [q EXCEPT !.pc = pc, !.token = token, !.family = f, !.seen = seen, !.upTo = n] \in Request
<1> DEFINE abc == [q EXCEPT !.pc = pc, !.token = token, !.family = f]
           abcs == [abc EXCEPT !.seen = seen]
<1>1. abc \in Request BY TokenChanges
<1> HIDE DEF abc
<1>2. abcs \in Request BY <1>1 DEF Request
<1> HIDE DEF abcs
<1>3. [abcs EXCEPT !.upTo = n] \in Request BY <1>2 DEF Request
<1> QED BY <1>3 DEF abc, abcs

\* A family to close is looked up (Logout).
LEMMA CloseChanges ==
  ASSUME NEW q \in Request, NEW pc \in PCs, NEW f \in 0 .. MaxSessions, NEW own \in 0 .. MaxSessions
  PROVE  [q EXCEPT !.pc = pc, !.family = f, !.own = own] \in Request
<1> DEFINE a == [q EXCEPT !.pc = pc]
           ac == [a EXCEPT !.family = f]
<1>1. a \in Request BY DEF Request, PCs
<1> HIDE DEF a
<1>2. ac \in Request BY <1>1 DEF Request
<1> HIDE DEF ac
<1>3. [ac EXCEPT !.own = own] \in Request BY <1>2 DEF Request
<1> QED BY <1>3 DEF a, ac

\* A request nothing has been asked of yet.
LEMMA IdleRequest ==
  ASSUME NEW p \in Principals
  PROVE  Idle(p) \in Request /\ 0 \in 0 .. MaxSessions /\ {} \in SUBSET SessionIds
BY SessionsAssumption DEF Idle, Request

\* A sign-in, and a callback, read the account (SignIn, CompleteGitHub).
LEMMA AccountsAreRead ==
  ASSUME SessionInvariant, NEW r \in Requests, NEW p \in Principals,
         SignIn(r, p) \/ CompleteGitHub(r, p)
  PROVE  SessionInvariant' /\ Kept
<1>1. PICK pc \in {"found", "absent"} :
        /\ request' = [request EXCEPT ![r] = [Idle(p) EXCEPT !.pc = pc]]
        /\ pc = "absent" => p \in Contributors
  BY DEF SignIn, CompleteGitHub, Begin
<1> DEFINE q == [Idle(p) EXCEPT !.pc = pc]
<1>2. MaxSessions \in Nat BY SessionsAssumption
<1>3. /\ q \in Request /\ q.token = 0 /\ q.upTo = 0 /\ q.seen = {} /\ q.pc = pc
      /\ q.principal = p
  BY <1>2 DEF Idle, Request
<1>4. Room /\ UNCHANGED <<sessions, accounts, disabled>> BY DEF SignIn, CompleteGitHub, Begin
<1> HIDE DEF q
<1>5. Sound(q) BY <1>1, <1>3, IdleIsSound DEF SessionInvariant
<1>6. request' = [request EXCEPT ![r] = q] BY <1>1 DEF q
<1> QED BY <1>3, <1>4, <1>5, <1>6, RequestMoves

\* A refresh locks a live token's row (Refresh).
LEMMA TokenIsLocked ==
  ASSUME SessionInvariant, NEW r \in Requests, NEW s \in Ids, Refresh(r, s)
  PROVE  SessionInvariant' /\ Kept
<1> DEFINE q == [Idle(sessions[s].principal) EXCEPT
                   !.pc = "rotating", !.token = s, !.family = sessions[s].family]
<1>1. /\ Len(sessions) \in Nat /\ Ids = 1 .. Len(sessions) /\ Ids \subseteq SessionIds
      /\ sessions[s] \in Session /\ MaxSessions \in Nat
  BY TableRows, SessionsAssumption DEF SessionInvariant
<1>2. /\ q \in Request /\ q.token = s /\ q.upTo = 0 /\ q.seen = {} /\ q.pc = "rotating"
  <2>1. q.token = s /\ q.upTo = 0 /\ q.seen = {} /\ q.pc = "rotating" BY DEF Idle
  <2>2. /\ sessions[s].principal \in Principals /\ s \in 0 .. MaxSessions
        /\ sessions[s].family \in 0 .. MaxSessions
    BY <1>1 DEF Session, SessionIds
  <2>3. q \in Request BY <2>2, IdleRequest, TokenChanges DEF PCs
  <2> QED BY <2>1, <2>3
<1>3. /\ Room /\ UNCHANGED <<sessions, accounts, disabled>>
      /\ request' = [request EXCEPT ![r] = q]
  BY DEF Refresh
<1> HIDE DEF q
<1>4. Sound(q) BY <1>1, <1>2 DEF Sound, Ends
<1> QED BY <1>2, <1>3, <1>4, RequestMoves

\* A replay's UPDATE begins: it sees what is not revoked of the family (DetectReuse).
LEMMA ReplayIsSeen ==
  ASSUME SessionInvariant, NEW r \in Requests, NEW s \in Ids, DetectReuse(r, s)
  PROVE  SessionInvariant' /\ Kept
<1> DEFINE f == sessions[s].family
           q == [Idle(sessions[s].principal) EXCEPT
                   !.pc = "revoking", !.token = s, !.family = f,
                   !.seen = Unrevoked(Family(f)), !.upTo = Len(sessions)]
<1>1. /\ Len(sessions) \in Nat /\ Ids = 1 .. Len(sessions) /\ Ids \subseteq SessionIds
      /\ sessions[s] \in Session /\ MaxSessions \in Nat /\ Len(sessions) <= MaxSessions
  BY TableRows, SessionsAssumption DEF SessionInvariant, TypeOK
<1>2. Unrevoked(Family(f)) \subseteq Ids BY DEF Unrevoked, Family
<1>3. /\ q \in Request /\ q.token = s /\ q.upTo = Len(sessions) /\ q.family = f
      /\ q.seen = Unrevoked(Family(f)) /\ q.pc = "revoking"
  <2>1. /\ q.token = s /\ q.upTo = Len(sessions) /\ q.family = f
        /\ q.seen = Unrevoked(Family(f)) /\ q.pc = "revoking"
    BY DEF Idle
  <2>2. /\ sessions[s].principal \in Principals /\ s \in 0 .. MaxSessions /\ f \in 0 .. MaxSessions
        /\ Len(sessions) \in 0 .. MaxSessions /\ Unrevoked(Family(f)) \in SUBSET SessionIds
    BY <1>1, <1>2 DEF Session, SessionIds
  <2> HIDE DEF f
  <2>3. q \in Request BY <2>2, IdleRequest, ReuseChanges DEF PCs
  <2> QED BY <2>1, <2>3
<1>4. /\ UNCHANGED <<sessions, accounts, disabled>>
      /\ request' = [request EXCEPT ![r] = q]
  BY DEF DetectReuse
<1> HIDE DEF q
<1>5. Sound(q) BY <1>1, <1>2, <1>3 DEF Sound, Ends, Unrevoked, Family
<1> QED BY <1>3, <1>4, <1>5, RequestMoves

\* A sign-out finds the newest family of the caller's that is active (Logout).
LEMMA FamilyIsFound ==
  ASSUME SessionInvariant, NEW r \in Requests, NEW p \in Principals, NEW f \in SessionIds,
         Logout(r, p, f)
  PROVE  SessionInvariant' /\ Kept
<1> DEFINE q == [Idle(p) EXCEPT !.pc = "closing", !.family = ActiveFamily(p), !.own = f]
<1>1. /\ Len(sessions) \in Nat /\ Ids = 1 .. Len(sessions) /\ Ids \subseteq SessionIds
      /\ \A s \in Ids : sessions[s] \in Session
      /\ MaxSessions \in Nat
  BY TableRows, SessionsAssumption DEF SessionInvariant
<1>2. ActiveFamily(p) \in SessionIds
  <2>1. ActiveFamilies(p) \in SUBSET (1 .. Len(sessions)) /\ ActiveFamilies(p) # {}
    BY <1>1 DEF ActiveFamilies, HeldBy, Logout
  <2>2. \E m \in ActiveFamilies(p) : \A t \in ActiveFamilies(p) : t <= m
    BY <1>1, <2>1, HasNewest
  <2>3. (CHOOSE s \in ActiveFamilies(p) : \A t \in ActiveFamilies(p) : t <= s) \in Ids
    BY <1>1, <2>1, <2>2
  <2> QED BY <1>1, <2>3 DEF ActiveFamily, Session
<1>3. /\ q \in Request /\ q.token = 0 /\ q.upTo = 0 /\ q.seen = {} /\ q.pc = "closing"
  <2>1. q.token = 0 /\ q.upTo = 0 /\ q.seen = {} /\ q.pc = "closing" BY DEF Idle
  <2>2. ActiveFamily(p) \in 0 .. MaxSessions /\ f \in 0 .. MaxSessions
    BY <1>1, <1>2 DEF SessionIds
  <2>3. q \in Request BY <2>2, IdleRequest, CloseChanges DEF PCs
  <2> QED BY <2>1, <2>3
<1>4. /\ UNCHANGED <<sessions, accounts, disabled>>
      /\ request' = [request EXCEPT ![r] = q]
  BY DEF Logout
<1> HIDE DEF q
<1>5. Sound(q) BY <1>3, IdleIsSound DEF SessionInvariant
<1> QED BY <1>3, <1>4, <1>5, RequestMoves

\* A sign-out's UPDATE begins: it sees the whole of the family (BeginClose).
LEMMA FamilyIsSeen ==
  ASSUME SessionInvariant, NEW r \in Requests, BeginClose(r)
  PROVE  SessionInvariant' /\ Kept
<1> DEFINE f == request[r].family
           q == [request[r] EXCEPT !.pc = "retiring", !.seen = Family(f), !.upTo = Len(sessions)]
<1>1. /\ Len(sessions) \in Nat /\ Ids = 1 .. Len(sessions) /\ Ids \subseteq SessionIds
      /\ MaxSessions \in Nat /\ Len(sessions) <= MaxSessions
      /\ request \in [Requests -> Request]
  BY TableRows, SessionsAssumption DEF SessionInvariant, TypeOK
<1>2. Family(f) \subseteq Ids BY DEF Family
<1>3. /\ q \in Request /\ q.token = request[r].token /\ q.upTo = Len(sessions) /\ q.family = f
      /\ q.seen = Family(f) /\ q.pc = "retiring"
  <2>1. request[r] \in Request BY <1>1
  <2>2. /\ q.token = request[r].token /\ q.upTo = Len(sessions) /\ q.family = f
        /\ q.seen = Family(f) /\ q.pc = "retiring"
    BY <2>1 DEF Request
  <2>3. Len(sessions) \in 0 .. MaxSessions /\ Family(f) \in SUBSET SessionIds /\ 0 \in 0 .. MaxSessions
    BY <1>1, <1>2
  <2> HIDE DEF f
  <2>4. q \in Request BY <2>1, <2>3, SeenChanges DEF PCs
  <2> QED BY <2>2, <2>4
<1>4. UNCHANGED <<sessions, accounts, disabled>> BY DEF BeginClose
<1>5. request' = [request EXCEPT ![r] = q] BY <1>1 DEF BeginClose, Request
<1>6. Sound(request[r]) BY DEF SessionInvariant, RequestsAreSound
<1> HIDE DEF q
<1>7. Sound(q) BY <1>1, <1>2, <1>3, <1>6 DEF Sound, Ends, Family
<1> QED BY <1>3, <1>4, <1>5, <1>7, RequestMoves

\* A removal's UPDATE begins: it sees the seat's sessions (BeginRemoval).
LEMMA SeatIsSeen ==
  ASSUME SessionInvariant, NEW r \in Requests, NEW p \in Principals, BeginRemoval(r, p)
  PROVE  SessionInvariant' /\ Kept
<1> DEFINE q == [Idle(p) EXCEPT !.pc = "removing", !.seen = Unrevoked(HeldBy(p)), !.upTo = Len(sessions)]
<1>1. /\ Len(sessions) \in Nat /\ Ids = 1 .. Len(sessions) /\ Ids \subseteq SessionIds
      /\ MaxSessions \in Nat /\ Len(sessions) <= MaxSessions
  BY TableRows, SessionsAssumption DEF SessionInvariant, TypeOK
<1>2. Unrevoked(HeldBy(p)) \subseteq Ids BY DEF Unrevoked, HeldBy
<1>3. /\ q \in Request /\ q.token = 0 /\ q.upTo = Len(sessions) /\ q.principal = p
      /\ q.seen = Unrevoked(HeldBy(p)) /\ q.pc = "removing"
  <2>1. /\ q.token = 0 /\ q.upTo = Len(sessions) /\ q.principal = p
        /\ q.seen = Unrevoked(HeldBy(p)) /\ q.pc = "removing"
    BY DEF Idle
  <2>2. Len(sessions) \in 0 .. MaxSessions /\ Unrevoked(HeldBy(p)) \in SUBSET SessionIds
    BY <1>1, <1>2
  <2>3. q \in Request BY <2>2, IdleRequest, SeenChanges DEF PCs
  <2> QED BY <2>1, <2>3
<1>4. /\ UNCHANGED <<sessions, accounts, disabled>> /\ p \in Seats
      /\ request' = [request EXCEPT ![r] = q]
  BY DEF BeginRemoval
<1> HIDE DEF q
<1>5. Sound(q) BY <1>1, <1>2, <1>3, <1>4 DEF Sound, Ends, Unrevoked, HeldBy
<1> QED BY <1>3, <1>4, <1>5, RequestMoves

\* An UPDATE locks one more of its rows, and changes none yet (LockRow).
LEMMA RowIsLocked ==
  ASSUME SessionInvariant, NEW r \in Requests, NEW s \in Ids, LockRow(r, s)
  PROVE  SessionInvariant' /\ Kept
<1> DEFINE q == [request[r] EXCEPT !.held = @ \cup {s}]
<1>1. request[r] \in Request /\ s \in SessionIds
  BY TableRows DEF SessionInvariant, TypeOK
<1>2. /\ q \in Request /\ q.pc = request[r].pc /\ q.principal = request[r].principal
      /\ q.token = request[r].token /\ q.family = request[r].family
      /\ q.seen = request[r].seen /\ q.upTo = request[r].upTo
  BY <1>1 DEF Request
<1>3. /\ UNCHANGED <<sessions, accounts, disabled>>
      /\ request' = [request EXCEPT ![r] = q]
  BY DEF LockRow
<1>4. Sound(request[r]) BY DEF SessionInvariant, RequestsAreSound
<1>5. request[r].pc \notin {"found", "absent", "rotating"} BY DEF LockRow
<1> HIDE DEF q
<1>6. Sound(q) BY <1>2, <1>4 DEF Sound, Ends
<1> QED BY <1>2, <1>3, <1>5, <1>6, RequestMoves

\* A request that is refused, or aborted, ends with nothing written
\* (SecondCallback, Deadlock).
LEMMA NothingIsWritten ==
  ASSUME SessionInvariant, NEW r \in Requests, SecondCallback(r) \/ Deadlock(r)
  PROVE  SessionInvariant' /\ Kept
<1>1. Sound(NoRequest) /\ NoRequest \in Request /\ NoRequest.pc = "idle"
  BY NobodyIsSound, NobodyIsSomebody DEF SessionInvariant
<1>2. /\ UNCHANGED <<sessions, accounts, disabled>>
      /\ request' = [request EXCEPT ![r] = NoRequest]
  BY DEF SecondCallback, Deadlock, End
<1> QED BY <1>1, <1>2, RequestMoves

\* A session is created for a new family (Issue, FirstCallback).
LEMMA FamilyOpens ==
  ASSUME SessionInvariant, NEW r \in Requests, Issue(r) \/ FirstCallback(r)
  PROVE  /\ SessionInvariant' /\ Kept
         /\ LET n == Len(sessions) + 1 IN
            /\ Len(sessions') = n /\ n \in SessionIds
            /\ \A s \in Ids : sessions'[s] = sessions[s]
            /\ sessions'[n].family = n /\ ~sessions'[n].revoked
<1> DEFINE p == request[r].principal
           n == Len(sessions) + 1
<1>1. /\ Len(sessions) \in Nat /\ Ids = 1 .. Len(sessions) /\ MaxSessions \in Nat
      /\ \A s \in Ids : sessions[s] \in Session
      /\ request[r] \in Request /\ sessions \in Seq(Session)
  BY TableRows, SessionsAssumption DEF SessionInvariant, TypeOK
<1>2. r \in Creating /\ request' = [request EXCEPT ![r] = NoRequest]
  BY DEF Issue, FirstCallback, Creating, End
<1>3. Len(sessions) < MaxSessions
  <2>1. Cardinality(Creating) # 0 BY <1>2, CreatingIsFinite, FS_EmptySet
  <2> QED BY <1>1, <2>1, CreatingIsFinite DEF SessionInvariant, RoomIsKept
<1>4. p \in Principals BY <1>1 DEF Request
<1>5. /\ sessions' \in Seq(Session) /\ Len(sessions') = n
      /\ \A s \in Ids : sessions'[s] = sessions[s]
      /\ sessions'[n] = NewSession(p, 0)
  BY <1>1, <1>3, <1>4, Created DEF Issue, FirstCallback, SessionInvariant
<1>6. Ids' = Ids \cup {n} BY <1>1, <1>5, LenProperties DEF Ids
<1>7. sessions'[n].family = n /\ ~sessions'[n].revoked /\ n \in SessionIds
  BY <1>1, <1>3, <1>5 DEF NewSession, SessionIds
<1>8. Kept BY <1>1, <1>5 DEF Kept
<1>9. FamiliesAreRooted' BY <1>1, <1>5, <1>6, <1>7 DEF SessionInvariant, FamiliesAreRooted
<1>10. OneOfTwoSpent'
  <2>1. \A s \in Ids : sessions'[s].family # n
    BY <1>1, <1>5 DEF SessionInvariant, FamiliesAreRooted, Session, SessionIds
  <2> QED BY <1>5, <1>6, <1>7, <2>1 DEF SessionInvariant, OneOfTwoSpent
<1>11. Sound(NoRequest) /\ NoRequest \in Request /\ NoRequest.pc = "idle"
  BY NobodyIsSound, NobodyIsSomebody DEF SessionInvariant
<1>12. RequestsAreSound' /\ request' \in [Requests -> Request]
  BY <1>2, <1>5, <1>8, <1>11, SoundStays
<1>13. RoomIsKept'
  <2>1. Len(sessions') \in Nat /\ NoRequest.pc \notin {"found", "absent", "rotating"}
    BY <1>1, <1>5, <1>11
  <2> QED BY <1>2, <1>5, <2>1, RoomStays
<1>14. TypeOK'
  <2>1. Sound(request[r]) BY DEF SessionInvariant, RequestsAreSound
  <2>2. accounts' \subseteq Contributors
    BY <2>1 DEF SessionInvariant, TypeOK, Issue, FirstCallback, Sound
  <2>3. disabled' \subseteq Seats BY DEF SessionInvariant, TypeOK, Issue, FirstCallback
  <2> QED BY <1>1, <1>3, <1>5, <1>12, <2>2, <2>3 DEF TypeOK
<1> QED BY <1>5, <1>7, <1>8, <1>9, <1>10, <1>12, <1>13, <1>14 DEF SessionInvariant

\* A live token is spent and its successor added (Rotate).
LEMMA TokenRotates ==
  ASSUME SessionInvariant, NEW r \in Requests, Rotate(r)
  PROVE  /\ SessionInvariant' /\ Kept
         /\ LET n == Len(sessions) + 1
                t == request[r].token
            IN  /\ Len(sessions') = n /\ n \in SessionIds
                /\ t \in Ids /\ ~sessions[t].revoked
                /\ \A s \in Ids : sessions'[s].revoked = sessions[s].revoked
                /\ sessions'[n].family = sessions[t].family /\ ~sessions'[n].revoked
<1> DEFINE t == request[r].token
           n == Len(sessions) + 1
           spent == [sessions EXCEPT ![t].used = TRUE]
           p == sessions[t].principal
           f == sessions[t].family
<1>1. /\ Len(sessions) \in Nat /\ Ids = 1 .. Len(sessions) /\ MaxSessions \in Nat
      /\ \A s \in Ids : sessions[s] \in Session
      /\ sessions \in Seq(Session)
  BY TableRows, SessionsAssumption DEF SessionInvariant, TypeOK
<1>2. r \in Creating /\ request' = [request EXCEPT ![r] = NoRequest]
  BY DEF Rotate, Creating, End
<1>3. Len(sessions) < MaxSessions
  <2>1. Cardinality(Creating) # 0 BY <1>2, CreatingIsFinite, FS_EmptySet
  <2> QED BY <1>1, <2>1, CreatingIsFinite DEF SessionInvariant, RoomIsKept
<1>4. /\ t \in Ids /\ ~sessions[t].used /\ ~sessions[t].revoked
      /\ sessions' = Create(spent, p, f)
  BY DEF SessionInvariant, RequestsAreSound, Sound, Rotate, Spendable, Rotated
<1>5. p \in Principals /\ f \in 0 .. MaxSessions /\ f # 0
  BY <1>1, <1>4 DEF Session, SessionIds
<1>6. \A s \in Ids : spent[s] = IF s = t THEN [sessions[s] EXCEPT !.used = TRUE] ELSE sessions[s]
  BY <1>1, <1>4 DEF Ids
<1>7. spent \in Seq(Session) /\ Len(spent) = Len(sessions)
  <2>1. spent = [s \in 1 .. Len(sessions) |-> spent[s]] BY <1>1 DEF Ids
  <2> HIDE DEF spent
  <2>2. \A s \in 1 .. Len(sessions) : spent[s] \in Session
    <3>1. \A q \in Session : [q EXCEPT !.used = TRUE] \in Session BY DEF Session
    <3> QED BY <1>1, <1>4, <1>6, <3>1
  <2>3. spent \in Seq(Session) BY <1>1, <2>1, <2>2, IsASeq
  <2> QED BY <1>1, <2>1, <2>3, LenProperties
<1> HIDE DEF spent
<1>8. /\ sessions' \in Seq(Session) /\ Len(sessions') = n
      /\ \A s \in Ids : sessions'[s] = spent[s]
      /\ sessions'[n] = NewSession(p, f)
  <2> HIDE DEF p, f
  <2> QED BY <1>3, <1>4, <1>5, <1>7, Created DEF SessionInvariant
<1>9. Ids' = Ids \cup {n} BY <1>1, <1>8, LenProperties DEF Ids
<1>10. sessions'[n].family = f /\ ~sessions'[n].revoked /\ n \in SessionIds
  BY <1>1, <1>3, <1>5, <1>8 DEF NewSession, SessionIds
<1>11. \A s \in Ids :
         /\ sessions'[s].principal = sessions[s].principal
         /\ sessions'[s].family = sessions[s].family
         /\ s = t => sessions'[s].used
         /\ s # t => sessions'[s].used = sessions[s].used
         /\ sessions'[s].revoked = sessions[s].revoked
  <2> SUFFICES ASSUME NEW s \in Ids
               PROVE  /\ sessions'[s].principal = sessions[s].principal
                      /\ sessions'[s].family = sessions[s].family
                      /\ s = t => sessions'[s].used
                      /\ s # t => sessions'[s].used = sessions[s].used
                      /\ sessions'[s].revoked = sessions[s].revoked
    OBVIOUS
  <2>1. sessions[s] \in Session BY <1>1
  <2>2. CASE s = t
    <3>1. sessions'[s] = [sessions[s] EXCEPT !.used = TRUE] BY <1>6, <1>8, <2>2
    <3> QED BY <2>1, <2>2, <3>1 DEF Session
  <2>3. CASE s # t
    <3>1. sessions'[s] = sessions[s] BY <1>6, <1>8, <2>3
    <3> QED BY <2>3, <3>1
  <2> QED BY <2>2, <2>3
<1>12. Kept
  <2>1. \A s \in Ids : sessions[s].used => sessions'[s].used BY <1>11
  <2>2. \A s \in Ids : sessions[s].revoked => sessions'[s].revoked BY <1>11
  <2> QED BY <1>1, <1>8, <1>11, <2>1, <2>2 DEF Kept
<1>13. FamiliesAreRooted'
  <2>1. f <= t /\ t <= Len(sessions) /\ t \in Nat /\ f \in Nat
    BY <1>1, <1>4, <1>5 DEF SessionInvariant, FamiliesAreRooted
  <2>2. f <= n BY <1>1, <2>1
  <2> QED BY <1>9, <1>10, <1>11, <2>2 DEF SessionInvariant, FamiliesAreRooted
<1>14. OneOfTwoSpent'
  <2>1. \A s \in Ids : sessions[s].family = f /\ ~sessions[s].used => s = t
    BY <1>4 DEF SessionInvariant, OneOfTwoSpent
  <2>2. \A s \in Ids : ~sessions'[s].used => ~sessions[s].used BY <1>12 DEF Kept
  <2>3. \A s \in Ids : sessions'[s].family = f => sessions'[s].used
    <3>1. \A s \in Ids : sessions'[s].family = f /\ ~sessions'[s].used => s = t
      BY <1>11, <2>1, <2>2
    <3> QED BY <1>11, <3>1
  <2>4. \A s, u \in Ids :
          /\ sessions'[s].family = sessions'[u].family
          /\ ~sessions'[s].used /\ ~sessions'[u].used
          => s = u
    BY <1>11, <2>2 DEF SessionInvariant, OneOfTwoSpent
  <2> QED BY <1>9, <1>10, <2>3, <2>4 DEF OneOfTwoSpent
<1>15. Sound(NoRequest) /\ NoRequest \in Request /\ NoRequest.pc = "idle"
  BY NobodyIsSound, NobodyIsSomebody DEF SessionInvariant
<1>16. RequestsAreSound' /\ request' \in [Requests -> Request]
  BY <1>2, <1>8, <1>12, <1>15, SoundStays
<1>17. RoomIsKept'
  <2>1. Len(sessions') \in Nat /\ NoRequest.pc \notin {"found", "absent", "rotating"}
    BY <1>1, <1>8, <1>15
  <2> QED BY <1>2, <1>8, <2>1, RoomStays
<1>18. TypeOK'
  <2>1. accounts' \subseteq Contributors /\ disabled' \subseteq Seats
    BY DEF SessionInvariant, TypeOK, Rotate
  <2> QED BY <1>1, <1>3, <1>8, <1>16, <2>1 DEF TypeOK
<1> QED BY <1>4, <1>8, <1>10, <1>11, <1>12, <1>13, <1>14, <1>16, <1>17, <1>18 DEF SessionInvariant

\* A revocation, a sign-out or a removal marks the rows it saw (Revoke, Close, Removal).
LEMMA SessionsEnd ==
  ASSUME SessionInvariant, NEW r \in Requests, Revoke(r) \/ Close(r) \/ Removal(r)
  PROVE  /\ SessionInvariant' /\ Kept
         /\ Ids' = Ids /\ \A s \in Ids \cap request[r].seen : sessions'[s].revoked
<1> DEFINE seen == request[r].seen
<1>1. sessions' = RevokeFamily(seen) \/ sessions' = CloseFamily(seen)
  BY DEF Revoke, Close, Removal, RevokeAllForPrincipal
<1> HIDE DEF seen
<1>2. /\ sessions' \in Seq(Session) /\ Len(sessions') = Len(sessions) /\ Kept
      /\ \A s \in Ids \cap seen : sessions'[s].revoked
  BY <1>1, Marked DEF SessionInvariant
<1>3. Len(sessions) \in Nat /\ Len(sessions) <= MaxSessions /\ Ids' = Ids
  BY <1>2, TableRows, LenProperties DEF SessionInvariant, TypeOK, Ids
<1>4. request' = [request EXCEPT ![r] = NoRequest] BY DEF Revoke, Close, Removal, End
<1>5. Sound(NoRequest) /\ NoRequest \in Request /\ NoRequest.pc = "idle"
  BY NobodyIsSound, NobodyIsSomebody DEF SessionInvariant
<1>6. RequestsAreSound' /\ request' \in [Requests -> Request] BY <1>2, <1>4, <1>5, SoundStays
<1>7. RoomIsKept'
  <2>1. Len(sessions') \in Nat /\ NoRequest.pc \notin {"found", "absent", "rotating"}
    BY <1>2, <1>3, <1>5
  <2> QED BY <1>2, <1>4, <2>1, RoomStays
<1>8. OneOfTwoSpent' /\ FamiliesAreRooted' BY <1>2, FamiliesStay
<1>9. TypeOK'
  <2>1. accounts' \subseteq Contributors BY DEF SessionInvariant, TypeOK, Revoke, Close, Removal
  <2>2. Sound(request[r]) BY DEF SessionInvariant, RequestsAreSound
  <2>3. disabled' \subseteq Seats
    BY <2>2 DEF SessionInvariant, TypeOK, Sound, Revoke, Close, Removal
  <2> QED BY <1>2, <1>3, <1>6, <2>1, <2>3 DEF TypeOK
<1> QED BY <1>2, <1>3, <1>6, <1>7, <1>8, <1>9 DEF SessionInvariant, seen

\* The clock ends sessions, and does nothing else (Expire).
LEMMA TimePasses ==
  ASSUME SessionInvariant, Expire
  PROVE  SessionInvariant' /\ Kept /\ Ids' = Ids
<1>1. /\ Len(sessions) \in Nat /\ Ids = 1 .. Len(sessions)
      /\ \A s \in Ids : sessions[s] \in Session
      /\ sessions \in Seq(Session)
  BY TableRows DEF SessionInvariant, TypeOK
<1>2. PICK i \in Ids : sessions' = [sessions EXCEPT ![i].expired = TRUE] BY DEF Expire
<1>3. \A s \in Ids :
        sessions'[s] = IF s = i THEN [sessions[s] EXCEPT !.expired = TRUE] ELSE sessions[s]
  BY <1>1, <1>2 DEF Ids
<1>4. sessions' \in Seq(Session) /\ Len(sessions') = Len(sessions)
  <2>1. \A s \in Ids : [sessions[s] EXCEPT !.expired = TRUE] \in Session BY <1>1 DEF Session
  <2>2. \A s \in 1 .. Len(sessions) : sessions'[s] \in Session BY <1>1, <1>3, <2>1
  <2>3. sessions' = [s \in 1 .. Len(sessions) |-> sessions'[s]] BY <1>1, <1>2 DEF Ids
  <2>4. sessions' \in Seq(Session) BY <1>1, <2>2, <2>3, IsASeq
  <2> QED BY <1>1, <2>3, <2>4, LenProperties
<1>5. Ids' = Ids BY <1>1, <1>4, LenProperties DEF Ids
<1>6. Kept
  <2>1. ASSUME NEW s \in Ids
        PROVE  /\ sessions'[s].principal = sessions[s].principal
               /\ sessions'[s].family = sessions[s].family
               /\ sessions'[s].used = sessions[s].used
               /\ sessions'[s].revoked = sessions[s].revoked
    <3>1. sessions[s] \in Session BY <1>1
    <3>2. CASE s = i
      <4>1. sessions'[s] = [sessions[s] EXCEPT !.expired = TRUE] BY <1>3, <3>2
      <4> QED BY <3>1, <4>1 DEF Session
    <3>3. CASE s # i BY <1>3, <3>3
    <3> QED BY <3>2, <3>3
  <2> QED BY <1>1, <1>4, <2>1 DEF Kept
<1>7. UNCHANGED <<accounts, disabled, request>> BY DEF Expire
<1>8. RequestsAreSound' /\ request' \in [Requests -> Request] BY <1>4, <1>6, <1>7, SoundStays
<1>9. RoomIsKept' BY <1>4, <1>7 DEF SessionInvariant, RoomIsKept, Creating
<1>10. OneOfTwoSpent' /\ FamiliesAreRooted' BY <1>4, <1>6, FamiliesStay
<1>11. TypeOK' BY <1>4, <1>7, <1>8 DEF SessionInvariant, TypeOK
<1> QED BY <1>5, <1>6, <1>8, <1>9, <1>10, <1>11 DEF SessionInvariant

\* Every step keeps the invariant, and what is spent or revoked.
LEMMA StepSessions == SessionInvariant /\ [Next]_vars => SessionInvariant' /\ Kept
<1> SUFFICES ASSUME SessionInvariant, [Next]_vars PROVE SessionInvariant' /\ Kept OBVIOUS
<1>1. ASSUME NEW r \in Requests, Starts(r) PROVE SessionInvariant' /\ Kept
  <2>1. ASSUME NEW p \in Principals, SignIn(r, p) \/ CompleteGitHub(r, p)
        PROVE  SessionInvariant' /\ Kept
    BY <2>1, AccountsAreRead
  <2>2. ASSUME NEW p \in Principals, BeginRemoval(r, p) PROVE SessionInvariant' /\ Kept
    BY <2>2, SeatIsSeen
  <2>3. ASSUME NEW s \in Ids, Refresh(r, s) PROVE SessionInvariant' /\ Kept
    BY <2>3, TokenIsLocked
  <2>4. ASSUME NEW s \in Ids, DetectReuse(r, s) PROVE SessionInvariant' /\ Kept
    BY <2>4, ReplayIsSeen
  <2>5. ASSUME NEW p \in Principals, NEW f \in SessionIds, Logout(r, p, f)
        PROVE  SessionInvariant' /\ Kept
    BY <2>5, FamilyIsFound
  <2> QED BY <1>1, <2>1, <2>2, <2>3, <2>4, <2>5 DEF Starts
<1>2. ASSUME NEW r \in Requests, Continues(r) PROVE SessionInvariant' /\ Kept
  <2>1. CASE Issue(r) \/ FirstCallback(r) BY <2>1, FamilyOpens
  <2>2. CASE SecondCallback(r) \/ Deadlock(r) BY <2>2, NothingIsWritten
  <2>3. CASE Rotate(r) BY <2>3, TokenRotates
  <2>4. CASE Revoke(r) \/ Close(r) \/ Removal(r) BY <2>4, SessionsEnd
  <2>5. CASE BeginClose(r) BY <2>5, FamilyIsSeen
  <2>6. CASE \E s \in Ids : LockRow(r, s) BY <2>6, RowIsLocked
  <2> QED BY <1>2, <2>1, <2>2, <2>3, <2>4, <2>5, <2>6 DEF Continues
<1>3. CASE Expire BY <1>3, TimePasses
<1>4. CASE UNCHANGED vars
  <2>1. UNCHANGED <<sessions, accounts, disabled, request>> BY <1>4 DEF vars
  <2>2. Len(sessions) \in Nat BY TableRows DEF SessionInvariant
  <2>3. Kept BY <2>1, <2>2 DEF Kept
  <2>4. SessionInvariant'
    BY <2>1 DEF SessionInvariant, TypeOK, OneOfTwoSpent, RoomIsKept, Creating,
                FamiliesAreRooted, RequestsAreSound, Sound, Ids
  <2> QED BY <2>3, <2>4
<1> QED BY <1>1, <1>2, <1>3, <1>4 DEF Next

\* The requests and the table they leave satisfy the invariant in every state.
THEOREM SessionsAreSound == Spec => []SessionInvariant
BY InitSessions, StepSessions, PTL DEF Spec

\* Every row and every request has its type (Session, Request).
THEOREM SessionTypes == Spec => []TypeOK
<1>1. SessionInvariant => TypeOK BY DEF SessionInvariant
<1> QED BY <1>1, SessionsAreSound, PTL

\* A set whose members are all one has one member at most.
LEMMA OneAtMost ==
  ASSUME NEW S, \A x, y \in S : x = y
  PROVE  IsFiniteSet(S) /\ Cardinality(S) <= 1
<1>1. CASE S = {} BY <1>1, FS_EmptySet
<1>2. CASE S # {}
  <2>1. PICK x \in S : TRUE BY <1>2
  <2>2. S = {x} BY <2>1
  <2>3. IsFiniteSet({x}) /\ Cardinality({x}) = 1 BY FS_Singleton
  <2> QED BY <2>2, <2>3
<1> QED BY <1>1, <1>2

\* However many refreshes, replays and sign-outs overlap, a family has one
\* unspent token at most (Rotate's one transaction).
THEOREM TokensAreSpentOnce == Spec => []OneUnspentToken
<1>1. SessionInvariant => OneUnspentToken
  <2> SUFFICES ASSUME SessionInvariant, NEW f \in Ids
               PROVE  Cardinality({s \in Family(f) : ~sessions[s].used}) <= 1
    BY DEF OneUnspentToken
  <2>1. \A s, t \in {s \in Family(f) : ~sessions[s].used} : s = t
    BY DEF SessionInvariant, OneOfTwoSpent, Family
  <2> QED BY <2>1, OneAtMost
<1> QED BY <1>1, SessionsAreSound, PTL

-----------------------------------------------------------------------------
(* What survives                                                           *)

\* Only its own last statement ends what a request set out to end.
LEMMA WhoEnds ==
  ASSUME SessionInvariant, Next, NEW r \in Requests, Ended(r), sessions' # sessions
  PROVE  Revoke(r) \/ Close(r) \/ Removal(r)
<1>1. request \in [Requests -> Request] BY DEF SessionInvariant, TypeOK
<1>2. request'[r] # request[r] BY DEF Ended
<1>3. ASSUME NEW t \in Requests, NEW q, request' = [request EXCEPT ![t] = q] PROVE t = r
  BY <1>1, <1>2, <1>3
<1>4. ASSUME NEW t \in Requests, Starts(t) PROVE FALSE
  BY <1>4 DEF Starts, SignIn, CompleteGitHub, BeginRemoval, Begin, Refresh, DetectReuse, Logout
<1>5. ASSUME NEW t \in Requests, Continues(t) PROVE Revoke(r) \/ Close(r) \/ Removal(r)
  <2>1. CASE Revoke(t) \/ Close(t) \/ Removal(t)
    <3>1. request' = [request EXCEPT ![t] = NoRequest] BY <2>1 DEF Revoke, Close, Removal, End
    <3> QED BY <1>3, <2>1, <3>1
  <2>2. CASE Issue(t) \/ FirstCallback(t) \/ Rotate(t)
    <3>1. request' = [request EXCEPT ![t] = NoRequest] BY <2>2 DEF Issue, FirstCallback, Rotate, End
    <3>2. t = r BY <1>3, <3>1
    <3> QED BY <2>2, <3>2 DEF Issue, FirstCallback, Rotate, Ended
  <2>3. CASE SecondCallback(t) \/ Deadlock(t) \/ BeginClose(t) \/ \E s \in Ids : LockRow(t, s)
    BY <2>3 DEF SecondCallback, Deadlock, BeginClose, LockRow
  <2> QED BY <1>5, <2>1, <2>2, <2>3 DEF Continues
<1>6. ~Expire BY <1>2 DEF Expire
<1> QED BY <1>4, <1>5, <1>6 DEF Next

\* What can still be used of what a revocation, a sign-out or a removal ended
\* was created after its UPDATE began (RevokeFamily, RevokeAllForPrincipal).
THEOREM RevocationsReach == Spec => SurvivorsAreNew
<1> DEFINE Survive ==
      \A r \in Requests : Ended(r) /\ sessions' # sessions =>
        \A s \in DOMAIN sessions' :
          /\ \/ request[r].pc = "removing" /\ sessions'[s].principal = request[r].principal
             \/ request[r].pc # "removing" /\ sessions'[s].family = request[r].family
          /\ ~sessions'[s].revoked
          => s > request[r].upTo
<1>1. SessionInvariant /\ [Next]_vars => [Survive]_vars
  <2> SUFFICES ASSUME SessionInvariant, Next,
                      NEW r \in Requests, Ended(r), sessions' # sessions,
                      NEW s \in DOMAIN sessions',
                      \/ request[r].pc = "removing" /\ sessions'[s].principal = request[r].principal
                      \/ request[r].pc # "removing" /\ sessions'[s].family = request[r].family,
                      ~sessions'[s].revoked
               PROVE  s > request[r].upTo
    OBVIOUS
  <2>1. Revoke(r) \/ Close(r) \/ Removal(r) BY WhoEnds
  <2>2. /\ Kept /\ Ids' = Ids /\ \A t \in Ids \cap request[r].seen : sessions'[t].revoked
    BY <2>1, SessionsEnd
  <2>3. s \in Ids BY <2>2 DEF Ids
  <2>4. s \notin request[r].seen /\ ~sessions[s].revoked BY <2>2, <2>3 DEF Kept
  <2>5. Ends(request[r], sessions[s]) BY <2>2, <2>3 DEF Ends, Ended, Kept
  <2>6. ~(s <= request[r].upTo)
    BY <2>3, <2>4, <2>5 DEF SessionInvariant, RequestsAreSound, Sound
  <2>7. s \in Nat /\ request[r].upTo \in Nat
    BY <2>3, TableRows, SessionsAssumption DEF SessionInvariant, TypeOK, Request
  <2> QED BY <2>6, <2>7
<1>2. SurvivorsAreNew <=> [][Survive]_vars BY DEF SurvivorsAreNew
<1> HIDE DEF Survive
<1> QED BY <1>1, <1>2, SessionsAreSound, PTL DEF Spec

-----------------------------------------------------------------------------
(* The promise of a family                                                 *)

\* A step that adds no row revives no family, and may close some.
LEMMA FamiliesClose ==
  ASSUME SessionInvariant, Kept, Ids' = Ids
  PROVE  Families!Next
<1> DEFINE newest == [f \in SessionIds |-> IF f \in Ids /\ Family(f) # {} THEN Max(Family(f)) ELSE 0]
           live == [f \in SessionIds |-> f \in Ids /\ Unrevoked(Family(f)) # {}]
           S == {f \in SessionIds : ~live'[f]}
<1>1. \A f : Family(f)' = Family(f) BY DEF Family, Kept
<1>2. newest' = newest BY <1>1
<1>3. \A f \in SessionIds : live'[f] => live[f] BY <1>1 DEF Unrevoked, Family, Kept
<1>4. live' = [f \in SessionIds |-> live[f] /\ f \notin S]
  <2>1. \A f \in SessionIds : live'[f] = (live[f] /\ f \notin S)
    BY Zenon, <1>3
  <2> QED BY <2>1
<1>5. S \in SUBSET SessionIds OBVIOUS
<1> QED BY <1>2, <1>4, <1>5 DEF Families!Next, Families!Close

\* A new family opens with the session that names it (Issue, FirstCallback).
LEMMA FamilyIsOpened ==
  ASSUME SessionInvariant, NEW r \in Requests, Issue(r) \/ FirstCallback(r)
  PROVE  Families!Next
<1> DEFINE newest == [f \in SessionIds |-> IF f \in Ids /\ Family(f) # {} THEN Max(Family(f)) ELSE 0]
           live == [f \in SessionIds |-> f \in Ids /\ Unrevoked(Family(f)) # {}]
<1>0. PICK n \in SessionIds : n = Len(sessions) + 1 BY FamilyOpens
<1>1. /\ Len(sessions') = n /\ n \in SessionIds /\ SessionInvariant'
      /\ \A s \in Ids : sessions'[s] = sessions[s]
      /\ sessions'[n].family = n /\ ~sessions'[n].revoked
  BY <1>0, FamilyOpens
<1>2. Len(sessions) \in Nat /\ Ids = 1 .. Len(sessions) /\ Ids' = 1 .. n /\ n \in Nat
      /\ \A s \in Ids : sessions[s] \in Session
  <2>1. TypeOK /\ TypeOK' BY <1>1 DEF SessionInvariant
  <2>2. sessions' \in Seq(Session) BY <2>1 DEF TypeOK
  <2> QED BY <1>0, <1>1, <2>1, <2>2, TableRows, LenProperties DEF Ids
<1>3. Ids' = Ids \cup {n} /\ n \notin Ids BY <1>0, <1>2
<1>4. \A s \in Ids : sessions[s].family # n
  BY <1>0, <1>2 DEF SessionInvariant, FamiliesAreRooted, Session, SessionIds
<1>5. \A f \in Ids : Family(f)' = Family(f) /\ Unrevoked(Family(f))' = Unrevoked(Family(f))
  BY <1>1, <1>3 DEF Family, Unrevoked
<1>6. Family(n)' = {n} /\ Unrevoked(Family(n))' = {n}
  BY <1>1, <1>3, <1>4 DEF Family, Unrevoked
<1>7. Max({n}) = n BY <1>2, MaxIs
<1>8. newest[n] = 0 BY <1>1, <1>3
<1>9. newest' = [newest EXCEPT ![n] = n]
  <2>1. \A f \in SessionIds : newest'[f] = IF f = n THEN n ELSE newest[f]
    BY <1>3, <1>5, <1>6, <1>7
  <2> QED BY <1>1, <2>1
<1>10. live' = [live EXCEPT ![n] = TRUE]
  <2>1. \A f \in SessionIds \ {n} : live'[f] = live[f] BY <1>3, <1>5
  <2>2. live'[n] = TRUE BY <1>1, <1>3, <1>6
  <2> QED BY <1>1, <2>1, <2>2
<1> QED BY <1>1, <1>8, <1>9, <1>10 DEF Families!Next, Families!Open

\* A rotation puts a newer token in a live family, and touches no other (Rotate).
LEMMA FamilyAdvances ==
  ASSUME SessionInvariant, NEW r \in Requests, Rotate(r)
  PROVE  Families!Next
<1> DEFINE newest == [f \in SessionIds |-> IF f \in Ids /\ Family(f) # {} THEN Max(Family(f)) ELSE 0]
           live == [f \in SessionIds |-> f \in Ids /\ Unrevoked(Family(f)) # {}]
<1>0. /\ \E n \in SessionIds : n = Len(sessions) + 1
      /\ \E t \in Ids : t = request[r].token
  BY TokenRotates
<1>n. PICK n \in SessionIds : n = Len(sessions) + 1 BY <1>0
<1>t. PICK t \in Ids : t = request[r].token BY <1>0
<1>g. PICK g : g = sessions[t].family OBVIOUS
<1>1. /\ Len(sessions') = n /\ n \in SessionIds /\ SessionInvariant'
      /\ t \in Ids /\ ~sessions[t].revoked
      /\ \A s \in Ids : /\ sessions'[s].revoked = sessions[s].revoked
                        /\ sessions'[s].family = sessions[s].family
      /\ sessions'[n].family = g /\ ~sessions'[n].revoked
  BY <1>n, <1>t, <1>g, TokenRotates DEF Kept
<1>2. Len(sessions) \in Nat /\ Ids = 1 .. Len(sessions) /\ Ids' = 1 .. n /\ n \in Nat
      /\ Ids \subseteq SessionIds /\ \A s \in Ids : sessions[s] \in Session
  <2>1. TypeOK /\ TypeOK' BY <1>1 DEF SessionInvariant
  <2>2. sessions' \in Seq(Session) BY <2>1 DEF TypeOK
  <2> QED BY <1>n, <1>1, <2>1, <2>2, TableRows, LenProperties DEF Ids
<1>3. Ids' = Ids \cup {n} /\ n \notin Ids BY <1>n, <1>2
<1>4. g \in Ids
  BY <1>1, <1>2, <1>g DEF SessionInvariant, FamiliesAreRooted, Session, SessionIds
<1>5. \A f \in Ids \ {g} : Family(f)' = Family(f) BY <1>1, <1>3 DEF Family
<1>6. Family(g)' = Family(g) \cup {n} BY <1>1, <1>3 DEF Family
<1>7. Unrevoked(Family(g)) # {} /\ Unrevoked(Family(g))' # {}
  <2>1. t \in Unrevoked(Family(g)) BY <1>1, <1>g DEF Family, Unrevoked
  <2>2. n \in Unrevoked(Family(g))' BY <1>1, <1>6 DEF Unrevoked
  <2> QED BY <2>1, <2>2
<1>8. \A f \in Ids \ {g} : Unrevoked(Family(f))' = Unrevoked(Family(f))
  BY <1>1, <1>5 DEF Unrevoked, Family
<1>9. Family(n) = {} /\ Family(n)' = {}
  <2>1. Family(n) = {}
    BY <1>n, <1>2 DEF SessionInvariant, FamiliesAreRooted, Session, SessionIds, Family
  <2>2. g # n BY <1>3, <1>4
  <2>3. Family(n)' = {} BY <1>1, <1>3, <2>1, <2>2 DEF Family
  <2> QED BY <2>1, <2>3
<1>10. Max(Family(g)') = n /\ Max(Family(g)) \in Ids
  <2>1. Family(g) \in SUBSET (1 .. Len(sessions)) /\ Family(g) # {}
    BY <1>1, <1>2, <1>g DEF Family
  <2>2. PICK m \in Family(g) : \A y \in Family(g) : y <= m BY <1>2, <2>1, HasNewest
  <2>3. Family(g) \in SUBSET Nat BY <2>1
  <2>4. Max(Family(g)) = m BY <2>2, <2>3, MaxIs
  <2>5. Family(g)' \in SUBSET Nat /\ n \in Family(g)' /\ \A y \in Family(g)' : y <= n
    BY <1>2, <1>6, <1>n, <2>1
  <2>6. Max(Family(g)') = n BY <2>5, MaxIs
  <2> QED BY <1>2, <2>1, <2>2, <2>4, <2>6
<1>11. newest[g] < n /\ live[g]
  <2>1. newest[g] = Max(Family(g)) BY <1>1, <1>2, <1>4, <1>g DEF Family
  <2>2. Max(Family(g)) \in 1 .. Len(sessions) BY <1>2, <1>10
  <2>3. live[g] BY <1>2, <1>4, <1>7
  <2> HIDE DEF newest, live
  <2> QED BY <1>2, <1>n, <2>1, <2>2, <2>3
<1>12. newest' = [newest EXCEPT ![g] = n]
  <2>1. newest'[g] = n BY <1>2, <1>3, <1>4, <1>6, <1>10
  <2>2. newest'[n] = 0 /\ newest[n] = 0 BY <1>1, <1>3, <1>9
  <2>3. \A f \in Ids \ {g} : newest'[f] = newest[f] BY <1>2, <1>3, <1>5
  <2>4. \A f \in SessionIds \ (Ids \cup {n}) : newest'[f] = newest[f] BY <1>3
  <2>5. \A f \in SessionIds : newest'[f] = IF f = g THEN n ELSE newest[f]
    <3> HIDE DEF newest
    <3> QED BY <1>3, <1>4, <2>1, <2>2, <2>3, <2>4
  <2> QED BY <1>2, <1>4, <2>5
<1>13. live' = live
  <2>1. \A f \in Ids : live'[f] = live[f] BY <1>2, <1>3, <1>7, <1>8
  <2>2. live'[n] = live[n] BY <1>1, <1>3, <1>9 DEF Unrevoked
  <2>3. \A f \in SessionIds \ (Ids \cup {n}) : live'[f] = live[f] BY <1>3
  <2>4. \A f \in SessionIds : live'[f] = live[f]
    <3> HIDE DEF live
    <3> QED BY <2>1, <2>2, <2>3
  <2> QED BY <2>4
<1>14. n > newest[g] /\ g \in SessionIds BY <1>2, <1>4, <1>11
<1>15. Families!Advance(g) BY <1>1, <1>11, <1>12, <1>13, <1>14 DEF Families!Advance
<1> QED BY <1>14, <1>15 DEF Families!Next

\* No family is open at first.
LEMMA InitFamilies == Init => Families!Init
<1> SUFFICES ASSUME Init PROVE Families!Init OBVIOUS
<1>1. Ids = {} BY DEF Init, Ids
<1> QED BY <1>1 DEF Families!Init

\* A step of a request opens, advances or closes a family, or is none of its business.
LEMMA StepFamilies ==
  SessionInvariant /\ [Next]_vars => [Families!Next]_(Families!familyVars)
<1> SUFFICES ASSUME SessionInvariant, [Next]_vars
             PROVE  Families!Next
  OBVIOUS
<1>1. Kept BY StepSessions
<1>2. CASE UNCHANGED sessions
  <2>1. Ids' = Ids BY <1>2 DEF Ids
  <2> QED BY <1>1, <2>1, FamiliesClose
<1>3. ASSUME NEW r \in Requests, Starts(r) PROVE UNCHANGED sessions
  BY <1>3 DEF Starts, SignIn, CompleteGitHub, BeginRemoval, Begin, Refresh, DetectReuse, Logout
<1>4. ASSUME NEW r \in Requests, Continues(r) PROVE Families!Next
  <2>1. CASE Issue(r) \/ FirstCallback(r) BY <2>1, FamilyIsOpened
  <2>2. CASE Rotate(r) BY <2>2, FamilyAdvances
  <2>3. CASE Revoke(r) \/ Close(r) \/ Removal(r) BY <2>3, SessionsEnd, FamiliesClose
  <2>4. CASE SecondCallback(r) \/ Deadlock(r) \/ BeginClose(r) \/ \E s \in Ids : LockRow(r, s)
    BY <1>2, <2>4 DEF SecondCallback, Deadlock, BeginClose, LockRow
  <2> QED BY <1>4, <2>1, <2>2, <2>3, <2>4 DEF Continues
<1>5. CASE Expire BY <1>5, TimePasses, FamiliesClose
<1>6. CASE UNCHANGED vars BY <1>2, <1>6 DEF vars
<1> QED BY <1>2, <1>3, <1>4, <1>5, <1>6 DEF Next

\* The requests implement the promise of a token family: none is revived, and none
\* that is closed is rotated (Rotate, RevokeFamily, CloseFamily).
THEOREM FamiliesAreKept == Spec => FamiliesPromise
BY InitFamilies, StepFamilies, SessionsAreSound, PTL DEF Spec, FamiliesPromise, Families!Spec
=============================================================================
