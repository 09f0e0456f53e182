---------------------------- MODULE RequestProofs ----------------------------
(***************************************************************************)
(* Proofs about the request handlers of the backend: wallet login, the      *)
(* accounting of the SSE service, and the stream endpoints.                 *)
(***************************************************************************)
EXTENDS MCRequests, SumsProofs, FiniteSetTheorems, SequenceTheorems, TLAPS

-----------------------------------------------------------------------------
(* Wallet login.  The n-th nonce is n; which key it was issued to and when is
   what ties a pending challenge, and the token it is exchanged for, together. *)
AuthTyped ==
  /\ challenges \in [AuthKeys -> [nonce : Nat, expiresAt : Nat]]
  /\ issuedNonces \in 0..MaxNonces
  /\ issuedAt \in [Nonces -> [key : AuthKeys, at : Nat]]
  /\ tokens \subseteq [sub : AuthKeys, nonce : Nonces, signer : AuthKeys, secret : 0..1, exp : Nat]
  /\ jwtSecret \in 0..1
  /\ authClock \in Nat

(* A pending challenge carries a nonce drawn for its key and not exchanged yet. *)
AuthPending ==
  \A k \in AuthKeys :
    challenges[k] # NoChallenge =>
      /\ challenges[k].nonce \in 1..issuedNonces
      /\ issuedAt[challenges[k].nonce].key = k
      /\ challenges[k].expiresAt = issuedAt[challenges[k].nonce].at + ChallengeTtl
      /\ \A t \in tokens : t.nonce # challenges[k].nonce

(* A token was bought by its subject with a nonce issued to it, before the
   challenge expired. *)
AuthBought ==
  \A t \in tokens :
    /\ t.nonce \in 1..issuedNonces
    /\ t.signer = t.sub /\ issuedAt[t.nonce].key = t.sub
    /\ t.exp <= issuedAt[t.nonce].at + ChallengeTtl + JWT_EXPIRY_SECONDS

(* Who was let through with a token showed one that was handed out and alive. *)
AuthEntered ==
  (admitted.status = 200 /\ admitted.token # NoToken) =>
    /\ admitted.token \in tokens
    /\ admitted.at \in Nat /\ admitted.at <= admitted.token.exp
    /\ admitted.token.secret = admitted.secret

AuthIInv == AuthTyped /\ AuthPending /\ AuthBought /\ AuthOneTokenPerNonce /\ AuthEntered

(* What the proofs use of the assumption on the constants. *)
LEMMA AuthConstants ==
  ASSUME AuthAssumption
  PROVE  /\ ChallengeTtl \in Nat /\ JWT_EXPIRY_SECONDS \in Nat /\ MaxNonces \in Nat
         /\ ADMIN_PUBLIC_KEY \in AuthKeys
  BY DEF AuthAssumption

(* The invariant holds when the process starts. *)
LEMMA AuthInitInv ==
  ASSUME AuthInit, AuthAssumption
  PROVE  AuthIInv
<1>1. AuthTyped
  BY AuthConstants DEF AuthInit, AuthTyped, NoChallenge
<1>2. AuthPending /\ AuthBought /\ AuthOneTokenPerNonce
  BY DEF AuthInit, AuthPending, AuthBought, AuthOneTokenPerNonce
<1>3. AuthEntered
  BY DEF AuthInit, AuthEntered, Refused
<1>4. QED
  BY <1>1, <1>2, <1>3 DEF AuthIInv

(* Issuing a challenge: the new nonce is fresh, so no token was bought with it. *)
LEMMA IssueChallengeKeeps ==
  ASSUME AuthIInv, AuthAssumption, NEW k \in AuthKeys, IssueChallenge(k)
  PROVE  AuthIInv'
<1> DEFINE n == issuedNonces + 1
           c == [nonce |-> n, expiresAt |-> authClock + ChallengeTtl]
           issue == [key |-> k, at |-> authClock]
<1>1. AuthTyped /\ ChallengeTtl \in Nat /\ MaxNonces \in Nat /\ JWT_EXPIRY_SECONDS \in Nat
  BY AuthConstants DEF AuthIInv
<1>2. /\ issuedNonces < MaxNonces /\ issuedNonces' = n
      /\ challenges' = [challenges EXCEPT ![k] = c]
      /\ issuedAt' = [issuedAt EXCEPT ![n] = issue]
      /\ UNCHANGED <<tokens, jwtSecret, authClock, admitted>>
  BY DEF IssueChallenge
<1>3. n \in Nonces /\ n \in 1..n /\ n \notin 1..issuedNonces /\ 1..issuedNonces \subseteq 1..n
      /\ 1..issuedNonces \subseteq Nonces
  BY <1>1, <1>2 DEF Nonces, AuthTyped
<1>4. c \in [nonce : Nat, expiresAt : Nat] /\ issue \in [key : AuthKeys, at : Nat]
  BY <1>1 DEF AuthTyped
<1>5. c.nonce = n /\ c.expiresAt = issue.at + ChallengeTtl /\ issue.key = k
  OBVIOUS
<1>6. n \in 0..MaxNonces
  BY <1>1, <1>2 DEF AuthTyped
<1> HIDE DEF n, c, issue
<1>7. AuthTyped'
  BY <1>1, <1>2, <1>3, <1>4, <1>6 DEF AuthTyped
<1>8. /\ challenges'[k] = c /\ \A j \in AuthKeys \ {k} : challenges'[j] = challenges[j]
      /\ issuedAt'[n] = issue /\ \A m \in 1..issuedNonces : issuedAt'[m] = issuedAt[m]
  BY <1>1, <1>2, <1>3 DEF AuthTyped
<1>9. \A t \in tokens : t.nonce # n
  BY <1>3 DEF AuthIInv, AuthBought
<1>10. AuthPending'
  BY <1>2, <1>3, <1>5, <1>8, <1>9 DEF AuthIInv, AuthPending
<1>11. AuthBought'
  BY <1>2, <1>3, <1>8 DEF AuthIInv, AuthBought
<1>12. QED
  BY <1>2, <1>7, <1>10, <1>11 DEF AuthIInv, AuthOneTokenPerNonce, AuthEntered

(* Verifying one: the challenge is taken out, so its nonce buys no second token. *)
LEMMA VerifyChallengeKeeps ==
  ASSUME AuthIInv, AuthAssumption, NEW k \in AuthKeys, NEW source \in AuthKeys,
         NEW nonce \in Nonces, NEW signer \in AuthKeys, VerifyChallenge(k, source, nonce, signer)
  PROVE  AuthIInv'
<1> DEFINE t == SignJwt(k, nonce, signer)
<1>1. AuthTyped /\ ChallengeTtl \in Nat /\ MaxNonces \in Nat /\ JWT_EXPIRY_SECONDS \in Nat
  BY AuthConstants DEF AuthIInv
<1>2. /\ challenges[k] # NoChallenge /\ ~(challenges[k].expiresAt < authClock)
      /\ nonce = challenges[k].nonce /\ signer = k
      /\ challenges' = [challenges EXCEPT ![k] = NoChallenge]
      /\ tokens' = tokens \cup {t}
      /\ UNCHANGED <<issuedNonces, issuedAt, jwtSecret, authClock, admitted>>
  BY DEF VerifyChallenge, ChallengeLive
<1>3. /\ nonce \in 1..issuedNonces /\ issuedAt[nonce].key = k
      /\ challenges[k].expiresAt = issuedAt[nonce].at + ChallengeTtl
      /\ \A u \in tokens : u.nonce # nonce
  BY <1>2 DEF AuthIInv, AuthPending
<1>4. /\ t \in [sub : AuthKeys, nonce : Nonces, signer : AuthKeys, secret : 0..1, exp : Nat]
      /\ t.nonce = nonce /\ t.sub = k /\ t.signer = k /\ t.exp = authClock + JWT_EXPIRY_SECONDS
  BY <1>1, <1>2 DEF SignJwt, AuthTyped
<1>5. t.exp <= issuedAt[nonce].at + ChallengeTtl + JWT_EXPIRY_SECONDS
  <2>1. issuedAt[nonce].at \in Nat /\ authClock \in Nat
    BY <1>1 DEF AuthTyped
  <2>2. QED
    BY <1>1, <1>2, <1>3, <1>4, <2>1
<1> HIDE DEF t
<1>6. AuthTyped'
  BY <1>1, <1>2, <1>4 DEF AuthTyped, NoChallenge
<1>7. /\ challenges'[k] = NoChallenge
      /\ \A j \in AuthKeys \ {k} : challenges'[j] = challenges[j]
  BY <1>1, <1>2 DEF AuthTyped
<1>8. AuthPending'
  <2>1. SUFFICES ASSUME NEW j \in AuthKeys, challenges'[j] # NoChallenge
                 PROVE  /\ challenges[j].nonce \in 1..issuedNonces
                        /\ issuedAt[challenges[j].nonce].key = j
                        /\ challenges[j].expiresAt = issuedAt[challenges[j].nonce].at + ChallengeTtl
                        /\ \A u \in tokens' : u.nonce # challenges[j].nonce
    BY <1>2, <1>7 DEF AuthPending
  <2>2. j # k /\ challenges[j] # NoChallenge
    BY <1>7, <2>1
  <2>3. challenges[j].nonce # nonce
    BY <1>3, <2>2 DEF AuthIInv, AuthPending
  <2>4. QED
    BY <1>2, <1>4, <2>2, <2>3 DEF AuthIInv, AuthPending
<1>9. AuthBought'
  BY <1>2, <1>3, <1>4, <1>5 DEF AuthIInv, AuthBought
<1>10. AuthOneTokenPerNonce'
  BY <1>2, <1>3, <1>4 DEF AuthIInv, AuthOneTokenPerNonce
<1>11. AuthEntered'
  BY <1>2 DEF AuthIInv, AuthEntered
<1>12. QED
  BY <1>6, <1>8, <1>9, <1>10, <1>11 DEF AuthIInv

(* A sweep, and a restart, only take challenges away. *)
LEMMA ForgettingKeeps ==
  ASSUME AuthIInv, AuthAssumption, SweepExpiredChallenges \/ AuthRestart
  PROVE  AuthIInv'
<1>1. UNCHANGED <<issuedNonces, issuedAt, tokens, authClock, admitted>> /\ jwtSecret' \in 0..1
  BY DEF SweepExpiredChallenges, AuthRestart, AuthIInv, AuthTyped
<1>2. /\ challenges' \in [AuthKeys -> [nonce : Nat, expiresAt : Nat]]
      /\ \A k \in AuthKeys : challenges'[k] = NoChallenge \/ challenges'[k] = challenges[k]
  BY DEF SweepExpiredChallenges, AuthRestart, AuthIInv, AuthTyped, NoChallenge
<1>3. AuthTyped'
  BY <1>1, <1>2 DEF AuthIInv, AuthTyped
<1>4. AuthPending'
  BY <1>1, <1>2 DEF AuthIInv, AuthPending
<1>5. QED
  BY <1>1, <1>3, <1>4 DEF AuthIInv, AuthBought, AuthOneTokenPerNonce, AuthEntered

(* The three guards read the token and change nothing but who was admitted. *)
LEMMA GuardKeeps ==
  ASSUME AuthIInv, NEW token \in tokens \cup {NoToken},
         RequireAuth(token) \/ RequireAdmin(token) \/ OptionalAuth(token)
  PROVE  AuthIInv'
<1>1. UNCHANGED <<challenges, issuedNonces, issuedAt, tokens, jwtSecret, authClock>>
  BY DEF RequireAuth, RequireAdmin, OptionalAuth
<1>2. authClock \in Nat
  BY DEF AuthIInv, AuthTyped
<1>3. \A u \in tokens : u.exp \in Nat
  BY DEF AuthIInv, AuthTyped
<1>4. \/ admitted' = Refused
      \/ \E st \in {200, 403} : VerifyJwt(token) /\ admitted' = Entered(st, token)
      \/ admitted' = Entered(200, NoToken)
  BY DEF RequireAuth, RequireAdmin, OptionalAuth
<1>5. AuthEntered'
  <2>1. CASE admitted' = Refused
    BY <2>1 DEF AuthEntered, Refused
  <2>2. ASSUME NEW st \in {200, 403}, VerifyJwt(token), admitted' = Entered(st, token)
        PROVE  AuthEntered'
    <3>1. /\ admitted'.token = token /\ admitted'.at = authClock /\ admitted'.secret = jwtSecret
      BY <2>2 DEF Entered
    <3>2. token \in tokens /\ token.secret = jwtSecret /\ ~(token.exp < authClock)
      BY <2>2 DEF VerifyJwt
    <3>3. authClock <= token.exp
      BY <1>2, <1>3, <3>2
    <3>4. QED
      BY <1>1, <1>2, <3>1, <3>2, <3>3 DEF AuthEntered
  <2>3. CASE admitted' = Entered(200, NoToken)
    BY <2>3 DEF AuthEntered, Entered
  <2>4. QED
    BY <1>4, <2>1, <2>2, <2>3
<1>6. QED
  BY <1>1, <1>5 DEF AuthIInv, AuthTyped, AuthPending, AuthBought, AuthOneTokenPerNonce

(* Every step of the authentication keeps its invariant. *)
LEMMA AuthNextKeeps ==
  ASSUME AuthIInv, [AuthNext]_authVars, AuthAssumption
  PROVE  AuthIInv'
<1>1. CASE UNCHANGED <<challenges, issuedNonces, issuedAt, tokens, jwtSecret, admitted>>
           /\ authClock' \in Nat
  BY <1>1 DEF AuthIInv, AuthTyped, AuthPending, AuthBought, AuthOneTokenPerNonce, AuthEntered
<1>2. authClock \in Nat
  BY DEF AuthIInv, AuthTyped
<1>3. CASE AuthTick \/ UNCHANGED authVars
  BY <1>1, <1>2, <1>3 DEF AuthTick, authVars
<1>4. QED
  BY <1>3, IssueChallengeKeeps, VerifyChallengeKeeps, ForgettingKeeps, GuardKeeps DEF AuthNext

(* What a step does to a challenge that would still be accepted. *)
LEMMA LiveChallengesStay ==
  ASSUME AuthIInv, AuthNext, AuthAssumption
  PROVE  AuthLiveChallengesStay
<1>1. ASSUME NEW k \in AuthKeys, ChallengeLive(k), challenges'[k] # challenges[k]
      PROVE  \/ \E t \in tokens' : t.nonce = challenges[k].nonce
             \/ issuedNonces' > issuedNonces
             \/ AuthRestart
  <2>1. CASE challenges' = challenges
    BY <1>1, <2>1
  <2>2. ASSUME NEW j \in AuthKeys, IssueChallenge(j)
        PROVE  issuedNonces' > issuedNonces
    BY <2>2 DEF IssueChallenge, AuthIInv, AuthTyped
  <2>3. ASSUME NEW j \in AuthKeys, NEW source \in AuthKeys, NEW nonce \in Nonces,
               NEW signer \in AuthKeys, VerifyChallenge(j, source, nonce, signer)
        PROVE  \E t \in tokens' : t.nonce = challenges[k].nonce
    <3>1. challenges' = [challenges EXCEPT ![j] = NoChallenge] /\ nonce = challenges[j].nonce
      BY <2>3 DEF VerifyChallenge
    <3>2. k = j
      BY <1>1, <3>1 DEF AuthIInv, AuthTyped
    <3>3. SignJwt(j, nonce, signer) \in tokens' /\ SignJwt(j, nonce, signer).nonce = nonce
      BY <2>3 DEF VerifyChallenge, SignJwt
    <3>4. QED
      BY <3>1, <3>2, <3>3
  <2>4. CASE SweepExpiredChallenges
    BY <1>1, <2>4 DEF SweepExpiredChallenges, ChallengeLive
  <2>5. ASSUME NEW token \in tokens \cup {NoToken},
               RequireAuth(token) \/ RequireAdmin(token) \/ OptionalAuth(token)
        PROVE  challenges' = challenges
    BY <2>5 DEF RequireAuth, RequireAdmin, OptionalAuth
  <2>6. CASE AuthTick
    BY <2>1, <2>6 DEF AuthTick
  <2>7. QED
    BY <2>1, <2>2, <2>3, <2>4, <2>5, <2>6 DEF AuthNext
<1>2. QED
  BY <1>1 DEF AuthLiveChallengesStay

(* The invariant says that whoever was admitted had signed for it. *)
LEMMA SessionsAreSigned ==
  ASSUME AuthIInv, AuthAssumption
  PROVE  AuthSessionsAreSigned
<1>1. SUFFICES ASSUME admitted.status = 200, admitted.token # NoToken
               PROVE  LET t == admitted.token IN
                      /\ t.signer = t.sub /\ issuedAt[t.nonce].key = t.sub
                      /\ admitted.at - issuedAt[t.nonce].at <= ChallengeTtl + JWT_EXPIRY_SECONDS
                      /\ t.secret = admitted.secret
  BY DEF AuthSessionsAreSigned
<1> DEFINE t == admitted.token
<1>2. /\ t \in tokens /\ admitted.at \in Nat /\ admitted.at <= t.exp
      /\ t.secret = admitted.secret
  BY <1>1 DEF AuthIInv, AuthEntered
<1>3. /\ t.signer = t.sub /\ issuedAt[t.nonce].key = t.sub
      /\ t.exp <= issuedAt[t.nonce].at + ChallengeTtl + JWT_EXPIRY_SECONDS
  BY <1>2 DEF AuthIInv, AuthBought
<1>4. t.exp \in Nat /\ t.nonce \in Nonces /\ issuedAt[t.nonce].at \in Nat
  BY <1>2 DEF AuthIInv, AuthTyped
<1>5. QED
  BY <1>2, <1>3, <1>4, AuthConstants

(* For any number of keys, of challenges and of sessions: one nonce buys at most
   one token; whoever a guard lets through signed a nonce issued to it, recently
   enough; and a challenge that would still be accepted is not swept away
   (verifyChallenge, requireAuth and the sweep of middleware/auth.ts). *)
THEOREM AuthIsSound == AuthSpec => AuthSound
<1>1. AuthIInv => AuthSessionsAreSigned /\ AuthOneTokenPerNonce
  BY SessionsAreSigned, AuthAssumption DEF AuthIInv
<1>2. AuthIInv /\ [AuthNext]_authVars => AuthIInv'
  BY AuthNextKeeps, AuthAssumption
<1>3. AuthIInv /\ [AuthNext]_authVars =>
        [AuthLiveChallengesStay]_authVars
  BY LiveChallengesStay, AuthAssumption
<1>4. AuthInit => AuthIInv
  BY AuthInitInv, AuthAssumption
<1>5. QED
  BY <1>1, <1>2, <1>3, <1>4, PTL DEF AuthSpec, AuthSound

-----------------------------------------------------------------------------
(* The SSE service. *)
ClientsAt(i) == {c \in clients : IpOf[c] = i}
ClientsOf(u) == {c \in clients : UserOf[c] = u}

SseTyped ==
  /\ request \in [Conns -> {"idle", "querying", "streaming", "refused"}]
  /\ clients \subseteq Conns /\ IsFiniteSet(clients)
  /\ backlog \in [Conns -> 0..2]
  /\ ipConnectionCounts \in [Ips -> Nat]
  /\ userConnectionCounts \in [Users -> Nat]

(* Only a request that went through addClient has a client, and only a client
   has a backlog. *)
SseRegistered ==
  /\ \A c \in clients : request[c] = "streaming"
  /\ \A c \in Conns \ clients : backlog[c] = 0

(* As long as no two requests were between check and registration at once, the
   one that is there still has its place. *)
SsePlaceKept ==
  ~overlapped =>
    /\ \A c, d \in Querying : c = d
    /\ \A c \in Querying : CheckCapacity(c)

(* After the shutdown began nobody new passes the test. *)
SseLate == shuttingDown => Querying \subseteq lateJoiners

SseIInv == SseTyped /\ SseRegistered /\ SsePlaceKept /\ SseLate /\ SseSound

(* What the proofs use of the assumption on the constants. *)
LEMMA SseConstants ==
  ASSUME SseAssumption
  PROVE  /\ \A c \in Conns : IpOf[c] \in Ips /\ UserOf[c] \in Users
         /\ MaxConnections \in Nat /\ MaxPerIp \in Nat /\ MaxPerUser \in Nat
  BY DEF SseAssumption

(* Taking members away from a finite set takes as many off its size. *)
LEMMA MonusCounts ==
  ASSUME NEW S, IsFiniteSet(S), NEW G \in SUBSET S
  PROVE  /\ Monus(Cardinality(S), Cardinality(G)) = Cardinality(S \ G)
         /\ IsFiniteSet(S \ G) /\ Cardinality(S \ G) \in Nat
         /\ Cardinality(S \ G) <= Cardinality(S)
<1>1. IsFiniteSet(G) /\ IsFiniteSet(S \ G)
  BY FS_Subset
<1>2. Cardinality(S) \in Nat /\ Cardinality(G) \in Nat /\ Cardinality(S \ G) \in Nat
  BY <1>1, FS_CardinalityType
<1>3. Cardinality(S \ G) = Cardinality(S) - Cardinality(S \cap G)
  BY FS_Difference
<1>4. S \cap G = G
  OBVIOUS
<1>5. Cardinality(S \ G) = Cardinality(S) - Cardinality(G)
  BY <1>3, <1>4
<1> DEFINE a == Cardinality(S)
           b == Cardinality(G)
           x == Cardinality(S \ G)
<1>6. a \in Nat /\ b \in Nat /\ x \in Nat /\ x = a - b
  BY <1>2, <1>5
<1> HIDE DEF a, b, x
<1>7. Monus(a, b) = x /\ x <= a
  BY <1>6 DEF Monus
<1>8. QED
  BY <1>1, <1>2, <1>7 DEF a, b, x

(* The invariant holds when the process starts. *)
LEMMA SseInitInv ==
  ASSUME SseInit, SseAssumption
  PROVE  SseIInv
<1>1. IsFiniteSet({}) /\ Cardinality({}) = 0
  BY FS_EmptySet
<1>2. \A i \in Ips : ClientsAt(i) = {}
  BY DEF SseInit, ClientsAt
<1>3. \A u \in Users : ClientsOf(u) = {}
  BY DEF SseInit, ClientsOf
<1>4. Querying = {}
  BY DEF SseInit, Querying
<1>5. SseTyped
  BY <1>1 DEF SseInit, SseTyped
<1>6. SseCountsMatch
  BY <1>1, <1>2, <1>3 DEF SseInit, SseCountsMatch, ClientsAt, ClientsOf
<1>7. SseCapsHold
  BY <1>1, SseConstants DEF SseInit, SseCapsHold
<1>8. SseBacklogBounded /\ SseReconnectsAll /\ SseRegistered
  BY DEF SseInit, SseBacklogBounded, SseReconnectsAll, SseRegistered
<1>9. SsePlaceKept /\ SseLate
  BY <1>4 DEF SsePlaceKept, SseLate
<1>10. QED
  BY <1>5, <1>6, <1>7, <1>8, <1>9 DEF SseIInv, SseSound

(* Whoever removes clients, and whatever the others' buffers become: the counts
   follow the map, no place is lost, and nobody over the limit stays. *)
LEMMA RemoveKeeps ==
  ASSUME SseIInv, SseAssumption, NEW S, NEW wait, NEW length \in [Conns -> 0..2],
         RemoveClients(S, wait, length),
         UNCHANGED <<request, shuttingDown, reconnected, overlapped, lateJoiners>>,
         \A c \in Conns \ clients : length[c] = 0,
         \A c \in clients \ S : length[c] = 2 => shuttingDown /\ c \in reconnected
  PROVE  SseIInv'
<1> DEFINE gone == S \cap clients
           atIp(i) == {c \in gone : IpOf[c] = i}
           ofUser(u) == {c \in gone : UserOf[c] = u}
<1>1. /\ clients' = clients \ gone
      /\ backlog' = [c \in Conns |-> IF c \in gone THEN 0 ELSE length[c]]
      /\ ipConnectionCounts' = [i \in Ips |-> Monus(ipConnectionCounts[i], Cardinality(atIp(i)))]
      /\ userConnectionCounts' = [u \in Users |-> Monus(userConnectionCounts[u], Cardinality(ofUser(u)))]
  BY DEF RemoveClients
<1>2. SseTyped /\ SseRegistered /\ SseSound
  BY DEF SseIInv
<1>3. IsFiniteSet(clients) /\ clients \subseteq Conns
  BY <1>2 DEF SseTyped
<1>4. ASSUME NEW i \in Ips
      PROVE  /\ ipConnectionCounts'[i] = Cardinality(ClientsAt(i)')
             /\ ipConnectionCounts'[i] \in Nat
             /\ ipConnectionCounts'[i] <= ipConnectionCounts[i]
  <2>1. IsFiniteSet(ClientsAt(i)) /\ atIp(i) \in SUBSET ClientsAt(i)
    BY <1>3, FS_Subset DEF ClientsAt
  <2>2. ClientsAt(i)' = ClientsAt(i) \ atIp(i)
    BY <1>1 DEF ClientsAt
  <2>3. ipConnectionCounts[i] = Cardinality(ClientsAt(i))
    BY <1>2 DEF SseSound, SseCountsMatch, ClientsAt
  <2>4. ipConnectionCounts'[i] = Monus(ipConnectionCounts[i], Cardinality(atIp(i)))
    BY <1>1
  <2> HIDE DEF atIp
  <2>5. /\ Monus(Cardinality(ClientsAt(i)), Cardinality(atIp(i))) = Cardinality(ClientsAt(i) \ atIp(i))
        /\ Cardinality(ClientsAt(i) \ atIp(i)) \in Nat
        /\ Cardinality(ClientsAt(i) \ atIp(i)) <= Cardinality(ClientsAt(i))
    BY <2>1, MonusCounts
  <2>6. QED
    BY <2>2, <2>3, <2>4, <2>5
<1>5. ASSUME NEW u \in Users
      PROVE  /\ userConnectionCounts'[u] = Cardinality(ClientsOf(u)')
             /\ userConnectionCounts'[u] \in Nat
             /\ userConnectionCounts'[u] <= userConnectionCounts[u]
  <2>1. IsFiniteSet(ClientsOf(u)) /\ ofUser(u) \in SUBSET ClientsOf(u)
    BY <1>3, FS_Subset DEF ClientsOf
  <2>2. ClientsOf(u)' = ClientsOf(u) \ ofUser(u)
    BY <1>1 DEF ClientsOf
  <2>3. userConnectionCounts[u] = Cardinality(ClientsOf(u))
    BY <1>2 DEF SseSound, SseCountsMatch, ClientsOf
  <2>4. userConnectionCounts'[u] = Monus(userConnectionCounts[u], Cardinality(ofUser(u)))
    BY <1>1
  <2> HIDE DEF ofUser
  <2>5. /\ Monus(Cardinality(ClientsOf(u)), Cardinality(ofUser(u))) = Cardinality(ClientsOf(u) \ ofUser(u))
        /\ Cardinality(ClientsOf(u) \ ofUser(u)) \in Nat
        /\ Cardinality(ClientsOf(u) \ ofUser(u)) <= Cardinality(ClientsOf(u))
    BY <2>1, MonusCounts
  <2>6. QED
    BY <2>2, <2>3, <2>4, <2>5
<1>6. /\ IsFiniteSet(clients') /\ Cardinality(clients') \in Nat /\ Cardinality(clients) \in Nat
      /\ Cardinality(clients') <= Cardinality(clients)
  <2>1. gone \in SUBSET clients
    OBVIOUS
  <2> HIDE DEF gone
  <2>2. QED
    BY <1>1, <1>3, <2>1, MonusCounts, FS_CardinalityType
<1>7. /\ ipConnectionCounts' = [i \in Ips |-> ipConnectionCounts'[i]]
      /\ userConnectionCounts' = [u \in Users |-> userConnectionCounts'[u]]
  BY <1>1
<1>8. ipConnectionCounts' \in [Ips -> Nat] /\ userConnectionCounts' \in [Users -> Nat]
  BY <1>4, <1>5, <1>7
<1>9. backlog' \in [Conns -> 0..2]
  BY <1>1
<1>10. SseTyped'
  BY <1>1, <1>2, <1>6, <1>8, <1>9 DEF SseTyped
<1>11. SseRegistered'
  BY <1>1, <1>2, <1>3 DEF SseRegistered
<1>12. \A c \in Conns : CheckCapacity(c) => CheckCapacity(c)'
  <2>1. SUFFICES ASSUME NEW c \in Conns, CheckCapacity(c)
                 PROVE  CheckCapacity(c)'
    OBVIOUS
  <2>2. IpOf[c] \in Ips /\ UserOf[c] \in Users
    BY SseConstants
  <2>3. /\ ipConnectionCounts'[IpOf[c]] \in Nat /\ ipConnectionCounts'[IpOf[c]] <= ipConnectionCounts[IpOf[c]]
        /\ userConnectionCounts'[UserOf[c]] \in Nat /\ userConnectionCounts'[UserOf[c]] <= userConnectionCounts[UserOf[c]]
    BY <1>4, <1>5, <2>2
  <2>4. ipConnectionCounts[IpOf[c]] \in Nat /\ userConnectionCounts[UserOf[c]] \in Nat
    BY <1>2, <2>2 DEF SseTyped
  <2>5. QED
    BY <1>6, <2>1, <2>3, <2>4, SseConstants DEF CheckCapacity
<1>13. SsePlaceKept' /\ SseLate'
  <2>1. Querying' = Querying /\ Querying \subseteq Conns
    BY DEF Querying
  <2>2. QED
    BY <1>12, <2>1 DEF SseIInv, SsePlaceKept, SseLate
<1>14. SseCountsMatch'
  BY <1>4, <1>5 DEF SseCountsMatch, ClientsAt, ClientsOf
<1>15. SseCapsHold'
  <2>1. SUFFICES ASSUME ~overlapped
                 PROVE  SseCapsHold'
    BY DEF SseCapsHold
  <2>2. /\ Cardinality(clients) <= MaxConnections
        /\ \A i \in Ips : ipConnectionCounts[i] <= MaxPerIp
        /\ \A u \in Users : userConnectionCounts[u] <= MaxPerUser
    BY <1>2, <2>1 DEF SseSound, SseCapsHold
  <2>3. Cardinality(clients') <= MaxConnections
    BY <1>6, <2>2, SseConstants
  <2>4. \A i \in Ips : ipConnectionCounts'[i] <= MaxPerIp
    BY <1>2, <1>4, <2>2, SseConstants DEF SseTyped
  <2>5. \A u \in Users : userConnectionCounts'[u] <= MaxPerUser
    BY <1>2, <1>5, <2>2, SseConstants DEF SseTyped
  <2>6. QED
    BY <2>3, <2>4, <2>5 DEF SseCapsHold
<1>16. SseBacklogBounded'
  BY <1>1, <1>3 DEF SseBacklogBounded
<1>17. SseReconnectsAll'
  BY <1>1, <1>2 DEF SseSound, SseReconnectsAll
<1>18. QED
  BY <1>10, <1>11, <1>13, <1>14, <1>15, <1>16, <1>17 DEF SseIInv, SseSound

(* A write to a set of clients removes the slow and the broken ones. *)
LEMMA WriteToKeeps ==
  ASSUME SseIInv, SseAssumption, NEW targets \in SUBSET clients, WriteTo(targets),
         UNCHANGED <<request, shuttingDown, reconnected, overlapped, lateJoiners>>
  PROVE  SseIInv'
<1>1. PICK length \in [targets -> 0..2], throws \in SUBSET targets :
        RemoveClients({c \in targets : length[c] = 2 \/ c \in throws},
                      [c \in Conns |-> paused[c] \/ (c \in targets /\ (length[c] > 0 \/ socket[c] = "closed"))],
                      [c \in Conns |-> IF c \in targets THEN length[c] ELSE backlog[c]])
  BY Zenon DEF WriteTo
<1> DEFINE after == [c \in Conns |-> IF c \in targets THEN length[c] ELSE backlog[c]]
           S == {c \in targets : length[c] = 2 \/ c \in throws}
           wait == [c \in Conns |-> paused[c] \/ (c \in targets /\ (length[c] > 0 \/ socket[c] = "closed"))]
<1>2. SseTyped /\ SseRegistered /\ SseBacklogBounded
  BY DEF SseIInv, SseSound
<1>3. after \in [Conns -> 0..2]
  BY <1>2 DEF SseTyped
<1>4. \A c \in Conns \ clients : after[c] = 0
  BY <1>2 DEF SseRegistered
<1>5. \A c \in clients \ S : after[c] = 2 => shuttingDown /\ c \in reconnected
  BY <1>2 DEF SseBacklogBounded, SseTyped
<1>6. RemoveClients(S, wait, after)
  BY <1>1
<1> HIDE DEF after, S, wait
<1>7. QED
  BY <1>3, <1>4, <1>5, <1>6, RemoveKeeps

(* A request that passed the caps waits for its query and holds no place yet. *)
LEMMA SubscribeKeeps ==
  ASSUME SseIInv, SseAssumption, NEW c \in Conns, Subscribe(c)
  PROVE  SseIInv'
<1>1. /\ request[c] = "idle"
      /\ UNCHANGED <<clients, backlog, ipConnectionCounts, userConnectionCounts, shuttingDown,
                     reconnected, lateJoiners>>
  BY DEF Subscribe
<1>2. SseTyped /\ SseRegistered
  BY DEF SseIInv
<1>3. \/ /\ ~shuttingDown /\ CheckCapacity(c)
         /\ request' = [request EXCEPT ![c] = "querying"]
         /\ overlapped' = (overlapped \/ Querying # {})
      \/ /\ request' = [request EXCEPT ![c] = "refused"]
         /\ overlapped' = (overlapped \/ FALSE)
  <2>1. PICK parses \in BOOLEAN :
          LET ok == ~shuttingDown /\ CheckCapacity(c) /\ parses IN
          /\ request' = [request EXCEPT ![c] = IF ok THEN "querying" ELSE "refused"]
          /\ overlapped' = (overlapped \/ (ok /\ Querying # {}))
    BY Zenon DEF Subscribe
  <2>2. CASE ~shuttingDown /\ CheckCapacity(c) /\ parses
    BY <2>1, <2>2
  <2>3. CASE ~(~shuttingDown /\ CheckCapacity(c) /\ parses)
    BY <2>1, <2>3
  <2>4. QED
    BY <2>2, <2>3
<1>4. c \notin clients
  BY <1>1, <1>2 DEF SseRegistered
<1>5. SseTyped' /\ SseRegistered'
  BY <1>1, <1>2, <1>3, <1>4 DEF SseTyped, SseRegistered
<1>6. \A d \in Conns : CheckCapacity(d)' <=> CheckCapacity(d)
  BY <1>1 DEF CheckCapacity
<1>7. SsePlaceKept' /\ SseLate'
  <2>1. CASE /\ ~shuttingDown /\ CheckCapacity(c)
             /\ request' = [request EXCEPT ![c] = "querying"]
             /\ overlapped' = (overlapped \/ Querying # {})
    <3>1. SseLate'
      BY <1>1, <2>1 DEF SseLate
    <3>2. SUFFICES ASSUME ~overlapped'
                   PROVE  SsePlaceKept'
      BY <3>1 DEF SsePlaceKept
    <3>3. Querying = {}
      BY <2>1, <3>2
    <3>4. Querying' = {c}
      BY <1>2, <2>1, <3>3 DEF Querying, SseTyped
    <3>5. QED
      BY <1>6, <2>1, <3>4 DEF SsePlaceKept
  <2>2. CASE /\ request' = [request EXCEPT ![c] = "refused"]
             /\ overlapped' = (overlapped \/ FALSE)
    <3>1. Querying' = Querying /\ Querying \subseteq Conns
      BY <1>1, <1>2, <2>2 DEF Querying, SseTyped
    <3>2. QED
      BY <1>1, <1>6, <2>2, <3>1 DEF SseIInv, SsePlaceKept, SseLate
  <2>3. QED
    BY <1>3, <2>1, <2>2
<1>8. SseSound'
  BY <1>1, <1>3
  DEF SseIInv, SseSound, SseCountsMatch, SseCapsHold, SseBacklogBounded, SseReconnectsAll
<1>9. QED
  BY <1>5, <1>7, <1>8 DEF SseIInv

(* A request whose query fails leaves without a trace. *)
LEMMA QueryFailsKeeps ==
  ASSUME SseIInv, NEW c \in Conns, QueryFails(c)
  PROVE  SseIInv'
<1>1. /\ request[c] = "querying" /\ request' = [request EXCEPT ![c] = "refused"]
      /\ UNCHANGED <<clients, backlog, ipConnectionCounts, userConnectionCounts, shuttingDown,
                     reconnected, overlapped, lateJoiners>>
  BY DEF QueryFails
<1>2. SseTyped /\ SseRegistered
  BY DEF SseIInv
<1>3. SseTyped' /\ SseRegistered'
  BY <1>1, <1>2 DEF SseTyped, SseRegistered
<1>4. Querying' \subseteq Querying /\ Querying \subseteq Conns
  BY <1>1, <1>2 DEF Querying, SseTyped
<1>5. \A d \in Conns : CheckCapacity(d)' <=> CheckCapacity(d)
  BY <1>1 DEF CheckCapacity
<1>6. SsePlaceKept' /\ SseLate'
  BY <1>1, <1>4, <1>5 DEF SseIInv, SsePlaceKept, SseLate
<1>7. QED
  BY <1>1, <1>3, <1>6
  DEF SseIInv, SseSound, SseCountsMatch, SseCapsHold, SseBacklogBounded, SseReconnectsAll

(* A registration adds one to the map and to both of its counts. *)
LEMMA AddClientKeeps ==
  ASSUME SseIInv, SseAssumption, NEW c \in Conns, NEW streams, NEW users, AddClient(c, streams, users)
  PROVE  SseIInv'
<1> DEFINE ip == IpOf[c]
           user == UserOf[c]
<1>1. /\ request[c] = "querying" /\ request' = [request EXCEPT ![c] = "streaming"]
      /\ clients' = clients \cup {c}
      /\ ipConnectionCounts' = [ipConnectionCounts EXCEPT ![ip] = @ + 1]
      /\ userConnectionCounts' = [userConnectionCounts EXCEPT ![user] = @ + 1]
      /\ UNCHANGED <<backlog, shuttingDown, reconnected, overlapped, lateJoiners>>
  BY DEF AddClient
<1>2. SseTyped /\ SseRegistered /\ SseSound
  BY DEF SseIInv
<1>3. ip \in Ips /\ user \in Users
  BY SseConstants
<1>4. c \notin clients /\ IsFiniteSet(clients) /\ clients \subseteq Conns
  BY <1>1, <1>2 DEF SseRegistered, SseTyped
<1>5. /\ IsFiniteSet(clients') /\ Cardinality(clients') = Cardinality(clients) + 1
      /\ Cardinality(clients) \in Nat
  BY <1>1, <1>4, FS_AddElement, FS_CardinalityType
<1>6. ASSUME NEW i \in Ips
      PROVE  ipConnectionCounts'[i] = Cardinality(ClientsAt(i)')
  <2>1. ipConnectionCounts[i] = Cardinality(ClientsAt(i)) /\ IsFiniteSet(ClientsAt(i))
    BY <1>2, <1>4, FS_Subset DEF SseSound, SseCountsMatch, ClientsAt
  <2>2. CASE i = ip
    <3>1. ClientsAt(i)' = ClientsAt(i) \cup {c} /\ c \notin ClientsAt(i)
      BY <1>1, <1>4, <2>2 DEF ClientsAt
    <3>2. Cardinality(ClientsAt(i)') = Cardinality(ClientsAt(i)) + 1
      BY <2>1, <3>1, FS_AddElement
    <3>3. ipConnectionCounts'[i] = ipConnectionCounts[i] + 1
      BY <1>1, <1>2, <1>3, <2>2 DEF SseTyped
    <3>4. QED
      BY <2>1, <3>2, <3>3
  <2>3. CASE i # ip
    <3>1. ClientsAt(i)' = ClientsAt(i)
      BY <1>1, <2>3 DEF ClientsAt
    <3>2. ipConnectionCounts'[i] = ipConnectionCounts[i]
      BY <1>1, <1>2, <2>3 DEF SseTyped
    <3>3. QED
      BY <2>1, <3>1, <3>2
  <2>4. QED
    BY <2>2, <2>3
<1>7. ASSUME NEW u \in Users
      PROVE  userConnectionCounts'[u] = Cardinality(ClientsOf(u)')
  <2>1. userConnectionCounts[u] = Cardinality(ClientsOf(u)) /\ IsFiniteSet(ClientsOf(u))
    BY <1>2, <1>4, FS_Subset DEF SseSound, SseCountsMatch, ClientsOf
  <2>2. CASE u = user
    <3>1. ClientsOf(u)' = ClientsOf(u) \cup {c} /\ c \notin ClientsOf(u)
      BY <1>1, <1>4, <2>2 DEF ClientsOf
    <3>2. Cardinality(ClientsOf(u)') = Cardinality(ClientsOf(u)) + 1
      BY <2>1, <3>1, FS_AddElement
    <3>3. userConnectionCounts'[u] = userConnectionCounts[u] + 1
      BY <1>1, <1>2, <1>3, <2>2 DEF SseTyped
    <3>4. QED
      BY <2>1, <3>2, <3>3
  <2>3. CASE u # user
    <3>1. ClientsOf(u)' = ClientsOf(u)
      BY <1>1, <2>3 DEF ClientsOf
    <3>2. userConnectionCounts'[u] = userConnectionCounts[u]
      BY <1>1, <1>2, <2>3 DEF SseTyped
    <3>3. QED
      BY <2>1, <3>1, <3>2
  <2>4. QED
    BY <2>2, <2>3
<1> HIDE DEF ip, user
<1>8. SseTyped'
  BY <1>1, <1>2, <1>3, <1>5 DEF SseTyped
<1>9. SseRegistered'
  BY <1>1, <1>2, <1>4 DEF SseRegistered, SseTyped
<1>10. Querying' = Querying \ {c} /\ c \in Querying
  BY <1>1, <1>2 DEF Querying, SseTyped
<1>11. ~overlapped => Querying' = {} /\ CheckCapacity(c)
  BY <1>10 DEF SseIInv, SsePlaceKept
<1>12. SsePlaceKept' /\ SseLate'
  BY <1>1, <1>10, <1>11 DEF SseIInv, SsePlaceKept, SseLate
<1>13. SseCountsMatch'
  BY <1>6, <1>7 DEF SseCountsMatch, ClientsAt, ClientsOf
<1>14. SseCapsHold'
  <2>1. SUFFICES ASSUME ~overlapped
                 PROVE  SseCapsHold'
    BY <1>1 DEF SseCapsHold
  <2>2. /\ Cardinality(clients) < MaxConnections
        /\ ipConnectionCounts[ip] < MaxPerIp /\ userConnectionCounts[user] < MaxPerUser
    BY <1>11, <2>1 DEF CheckCapacity, ip, user
  <2>3. /\ \A i \in Ips : ipConnectionCounts[i] <= MaxPerIp
        /\ \A u \in Users : userConnectionCounts[u] <= MaxPerUser
    BY <1>2, <2>1 DEF SseSound, SseCapsHold
  <2>4. Cardinality(clients') <= MaxConnections
    BY <1>5, <2>2, SseConstants
  <2>5. \A i \in Ips : ipConnectionCounts'[i] <= MaxPerIp
    BY <1>1, <1>2, <1>3, <2>2, <2>3, SseConstants DEF SseTyped
  <2>6. \A u \in Users : userConnectionCounts'[u] <= MaxPerUser
    BY <1>1, <1>2, <1>3, <2>2, <2>3, SseConstants DEF SseTyped
  <2>7. QED
    BY <2>4, <2>5, <2>6 DEF SseCapsHold
<1>15. SseBacklogBounded'
  BY <1>1, <1>2, <1>4 DEF SseSound, SseBacklogBounded, SseRegistered
<1>16. SseReconnectsAll'
  BY <1>1, <1>2, <1>10 DEF SseIInv, SseSound, SseReconnectsAll, SseLate
<1>17. QED
  BY <1>8, <1>9, <1>12, <1>13, <1>14, <1>15, <1>16 DEF SseIInv, SseSound

(* A connection that closes takes its place and its counts along. *)
LEMMA CloseClientKeeps ==
  ASSUME SseIInv, SseAssumption, NEW c \in Conns, Close(c)
  PROVE  SseIInv'
<1>1. /\ RemoveClients({c}, paused, backlog)
      /\ UNCHANGED <<request, shuttingDown, reconnected, overlapped, lateJoiners>>
  BY DEF Close
<1>2. /\ backlog \in [Conns -> 0..2]
      /\ \A d \in Conns \ clients : backlog[d] = 0
      /\ \A d \in clients \ {c} : backlog[d] = 2 => shuttingDown /\ d \in reconnected
  BY DEF SseIInv, SseTyped, SseRegistered, SseSound, SseBacklogBounded
<1>3. QED
  BY <1>1, <1>2, RemoveKeeps

(* Draining, publishing and the reconnect event leave the map and its counts
   alone; the reconnect event is the one write that may exceed the limit. *)
LEMMA UncountedKeeps ==
  ASSUME SseIInv, SseAssumption,
         \/ \E c \in Conns : Drain(c)
         \/ SendReconnectToAll
         \/ UNCHANGED <<request, clients, backlog, ipConnectionCounts, userConnectionCounts,
                        shuttingDown, reconnected, overlapped, lateJoiners>>
  PROVE  SseIInv'
<1>1. UNCHANGED <<request, clients, ipConnectionCounts, userConnectionCounts, overlapped>>
  BY DEF Drain, SendReconnectToAll
<1>2. Querying' = Querying /\ \A d \in Conns : CheckCapacity(d)' <=> CheckCapacity(d)
  BY <1>1 DEF Querying, CheckCapacity
<1>3. SsePlaceKept'
  BY <1>1, <1>2 DEF SseIInv, SsePlaceKept, Querying
<1>4. SseCountsMatch' /\ SseCapsHold'
  BY <1>1 DEF SseIInv, SseSound, SseCountsMatch, SseCapsHold
<1>5. /\ SseTyped' /\ SseRegistered' /\ SseLate' /\ SseBacklogBounded' /\ SseReconnectsAll'
  <2>1. ASSUME NEW c \in Conns, Drain(c)
        PROVE  /\ SseTyped' /\ SseRegistered' /\ SseLate' /\ SseBacklogBounded' /\ SseReconnectsAll'
    BY <1>1, <1>2, <2>1
    DEF Drain, SseIInv, SseTyped, SseRegistered, SseLate, SseSound, SseBacklogBounded, SseReconnectsAll
  <2>2. CASE SendReconnectToAll
    <3>1. /\ shuttingDown' = TRUE /\ reconnected' = reconnected \cup clients /\ lateJoiners' = Querying
          /\ backlog' \in [Conns -> 0..2]
          /\ \A c \in Conns \ clients : backlog'[c] = backlog[c]
      BY <2>2 DEF SendReconnectToAll
    <3>2. QED
      BY <1>1, <1>2, <3>1
      DEF SseIInv, SseTyped, SseRegistered, SseLate, SseBacklogBounded, SseReconnectsAll
  <2>3. CASE UNCHANGED <<request, clients, backlog, ipConnectionCounts, userConnectionCounts,
                         shuttingDown, reconnected, overlapped, lateJoiners>>
    BY <1>2, <2>3
    DEF SseIInv, SseTyped, SseRegistered, SseLate, SseSound, SseBacklogBounded, SseReconnectsAll
  <2>4. QED
    BY <2>1, <2>2, <2>3
<1>6. QED
  BY <1>3, <1>4, <1>5 DEF SseIInv, SseSound

(* Every step of the SSE service keeps its invariant. *)
LEMMA SseNextKeeps ==
  ASSUME SseIInv, [SseNext]_sseVars, SseAssumption
  PROVE  SseIInv'
<1>1. ASSUME NEW c \in Conns, NEW streams, NEW users,
             Subscribe(c) \/ QueryFails(c) \/ Drain(c) \/ Close(c) \/ AddClient(c, streams, users)
      PROVE  SseIInv'
  BY <1>1, SubscribeKeeps, QueryFailsKeeps, UncountedKeeps, CloseClientKeeps, AddClientKeeps
<1>2. ASSUME NEW topic \in Topics, Broadcast(topic) \/ OnPmessage(topic)
      PROVE  SseIInv'
  <2>1. UNCHANGED <<request, shuttingDown, reconnected, overlapped, lateJoiners>>
    BY <1>2 DEF Broadcast, OnPmessage
  <2>2. \/ WriteTo({c \in clients : topic \in subscriptions[c]})
        \/ UNCHANGED <<clients, backlog, ipConnectionCounts, userConnectionCounts>>
    BY <1>2 DEF Broadcast, OnPmessage, LocalBroadcast
  <2>3. {c \in clients : topic \in subscriptions[c]} \in SUBSET clients
    OBVIOUS
  <2>4. QED
    BY <2>1, <2>2, <2>3, WriteToKeeps, UncountedKeeps
<1>3. CASE SendHeartbeat
  <2>1. WriteTo(clients) /\ UNCHANGED <<request, shuttingDown, reconnected, overlapped, lateJoiners>>
    BY <1>3 DEF SendHeartbeat
  <2>2. QED
    BY <2>1, WriteToKeeps
<1>4. ASSUME (\E topic \in Topics : Publish(topic)) \/ UNCHANGED sseVars
      PROVE  SseIInv'
  <2>1. UNCHANGED <<request, clients, backlog, ipConnectionCounts, userConnectionCounts,
                    shuttingDown, reconnected, overlapped, lateJoiners>>
    BY <1>4 DEF Publish, sseVars
  <2>2. QED
    BY <2>1, UncountedKeeps
<1>5. QED
  BY <1>1, <1>2, <1>3, <1>4, UncountedKeeps DEF SseNext

(* For any connections, addresses, users and caps, in every order of
   subscribing, broadcasting, leaving and shutting down: the counts are those of
   the map, the caps hold unless two requests were between checkCapacity and
   addClient at once, no buffer over the limit stays, and a shutdown reaches
   every client it can know of (sse.service.ts and sse.controller.ts). *)
THEOREM SseIsSound == SseSpec => []SseSound
<1>1. SseIInv => SseSound
  BY DEF SseIInv
<1>2. QED
  BY <1>1, SseAssumption, SseInitInv, SseNextKeeps, PTL DEF SseSpec

-----------------------------------------------------------------------------
(* The stream endpoints.                                                   *)

ChainRecords ==
  [rate_per_second : {1}, deposited_amount : {StreamDeposit}, withdrawn_amount : 0..StreamDeposit,
   last_update_time : Nat, paused : BOOLEAN, paused_at : Int, is_active : BOOLEAN,
   schedule : {[kind |-> "Linear"]}]
ApiRows ==
  [ratePerSecond : {1}, depositedAmount : {StreamDeposit}, withdrawnAmount : Nat, lastUpdateTime : Nat,
   isActive : BOOLEAN, isPaused : BOOLEAN, pausedAt : Int, missing : {FALSE}]

(* What the contract pays out of a linear stream. *)
LEMMA ContractPays ==
  ASSUME NEW c \in ChainRecords, NEW t \in Nat, NEW u,
         u = IF ~c.paused THEN t ELSE IF c.paused_at # Contract!NONE THEN c.paused_at ELSE c.last_update_time
  PROVE  /\ u \in Int
         /\ Contract!calculate_claimable(c, t) \in Nat
         /\ Contract!calculate_claimable(c, t) <= StreamDeposit - c.withdrawn_amount
         /\ LET e == IF u >= c.last_update_time THEN u - c.last_update_time ELSE 0
                left == StreamDeposit - c.withdrawn_amount
            IN Contract!calculate_claimable(c, t) = IF e > ClaimI128Max \/ e > left THEN left ELSE e
<1>1. StreamDeposit \in Nat /\ ClaimI128Max \in Nat
  BY ApiAssumption, ClaimAssumption
<1>2. /\ c.rate_per_second = 1 /\ c.deposited_amount = StreamDeposit /\ c.withdrawn_amount \in 0..StreamDeposit
      /\ c.last_update_time \in Nat /\ c.paused_at \in Int /\ c.paused \in BOOLEAN
      /\ c.schedule.kind = "Linear"
  BY DEF ChainRecords
<1>3. u \in Int /\ Contract!effective_now(c, t) = u
  BY <1>2 DEF Contract!effective_now
<1>4. PICK left \in Nat : left = StreamDeposit - c.withdrawn_amount /\ Contract!remaining(c) = left
  BY <1>1, <1>2 DEF Contract!remaining, Contract!Greatest
<1>5. PICK e \in Nat : /\ e = IF u >= c.last_update_time THEN u - c.last_update_time ELSE 0
                       /\ Contract!SatSubTime(u, c.last_update_time) = e
  BY <1>2, <1>3 DEF Contract!SatSubTime, Contract!Greatest
<1>6. Contract!calculate_claimable(c, t) = Contract!dripped(e, 1, left)
  BY <1>2, <1>3, <1>4, <1>5 DEF Contract!calculate_claimable
<1>7. Contract!dripped(e, 1, left) = IF e > ClaimI128Max \/ e > left THEN left ELSE e
  BY <1>1 DEF Contract!dripped, Contract!Least
<1> QED
  BY <1>1, <1>3, <1>4, <1>5, <1>6, <1>7

(* The seconds that count of a row, and what the service makes of them. *)
LEMMA RowPromises ==
  ASSUME NEW r \in ApiRows, NEW t \in Nat
  PROVE  /\ elapsedAt(r, t) \in Nat
         /\ claimableAmount(r, t) \in Nat
         /\ ~r.isActive => claimableAmount(r, t) = 0
         /\ r.isActive =>
              LET left == IF r.withdrawnAmount <= StreamDeposit THEN StreamDeposit - r.withdrawnAmount ELSE 0
              IN claimableAmount(r, t) = IF elapsedAt(r, t) > left THEN left ELSE elapsedAt(r, t)
<1>1. StreamDeposit \in Nat /\ ClaimI128Max \in Nat /\ StreamDeposit <= ClaimI128Max
  BY ApiAssumption, ClaimAssumption
<1>2. /\ r.ratePerSecond = 1 /\ r.depositedAmount = StreamDeposit /\ r.withdrawnAmount \in Nat
      /\ r.lastUpdateTime \in Nat /\ r.pausedAt \in Int
  BY DEF ApiRows
<1>3. PICK e \in Nat : e = elapsedAt(r, t)
  <2>1. PICK s \in Nat : s = NonNegative(NonNegative(t) - NonNegative(r.lastUpdateTime))
    BY <1>2 DEF NonNegative
  <2>2. PICK p \in Nat : p = NonNegative(r.pausedAt)
    BY <1>2 DEF NonNegative
  <2>3. NonNegative(s - (NonNegative(t) - p)) \in Nat
    BY <2>1, <2>2 DEF NonNegative
  <2> QED
    BY <2>1, <2>2, <2>3 DEF elapsedAt
<1>4. PICK one \in 0..1 : one = clampI128(1) /\ (one = 0 => ClaimI128Max = 0)
  BY <1>1 DEF clampI128
<1>5. PICK w \in Nat : w = clampI128(r.withdrawnAmount) /\ (r.withdrawnAmount <= StreamDeposit => w = r.withdrawnAmount)
                       /\ (r.withdrawnAmount > StreamDeposit => w >= StreamDeposit) /\ w <= ClaimI128Max
  BY <1>1, <1>2 DEF clampI128
<1>6. clampI128(StreamDeposit) = StreamDeposit
  BY <1>1 DEF clampI128
<1>7. PICK rem \in Int : /\ rem = saturatingSubI128(clampI128(r.depositedAmount), clampI128(r.withdrawnAmount))
                         /\ rem = StreamDeposit - w
  BY <1>1, <1>2, <1>5, <1>6 DEF saturatingSubI128, clampI128
<1>8. PICK st \in Nat : st = e * one /\ (one = 1 => st = e) /\ (one = 0 => st = 0)
  BY <1>4
<1>9. claimableAmount(r, t) = IF r.isActive
                              THEN NonNegative(IF ~fitsI128(st) \/ st > rem THEN rem ELSE st) ELSE 0
  BY <1>2, <1>3, <1>4, <1>7, <1>8 DEF claimableAmount
<1>10. ~fitsI128(st) <=> st > ClaimI128Max
  BY <1>1 DEF fitsI128
<1>11. PICK left \in Nat : left = IF r.withdrawnAmount <= StreamDeposit THEN StreamDeposit - r.withdrawnAmount ELSE 0
  BY <1>1, <1>2
<1>12. NonNegative(IF ~fitsI128(st) \/ st > rem THEN rem ELSE st) = IF e > left THEN left ELSE e
  <2>1. rem = left \/ (left = 0 /\ rem <= 0)
    BY <1>1, <1>2, <1>5, <1>7, <1>11
  <2>2. left <= ClaimI128Max
    BY <1>1, <1>2, <1>11
  <2>3. CASE one = 1
    BY <2>1, <2>2, <2>3, <1>1, <1>8, <1>10 DEF NonNegative
  <2>4. CASE one = 0
    BY <2>1, <2>2, <2>4, <1>1, <1>4, <1>8, <1>10 DEF NonNegative
  <2> QED
    BY <2>3, <2>4
<1> QED
  BY <1>3, <1>9, <1>11, <1>12

(* A row that lags behind the chain: no less withdrawn, accruing from no       *)
(* earlier, paused when the chain is.                                        *)
RowLags(r, c) ==
  /\ r.withdrawnAmount >= c.withdrawn_amount
  /\ r.lastUpdateTime >= c.last_update_time
  /\ r.isPaused = c.paused
  /\ c.paused => r.pausedAt = c.paused_at /\ c.paused_at \in Nat

LEMMA RowGrows ==
  ASSUME NEW r \in ApiRows, NEW t \in Nat, NEW u \in Nat, t <= u
  PROVE  claimableAmount(r, t) <= claimableAmount(r, u)
<1>1. r.lastUpdateTime \in Nat /\ r.pausedAt \in Int /\ r.isActive \in BOOLEAN /\ r.withdrawnAmount \in Nat
  BY DEF ApiRows
<1>2. elapsedAt(r, t) <= elapsedAt(r, u)
  BY <1>1 DEF elapsedAt, NonNegative, NoPause
<1>3. elapsedAt(r, t) \in Nat /\ elapsedAt(r, u) \in Nat
  BY RowPromises
<1>4. PICK left \in Nat : left = IF r.withdrawnAmount <= StreamDeposit THEN StreamDeposit - r.withdrawnAmount ELSE 0
  BY <1>1, ApiAssumption
<1>5. CASE r.isActive
  <2>1. /\ claimableAmount(r, t) = IF elapsedAt(r, t) > left THEN left ELSE elapsedAt(r, t)
        /\ claimableAmount(r, u) = IF elapsedAt(r, u) > left THEN left ELSE elapsedAt(r, u)
    BY <1>4, <1>5, RowPromises
  <2> QED
    BY <2>1, <1>2, <1>3
<1>6. CASE ~r.isActive
  BY <1>6, RowPromises
<1> QED
  BY <1>1, <1>5, <1>6

LEMMA LaggingRowPromisesLess ==
  ASSUME NEW r \in ApiRows, NEW c \in ChainRecords, RowLags(r, c), NEW t \in Nat
  PROVE  claimableAmount(r, t) <= Contract!calculate_claimable(c, t)
<1>1. r.lastUpdateTime \in Nat /\ r.isActive \in BOOLEAN /\ r.withdrawnAmount \in Nat /\ r.isPaused \in BOOLEAN
  BY DEF ApiRows
<1>2. c.last_update_time \in Nat /\ c.withdrawn_amount \in 0..StreamDeposit /\ c.paused \in BOOLEAN /\ c.paused_at \in Int
  BY DEF ChainRecords
<1>3. StreamDeposit \in Nat /\ ClaimI128Max \in Nat /\ StreamDeposit <= ClaimI128Max
  BY ApiAssumption, ClaimAssumption
<1>4. PICK u : u = IF ~c.paused THEN t ELSE IF c.paused_at # Contract!NONE THEN c.paused_at ELSE c.last_update_time
  OBVIOUS
<1>5. u \in Int
  BY <1>4, ContractPays
<1>6. PICK e \in Nat : e = IF u >= c.last_update_time THEN u - c.last_update_time ELSE 0
  BY <1>2, <1>5
<1>7. PICK cleft \in Nat : cleft = StreamDeposit - c.withdrawn_amount
  BY <1>2, <1>3
<1>8. /\ Contract!calculate_claimable(c, t) = IF e > ClaimI128Max \/ e > cleft THEN cleft ELSE e
      /\ Contract!calculate_claimable(c, t) \in Nat
  BY <1>4, <1>6, <1>7, ContractPays
<1>9. CASE ~r.isActive
  BY <1>8, <1>9, RowPromises
<1>10. CASE r.isActive
  <2>1. PICK left \in Nat : left = IF r.withdrawnAmount <= StreamDeposit THEN StreamDeposit - r.withdrawnAmount ELSE 0
    BY <1>1, <1>3
  <2>2. PICK f \in Nat : f = elapsedAt(r, t) /\ claimableAmount(r, t) = IF f > left THEN left ELSE f
    BY <1>10, <2>1, RowPromises
  <2>3. left <= cleft
    BY <1>1, <1>2, <1>3, <1>7, <2>1 DEF RowLags
  <2>4. f <= e
    <3>1. CASE ~c.paused
      <4>1. u = t /\ ~r.isPaused
        BY <3>1, <1>4 DEF RowLags
      <4>2. f = NonNegative(NonNegative(t) - NonNegative(r.lastUpdateTime))
        BY <4>1, <2>2 DEF elapsedAt
      <4> QED
        BY <4>1, <4>2, <1>1, <1>2, <1>6 DEF RowLags, NonNegative
    <3>2. CASE c.paused
      <4>1. r.isPaused /\ r.pausedAt = c.paused_at /\ c.paused_at \in Nat
        BY <3>2 DEF RowLags
      <4>2. u = c.paused_at
        BY <4>1, <3>2, <1>4 DEF Contract!NONE
      <4>3. r.lastUpdateTime >= c.last_update_time
        BY DEF RowLags
      <4>4. PICK p \in Nat : p = c.paused_at
        BY <4>1
      <4>5. f = IF t > p THEN NonNegative(NonNegative(t - r.lastUpdateTime) - (t - p))
                ELSE NonNegative(t - r.lastUpdateTime)
        BY <4>1, <4>4, <2>2, <1>1 DEF elapsedAt, NonNegative, NoPause
      <4> QED
        BY <4>2, <4>3, <4>4, <4>5, <1>1, <1>2, <1>6 DEF NonNegative
    <3> QED
      BY <3>1, <3>2, <1>2
  <2> QED
    BY <2>1, <2>2, <2>3, <2>4, <1>3, <1>8, <1>7, <1>2
<1> QED
  BY <1>9, <1>10, <1>1

LEMMA BucketOf ==
  ASSUME NEW t \in Nat
  PROVE  /\ cacheKeyBucket(t) \in Nat /\ cacheKeyBucket(t) <= t /\ t <= cacheKeyBucket(t) + BucketSeconds - 1
         /\ cacheKeyBucket(cacheKeyBucket(t)) = cacheKeyBucket(t)
<1>1. BucketSeconds \in Nat \ {0}
  BY ClaimAssumption
<1>2. PICK q \in Nat : q = t \div BucketSeconds
  BY <1>1
<1>3. PICK b \in Nat : b = q * BucketSeconds
  BY <1>1
<1>4. b <= t /\ t <= b + BucketSeconds - 1
  BY <1>1, <1>2, <1>3
<1>5. b \div BucketSeconds = q
  BY <1>1, <1>3
<1> QED
  BY <1>2, <1>3, <1>4, <1>5 DEF cacheKeyBucket

EndTypes == {"CANCELLED", "COMPLETED"}
ApiEvents == [type : {"CREATED", "WITHDRAWN", "PAUSED", "RESUMED"} \cup EndTypes, amount : Nat]
ApiRequests ==
  [op : Ops \cup {"none"}, stage : {"idle", "chain", "writing", "logging", "done"}, amount : Nat,
   active : BOOLEAN]

(* The contract's record at time now. *)
ChainSound(c, now) ==
  /\ c \in ChainRecords /\ c.last_update_time <= now
  /\ c.paused => c.paused_at \in Nat /\ c.last_update_time <= c.paused_at /\ c.paused_at <= now

RowSound(r, now) == r = NoRow \/ (r \in ApiRows /\ r.lastUpdateTime <= now)

(* CREATED is the first event and the one that finds no row; what the indexer *)
(* has read belongs to the withdrawal it is applying.                        *)
QueueSound(q, r, i, cr) ==
  /\ q \in Seq(ApiEvents)
  /\ \A k \in DOMAIN q : q[k].type = "CREATED" => k = 1 /\ q[k].amount = StreamDeposit
  /\ r = NoRow => q # <<>> /\ q[1].type = "CREATED" /\ cr = 0 /\ i = NotReading
  /\ i # NotReading => q # <<>> /\ q[1].type = "WITHDRAWN"

(* Requests for a withdrawal have found a row. *)
RequestsFound(rq, r) ==
  /\ rq \in [Requests -> ApiRequests]
  /\ \A x \in Requests : rq[x].op = "withdraw" => r # NoRow

CreditSound(r, i, cr, rc) ==
  ~rc => /\ r # NoRow => r.withdrawnAmount = cr
         /\ i # NotReading => i = r.withdrawnAmount

(* The end of a stream is the last of its events. *)
EndSound(c, q, r, rv) ==
  ~c.is_active => IF q = <<>> THEN rv \/ ~r.isActive ELSE q[Len(q)].type \in EndTypes

ClaimCacheSound(cc, r) ==
  \A e \in cc : r # NoRow /\ \E t \in Nat : e = <<cacheKeyBucket(t), claimableAmount(r, t)>>

(* What of the contract's record the events tell. *)
ChainViews == [w : Nat, lut : Nat, paused : BOOLEAN, at : Int]
ViewOf(c) == [w |-> c.withdrawn_amount, lut |-> c.last_update_time, paused |-> c.paused, at |-> c.paused_at]
FirstView == [w |-> 0, lut |-> 0, paused |-> FALSE, at |-> Contract!NONE]

(* An event leads from one view to the next. *)
LeadsOn(v, e, x) ==
  \/ e.type = "CREATED" /\ v = FirstView /\ x = v
  \/ e.type = "WITHDRAWN" /\ x.w = v.w + e.amount /\ x.paused = v.paused /\ x.at = v.at
  \/ e.type = "PAUSED" /\ x.w = v.w /\ x.paused /\ x.at = e.amount
  \/ e.type = "RESUMED" /\ x.w = v.w /\ ~x.paused

(* The row, and what the indexer has read of it, against a view. *)
RowReflects(r, i, v) ==
  /\ r = NoRow => v = FirstView
  /\ r # NoRow => /\ r.withdrawnAmount >= v.w /\ r.lastUpdateTime >= v.lut
                  /\ r.isPaused = v.paused /\ (v.paused => r.pausedAt = v.at)
  /\ i # NotReading => i >= v.w

(* While the stream is active the events not yet indexed lead from a view the *)
(* row reflects to the contract's record.                                    *)
EventsLead(c, q, r, i, now) ==
  \E v \in Seq(ChainViews) :
    /\ Len(v) = Len(q) + 1
    /\ RowReflects(r, i, v[1]) /\ v[Len(q) + 1] = ViewOf(c)
    /\ \A k \in 1..Len(q) : LeadsOn(v[k], q[k], v[k + 1])
    /\ \A k \in 1..Len(q) + 1 : v[k].lut <= now

ApiIInv ==
  /\ apiClock \in 0..MaxApiClock /\ credited \in Nat /\ indexing \in {NotReading} \cup Nat
  /\ server \in BOOLEAN /\ raced \in BOOLEAN /\ revived \in BOOLEAN
  /\ ChainSound(chain, apiClock) /\ RowSound(row, apiClock)
  /\ QueueSound(chainEvents, row, indexing, credited)
  /\ RequestsFound(req, row)
  /\ CreditSound(row, indexing, credited, raced)
  /\ EndSound(chain, chainEvents, row, revived)
  /\ ClaimCacheSound(claimCache, row)
  /\ chain.is_active => EventsLead(chain, chainEvents, row, indexing, apiClock)

LEMMA ApiHolds == ApiIInv => ApiTypeOK /\ ApiPromiseKept /\ ApiRowsAgree
<1> SUFFICES ASSUME ApiIInv PROVE ApiTypeOK /\ ApiPromiseKept /\ ApiRowsAgree
  OBVIOUS
<1>1. /\ apiClock \in Nat /\ apiClock <= MaxApiClock /\ MaxApiClock \in Nat /\ chain \in ChainRecords
      /\ chain.last_update_time <= apiClock /\ StreamDeposit \in Nat
  BY ApiAssumption DEF ApiIInv, ChainSound
<1>2. ClaimCacheSound(claimCache, row) /\ RowSound(row, apiClock)
  BY DEF ApiIInv
<1>3. ApiTypeOK
  <2>1. chain.withdrawn_amount \in 0..StreamDeposit /\ chain.last_update_time \in 0..MaxApiClock
    BY <1>1 DEF ChainRecords
  <2>2. row = NoRow \/ (row.withdrawnAmount \in Nat /\ row.lastUpdateTime \in 0..MaxApiClock)
    <3>1. CASE row \in ApiRows /\ row.lastUpdateTime <= apiClock
      <4>1. row.withdrawnAmount \in Nat /\ row.lastUpdateTime \in Nat
        BY <3>1 DEF ApiRows
      <4> QED
        BY <3>1, <4>1, <1>1
    <3> QED
      BY <3>1, <1>2 DEF RowSound
  <2>3. \A x \in Requests : /\ req[x].op \in Ops \cup {"none"}
                            /\ req[x].stage \in {"idle", "chain", "writing", "logging", "done"}
    BY DEF ApiIInv, RequestsFound, ApiRequests
  <2>4. \A e \in claimCache : e[1] = cacheKeyBucket(e[1]) /\ e[2] \in Nat
    <3> SUFFICES ASSUME NEW e \in claimCache PROVE e[1] = cacheKeyBucket(e[1]) /\ e[2] \in Nat
      OBVIOUS
    <3>1. row \in ApiRows
      BY <1>2 DEF ClaimCacheSound, RowSound
    <3>2. PICK t \in Nat : e = <<cacheKeyBucket(t), claimableAmount(row, t)>>
      BY <1>2 DEF ClaimCacheSound
    <3>3. claimableAmount(row, t) \in Nat
      BY <3>1, RowPromises
    <3>4. e[1] = cacheKeyBucket(t) /\ e[2] = claimableAmount(row, t)
      BY <3>2
    <3> QED
      BY <3>3, <3>4, BucketOf
  <2> QED
    BY <2>1, <2>2, <2>3, <2>4 DEF ApiTypeOK, ApiIInv
<1>4. ApiPromiseKept
  <2> SUFFICES ASSUME chainEvents = <<>>, row # NoRow, chain.is_active
               PROVE  /\ claimableAmount(row, apiClock) <= Contract!calculate_claimable(chain, apiClock)
                      /\ \A e \in CachedAt(apiClock) :
                           e[2] <= Contract!calculate_claimable(chain, cacheKeyBucket(apiClock) + BucketSeconds - 1)
    BY DEF ApiPromiseKept, ApiSettled
  <2>1. row \in ApiRows
    BY <1>2 DEF RowSound
  <2>2. RowLags(row, chain)
    <3>1. RowReflects(row, indexing, ViewOf(chain))
      <4>1. Len(chainEvents) = 0
        OBVIOUS
      <4> QED
        BY <4>1 DEF ApiIInv, EventsLead
    <3>2. chain.paused => chain.paused_at \in Nat
      BY DEF ApiIInv, ChainSound
    <3> QED
      BY <3>1, <3>2 DEF RowReflects, ViewOf, RowLags
  <2>3. claimableAmount(row, apiClock) <= Contract!calculate_claimable(chain, apiClock)
    BY <1>1, <2>1, <2>2, LaggingRowPromisesLess
  <2>4. ASSUME NEW e \in CachedAt(apiClock)
        PROVE  e[2] <= Contract!calculate_claimable(chain, cacheKeyBucket(apiClock) + BucketSeconds - 1)
    <3>1. e \in claimCache /\ e[1] = cacheKeyBucket(apiClock)
      BY DEF CachedAt
    <3>2. PICK t \in Nat : e = <<cacheKeyBucket(t), claimableAmount(row, t)>>
      BY <1>2, <3>1 DEF ClaimCacheSound
    <3>3. e[1] = cacheKeyBucket(t) /\ e[2] = claimableAmount(row, t)
      BY <3>2
    <3>4. BucketSeconds \in Nat \ {0}
      BY ClaimAssumption
    <3>5. cacheKeyBucket(t) \in Nat /\ t <= cacheKeyBucket(t) + BucketSeconds - 1
      BY BucketOf
    <3>6. PICK u \in Nat : u = cacheKeyBucket(apiClock) + BucketSeconds - 1 /\ t <= u
      BY <3>1, <3>3, <3>4, <3>5
    <3>7. claimableAmount(row, t) <= claimableAmount(row, u)
      BY <2>1, <3>6, RowGrows
    <3>8. claimableAmount(row, u) <= Contract!calculate_claimable(chain, u)
      BY <1>1, <2>1, <2>2, LaggingRowPromisesLess
    <3>9. claimableAmount(row, t) \in Nat /\ claimableAmount(row, u) \in Nat
      BY <2>1, RowPromises
    <3>10. Contract!calculate_claimable(chain, u) \in Nat
      BY <1>1, ContractPays
    <3> QED
      BY <3>3, <3>6, <3>7, <3>8, <3>9, <3>10
  <2> QED
    BY <2>3, <2>4
<1>5. ApiRowsAgree
  BY DEF ApiIInv, ApiRowsAgree, ApiNoLostIncrement, ApiEndedIsOff, ApiSettled, CreditSound, EndSound
<1> QED
  BY <1>3, <1>4, <1>5


(* The contract's record moves on by one event. *)
LEMMA LeadAppended ==
  ASSUME NEW c, NEW q \in Seq(ApiEvents), NEW r, NEW i, NEW now \in Nat, EventsLead(c, q, r, i, now),
         NEW e \in ApiEvents, NEW d \in ChainRecords, LeadsOn(ViewOf(c), e, ViewOf(d)), d.last_update_time <= now
  PROVE  EventsLead(d, Append(q, e), r, i, now)
<1>1. PICK v \in Seq(ChainViews) :
        /\ Len(v) = Len(q) + 1
        /\ RowReflects(r, i, v[1]) /\ v[Len(q) + 1] = ViewOf(c)
        /\ \A k \in 1..Len(q) : LeadsOn(v[k], q[k], v[k + 1])
        /\ \A k \in 1..Len(q) + 1 : v[k].lut <= now
  BY DEF EventsLead
<1>2. PICK n \in Nat : n = Len(q)
  BY LenProperties
<1>3. PICK x \in ChainViews : x = ViewOf(d) /\ x.lut <= now
  BY ApiAssumption DEF ViewOf, ChainViews, ChainRecords
<1>4. PICK p : p = Append(q, e)
  OBVIOUS
<1>5. Len(p) = n + 1 /\ p[n + 1] = e /\ \A k \in 1..n : p[k] = q[k]
  BY <1>2, <1>4, AppendProperties
<1>6. PICK y : y = Append(v, x)
  OBVIOUS
<1>7. y \in Seq(ChainViews) /\ Len(y) = n + 2 /\ y[n + 2] = x /\ \A k \in 1..n + 1 : y[k] = v[k]
  BY <1>1, <1>2, <1>6, AppendProperties
<1>8. y[1] = v[1] /\ y[n + 1] = ViewOf(c)
  <2>1. 1 \in 1..n + 1 /\ n + 1 \in 1..n + 1
    OBVIOUS
  <2> QED
    BY <2>1, <1>1, <1>2, <1>7
<1>9. ASSUME NEW k \in 1..n + 1 PROVE LeadsOn(y[k], p[k], y[k + 1])
  <2>1. CASE k = n + 1
    <3>1. y[k] = ViewOf(c) /\ p[k] = e
      BY <2>1, <1>5, <1>8
    <3>2. k + 1 = n + 2
      BY <2>1
    <3>3. y[k + 1] = ViewOf(d)
      BY <3>2, <1>3, <1>7
    <3> QED
      BY <3>1, <3>3
  <2>2. CASE k \in 1..n
    <3>1. k \in 1..n + 1 /\ k + 1 \in 1..n + 1
      BY <2>2
    <3>2. y[k] = v[k] /\ y[k + 1] = v[k + 1] /\ p[k] = q[k]
      BY <2>2, <3>1, <1>5, <1>7
    <3> QED
      BY <2>2, <3>2, <1>1, <1>2
  <2>3. k = n + 1 \/ k \in 1..n
    OBVIOUS
  <2> QED
    BY <2>1, <2>2, <2>3
<1>10. ASSUME NEW k \in 1..n + 2 PROVE y[k].lut <= now
  <2>1. k = n + 2 \/ k \in 1..n + 1
    OBVIOUS
  <2> QED
    BY <2>1, <1>1, <1>2, <1>3, <1>7
<1>11. Len(p) + 1 = n + 2 /\ Len(y) = Len(p) + 1
  BY <1>5, <1>7
<1> QED
  BY <1>1, <1>3, <1>4, <1>5, <1>7, <1>8, <1>9, <1>10, <1>11 DEF EventsLead

(* The indexer applies the first event. *)
LEMMA LeadConsumed ==
  ASSUME NEW c, NEW q \in Seq(ApiEvents), q # <<>>, NEW r, NEW i, NEW now \in Nat, EventsLead(c, q, r, i, now),
         NEW s,
         \A v, x \in ChainViews :
           RowReflects(r, i, v) /\ LeadsOn(v, Head(q), x) /\ v.lut <= now /\ x.lut <= now =>
             RowReflects(s, NotReading, x)
  PROVE  EventsLead(c, Tail(q), s, NotReading, now)
<1>1. PICK v \in Seq(ChainViews) :
        /\ Len(v) = Len(q) + 1
        /\ RowReflects(r, i, v[1]) /\ v[Len(q) + 1] = ViewOf(c)
        /\ \A k \in 1..Len(q) : LeadsOn(v[k], q[k], v[k + 1])
        /\ \A k \in 1..Len(q) + 1 : v[k].lut <= now
  BY DEF EventsLead
<1>2. PICK n \in Nat : Len(q) = n + 1
  <2>1. Len(q) \in Nat /\ Len(q) # 0
    BY LenProperties, EmptySeq
  <2> QED
    BY <2>1
<1>3. PICK p : p = Tail(q)
  OBVIOUS
<1>4. Len(p) = n /\ (\A k \in 1..n : p[k] = q[k + 1]) /\ Head(q) = q[1]
  BY <1>2, <1>3, HeadTailProperties
<1>5. Len(v) = n + 2 /\ v # <<>>
  BY <1>1, <1>2
<1>6. PICK y : y = Tail(v)
  OBVIOUS
<1>7. y \in Seq(ChainViews) /\ Len(y) = n + 1 /\ \A k \in 1..n + 1 : y[k] = v[k + 1]
  BY <1>5, <1>6, HeadTailProperties
<1>8. v[1] \in ChainViews /\ v[2] \in ChainViews /\ y[1] = v[2]
  <2>1. 1 \in 1..Len(v) /\ 2 \in 1..Len(v) /\ 1 \in 1..n + 1
    BY <1>5
  <2> QED
    BY <2>1, <1>7, ElementOfSeq
<1>9. RowReflects(s, NotReading, y[1])
  <2>1. 1 \in 1..Len(q) /\ 1 \in 1..Len(q) + 1 /\ 2 \in 1..Len(q) + 1
    BY <1>2
  <2>2. LeadsOn(v[1], Head(q), v[2]) /\ v[1].lut <= now /\ v[2].lut <= now
    BY <2>1, <1>1, <1>4
  <2> QED
    BY <2>2, <1>1, <1>8
<1>10. ASSUME NEW k \in 1..n PROVE LeadsOn(y[k], p[k], y[k + 1])
  <2>1. k \in 1..n + 1 /\ k + 1 \in 1..n + 1 /\ k + 1 \in 1..Len(q)
    BY <1>2
  <2>2. y[k] = v[k + 1] /\ y[k + 1] = v[(k + 1) + 1] /\ p[k] = q[k + 1]
    BY <2>1, <1>4, <1>7
  <2> QED
    BY <2>1, <2>2, <1>1
<1>11. ASSUME NEW k \in 1..n + 1 PROVE y[k].lut <= now
  <2>1. k + 1 \in 1..Len(q) + 1
    BY <1>2
  <2> QED
    BY <2>1, <1>1, <1>7
<1>12. y[n + 1] = ViewOf(c)
  <2>1. n + 1 \in 1..n + 1 /\ (n + 1) + 1 = Len(q) + 1
    BY <1>2
  <2> QED
    BY <2>1, <1>1, <1>7
<1> QED
  BY <1>3, <1>4, <1>7, <1>9, <1>10, <1>11, <1>12 DEF EventsLead

(* The row changes, or the indexer reads it. *)
LEMMA LeadKept ==
  ASSUME NEW c, NEW q \in Seq(ApiEvents), NEW r, NEW i, NEW now \in Nat, EventsLead(c, q, r, i, now),
         NEW s, NEW j,
         \A v \in ChainViews : RowReflects(r, i, v) /\ v.lut <= now => RowReflects(s, j, v)
  PROVE  EventsLead(c, q, s, j, now)
<1>1. PICK v \in Seq(ChainViews) :
        /\ Len(v) = Len(q) + 1
        /\ RowReflects(r, i, v[1]) /\ v[Len(q) + 1] = ViewOf(c)
        /\ \A k \in 1..Len(q) : LeadsOn(v[k], q[k], v[k + 1])
        /\ \A k \in 1..Len(q) + 1 : v[k].lut <= now
  BY DEF EventsLead
<1>2. 1 \in 1..Len(v) /\ 1 \in 1..Len(q) + 1
  BY <1>1, LenProperties
<1>3. v[1] \in ChainViews
  BY <1>2, ElementOfSeq
<1>4. RowReflects(s, j, v[1])
  BY <1>1, <1>2, <1>3
<1> QED
  BY <1>1, <1>4 DEF EventsLead

LEMMA LeadLater ==
  ASSUME NEW c, NEW q \in Seq(ApiEvents), NEW r, NEW i, NEW now \in Nat, EventsLead(c, q, r, i, now)
  PROVE  EventsLead(c, q, r, i, now + 1)
<1>1. PICK v \in Seq(ChainViews) :
        /\ Len(v) = Len(q) + 1
        /\ RowReflects(r, i, v[1]) /\ v[Len(q) + 1] = ViewOf(c)
        /\ \A k \in 1..Len(q) : LeadsOn(v[k], q[k], v[k + 1])
        /\ \A k \in 1..Len(q) + 1 : v[k].lut <= now
  BY DEF EventsLead
<1>2. \A k \in 1..Len(q) + 1 : v[k].lut <= now + 1
  <2> SUFFICES ASSUME NEW k \in 1..Len(q) + 1 PROVE v[k].lut <= now + 1
    OBVIOUS
  <2>1. v[k] \in ChainViews /\ v[k].lut <= now
    BY <1>1, ElementOfSeq
  <2>2. v[k].lut \in Nat
    BY <2>1 DEF ChainViews
  <2> QED
    BY <2>1, <2>2
<1> QED
  BY <1>1, <1>2 DEF EventsLead


LEMMA ApiChainMoves ==
  ASSUME ApiIInv, NEW d, NEW em \in Seq(ApiEvents), OnChain(d, em), ChainSound(d, apiClock),
         Len(em) >= 1, \A k \in DOMAIN em : em[k].type # "CREATED",
         d.is_active => chain.is_active /\ Len(em) = 1 /\ LeadsOn(ViewOf(chain), em[1], ViewOf(d)),
         ~d.is_active => em[Len(em)].type \in EndTypes
  PROVE  ApiIInv'
<1>1. chain' = d /\ chainEvents' = chainEvents \o em
      /\ UNCHANGED <<row, indexing, server, req, claimCache, apiClock, credited, raced, revived>>
  BY DEF OnChain
<1>2. chainEvents \in Seq(ApiEvents)
  BY DEF ApiIInv, QueueSound
<1>3. PICK q : q = chainEvents \o em
  OBVIOUS
<1>4. PICK n \in Nat, m \in Nat : n = Len(chainEvents) /\ m = Len(em) /\ m >= 1
  BY <1>2, LenProperties
<1>5. /\ q \in Seq(ApiEvents) /\ Len(q) = n + m
      /\ \A k \in 1..n + m : q[k] = IF k <= n THEN chainEvents[k] ELSE em[k - n]
  BY <1>2, <1>3, <1>4, ConcatProperties
<1>6. /\ DOMAIN q = 1..n + m /\ DOMAIN em = 1..m /\ DOMAIN chainEvents = 1..n
  BY <1>2, <1>4, <1>5, LenProperties
<1>7. q # <<>> /\ q[n + m] = em[m]
  <2>1. n + m \in 1..n + m /\ ~(n + m <= n) /\ (n + m) - n = m /\ n + m # 0
    BY <1>4
  <2>2. Len(q) # 0
    BY <2>1, <1>5
  <2> QED
    BY <2>1, <2>2, <1>5, EmptySeq
<1>8. \A k \in 1..n : q[k] = chainEvents[k]
  <2>1. \A k \in 1..n : k \in 1..n + m /\ k <= n
    BY <1>4
  <2> QED
    BY <2>1, <1>5
<1>9. chainEvents # <<>> => q[1] = chainEvents[1]
  <2>1. chainEvents # <<>> => 1 \in 1..n
    BY <1>2, <1>4, EmptySeq
  <2> QED
    BY <2>1, <1>8
<1>10. QueueSound(q, row, indexing, credited)
  <2>1. ASSUME NEW k \in DOMAIN q, q[k].type = "CREATED" PROVE k = 1 /\ q[k].amount = StreamDeposit
    <3>1. CASE k \in 1..n
      BY <3>1, <2>1, <1>6, <1>8 DEF ApiIInv, QueueSound
    <3>2. CASE k \notin 1..n
      <4>1. k \in 1..n + m /\ ~(k <= n) /\ k - n \in 1..m
        BY <3>2, <1>4, <1>6
      <4>2. q[k] = em[k - n]
        BY <4>1, <1>5
      <4> QED
        BY <4>1, <4>2, <2>1, <1>6
    <3> QED
      BY <3>1, <3>2
  <2> QED
    BY <2>1, <1>5, <1>7, <1>9 DEF ApiIInv, QueueSound
<1>11. EndSound(d, q, row, revived)
  BY <1>4, <1>5, <1>7 DEF EndSound
<1>12. ASSUME d.is_active PROVE EventsLead(d, q, row, indexing, apiClock)
  <2>1. m = 1 /\ LeadsOn(ViewOf(chain), em[1], ViewOf(d))
    BY <1>4, <1>12
  <2>2. PICK e \in ApiEvents : e = em[1]
    <3>1. 1 \in 1..Len(em)
      BY <1>4
    <3> QED
      BY <3>1, ElementOfSeq
  <2>3. PICK p : p = Append(chainEvents, e)
    OBVIOUS
  <2>4. p \in Seq(ApiEvents) /\ Len(p) = n + 1 /\ p[n + 1] = e /\ \A k \in 1..n : p[k] = chainEvents[k]
    BY <2>3, <1>2, <1>4, AppendProperties
  <2>5. p = q
    <3>1. Len(p) = Len(q)
      BY <2>1, <2>4, <1>5
    <3>2. ASSUME NEW k \in 1..Len(p) PROVE p[k] = q[k]
      <4>1. k = n + 1 \/ k \in 1..n
        BY <2>4
      <4> QED
        BY <4>1, <2>1, <2>2, <2>4, <1>7, <1>8
    <3> QED
      BY <2>4, <1>5, <3>1, <3>2, SeqEqual
  <2>6. apiClock \in Nat /\ d \in ChainRecords /\ d.last_update_time <= apiClock
    BY ApiAssumption DEF ApiIInv, ChainSound
  <2>7. EventsLead(chain, chainEvents, row, indexing, apiClock)
    BY <1>12 DEF ApiIInv
  <2>8. EventsLead(d, Append(chainEvents, e), row, indexing, apiClock)
    BY <2>1, <2>2, <2>6, <2>7, <1>2, LeadAppended
  <2> QED
    BY <2>3, <2>5, <2>8
<1> QED
  BY <1>1, <1>3, <1>10, <1>11, <1>12 DEF ApiIInv

LEMMA ApiChainMovesOnce ==
  ASSUME ApiIInv, NEW d, NEW e \in ApiEvents, NEW em, em = <<e>>, OnChain(d, em), ChainSound(d, apiClock),
         e.type # "CREATED",
         d.is_active => chain.is_active /\ LeadsOn(ViewOf(chain), e, ViewOf(d)),
         ~d.is_active => e.type \in EndTypes
  PROVE  ApiIInv'
<1>1. em \in Seq(ApiEvents) /\ Len(em) = 1 /\ em[1] = e /\ DOMAIN em = {1}
  OBVIOUS
<1>2. Len(em) >= 1 /\ \A k \in DOMAIN em : em[k].type # "CREATED"
  BY <1>1
<1>3. d.is_active => chain.is_active /\ Len(em) = 1 /\ LeadsOn(ViewOf(chain), em[1], ViewOf(d))
  BY <1>1
<1>4. ~d.is_active => em[Len(em)].type \in EndTypes
  BY <1>1
<1> QED
  BY <1>1, <1>2, <1>3, <1>4, ApiChainMoves

LEMMA EventMade ==
  ASSUME NEW t \in {"CREATED", "WITHDRAWN", "PAUSED", "RESUMED", "CANCELLED", "COMPLETED"}, NEW a \in Nat
  PROVE  \E e \in ApiEvents : e = [type |-> t, amount |-> a] /\ e.type = t /\ e.amount = a
<1>1. [type |-> t, amount |-> a] \in ApiEvents
  BY DEF ApiEvents, EndTypes
<1> QED
  BY <1>1

LEMMA ApiWalletSteps ==
  ASSUME ApiIInv, WalletWithdraws \/ WalletPauses \/ WalletResumes \/ WalletCancels
  PROVE  ApiIInv'
<1>1. PICK now \in Nat : now = apiClock
  BY ApiAssumption DEF ApiIInv
<1>2. PICK c \in ChainRecords : /\ c = chain /\ c.last_update_time <= now
                                /\ c.paused => c.paused_at \in Nat /\ c.last_update_time <= c.paused_at /\ c.paused_at <= now
  BY <1>1 DEF ApiIInv, ChainSound
<1>3. StreamDeposit \in Nat /\ c.withdrawn_amount \in 0..StreamDeposit /\ c.last_update_time \in Nat
      /\ c.deposited_amount = StreamDeposit /\ c.paused \in BOOLEAN /\ c.paused_at \in Int /\ c.is_active \in BOOLEAN
  BY ApiAssumption DEF ChainRecords
<1>4. PICK pd \in Nat : pd = Contract!calculate_claimable(chain, apiClock) /\ pd <= StreamDeposit - c.withdrawn_amount
  BY <1>1, <1>2, ContractPays
<1>5. PICK total \in 0..StreamDeposit : total = c.withdrawn_amount + pd /\ total \in Nat
  BY <1>3, <1>4
<1>0. PICK none \in Int : none = Contract!NONE
  BY DEF Contract!NONE
<1>10. now \in Int
  BY <1>1
<1>6. CASE WalletWithdraws
  <2>1. PICK on \in BOOLEAN : on = ~(total = StreamDeposit)
    OBVIOUS
  <2>2. PICK d : d = [c EXCEPT !.withdrawn_amount = total, !.last_update_time = now, !.is_active = on]
    OBVIOUS
  <2>3. /\ d \in ChainRecords /\ d.last_update_time = now /\ d.withdrawn_amount = total
        /\ d.is_active = on /\ d.paused = c.paused /\ d.paused_at = c.paused_at
    BY <1>2, <1>5, <2>1, <2>2 DEF ChainRecords
  <2>4. ~c.paused /\ c.is_active
    BY <1>2, <1>6 DEF WalletWithdraws
  <2>5. ChainSound(d, apiClock)
    BY <1>1, <2>3, <2>4 DEF ChainSound
  <2>6. PICK e \in ApiEvents : e = [type |-> "WITHDRAWN", amount |-> pd] /\ e.type = "WITHDRAWN" /\ e.amount = pd
    BY EventMade
  <2>7. PICK f \in ApiEvents : f = [type |-> "COMPLETED", amount |-> total] /\ f.type = "COMPLETED"
    BY <1>5, EventMade
  <2>8. CASE on
    <3>1. PICK em : em = <<e>> \o <<>>
      OBVIOUS
    <3>2. em = <<e>>
      BY <3>1
    <3>3. OnChain(d, em)
      <4>1. total # StreamDeposit
        BY <2>1, <2>8
      <4> QED
        BY <1>1, <1>2, <1>3, <1>4, <1>5, <1>6, <2>1, <2>2, <2>6, <2>8, <3>1, <4>1 DEF WalletWithdraws
    <3>4. LeadsOn(ViewOf(chain), e, ViewOf(d))
      BY <1>2, <1>5, <2>3, <2>6 DEF LeadsOn, ViewOf
    <3> QED
      BY <1>2, <2>3, <2>4, <2>5, <2>6, <2>8, <3>2, <3>3, <3>4, ApiChainMovesOnce
  <2>9. CASE ~on
    <3>1. PICK em : em = <<e>> \o <<f>>
      OBVIOUS
    <3>2. em \in Seq(ApiEvents) /\ Len(em) = 2 /\ em[1] = e /\ em[2] = f /\ DOMAIN em = {1, 2}
      BY <2>6, <2>7, <3>1
    <3>3. OnChain(d, em)
      <4>1. total = StreamDeposit
        BY <2>1, <2>9
      <4> QED
        BY <1>1, <1>2, <1>3, <1>4, <1>5, <1>6, <2>1, <2>2, <2>6, <2>7, <2>9, <3>1, <4>1 DEF WalletWithdraws
    <3>4. \A k \in DOMAIN em : em[k].type # "CREATED"
      BY <2>6, <2>7, <3>2
    <3>5. em[Len(em)].type \in EndTypes
      BY <2>7, <3>2 DEF EndTypes
    <3>6. Len(em) >= 1 /\ ~d.is_active
      BY <2>3, <2>9, <3>2
    <3> QED
      BY <2>5, <3>2, <3>3, <3>4, <3>5, <3>6, ApiChainMoves
  <2> QED
    BY <2>1, <2>8, <2>9
<1>7. CASE WalletPauses
  <2>1. PICK d : d = [c EXCEPT !.paused = TRUE, !.paused_at = now]
    OBVIOUS
  <2>2. /\ d \in ChainRecords /\ d.last_update_time = c.last_update_time
        /\ d.withdrawn_amount = c.withdrawn_amount
        /\ d.is_active = c.is_active /\ d.paused = TRUE /\ d.paused_at = now
    BY <1>2, <1>10, <2>1 DEF ChainRecords
  <2>3. ChainSound(d, apiClock)
    BY <1>1, <1>2, <2>2 DEF ChainSound
  <2>4. PICK e \in ApiEvents : e = [type |-> "PAUSED", amount |-> now] /\ e.type = "PAUSED" /\ e.amount = now
    BY EventMade
  <2>5. PICK em : em = <<e>>
    OBVIOUS
  <2>7. OnChain(d, em) /\ chain.is_active
    BY <1>1, <1>2, <1>7, <2>1, <2>4, <2>5 DEF WalletPauses
  <2>8. LeadsOn(ViewOf(chain), e, ViewOf(d))
    BY <1>2, <2>2, <2>4 DEF LeadsOn, ViewOf
  <2> QED
    BY <1>2, <2>2, <2>3, <2>4, <2>5, <2>7, <2>8, ApiChainMovesOnce
<1>8. CASE WalletResumes
  <2>0. c.paused /\ c.is_active /\ c.paused_at \in Nat /\ c.last_update_time <= c.paused_at /\ c.paused_at <= now
    BY <1>2, <1>8 DEF WalletResumes
  <2>1. PICK l \in Nat : l = c.last_update_time + (now - c.paused_at) /\ l <= now
    BY <2>0, <1>3
  <2>2. PICK d : d = [c EXCEPT !.paused = FALSE, !.paused_at = Contract!NONE, !.last_update_time = l]
    OBVIOUS
  <2>3. /\ d \in ChainRecords /\ d.last_update_time = l /\ d.withdrawn_amount = c.withdrawn_amount
        /\ d.is_active = c.is_active /\ d.paused = FALSE
    <3>1. d = [c EXCEPT !.paused = FALSE, !.paused_at = none, !.last_update_time = l]
      BY <1>0, <2>2
    <3> QED
      BY <1>2, <2>1, <3>1 DEF ChainRecords
  <2>4. ChainSound(d, apiClock)
    BY <1>1, <2>1, <2>3 DEF ChainSound
  <2>5. PICK e \in ApiEvents : e = [type |-> "RESUMED", amount |-> 0] /\ e.type = "RESUMED"
    BY EventMade
  <2>6. PICK em : em = <<e>>
    OBVIOUS
  <2>8. OnChain(d, em)
    BY <1>1, <1>2, <1>8, <2>1, <2>2, <2>5, <2>6 DEF WalletResumes
  <2>9. LeadsOn(ViewOf(chain), e, ViewOf(d))
    BY <1>2, <2>3, <2>5 DEF LeadsOn, ViewOf
  <2> QED
    BY <1>2, <2>0, <2>3, <2>4, <2>5, <2>6, <2>8, <2>9, ApiChainMovesOnce
<1>9. CASE WalletCancels
  <2>1. PICK d : d = [c EXCEPT !.is_active = FALSE, !.paused = FALSE, !.paused_at = Contract!NONE,
                               !.withdrawn_amount = total, !.last_update_time = now]
    OBVIOUS
  <2>2. d \in ChainRecords /\ d.last_update_time = now /\ d.is_active = FALSE /\ d.paused = FALSE
    <3>1. d = [c EXCEPT !.is_active = FALSE, !.paused = FALSE, !.paused_at = none,
                        !.withdrawn_amount = total, !.last_update_time = now]
      BY <1>0, <2>1
    <3> QED
      BY <1>2, <1>5, <3>1 DEF ChainRecords
  <2>3. ChainSound(d, apiClock)
    BY <1>1, <2>2 DEF ChainSound
  <2>4. PICK e \in ApiEvents : e = [type |-> "CANCELLED", amount |-> total] /\ e.type = "CANCELLED"
    BY <1>5, EventMade
  <2>5. PICK em : em = <<e>>
    OBVIOUS
  <2>7. OnChain(d, em)
    BY <1>1, <1>2, <1>4, <1>5, <1>9, <2>1, <2>4, <2>5 DEF WalletCancels
  <2>8. e.type \in EndTypes
    BY <2>4 DEF EndTypes
  <2> QED
    BY <2>2, <2>3, <2>4, <2>5, <2>7, <2>8, ApiChainMovesOnce
<1> QED
  BY <1>6, <1>7, <1>8, <1>9

(* The indexer applies an event and leaves the row s. *)
LEMMA ApiConsumes ==
  ASSUME ApiIInv, NEW s \in ApiRows, NEW cr \in Nat, Consume(s, cr), chainEvents # <<>>,
         s.lastUpdateTime <= apiClock, ~raced => s.withdrawnAmount = cr,
         Head(chainEvents).type \in EndTypes => ~s.isActive,
         \A v, x \in ChainViews :
           RowReflects(row, indexing, v) /\ LeadsOn(v, Head(chainEvents), x) /\ v.lut <= apiClock /\ x.lut <= apiClock =>
             RowReflects(s, NotReading, x)
  PROVE  ApiIInv'
<1>1. /\ row' = s /\ credited' = cr /\ claimCache' = {} /\ chainEvents' = Tail(chainEvents) /\ indexing' = NotReading
      /\ UNCHANGED <<chain, server, req, apiClock, raced, revived>>
  BY DEF Consume
<1>2. s # NoRow
  BY DEF NoRow, ApiRows
<1>3. chainEvents \in Seq(ApiEvents)
  BY DEF ApiIInv, QueueSound
<1>4. PICK n \in Nat : Len(chainEvents) = n + 1
  <2>1. Len(chainEvents) \in Nat /\ Len(chainEvents) # 0
    BY <1>3, LenProperties, EmptySeq
  <2> QED
    BY <2>1
<1>5. PICK p : p = Tail(chainEvents)
  OBVIOUS
<1>6. /\ p \in Seq(ApiEvents) /\ Len(p) = n /\ (\A k \in 1..n : p[k] = chainEvents[k + 1])
      /\ Head(chainEvents) = chainEvents[1] /\ DOMAIN p = 1..n /\ DOMAIN chainEvents = 1..n + 1
  BY <1>3, <1>4, <1>5, HeadTailProperties, LenProperties
<1>7. QueueSound(p, s, NotReading, cr)
  <2>1. ASSUME NEW k \in 1..n PROVE p[k].type # "CREATED"
    <3>1. k + 1 \in 1..n + 1 /\ k + 1 # 1
      OBVIOUS
    <3> QED
      BY <3>1, <1>6 DEF ApiIInv, QueueSound
  <2> QED
    BY <2>1, <1>2, <1>6 DEF QueueSound
<1>8. EndSound(chain, p, s, revived)
  <2> SUFFICES ASSUME ~chain.is_active
               PROVE  IF p = <<>> THEN revived \/ ~s.isActive ELSE p[Len(p)].type \in EndTypes
    BY DEF EndSound
  <2>1. chainEvents[n + 1].type \in EndTypes
    BY <1>4 DEF ApiIInv, EndSound
  <2>2. CASE p = <<>>
    <3>1. n = 0
      BY <2>2, <1>6
    <3> QED
      BY <3>1, <2>1, <2>2, <1>6
  <2>3. CASE p # <<>>
    <3>1. n # 0
      BY <2>3, <1>6, EmptySeq
    <3>2. n \in 1..n
      BY <3>1
    <3> QED
      BY <3>2, <2>1, <2>3, <1>6
  <2> QED
    BY <2>2, <2>3
<1>9. chain.is_active => EventsLead(chain, p, s, NotReading, apiClock)
  <2> SUFFICES ASSUME chain.is_active PROVE EventsLead(chain, p, s, NotReading, apiClock)
    OBVIOUS
  <2>1. EventsLead(chain, chainEvents, row, indexing, apiClock)
    BY DEF ApiIInv
  <2>2. apiClock \in Nat
    BY ApiAssumption DEF ApiIInv
  <2>3. EventsLead(chain, Tail(chainEvents), s, NotReading, apiClock)
    BY <2>1, <2>2, <1>3, LeadConsumed
  <2> QED
    BY <2>3, <1>5
<1>10. RowSound(s, apiClock) /\ ClaimCacheSound({}, s) /\ CreditSound(s, NotReading, cr, raced)
  BY DEF RowSound, ClaimCacheSound, CreditSound
<1>11. RequestsFound(req, s)
  BY <1>2 DEF ApiIInv, RequestsFound
<1> QED
  BY <1>1, <1>5, <1>7, <1>8, <1>9, <1>10, <1>11 DEF ApiIInv

(* An event other than CREATED finds a row. *)
LEMMA EventFindsRow ==
  ASSUME ApiIInv, chainEvents # <<>>, Head(chainEvents).type # "CREATED"
  PROVE  row \in ApiRows /\ row # NoRow /\ row.lastUpdateTime <= apiClock /\ Head(chainEvents) \in ApiEvents
<1>1. chainEvents \in Seq(ApiEvents)
  BY DEF ApiIInv, QueueSound
<1>2. Head(chainEvents) = chainEvents[1] /\ Head(chainEvents) \in ApiEvents
  BY <1>1, HeadTailProperties
<1> QED
  BY <1>2 DEF ApiIInv, QueueSound, RowSound

LEMMA ApiIndexCreated ==
  ASSUME ApiIInv, IndexCreated PROVE ApiIInv'
<1>1. chainEvents # <<>> /\ chainEvents \in Seq(ApiEvents) /\ Head(chainEvents).type = "CREATED"
  BY DEF IndexCreated, HeadIs, ApiIInv, QueueSound
<1>2. Head(chainEvents) = chainEvents[1] /\ 1 \in DOMAIN chainEvents
  BY <1>1, HeadTailProperties, EmptySeq, LenProperties
<1>3. Head(chainEvents).amount = StreamDeposit
  BY <1>1, <1>2 DEF ApiIInv, QueueSound
<1>4. apiClock \in Nat /\ StreamDeposit \in Nat /\ credited \in Nat
  BY ApiAssumption DEF ApiIInv
<1>5. ~(Head(chainEvents).type \in EndTypes)
  BY <1>1 DEF EndTypes
<1>6. CASE row = NoRow
  <2>1. chain.deposited_amount = StreamDeposit
    BY DEF ApiIInv, ChainSound, ChainRecords
  <2>2. PICK s : s = RowOf(chain)
    OBVIOUS
  <2>3. /\ s \in ApiRows /\ s.lastUpdateTime = 0 /\ s.withdrawnAmount = 0 /\ s.isPaused = FALSE
    BY <2>1, <2>2, <1>4 DEF RowOf, ApiRows, NoPause
  <2>4. Consume(s, credited) /\ credited = 0
    BY <1>6, <2>2 DEF IndexCreated, ApiIInv, QueueSound
  <2>5. ASSUME NEW v \in ChainViews, NEW x \in ChainViews, RowReflects(row, indexing, v), LeadsOn(v, Head(chainEvents), x)
        PROVE RowReflects(s, NotReading, x)
    <3>1. x = FirstView
      BY <2>5, <1>1 DEF LeadsOn
    <3>2. x.w = 0 /\ x.lut = 0 /\ x.paused = FALSE
      BY <3>1 DEF FirstView
    <3>3. s.withdrawnAmount >= x.w /\ s.lastUpdateTime >= x.lut
      BY <3>2, <2>3
    <3> QED
      BY <3>1, <3>2, <3>3, <2>3 DEF RowReflects
  <2>6. s.lastUpdateTime <= apiClock /\ s.withdrawnAmount = credited
    BY <2>3, <2>4, <1>4
  <2> QED
    BY <1>1, <1>4, <1>5, <2>3, <2>4, <2>5, <2>6, ApiConsumes
<1>7. CASE row # NoRow
  <2>1. row \in ApiRows /\ row.lastUpdateTime <= apiClock
    BY <1>7 DEF ApiIInv, RowSound
  <2>2. PICK s : s = [row EXCEPT !.depositedAmount = StreamDeposit, !.lastUpdateTime = 0, !.isActive = TRUE]
    OBVIOUS
  <2>3. /\ s \in ApiRows /\ s.lastUpdateTime = 0 /\ s.withdrawnAmount = row.withdrawnAmount
        /\ s.isPaused = row.isPaused /\ row.withdrawnAmount \in Nat
    BY <2>1, <2>2 DEF ApiRows
  <2>4. Consume(s, credited) /\ (~raced => s.withdrawnAmount = credited)
    BY <1>3, <1>7, <2>2, <2>3 DEF IndexCreated, ApiIInv, CreditSound
  <2>5. ASSUME NEW v \in ChainViews, NEW x \in ChainViews, RowReflects(row, indexing, v), LeadsOn(v, Head(chainEvents), x)
        PROVE RowReflects(s, NotReading, x)
    <3>1. x = FirstView /\ v = FirstView
      BY <2>5, <1>1 DEF LeadsOn
    <3>2. x.w = 0 /\ x.lut = 0 /\ x.paused = FALSE
      BY <3>1 DEF FirstView
    <3>3. s.isPaused = FALSE
      BY <2>3, <2>5, <1>7, <3>1, <3>2 DEF RowReflects
    <3>4. s.withdrawnAmount >= x.w /\ s.lastUpdateTime >= x.lut
      BY <3>2, <2>3
    <3> QED
      BY <3>1, <3>2, <3>3, <3>4 DEF RowReflects
  <2>6. s.lastUpdateTime <= apiClock
    BY <2>3, <1>4
  <2> QED
    BY <1>1, <1>4, <1>5, <2>3, <2>4, <2>5, <2>6, ApiConsumes
<1> QED
  BY <1>6, <1>7

LEMMA ApiIndexWithdrawnReads ==
  ASSUME ApiIInv, IndexWithdrawnReads PROVE ApiIInv'
<1>1. /\ chainEvents # <<>> /\ Head(chainEvents).type = "WITHDRAWN" /\ indexing' = row.withdrawnAmount
      /\ UNCHANGED <<chain, chainEvents, row, server, req, claimCache, apiClock, credited, raced, revived>>
  BY DEF IndexWithdrawnReads, HeadIs
<1>2. row \in ApiRows /\ row # NoRow
  BY <1>1, EventFindsRow
<1>3. PICK j \in Nat : j = row.withdrawnAmount
  BY <1>2 DEF ApiRows
<1>4. chainEvents \in Seq(ApiEvents) /\ apiClock \in Nat
  BY ApiAssumption DEF ApiIInv, QueueSound
<1>5. Head(chainEvents) = chainEvents[1]
  BY <1>1, <1>4, HeadTailProperties
<1>6. QueueSound(chainEvents, row, j, credited)
  BY <1>1, <1>2, <1>5 DEF ApiIInv, QueueSound
<1>7. CreditSound(row, j, credited, raced)
  BY <1>3 DEF ApiIInv, CreditSound
<1>8. ASSUME chain.is_active PROVE EventsLead(chain, chainEvents, row, j, apiClock)
  <2>1. \A v \in ChainViews : RowReflects(row, indexing, v) /\ v.lut <= apiClock => RowReflects(row, j, v)
    BY <1>2, <1>3 DEF RowReflects
  <2>2. EventsLead(chain, chainEvents, row, indexing, apiClock)
    BY <1>8 DEF ApiIInv
  <2> QED
    BY <2>1, <2>2, <1>4, LeadKept
<1> QED
  BY <1>1, <1>3, <1>6, <1>7, <1>8 DEF ApiIInv

LEMMA ApiIndexOthers ==
  ASSUME ApiIInv, IndexWithdrawnWrites \/ IndexPaused \/ IndexResumed \/ IndexEnded
  PROVE  ApiIInv'
<1>1. /\ chainEvents # <<>>
      /\ Head(chainEvents).type \in {"WITHDRAWN", "PAUSED", "RESUMED", "CANCELLED", "COMPLETED"}
  BY DEF IndexWithdrawnWrites, IndexPaused, IndexResumed, IndexEnded, HeadIs
<1>2. PICK e \in ApiEvents : e = Head(chainEvents) /\ e.type # "CREATED"
  BY <1>1, EventFindsRow
<1>3. row \in ApiRows /\ row # NoRow /\ row.lastUpdateTime <= apiClock
  BY <1>1, <1>2, EventFindsRow
<1>4. PICK now \in Nat : now = apiClock
  BY ApiAssumption DEF ApiIInv
<1>5. PICK a \in Nat : a = e.amount
  BY DEF ApiEvents
<1>6. now \in Int /\ a \in Int /\ credited \in Nat /\ now <= now
  BY <1>4 DEF ApiIInv
<1>7. row.withdrawnAmount \in Nat /\ row.isPaused \in BOOLEAN
  BY <1>3 DEF ApiRows
<1>8. CASE IndexWithdrawnWrites
  <2>1. e.type = "WITHDRAWN" /\ indexing # NotReading
    BY <1>2, <1>8 DEF IndexWithdrawnWrites, HeadIs
  <2>2. indexing \in Nat
    BY <2>1 DEF ApiIInv
  <2>3. PICK w \in Nat, cr \in Nat : w = indexing + a /\ cr = credited + a
    BY <2>2, <1>6
  <2>4. PICK s : s = [row EXCEPT !.withdrawnAmount = w, !.lastUpdateTime = now]
    OBVIOUS
  <2>5. /\ s \in ApiRows /\ s.lastUpdateTime = now /\ s.withdrawnAmount = w /\ s.isPaused = row.isPaused
        /\ s.pausedAt = row.pausedAt
    BY <2>4, <1>3 DEF ApiRows
  <2>6. Consume(s, cr)
    BY <1>2, <1>4, <1>5, <1>8, <2>3, <2>4 DEF IndexWithdrawnWrites
  <2>7. ~raced => s.withdrawnAmount = cr
    BY <1>3, <2>1, <2>3, <2>5 DEF ApiIInv, CreditSound
  <2>8. ~(e.type \in EndTypes)
    BY <2>1 DEF EndTypes
  <2>9. ASSUME NEW v \in ChainViews, NEW x \in ChainViews, RowReflects(row, indexing, v), LeadsOn(v, Head(chainEvents), x),
               x.lut <= apiClock
        PROVE RowReflects(s, NotReading, x)
    <3>1. x.w = v.w + a /\ x.paused = v.paused /\ x.at = v.at /\ v.w \in Nat /\ x.lut \in Nat
      BY <2>1, <2>9, <1>2, <1>5 DEF LeadsOn, ChainViews
    <3>2. indexing >= v.w /\ row.isPaused = v.paused /\ (v.paused => row.pausedAt = v.at)
      BY <2>1, <2>9, <1>3 DEF RowReflects
    <3>3. s.withdrawnAmount >= x.w /\ s.lastUpdateTime >= x.lut
      BY <2>2, <2>3, <2>5, <2>9, <3>1, <3>2, <1>4
    <3>4. s # NoRow
      BY <2>5 DEF NoRow, ApiRows
    <3> QED
      BY <3>1, <3>2, <3>3, <3>4, <2>5 DEF RowReflects
  <2> QED
    BY <1>1, <1>2, <1>4, <1>6, <2>3, <2>5, <2>6, <2>7, <2>8, <2>9, ApiConsumes
<1>9. CASE IndexPaused
  <2>1. e.type = "PAUSED"
    BY <1>2, <1>9 DEF IndexPaused, HeadIs
  <2>4. PICK s : s = [row EXCEPT !.isPaused = TRUE, !.pausedAt = a, !.lastUpdateTime = now]
    OBVIOUS
  <2>5. /\ s \in ApiRows /\ s.lastUpdateTime = now /\ s.withdrawnAmount = row.withdrawnAmount /\ s.isPaused = TRUE
        /\ s.pausedAt = a
    BY <2>4, <1>3, <1>6 DEF ApiRows
  <2>6. Consume(s, credited)
    BY <1>2, <1>4, <1>5, <1>9, <2>4 DEF IndexPaused
  <2>7. ~raced => s.withdrawnAmount = credited
    BY <1>3, <2>5 DEF ApiIInv, CreditSound
  <2>8. ~(e.type \in EndTypes)
    BY <2>1 DEF EndTypes
  <2>9. ASSUME NEW v \in ChainViews, NEW x \in ChainViews, RowReflects(row, indexing, v), LeadsOn(v, Head(chainEvents), x),
               x.lut <= apiClock
        PROVE RowReflects(s, NotReading, x)
    <3>1. x.w = v.w /\ x.paused /\ x.at = a /\ x.paused \in BOOLEAN /\ v.w \in Nat /\ x.lut \in Nat
      BY <2>1, <2>9, <1>2, <1>5 DEF LeadsOn, ChainViews
    <3>2. row.withdrawnAmount >= v.w
      BY <2>9, <1>3 DEF RowReflects
    <3>3. s.withdrawnAmount >= x.w /\ s.lastUpdateTime >= x.lut
      BY <2>5, <2>9, <3>1, <3>2, <1>4, <1>7
    <3>4. s # NoRow
      BY <2>5 DEF NoRow, ApiRows
    <3>5. x.paused = TRUE
      BY <3>1
    <3> QED
      BY <3>1, <3>3, <3>4, <3>5, <2>5 DEF RowReflects
  <2> QED
    BY <1>1, <1>2, <1>4, <1>6, <2>5, <2>6, <2>7, <2>8, <2>9, ApiConsumes
<1>10. CASE IndexResumed
  <2>1. e.type = "RESUMED"
    BY <1>2, <1>10 DEF IndexResumed, HeadIs
  <2>3. PICK none \in Int : none = NoPause
    BY DEF NoPause
  <2>4. PICK s : s = [row EXCEPT !.isPaused = FALSE, !.pausedAt = none, !.lastUpdateTime = now]
    OBVIOUS
  <2>5. /\ s \in ApiRows /\ s.lastUpdateTime = now /\ s.withdrawnAmount = row.withdrawnAmount /\ s.isPaused = FALSE
    BY <2>4, <1>3, <1>6 DEF ApiRows
  <2>6. Consume(s, credited)
    BY <1>2, <1>4, <1>5, <1>10, <2>3, <2>4 DEF IndexResumed
  <2>7. ~raced => s.withdrawnAmount = credited
    BY <1>3, <2>5 DEF ApiIInv, CreditSound
  <2>8. ~(e.type \in EndTypes)
    BY <2>1 DEF EndTypes
  <2>9. ASSUME NEW v \in ChainViews, NEW x \in ChainViews, RowReflects(row, indexing, v), LeadsOn(v, Head(chainEvents), x),
               x.lut <= apiClock
        PROVE RowReflects(s, NotReading, x)
    <3>1. x.w = v.w /\ ~x.paused /\ x.paused \in BOOLEAN /\ v.w \in Nat /\ x.lut \in Nat
      BY <2>1, <2>9, <1>2, <1>5 DEF LeadsOn, ChainViews
    <3>2. row.withdrawnAmount >= v.w
      BY <2>9, <1>3 DEF RowReflects
    <3>3. s.withdrawnAmount >= x.w /\ s.lastUpdateTime >= x.lut
      BY <2>5, <2>9, <3>1, <3>2, <1>4, <1>7
    <3>4. s # NoRow
      BY <2>5 DEF NoRow, ApiRows
    <3>5. x.paused = FALSE
      BY <3>1
    <3> QED
      BY <3>1, <3>3, <3>4, <3>5, <2>5 DEF RowReflects
  <2> QED
    BY <1>1, <1>2, <1>4, <1>6, <2>5, <2>6, <2>7, <2>8, <2>9, ApiConsumes
<1>11. CASE IndexEnded
  <2>1. e.type \in {"CANCELLED", "COMPLETED"}
    BY <1>2, <1>11 DEF IndexEnded, HeadIs
  <2>4. PICK s : s = [row EXCEPT !.isActive = FALSE, !.withdrawnAmount = a, !.lastUpdateTime = now]
    OBVIOUS
  <2>5. s \in ApiRows /\ s.lastUpdateTime = now /\ s.withdrawnAmount = a /\ s.isActive = FALSE
    BY <2>4, <1>3, <1>6 DEF ApiRows
  <2>6. Consume(s, a)
    BY <1>2, <1>4, <1>5, <1>11, <2>4 DEF IndexEnded
  <2>9. ASSUME NEW v \in ChainViews, NEW x \in ChainViews, LeadsOn(v, Head(chainEvents), x)
        PROVE RowReflects(s, NotReading, x)
    BY <2>1, <2>9, <1>2 DEF LeadsOn
  <2> QED
    BY <1>1, <1>2, <1>4, <1>5, <1>6, <2>5, <2>6, <2>9, ApiConsumes
<1> QED
  BY <1>8, <1>9, <1>10, <1>11

-----------------------------------------------------------------------------
(* The steps of the handlers.  First what they have in common: a request is   *)
(* put in place of another, the cache changes, the row is written.           *)

LEMMA RequestPut ==
  ASSUME NEW rq, NEW r, RequestsFound(rq, r), NEW x \in Requests, NEW n \in ApiRequests, n.op = "withdraw" => r # NoRow
  PROVE  RequestsFound([rq EXCEPT ![x] = n], r)
<1>1. PICK e : e = [rq EXCEPT ![x] = n]
  OBVIOUS
<1>2. rq \in [Requests -> ApiRequests]
  BY DEF RequestsFound
<1>3. e \in [Requests -> ApiRequests] /\ \A y \in Requests : e[y] = IF y = x THEN n ELSE rq[y]
  BY <1>1, <1>2
<1>4. \A y \in Requests : e[y].op = "withdraw" => r # NoRow
  BY <1>3 DEF RequestsFound
<1> QED
  BY <1>1, <1>3, <1>4 DEF RequestsFound

LEMMA RequestAnswered ==
  ASSUME NEW x \in Requests, NEW st, Answer(x, st), NEW r, RequestsFound(req, r)
  PROVE  RequestsFound(req', r)
<1>1. PICK n : n = [Unsent EXCEPT !.stage = "done"]
  OBVIOUS
<1>2. n \in ApiRequests /\ n.op = "none"
  BY <1>1 DEF Unsent, ApiRequests
<1>3. req' = [req EXCEPT ![x] = n]
  BY <1>1 DEF Answer
<1> QED
  BY <1>2, <1>3, RequestPut

LEMMA ApiRowKept ==
  ASSUME ApiIInv, RequestsFound(req', row), ClaimCacheSound(claimCache', row),
         UNCHANGED <<chain, chainEvents, row, indexing, server, apiClock, credited, raced, revived>>
  PROVE  ApiIInv'
BY DEF ApiIInv

LEMMA ApiRowWritten ==
  ASSUME ApiIInv, NEW s \in ApiRows, s.lastUpdateTime <= apiClock, row' = s, claimCache' = {},
         UNCHANGED <<chain, chainEvents, indexing, server, apiClock>>,
         credited' \in Nat, raced' \in BOOLEAN, revived' \in BOOLEAN, RequestsFound(req', s),
         CreditSound(s, indexing, credited', raced'), EndSound(chain, chainEvents, s, revived'),
         \A v \in ChainViews : RowReflects(row, indexing, v) /\ v.lut <= apiClock => RowReflects(s, indexing, v)
  PROVE  ApiIInv'
<1>1. s # NoRow
  BY DEF NoRow, ApiRows
<1>2. chainEvents \in Seq(ApiEvents) /\ apiClock \in Nat
  BY ApiAssumption DEF ApiIInv, QueueSound
<1>3. QueueSound(chainEvents, s, indexing, credited')
  BY <1>1 DEF ApiIInv, QueueSound
<1>4. chain.is_active => EventsLead(chain, chainEvents, s, indexing, apiClock)
  <2>1. chain.is_active => EventsLead(chain, chainEvents, row, indexing, apiClock)
    BY DEF ApiIInv
  <2> QED
    BY <2>1, <1>2, LeadKept
<1>5. RowSound(s, apiClock) /\ ClaimCacheSound({}, s)
  BY DEF RowSound, ClaimCacheSound
<1> QED
  BY <1>3, <1>4, <1>5 DEF ApiIInv

LEMMA RememberSound ==
  ASSUME ApiIInv, row # NoRow, NEW at \in Nat
  PROVE  ClaimCacheSound(Remember(at), row)
<1>1. ClaimCacheSound(claimCache, row)
  BY DEF ApiIInv
<1>2. PICK e : e = <<cacheKeyBucket(at), claimableAmount(row, at)>>
  OBVIOUS
<1>3. \A f \in claimCache \cup {e} : \E t \in Nat : f = <<cacheKeyBucket(t), claimableAmount(row, t)>>
  BY <1>1, <1>2 DEF ClaimCacheSound
<1>4. ClaimCacheSound(claimCache \cup {e}, row)
  BY <1>3 DEF ClaimCacheSound
<1> QED
  BY <1>1, <1>2, <1>4 DEF Remember

LEMMA ServeSound ==
  ASSUME ApiIInv, row # NoRow, NEW at \in Nat
  PROVE  Serve(at) \in Nat
<1>1. row \in ApiRows
  BY DEF ApiIInv, RowSound
<1>2. claimableAmount(row, at) \in Nat
  BY <1>1, RowPromises
<1>3. ASSUME CachedAt(at) # {} PROVE (CHOOSE e \in CachedAt(at) : TRUE)[2] \in Nat
  <2>1. PICK f : f = CHOOSE e \in CachedAt(at) : TRUE
    OBVIOUS
  <2>2. f \in CachedAt(at)
    BY <1>3, <2>1
  <2>3. f \in claimCache
    BY <2>2 DEF CachedAt
  <2>4. PICK t \in Nat : f = <<cacheKeyBucket(t), claimableAmount(row, t)>>
    BY <2>3 DEF ApiIInv, ClaimCacheSound
  <2>5. f[2] = claimableAmount(row, t) /\ claimableAmount(row, t) \in Nat
    BY <2>4, <1>1, RowPromises
  <2> QED
    BY <2>1, <2>5
<1> QED
  BY <1>2, <1>3 DEF Serve

LEMMA ApiCacheSteps ==
  ASSUME ApiIInv,
         (\E at \in apiClock..MaxApiClock : QueryClaimable(at)) \/ (\E e \in claimCache : Evict(e))
  PROVE  ApiIInv'
<1>1. RequestsFound(req, row) /\ ClaimCacheSound(claimCache, row) /\ apiClock \in Nat /\ MaxApiClock \in Nat
  BY ApiAssumption DEF ApiIInv
<1>2. ASSUME NEW at \in apiClock..MaxApiClock, QueryClaimable(at) PROVE ApiIInv'
  <2>1. at \in Nat
    BY <1>1
  <2>2. row # NoRow /\ claimCache' = Remember(at) /\ req' = req
        /\ UNCHANGED <<chain, chainEvents, row, indexing, server, apiClock, credited, raced, revived>>
    BY <1>2 DEF QueryClaimable
  <2>3. ClaimCacheSound(claimCache', row)
    BY <2>1, <2>2, RememberSound
  <2>4. RequestsFound(req', row)
    BY <2>2, <1>1
  <2> QED
    BY <2>2, <2>3, <2>4, ApiRowKept
<1>3. ASSUME NEW e \in claimCache, Evict(e) PROVE ApiIInv'
  <2>2. claimCache' = claimCache \ {e} /\ req' = req
        /\ UNCHANGED <<chain, chainEvents, row, indexing, server, apiClock, credited, raced, revived>>
    BY <1>3 DEF Evict
  <2>3. ClaimCacheSound(claimCache', row)
    BY <2>2, <1>1 DEF ClaimCacheSound
  <2>4. RequestsFound(req', row)
    BY <2>2, <1>1
  <2> QED
    BY <2>2, <2>3, <2>4, ApiRowKept
<1> QED
  BY <1>2, <1>3

LEMMA ApiBegin ==
  ASSUME ApiIInv, NEW x \in Requests, NEW op \in Ops, NEW caller \in Parties, NEW valid \in BOOLEAN,
         Begin(x, op, caller, valid)
  PROVE  ApiIInv'
<1>1. RequestsFound(req, row) /\ ClaimCacheSound(claimCache, row) /\ apiClock \in Nat
  BY ApiAssumption DEF ApiIInv
<1>2. PICK st : st = IF ~valid THEN 400 ELSE Refusal(op, caller)
  OBVIOUS
<1>3. PICK a : a = IF op = "withdraw" /\ st = 0 THEN Serve(apiClock) ELSE 0
  OBVIOUS
<1>4. PICK on : on = (op = "withdraw" /\ row.isActive)
  OBVIOUS
<1>5. PICK n : n = [op |-> op, stage |-> "chain", amount |-> a, active |-> on]
  OBVIOUS
<1>6. /\ IF st # 0 THEN Answer(x, st) ELSE req' = [req EXCEPT ![x] = n]
      /\ claimCache' = IF valid /\ op = "withdraw" /\ row # NoRow /\ caller = "recipient"
                       THEN Remember(apiClock) ELSE claimCache
      /\ UNCHANGED <<chain, chainEvents, row, indexing, server, apiClock, credited, raced, revived>>
  BY <1>2, <1>3, <1>4, <1>5 DEF Begin
<1>7. ClaimCacheSound(claimCache', row)
  BY <1>1, <1>6, RememberSound
<1>8. CASE st # 0
  BY <1>1, <1>6, <1>7, <1>8, RequestAnswered, ApiRowKept
<1>9. CASE st = 0
  <2>1. op = "withdraw" => row # NoRow
    <3>1. ASSUME op = "withdraw", row = NoRow PROVE FALSE
      <4>1. Refusal(op, caller) = 404
        BY <3>1 DEF Refusal
      <4> QED
        BY <4>1, <1>2, <1>9
    <3> QED
      BY <3>1
  <2>2. a \in Nat
    BY <2>1, <1>1, <1>3, ServeSound
  <2>3. on \in BOOLEAN
    BY <1>4
  <2>4. n \in ApiRequests /\ n.op = op
    BY <2>2, <2>3, <1>5 DEF ApiRequests
  <2>5. RequestsFound([req EXCEPT ![x] = n], row)
    BY <2>1, <2>4, <1>1, RequestPut
  <2> QED
    BY <2>5, <1>6, <1>7, <1>9, ApiRowKept
<1> QED
  BY <1>8, <1>9

(* The stage of a request moves on. *)
LEMMA StageMoves ==
  ASSUME ApiIInv, NEW x \in Requests, NEW s \in {"writing", "logging"}
  PROVE  RequestsFound([req EXCEPT ![x].stage = s], row)
<1>1. RequestsFound(req, row)
  BY DEF ApiIInv
<1>2. PICK n : n = [req[x] EXCEPT !.stage = s]
  OBVIOUS
<1>3. req[x] \in ApiRequests
  BY <1>1 DEF RequestsFound
<1>4. n \in ApiRequests /\ n.op = req[x].op
  BY <1>2, <1>3 DEF ApiRequests
<1>5. n.op = "withdraw" => row # NoRow
  BY <1>1, <1>4 DEF RequestsFound
<1>6. [req EXCEPT ![x].stage = s] = [req EXCEPT ![x] = n]
  BY <1>2
<1> QED
  BY <1>1, <1>4, <1>5, <1>6, RequestPut

LEMMA ApiAnswers ==
  ASSUME ApiIInv, NEW x \in Requests,
         \/ \E matches \in BOOLEAN : ChainAnswers(x, matches)
         \/ RetriesExhausted(x) \/ WriteFails(x)
         \/ \E dbOk \in BOOLEAN : LogWithdrawal(x, dbOk)
  PROVE  ApiIInv'
<1>1. RequestsFound(req, row) /\ ClaimCacheSound(claimCache, row)
  BY DEF ApiIInv
<1>2. claimCache' = claimCache
      /\ UNCHANGED <<chain, chainEvents, row, indexing, server, apiClock, credited, raced, revived>>
  BY DEF ChainAnswers, RetriesExhausted, WriteFails, LogWithdrawal
<1>3. (\E st : Answer(x, st)) \/ req' = [req EXCEPT ![x].stage = "writing"]
  <2>1. ASSUME NEW matches \in BOOLEAN, ChainAnswers(x, matches)
        PROVE (\E st : Answer(x, st)) \/ req' = [req EXCEPT ![x].stage = "writing"]
    BY <2>1 DEF ChainAnswers
  <2>2. ASSUME NEW dbOk \in BOOLEAN, LogWithdrawal(x, dbOk) PROVE \E st : Answer(x, st)
    BY <2>2 DEF LogWithdrawal
  <2>3. CASE RetriesExhausted(x)
    BY <2>3 DEF RetriesExhausted
  <2>4. CASE WriteFails(x)
    BY <2>4 DEF WriteFails
  <2> QED
    BY <2>1, <2>2, <2>3, <2>4
<1>4. RequestsFound(req', row)
  <2>1. CASE \E st : Answer(x, st)
    BY <2>1, <1>1, RequestAnswered
  <2>2. CASE req' = [req EXCEPT ![x].stage = "writing"]
    BY <2>2, StageMoves
  <2> QED
    BY <2>1, <2>2, <1>3
<1> QED
  BY <1>1, <1>2, <1>4, ApiRowKept

LEMMA ApiRecordWithdrawal ==
  ASSUME ApiIInv, NEW x \in Requests, RecordWithdrawal(x)
  PROVE  ApiIInv'
<1>1. RequestsFound(req, row)
  BY DEF ApiIInv
<1>2. req[x] \in ApiRequests /\ req[x].op = "withdraw" /\ row # NoRow
  BY <1>1 DEF RequestsFound, RecordWithdrawal
<1>3. PICK a \in Nat : a = req[x].amount
  BY <1>2 DEF ApiRequests
<1>4. row \in ApiRows
  BY <1>2 DEF ApiIInv, RowSound
<1>5. row.withdrawnAmount \in Nat /\ row.depositedAmount = StreamDeposit /\ row.isActive \in BOOLEAN
      /\ credited \in Nat /\ raced \in BOOLEAN /\ revived \in BOOLEAN
  BY <1>4 DEF ApiRows, ApiIInv
<1>6. PICK now \in Nat : now = apiClock
  BY ApiAssumption DEF ApiIInv
<1>7. PICK w \in Nat : w = row.withdrawnAmount + a
  BY <1>5
<1>8. PICK on : on = (row.isActive /\ ~(req[x].active /\ w >= row.depositedAmount))
  OBVIOUS
<1>9. on \in BOOLEAN /\ (on => row.isActive)
  BY <1>5, <1>8
<1>10. PICK s : s = [row EXCEPT !.withdrawnAmount = w, !.lastUpdateTime = now, !.isActive = on]
  OBVIOUS
<1>11. /\ s \in ApiRows /\ s.withdrawnAmount = w /\ s.lastUpdateTime = now /\ s.isActive = on
       /\ s.isPaused = row.isPaused /\ s.pausedAt = row.pausedAt
  BY <1>4, <1>9, <1>10 DEF ApiRows
<1>12. /\ row' = s /\ credited' = credited + a /\ raced' = (raced \/ indexing # NotReading) /\ claimCache' = {}
       /\ req' = [req EXCEPT ![x].stage = "logging"]
       /\ UNCHANGED <<chain, chainEvents, indexing, server, apiClock, revived>>
  BY <1>3, <1>6, <1>7, <1>8, <1>10 DEF RecordWithdrawal, WithdrawnRow
<1>13. s # NoRow
  BY <1>11 DEF NoRow, ApiRows
<1>14. RequestsFound(req', s)
  <2>1. RequestsFound(req', row)
    BY <1>12, StageMoves
  <2> QED
    BY <2>1, <1>13 DEF RequestsFound
<1>15. credited' \in Nat /\ raced' \in BOOLEAN /\ revived' \in BOOLEAN
  BY <1>3, <1>5, <1>12
<1>16. CreditSound(s, indexing, credited', raced')
  <2> SUFFICES ASSUME ~raced' PROVE s.withdrawnAmount = credited' /\ indexing = NotReading
    BY DEF CreditSound
  <2>1. ~raced /\ indexing = NotReading
    BY <1>12
  <2>2. row.withdrawnAmount = credited
    BY <2>1, <1>2 DEF ApiIInv, CreditSound
  <2> QED
    BY <2>1, <2>2, <1>7, <1>11, <1>12
<1>17. EndSound(chain, chainEvents, s, revived')
  <2>1. EndSound(chain, chainEvents, row, revived)
    BY DEF ApiIInv
  <2> QED
    BY <2>1, <1>9, <1>11, <1>12 DEF EndSound
<1>18. ASSUME NEW v \in ChainViews, RowReflects(row, indexing, v), v.lut <= apiClock
       PROVE  RowReflects(s, indexing, v)
  <2>1. v.w \in Nat /\ v.lut \in Nat
    BY DEF ChainViews
  <2>2. row.withdrawnAmount >= v.w /\ row.isPaused = v.paused /\ (v.paused => row.pausedAt = v.at)
        /\ (indexing # NotReading => indexing >= v.w)
    BY <1>2, <1>18 DEF RowReflects
  <2>3. s.withdrawnAmount >= v.w /\ s.lastUpdateTime >= v.lut
    BY <2>1, <2>2, <1>5, <1>6, <1>7, <1>11, <1>18
  <2> QED
    BY <2>2, <2>3, <1>11, <1>13 DEF RowReflects
<1>19. s.lastUpdateTime <= apiClock
  BY <1>6, <1>11
<1> QED
  BY <1>11, <1>12, <1>14, <1>15, <1>16, <1>17, <1>18, <1>19, ApiRowWritten

LEMMA ApiUpsertStream ==
  ASSUME ApiIInv, NEW x \in Requests, UpsertStream(x)
  PROVE  ApiIInv'
<1>1. /\ row' = Upserted /\ claimCache' = {} /\ revived' = (revived \/ ~chain.is_active) /\ Answer(x, 201)
      /\ UNCHANGED <<chain, chainEvents, indexing, server, apiClock, credited, raced>>
  BY DEF UpsertStream
<1>2. RequestsFound(req', row)
  BY <1>1, RequestAnswered DEF ApiIInv
<1>3. credited \in Nat /\ raced \in BOOLEAN /\ revived' \in BOOLEAN
  BY <1>1 DEF ApiIInv
<1>4. PICK now \in Nat : now = apiClock
  BY ApiAssumption DEF ApiIInv
<1>5. ASSUME NEW s \in ApiRows PROVE EndSound(chain, chainEvents, s, revived') /\ RequestsFound(req', s)
  <2>1. EndSound(chain, chainEvents, s, revived')
    BY <1>1 DEF EndSound, ApiIInv
  <2>2. s # NoRow
    BY DEF NoRow, ApiRows
  <2> QED
    BY <2>1, <2>2, <1>2 DEF RequestsFound
<1>6. CASE row = NoRow
  <2>1. chain.deposited_amount = StreamDeposit /\ StreamDeposit \in Nat
    BY ApiAssumption DEF ApiIInv, ChainSound, ChainRecords
  <2>2. PICK s : s = RowOf(chain)
    OBVIOUS
  <2>3. /\ s \in ApiRows /\ s.lastUpdateTime = 0 /\ s.withdrawnAmount = 0 /\ s.isPaused = FALSE
    BY <2>1, <2>2 DEF RowOf, ApiRows, NoPause
  <2>4. row' = s /\ credited = 0 /\ indexing = NotReading
    BY <1>1, <1>6, <2>2 DEF Upserted, ApiIInv, QueueSound
  <2>5. CreditSound(s, indexing, credited', raced')
    BY <1>1, <2>3, <2>4 DEF CreditSound
  <2>6. ASSUME NEW v \in ChainViews, RowReflects(row, indexing, v) PROVE RowReflects(s, indexing, v)
    <3>1. v = FirstView
      BY <2>6, <1>6 DEF RowReflects
    <3>2. v.w = 0 /\ v.lut = 0 /\ v.paused = FALSE
      BY <3>1 DEF FirstView
    <3>3. s.withdrawnAmount >= v.w /\ s.lastUpdateTime >= v.lut
      BY <3>2, <2>3
    <3> QED
      BY <3>1, <3>2, <3>3, <2>3, <2>4 DEF RowReflects
  <2>7. s.lastUpdateTime <= apiClock /\ credited' \in Nat /\ raced' \in BOOLEAN
    BY <2>3, <1>1, <1>3, <1>4
  <2> QED
    BY <1>1, <1>3, <1>5, <2>3, <2>4, <2>5, <2>6, <2>7, ApiRowWritten
<1>7. CASE row # NoRow
  <2>1. row \in ApiRows
    BY <1>7 DEF ApiIInv, RowSound
  <2>2. PICK s : s = [row EXCEPT !.isActive = TRUE, !.lastUpdateTime = now]
    OBVIOUS
  <2>3. /\ s \in ApiRows /\ s.lastUpdateTime = now /\ s.withdrawnAmount = row.withdrawnAmount
        /\ s.isPaused = row.isPaused /\ s.pausedAt = row.pausedAt
    BY <2>1, <2>2 DEF ApiRows
  <2>4. row' = s
    BY <1>1, <1>4, <1>7, <2>2 DEF Upserted
  <2>5. CreditSound(s, indexing, credited', raced')
    BY <1>1, <1>7, <2>3 DEF CreditSound, ApiIInv
  <2>6. ASSUME NEW v \in ChainViews, RowReflects(row, indexing, v), v.lut <= apiClock
        PROVE  RowReflects(s, indexing, v)
    <3>1. v.lut \in Nat
      BY DEF ChainViews
    <3>2. s.lastUpdateTime >= v.lut
      BY <3>1, <2>3, <2>6, <1>4
    <3>3. s # NoRow
      BY <2>3 DEF NoRow, ApiRows
    <3> QED
      BY <3>2, <3>3, <2>3, <2>6, <1>7 DEF RowReflects
  <2>7. s.lastUpdateTime <= apiClock /\ credited' \in Nat /\ raced' \in BOOLEAN
    BY <2>3, <1>1, <1>3, <1>4
  <2> QED
    BY <1>1, <1>3, <1>5, <2>3, <2>4, <2>5, <2>6, <2>7, ApiRowWritten
<1> QED
  BY <1>6, <1>7

LEMMA ApiTicks ==
  ASSUME ApiIInv, ApiTick PROVE ApiIInv'
<1>1. PICK now \in Nat : now = apiClock
  BY ApiAssumption DEF ApiIInv
<1>2. /\ apiClock' = now + 1 /\ apiClock < MaxApiClock /\ MaxApiClock \in Nat
      /\ UNCHANGED <<chain, chainEvents, row, indexing, server, req, claimCache, credited, raced, revived>>
  BY <1>1, ApiAssumption DEF ApiTick
<1>3. now + 1 \in 0..MaxApiClock
  BY <1>1, <1>2
<1>4. ChainSound(chain, now + 1)
  <2>1. ChainSound(chain, now) /\ chain.last_update_time \in Nat
    BY <1>1 DEF ApiIInv, ChainSound, ChainRecords
  <2> QED
    BY <2>1 DEF ChainSound
<1>5. RowSound(row, now + 1)
  <2>1. RowSound(row, now)
    BY <1>1 DEF ApiIInv
  <2>2. CASE row \in ApiRows /\ row.lastUpdateTime <= now
    <3>1. row.lastUpdateTime \in Nat
      BY <2>2 DEF ApiRows
    <3>2. row.lastUpdateTime <= now + 1
      BY <2>2, <3>1
    <3> QED
      BY <2>2, <3>2 DEF RowSound
  <2> QED
    BY <2>1, <2>2 DEF RowSound
<1>6. chain.is_active => EventsLead(chain, chainEvents, row, indexing, now + 1)
  <2>1. chain.is_active => EventsLead(chain, chainEvents, row, indexing, now)
    BY <1>1 DEF ApiIInv
  <2>2. chainEvents \in Seq(ApiEvents)
    BY DEF ApiIInv, QueueSound
  <2> QED
    BY <2>1, <2>2, LeadLater
<1> QED
  BY <1>2, <1>3, <1>4, <1>5, <1>6 DEF ApiIInv

LEMMA ApiStart == ApiInit => ApiIInv
<1> SUFFICES ASSUME ApiInit PROVE ApiIInv
  OBVIOUS
<1>1. StreamDeposit \in Nat /\ MaxApiClock \in Nat
  BY ApiAssumption
<1>2. PICK none \in Int : none = Contract!NONE
  BY DEF Contract!NONE
<1>3. /\ chain = [rate_per_second |-> 1, deposited_amount |-> StreamDeposit, withdrawn_amount |-> 0,
                  last_update_time |-> 0, paused |-> FALSE, paused_at |-> none,
                  is_active |-> TRUE, schedule |-> [kind |-> "Linear"]]
      /\ row = NoRow /\ indexing = NotReading /\ server \in BOOLEAN /\ req = [r \in Requests |-> Unsent]
      /\ claimCache = {} /\ apiClock = 0 /\ credited = 0 /\ raced = FALSE /\ revived = FALSE
  BY <1>2 DEF ApiInit
<1>4. PICK e \in ApiEvents : e = [type |-> "CREATED", amount |-> StreamDeposit] /\ e.type = "CREATED" /\ e.amount = StreamDeposit
  BY <1>1, EventMade
<1>5. chainEvents = <<e>>
  BY <1>4 DEF ApiInit
<1>6. chainEvents \in Seq(ApiEvents) /\ Len(chainEvents) = 1 /\ chainEvents[1] = e /\ DOMAIN chainEvents = {1} /\ chainEvents # <<>>
  BY <1>4, <1>5
<1>7. /\ chain \in ChainRecords /\ chain.withdrawn_amount = 0 /\ chain.last_update_time = 0 /\ chain.paused = FALSE
      /\ chain.paused_at = none /\ chain.is_active = TRUE
  BY <1>1, <1>2, <1>3 DEF ChainRecords
<1>8. ChainSound(chain, apiClock) /\ RowSound(row, apiClock)
  BY <1>3, <1>7 DEF ChainSound, RowSound
<1>9. QueueSound(chainEvents, row, indexing, credited)
  BY <1>3, <1>4, <1>6 DEF QueueSound
<1>10. RequestsFound(req, row)
  <2>1. Unsent \in ApiRequests /\ Unsent.op = "none"
    BY DEF Unsent, ApiRequests
  <2>2. req \in [Requests -> ApiRequests] /\ \A x \in Requests : req[x] = Unsent
    BY <2>1, <1>3
  <2> QED
    BY <2>1, <2>2 DEF RequestsFound
<1>11. CreditSound(row, indexing, credited, raced) /\ EndSound(chain, chainEvents, row, revived) /\ ClaimCacheSound(claimCache, row)
  BY <1>3, <1>7 DEF CreditSound, EndSound, ClaimCacheSound
<1>12. EventsLead(chain, chainEvents, row, indexing, apiClock)
  <2>1. PICK f : f = FirstView
    OBVIOUS
  <2>2. f \in ChainViews /\ f = ViewOf(chain) /\ f.lut = 0
    BY <2>1, <1>2, <1>7 DEF FirstView, ChainViews, ViewOf
  <2>3. PICK v : v = <<f, f>>
    OBVIOUS
  <2>4. v \in Seq(ChainViews) /\ Len(v) = 2 /\ v[1] = f /\ v[2] = f
    BY <2>2, <2>3
  <2>5. RowReflects(row, indexing, v[1])
    BY <2>1, <2>4, <1>3 DEF RowReflects
  <2>6. LeadsOn(f, e, f)
    BY <2>1, <1>4 DEF LeadsOn
  <2>7. \A k \in 1..Len(chainEvents) : LeadsOn(v[k], chainEvents[k], v[k + 1])
    <3>1. \A k \in 1..1 : k = 1
      OBVIOUS
    <3> QED
      BY <3>1, <2>4, <2>6, <1>6
  <2>8. \A k \in 1..Len(chainEvents) + 1 : v[k].lut <= apiClock
    <3>1. \A k \in 1..2 : k = 1 \/ k = 2
      OBVIOUS
    <3> QED
      BY <3>1, <2>2, <2>4, <1>3, <1>6
  <2> QED
    BY <2>2, <2>4, <2>5, <2>7, <2>8, <1>6 DEF EventsLead
<1>13. apiClock \in 0..MaxApiClock /\ credited \in Nat /\ indexing \in {NotReading} \cup Nat
  BY <1>1, <1>3
<1>14. server \in BOOLEAN /\ raced \in BOOLEAN /\ revived \in BOOLEAN
  BY <1>3
<1> QED
  BY <1>8, <1>9, <1>10, <1>11, <1>12, <1>13, <1>14 DEF ApiIInv

LEMMA ApiStep == ApiIInv /\ [ApiNext]_apiVars => ApiIInv'
<1> SUFFICES ASSUME ApiIInv, [ApiNext]_apiVars PROVE ApiIInv'
  OBVIOUS
<1>1. CASE UNCHANGED apiVars
  BY <1>1 DEF apiVars, ApiIInv
<1>2. CASE WalletWithdraws \/ WalletPauses \/ WalletResumes \/ WalletCancels
  BY <1>2, ApiWalletSteps
<1>3. CASE IndexCreated
  BY <1>3, ApiIndexCreated
<1>4. CASE IndexWithdrawnReads
  BY <1>4, ApiIndexWithdrawnReads
<1>5. CASE IndexWithdrawnWrites \/ IndexPaused \/ IndexResumed \/ IndexEnded
  BY <1>5, ApiIndexOthers
<1>6. CASE (\E at \in apiClock..MaxApiClock : QueryClaimable(at)) \/ (\E e \in claimCache : Evict(e))
  BY <1>6, ApiCacheSteps
<1>7. ASSUME NEW r \in Requests,
             \/ \E op \in Ops, caller \in Parties, valid \in BOOLEAN : Begin(r, op, caller, valid)
             \/ \E matches \in BOOLEAN : ChainAnswers(r, matches)
             \/ RetriesExhausted(r) \/ RecordWithdrawal(r) \/ UpsertStream(r) \/ WriteFails(r)
             \/ \E dbOk \in BOOLEAN : LogWithdrawal(r, dbOk)
      PROVE  ApiIInv'
  <2>1. ASSUME NEW op \in Ops, NEW caller \in Parties, NEW valid \in BOOLEAN, Begin(r, op, caller, valid)
        PROVE  ApiIInv'
    BY <2>1, ApiBegin
  <2>2. CASE \/ \E matches \in BOOLEAN : ChainAnswers(r, matches)
             \/ RetriesExhausted(r) \/ WriteFails(r)
             \/ \E dbOk \in BOOLEAN : LogWithdrawal(r, dbOk)
    BY <2>2, ApiAnswers
  <2>3. CASE RecordWithdrawal(r)
    BY <2>3, ApiRecordWithdrawal
  <2>4. CASE UpsertStream(r)
    BY <2>4, ApiUpsertStream
  <2> QED
    BY <1>7, <2>1, <2>2, <2>3, <2>4
<1>8. CASE ApiTick
  BY <1>8, ApiTicks
<1> QED
  BY <1>1, <1>2, <1>3, <1>4, <1>5, <1>6, <1>7, <1>8 DEF ApiNext

(* Whatever requests, wallets and the indexer do at the same time, and however *)
(* far the clock has moved: with every event indexed the backend promises the  *)
(* recipient no more than the contract would pay, be the amount fresh or       *)
(* cached (claimable.service.ts:114, withdraw.ts:96).                         *)
THEOREM ApiKeepsItsPromise == ApiSpec => []ApiPromiseKept
<1>1. ApiInit => ApiIInv
  BY ApiStart
<1>2. ApiIInv /\ [ApiNext]_apiVars => ApiIInv'
  BY ApiStep
<1>3. ApiIInv => ApiPromiseKept
  BY ApiHolds
<1> QED
  BY <1>1, <1>2, <1>3, PTL DEF ApiSpec

(* For every number of overlapping requests, withdrawnAmount is the sum of the *)
(* credits unless the indexer's read and write straddled one                  *)
(* (soroban-event-worker.ts:922), and the row of an ended stream is off unless *)
(* createStream turned it on (stream.controller.ts:164).                      *)
THEOREM ApiRowsAlwaysAgree == ApiSpec => []ApiRowsAgree
<1>1. ApiInit => ApiIInv
  BY ApiStart
<1>2. ApiIInv /\ [ApiNext]_apiVars => ApiIInv'
  BY ApiStep
<1>3. ApiIInv => ApiRowsAgree
  BY ApiHolds
<1> QED
  BY <1>1, <1>2, <1>3, PTL DEF ApiSpec

-----------------------------------------------------------------------------
(* Registration: one answer of 201, and a user behind every answer that says  *)
(* there is one.                                                             *)
RegisterSound(reg, user) ==
  /\ reg \in [Registrations -> {"idle", "creating", "200", "201", "400", "409", "500"}] /\ user \in BOOLEAN
  /\ \A r, s \in Registrations : reg[r] = "201" /\ reg[s] = "201" => r = s
  /\ \A r \in Registrations : reg[r] \in {"200", "201", "409"} => user

LEMMA RegisterHolds ==
  RegisterSound(registration, userRow) => RegisteredOnce
<1> SUFFICES ASSUME RegisterSound(registration, userRow) PROVE RegisteredOnce
  OBVIOUS
<1>1. PICK R : R = {r \in Registrations : registration[r] = "201"}
  OBVIOUS
<1>2. Cardinality(R) <= 1
  <2>1. CASE R = {}
    <3>1. Cardinality(R) = 0
      BY <2>1, FS_EmptySet
    <3> QED
      BY <3>1
  <2>2. CASE R # {}
    <3>1. PICK r : r \in R
      BY <2>2
    <3>2. R = {r}
      BY <1>1, <3>1 DEF RegisterSound
    <3>3. Cardinality(R) = 1
      BY <3>2, FS_Singleton
    <3> QED
      BY <3>3
  <2> QED
    BY <2>1, <2>2
<1> QED
  BY <1>1, <1>2 DEF RegisteredOnce, RegisterSound

(* One registration moves on. *)
LEMMA RegisterMoves ==
  ASSUME RegisterSound(registration, userRow), NEW r \in Registrations,
         NEW st \in {"idle", "creating", "200", "201", "400", "409", "500"}, NEW u \in BOOLEAN,
         userRow => u, st \in {"200", "201", "409"} => u, st = "201" => ~userRow
  PROVE  RegisterSound([registration EXCEPT ![r] = st], u)
<1>1. PICK e : e = [registration EXCEPT ![r] = st]
  OBVIOUS
<1>2. e \in [Registrations -> {"idle", "creating", "200", "201", "400", "409", "500"}]
      /\ \A s \in Registrations : e[s] = IF s = r THEN st ELSE registration[s]
  BY <1>1 DEF RegisterSound
<1>3. ASSUME NEW s \in Registrations, NEW t \in Registrations, e[s] = "201", e[t] = "201" PROVE s = t
  <2>1. CASE st = "201"
    <3>1. \A x \in Registrations : registration[x] # "201"
      BY <2>1 DEF RegisterSound
    <3> QED
      BY <3>1, <1>2, <1>3
  <2>2. CASE st # "201"
    BY <2>2, <1>2, <1>3 DEF RegisterSound
  <2> QED
    BY <2>1, <2>2
<1>4. \A s \in Registrations : e[s] \in {"200", "201", "409"} => u
  BY <1>2 DEF RegisterSound
<1> QED
  BY <1>1, <1>2, <1>3, <1>4 DEF RegisterSound

LEMMA RegisterStep ==
  ASSUME RegisterSound(registration, userRow), [AccountsNext]_accountVars
  PROVE  RegisterSound(registration', userRow')
<1>0. userRow \in BOOLEAN
  BY DEF RegisterSound
<1>1. ASSUME NEW r \in Registrations, RegisterFind(r) PROVE RegisterSound(registration', userRow')
  <2>1. userRow' = userRow
    BY <1>1 DEF RegisterFind
  <2>2. PICK st : /\ registration' = [registration EXCEPT ![r] = st]
                  /\ (st = IF userRow THEN "200" ELSE "creating") \/ st \in {"400", "500"}
    BY <1>1 DEF RegisterFind, ErrorStatus
  <2>3. /\ st \in {"idle", "creating", "200", "201", "400", "409", "500"} /\ st # "201"
        /\ st \in {"200", "201", "409"} => userRow
    BY <2>2
  <2> QED
    BY <1>0, <2>1, <2>2, <2>3, RegisterMoves
<1>2. ASSUME NEW r \in Registrations, RegisterCreate(r) PROVE RegisterSound(registration', userRow')
  <2>1. PICK u \in BOOLEAN : u = TRUE
    OBVIOUS
  <2>2. PICK st : st = IF userRow THEN "409" ELSE "201"
    OBVIOUS
  <2>3. registration' = [registration EXCEPT ![r] = st] /\ userRow' = u
    BY <1>2, <2>1, <2>2 DEF RegisterCreate, ErrorStatus
  <2>4. /\ st \in {"idle", "creating", "200", "201", "400", "409", "500"} /\ (st = "201" => ~userRow) /\ u
    BY <2>1, <2>2
  <2> QED
    BY <2>1, <2>3, <2>4, RegisterMoves
<1>3. CASE UserUpserted
  BY <1>3 DEF UserUpserted, RegisterSound
<1>4. CASE UNCHANGED <<userRow, registration>>
  BY <1>4
<1> QED
  BY <1>1, <1>2, <1>3, <1>4 DEF AccountsNext, accountVars, ExportBegins, ExportBatch, ExportFails, StreamCreated

-----------------------------------------------------------------------------
(* The export.  A row that shares its createdAt with no other is written once *)
(* the cursor has reached its createdAt, and not before.                     *)
Solo == {i \in EarlyRows : \A j \in ExportIds \ {i} : CreatedAt[j] # CreatedAt[i]}
Reached(cur, i) == cur # NoCursor /\ CreatedAt[i] <= CreatedAt[cur]
WrittenOnce(w, i) == \E n \in DOMAIN w : \A m \in DOMAIN w : w[m] = i <=> m = n
NotWritten(w, i) == \A m \in DOMAIN w : w[m] # i

ExportSound(rows, ph, cur, w) ==
  /\ EarlyRows \subseteq rows /\ rows \subseteq ExportIds
  /\ ph \in {"idle", "batching", "ended", "hung", "400"}
  /\ cur \in rows \cup {NoCursor} /\ w \in Seq(ExportIds)
  /\ \A i \in Solo : IF Reached(cur, i) THEN WrittenOnce(w, i) ELSE NotWritten(w, i)
  /\ ph = "ended" => \A i \in Solo : Reached(cur, i)

LEMMA ExportHolds ==
  ExportSound(streamRows, exportPhase, exportCursor, written) => ExportExactlyOnce
<1> SUFFICES ASSUME ExportSound(streamRows, exportPhase, exportCursor, written), exportPhase = "ended",
                    NEW i \in EarlyRows, \A j \in ExportIds \ {i} : CreatedAt[j] # CreatedAt[i]
             PROVE  Cardinality({n \in DOMAIN written : written[n] = i}) = 1
  BY DEF ExportExactlyOnce
<1>1. WrittenOnce(written, i)
  BY DEF ExportSound, Solo
<1>2. PICK n \in DOMAIN written : \A m \in DOMAIN written : written[m] = i <=> m = n
  BY <1>1 DEF WrittenOnce
<1>3. {m \in DOMAIN written : written[m] = i} = {n}
  BY <1>2
<1> QED
  BY <1>3, FS_Singleton

(* An order of a finite set has each of its elements at one position. *)
LEMMA OrderCovers ==
  ASSUME NEW S, IsFiniteSet(S), NEW order \in SetToSeqs(S)
  PROVE  /\ order \in Seq(S) /\ Len(order) = Cardinality(S) /\ Cardinality(S) \in Nat
         /\ \A j, k \in 1..Cardinality(S) : order[j] = order[k] => j = k
         /\ \A x \in S : \E p \in 1..Cardinality(S) : order[p] = x
<1>1. PICK n \in Nat : n = Cardinality(S)
  BY FS_CardinalityType
<1>2. order \in [1..n -> S] /\ \A j, k \in 1..n : j # k => order[j] # order[k]
  BY <1>1 DEF SetToSeqs
<1>3. order \in Seq(S) /\ Len(order) = n
  BY <1>2
<1>4. ASSUME NEW x \in S, \A p \in 1..n : order[p] # x PROVE FALSE
  <2>1. PICK T : T = S \ {x}
    OBVIOUS
  <2>2. IsFiniteSet(T) /\ Cardinality(T) = n - 1
    BY <2>1, <1>1, FS_RemoveElement
  <2>3. order \in [1..n -> T]
    BY <2>1, <1>2, <1>4
  <2>4. PICK one \in Int : one = 1
    OBVIOUS
  <2>5. n >= 1
    BY <1>1, FS_EmptySet
  <2>6. IsFiniteSet(one..n) /\ Cardinality(one..n) = n
    BY <2>4, <2>5, FS_Interval
  <2>7. Cardinality(T) < Cardinality(1..n)
    BY <2>2, <2>4, <2>6
  <2>8. \E j, k \in 1..n : j # k /\ order[j] = order[k]
    BY <2>2, <2>3, <2>4, <2>6, <2>7, FS_PigeonHole
  <2> QED
    BY <2>8, <1>2
<1> QED
  BY <1>1, <1>2, <1>3, <1>4

(* What follows what was written. *)
LEMMA WrittenOnceMore ==
  ASSUME NEW w \in Seq(ExportIds), NEW page \in Seq(ExportIds), NEW i
  PROVE  /\ NotWritten(w, i) /\ NotWritten(page, i) => NotWritten(w \o page, i)
         /\ WrittenOnce(w, i) /\ NotWritten(page, i) => WrittenOnce(w \o page, i)
         /\ NotWritten(w, i) /\ WrittenOnce(page, i) => WrittenOnce(w \o page, i)
<1>1. PICK n \in Nat, m \in Nat : n = Len(w) /\ m = Len(page)
  BY LenProperties
<1>2. PICK y : y = w \o page
  OBVIOUS
<1>3. DOMAIN w = 1..n /\ DOMAIN page = 1..m
  BY <1>1, LenProperties
<1>4. DOMAIN y = 1..n + m /\ \A k \in 1..n + m : y[k] = IF k <= n THEN w[k] ELSE page[k - n]
  BY <1>1, <1>2, ConcatProperties, LenProperties
<1>5. \A k \in 1..n + m : (k \in 1..n /\ y[k] = w[k]) \/ (k - n \in 1..m /\ y[k] = page[k - n])
  BY <1>4
<1>6. \A k \in 1..n : k \in 1..n + m /\ y[k] = w[k]
  BY <1>4
<1>7. \A k \in 1..m : k + n \in 1..n + m /\ y[k + n] = page[k] /\ (k + n) \notin 1..n
  <2> SUFFICES ASSUME NEW k \in 1..m PROVE k + n \in 1..n + m /\ y[k + n] = page[k] /\ (k + n) \notin 1..n
    OBVIOUS
  <2>1. k + n \in 1..n + m /\ ~(k + n <= n) /\ (k + n) - n = k
    OBVIOUS
  <2> QED
    BY <2>1, <1>4
<1>8. NotWritten(w, i) /\ NotWritten(page, i) => NotWritten(y, i)
  BY <1>3, <1>4, <1>5 DEF NotWritten
<1>9. ASSUME WrittenOnce(w, i), NotWritten(page, i) PROVE WrittenOnce(y, i)
  <2>0. PICK k \in DOMAIN w : \A j \in DOMAIN w : w[j] = i <=> j = k
    BY <1>9 DEF WrittenOnce
  <2>1. k \in 1..n /\ \A j \in 1..n : w[j] = i <=> j = k
    BY <1>3, <2>0
  <2>2. k \in 1..n + m
    BY <1>6, <2>1
  <2>3. ASSUME NEW j \in 1..n + m PROVE y[j] = i <=> j = k
    BY <1>3, <1>5, <1>6, <1>9, <2>1 DEF NotWritten
  <2> QED
    BY <2>2, <2>3, <1>4 DEF WrittenOnce
<1>10. ASSUME NotWritten(w, i), WrittenOnce(page, i) PROVE WrittenOnce(y, i)
  <2>0. PICK k \in DOMAIN page : \A j \in DOMAIN page : page[j] = i <=> j = k
    BY <1>10 DEF WrittenOnce
  <2>1. k \in 1..m /\ \A j \in 1..m : page[j] = i <=> j = k
    BY <1>3, <2>0
  <2>2. k + n \in 1..n + m /\ y[k + n] = i
    BY <1>7, <2>1
  <2>3. ASSUME NEW j \in 1..n + m, y[j] = i PROVE j = k + n
    <3>1. ~(j \in 1..n /\ y[j] = w[j])
      BY <1>3, <1>10, <2>3 DEF NotWritten
    <3>2. j - n \in 1..m /\ page[j - n] = i
      BY <3>1, <2>3, <1>5
    <3>3. j - n = k
      BY <3>2, <2>1
    <3> QED
      BY <3>3
  <2> QED
    BY <2>2, <2>3, <1>4 DEF WrittenOnce
<1> QED
  BY <1>2, <1>8, <1>9, <1>10

(* One batch. *)
LEMMA ExportBatchSound ==
  ASSUME ExportSound(streamRows, exportPhase, exportCursor, written), ExportBatch
  PROVE  ExportSound(streamRows', exportPhase', exportCursor', written')
<1>1. PICK order \in Sorted(Onward) :
        /\ written' = written \o Page(order)
        /\ exportCursor' = IF Page(order) = <<>> THEN exportCursor ELSE Last(Page(order))
        /\ exportPhase' = IF Len(Page(order)) < BATCH_SIZE THEN "ended" ELSE "batching"
  BY DEF ExportBatch
<1>2. streamRows' = streamRows
  BY DEF ExportBatch
<1>3. PICK S \in SUBSET ExportIds : S = Onward
  BY DEF Onward, ExportSound
<1>4. PICK n \in Nat : n = Cardinality(S) /\ IsFiniteSet(S)
  BY AccountsAssumption, FS_Subset, FS_CardinalityType
<1>5. /\ order \in Seq(S) /\ Len(order) = n
      /\ \A j, k \in 1..n : order[j] = order[k] => j = k
      /\ \A x \in S : \E p \in 1..n : order[p] = x
  <2>1. order \in SetToSeqs(S)
    BY <1>3 DEF Sorted
  <2> QED
    BY <2>1, <1>4, OrderCovers
<1>6. DOMAIN order = 1..n /\ \A k \in 1..n : order[k] \in S
  BY <1>5, LenProperties, ElementOfSeq
<1>7. \A j, k \in 1..n : j <= k => CreatedAt[order[j]] <= CreatedAt[order[k]]
  <2>1. \A j, k \in 1..n : j < k => CreatedAt[order[j]] <= CreatedAt[order[k]]
    BY <1>6 DEF Sorted
  <2>2. \A k \in 1..n : CreatedAt[order[k]] \in Nat
    BY <1>6, AccountsAssumption
  <2> QED
    BY <2>1, <2>2
<1>8. \A i \in ExportIds : CreatedAt[i] \in Nat
  BY AccountsAssumption
<1>9. PICK skip \in Nat : skip = IF exportCursor = NoCursor THEN 0 ELSE 1
  OBVIOUS
<1>10. skip <= n
  <2>1. CASE exportCursor # NoCursor
    <3>1. exportCursor \in S
      BY <2>1, <1>3, <1>8 DEF ExportSound, Onward
    <3>2. n # 0
      BY <3>1, <1>4, FS_EmptySet
    <3> QED
      BY <3>2, <1>9
  <2> QED
    BY <2>1, <1>9
<1>11. BATCH_SIZE \in Nat /\ BATCH_SIZE > 0
  BY AccountsAssumption
<1>12. PICK hi \in Nat : /\ hi = IF n <= skip + BATCH_SIZE THEN n ELSE skip + BATCH_SIZE
                         /\ Min({n, skip + BATCH_SIZE}) = hi
  <2>1. PICK b \in Nat : b = skip + BATCH_SIZE
    BY <1>11
  <2>2. PICK h \in Nat : h = IF n <= b THEN n ELSE b
    OBVIOUS
  <2>3. h \in {n, b} /\ \A y \in {n, b} : h <= y
    BY <2>2
  <2>4. PICK g : g = Min({n, b})
    OBVIOUS
  <2>5. g \in {n, b} /\ \A y \in {n, b} : g <= y
    BY <2>3, <2>4 DEF Min
  <2>6. g = h
    BY <2>3, <2>5
  <2> QED
    BY <2>1, <2>2, <2>4, <2>6
<1>13. skip <= hi /\ hi <= n /\ (hi - skip < BATCH_SIZE => hi = n)
  BY <1>10, <1>11, <1>12
<1>14. PICK page : page = Page(order)
  OBVIOUS
<1>15. /\ page \in Seq(S) /\ Len(page) = hi - skip
       /\ \A k \in 1..hi - skip : page[k] = order[skip + k]
  <2>1. PICK lo \in Int : lo = skip + 1
    OBVIOUS
  <2>2. page = SubSeq(order, lo, hi)
    BY <2>1, <1>5, <1>9, <1>12, <1>14 DEF Page, Taken
  <2>3. \A k \in lo..hi : order[k] \in S
    <3>1. \A k \in lo..hi : k \in 1..n
      BY <2>1, <1>13
    <3> QED
      BY <3>1, <1>6
  <2>4. hi \in Int
    OBVIOUS
  <2>5. /\ page \in Seq(S) /\ Len(page) = (IF lo <= hi THEN hi - lo + 1 ELSE 0)
        /\ \A k \in 1..hi - lo + 1 : page[k] = order[lo + k - 1]
    BY <2>2, <2>3, <2>4, SubSeqProperties
  <2>6. (IF lo <= hi THEN hi - lo + 1 ELSE 0) = hi - skip /\ hi - lo + 1 = hi - skip
    BY <2>1, <1>13
  <2>7. \A k \in 1..hi - skip : lo + k - 1 = skip + k
    BY <2>1
  <2> QED
    BY <2>5, <2>6, <2>7
<1>16. PICK m \in Nat : m = hi - skip
  BY <1>13
<1>17. DOMAIN page = 1..m /\ page \in Seq(ExportIds)
  <2>1. DOMAIN page = 1..m
    BY <1>15, <1>16, LenProperties
  <2>2. \A k \in 1..m : page[k] \in ExportIds
    BY <1>15, <1>16, ElementOfSeq
  <2> QED
    BY <2>1, <2>2, <1>15, <1>16
<1>18. PICK cur : cur = exportCursor'
  OBVIOUS
<1>19. IF m = 0 THEN cur = exportCursor ELSE cur = order[hi] /\ hi \in 1..n
  <2>1. CASE m = 0
    <3>1. page = <<>>
      BY <2>1, <1>15, <1>16, EmptySeq
    <3> QED
      BY <2>1, <3>1, <1>1, <1>14, <1>18
  <2>2. CASE m # 0
    <3>1. page # <<>>
      BY <2>2, <1>15, <1>16, EmptySeq
    <3>2. m \in 1..hi - skip /\ skip + m = hi /\ hi \in 1..n
      BY <2>2, <1>13, <1>16
    <3>3. cur = page[m]
      BY <3>1, <1>1, <1>14, <1>15, <1>16, <1>18 DEF Last
    <3> QED
      BY <2>2, <3>2, <3>3, <1>15
  <2> QED
    BY <2>1, <2>2
<1>20. cur \in streamRows \cup {NoCursor} /\ (m # 0 => cur # NoCursor /\ cur \in ExportIds)
  <2>1. CASE m = 0
    BY <2>1, <1>19 DEF ExportSound
  <2>2. CASE m # 0
    <3>1. cur \in S
      BY <2>2, <1>19, <1>6
    <3>2. cur \in streamRows
      BY <3>1, <1>3 DEF Onward
    <3> QED
      BY <3>1, <3>2, <1>3, AccountsAssumption
  <2> QED
    BY <2>1, <2>2
<1>21. written \in Seq(ExportIds) /\ written \o page \in Seq(ExportIds)
  BY <1>17, ConcatProperties DEF ExportSound
<1>22. ASSUME NEW i \in Solo, Reached(exportCursor, i)
       PROVE  Reached(cur, i) /\ NotWritten(page, i)
  <2>1. i \in ExportIds /\ (\A j \in ExportIds \ {i} : CreatedAt[j] # CreatedAt[i]) /\ skip = 1 /\ exportCursor \in ExportIds
    BY <1>9, <1>22, AccountsAssumption DEF Solo, Reached, ExportSound
  <2>2. exportCursor \in S /\ CreatedAt[i] <= CreatedAt[exportCursor]
    BY <2>1, <1>3, <1>8, <1>22 DEF ExportSound, Onward, Reached
  <2>3. \A x \in S : CreatedAt[exportCursor] <= CreatedAt[x]
    BY <1>3, <1>22 DEF Onward, Reached
  <2>4. Reached(cur, i)
    <3>1. CASE m = 0
      BY <3>1, <1>19, <1>22
    <3>2. CASE m # 0
      <4>1. cur \in S /\ cur # NoCursor
        BY <3>2, <1>6, <1>19, <1>20
      <4> QED
        BY <4>1, <2>1, <2>2, <2>3, <1>3, <1>8 DEF Reached
    <3> QED
      BY <3>1, <3>2
  <2>5. ASSUME NEW k \in 1..m, page[k] = i PROVE FALSE
    <3>1. skip + k \in 1..n /\ skip + k # 1 /\ 1 \in 1..n
      BY <2>1, <1>13, <1>16
    <3>2. order[skip + k] = i
      BY <2>5, <1>15, <1>16
    <3>3. i \in S
      BY <3>1, <3>2, <1>6
    <3>4. CreatedAt[i] = CreatedAt[exportCursor]
      BY <3>3, <2>1, <2>2, <2>3, <1>8
    <3>5. i = exportCursor
      BY <3>4, <2>1
    <3>6. CreatedAt[order[1]] <= CreatedAt[order[skip + k]]
      BY <3>1, <1>7
    <3>7. order[1] \in S /\ order[1] \in ExportIds
      BY <3>1, <1>3, <1>6
    <3>8. CreatedAt[order[1]] = CreatedAt[i]
      BY <3>2, <3>4, <3>6, <3>7, <2>1, <2>3, <1>8
    <3>9. order[1] = i
      BY <3>7, <3>8, <2>1
    <3> QED
      BY <3>1, <3>2, <3>9, <1>5
  <2> QED
    BY <2>4, <2>5, <1>17 DEF NotWritten
<1>23. ASSUME NEW i \in Solo, ~Reached(exportCursor, i)
       PROVE  \E p \in 1..n : /\ p > skip /\ order[p] = i
                              /\ IF p <= hi THEN Reached(cur, i) /\ WrittenOnce(page, i)
                                 ELSE ~Reached(cur, i) /\ NotWritten(page, i)
  <2>1. i \in ExportIds /\ (\A j \in ExportIds \ {i} : CreatedAt[j] # CreatedAt[i]) /\ i \in streamRows
    BY AccountsAssumption DEF Solo, ExportSound
  <2>2. exportCursor # NoCursor => exportCursor \in ExportIds /\ CreatedAt[exportCursor] < CreatedAt[i]
    BY <2>1, <1>8, <1>23 DEF Reached, ExportSound
  <2>3. i \in S
    BY <2>1, <2>2, <1>3, <1>8 DEF Onward
  <2>4. PICK p \in 1..n : order[p] = i
    BY <2>3, <1>5
  <2>5. p > skip
    <3>1. CASE skip = 0
      BY <3>1
    <3>2. CASE skip # 0
      <4>1. exportCursor # NoCursor /\ skip = 1
        BY <3>2, <1>9
      <4>2. exportCursor \in S
        BY <4>1, <1>3, <1>8 DEF ExportSound, Onward
      <4>3. PICK q \in 1..n : order[q] = exportCursor
        BY <4>2, <1>5
      <4>4. p # 1
        <5>1. ASSUME p = 1 PROVE FALSE
          <6>1. CreatedAt[order[p]] <= CreatedAt[order[q]]
            BY <5>1, <1>7
          <6> QED
            BY <6>1, <4>1, <4>3, <2>1, <2>2, <2>4, <1>8
        <5> QED
          BY <5>1
      <4> QED
        BY <4>1, <4>4
    <3> QED
      BY <3>1, <3>2
  <2>6. CASE p <= hi
    <3>1. m # 0 /\ p - skip \in 1..m /\ skip + (p - skip) = p
      BY <2>5, <2>6, <1>16
    <3>2. cur = order[hi] /\ hi \in 1..n /\ cur # NoCursor
      BY <3>1, <1>19, <1>20
    <3>3. Reached(cur, i)
      BY <3>2, <2>4, <2>6, <1>7 DEF Reached
    <3>4. page[p - skip] = i
      BY <3>1, <2>4, <1>15, <1>16
    <3>5. ASSUME NEW k \in 1..m, page[k] = i PROVE k = p - skip
      <4>1. skip + k \in 1..n /\ order[skip + k] = i
        BY <3>5, <1>13, <1>15, <1>16
      <4>2. skip + k = p
        BY <4>1, <2>4, <1>5
      <4> QED
        BY <4>2
    <3>6. WrittenOnce(page, i)
      BY <3>1, <3>4, <3>5, <1>17 DEF WrittenOnce
    <3> QED
      BY <2>4, <2>5, <2>6, <3>3, <3>6
  <2>7. CASE ~(p <= hi)
    <3>1. ASSUME NEW k \in 1..m, page[k] = i PROVE FALSE
      <4>1. skip + k \in 1..n /\ order[skip + k] = i /\ skip + k <= hi
        BY <3>1, <1>13, <1>15, <1>16
      <4>2. skip + k = p
        BY <4>1, <2>4, <1>5
      <4> QED
        BY <4>1, <4>2, <2>7
    <3>2. ~Reached(cur, i)
      <4>1. CASE m = 0
        BY <4>1, <1>19, <1>23
      <4>2. CASE m # 0
        <5>1. cur = order[hi] /\ hi \in 1..n /\ cur \in ExportIds
          BY <4>2, <1>19, <1>20
        <5>2. hi # p
          BY <2>7
        <5>3. cur # i
          BY <5>1, <5>2, <2>4, <1>5
        <5>4. CreatedAt[order[hi]] <= CreatedAt[order[p]]
          BY <5>1, <2>7, <1>7
        <5>5. CreatedAt[cur] # CreatedAt[i]
          BY <5>1, <5>3, <2>1
        <5> QED
          BY <5>1, <5>4, <5>5, <2>1, <2>4, <1>8 DEF Reached
      <4> QED
        BY <4>1, <4>2
    <3> QED
      BY <2>4, <2>5, <2>7, <3>1, <3>2, <1>17 DEF NotWritten
  <2> QED
    BY <2>6, <2>7
<1>24. ASSUME NEW i \in Solo PROVE IF Reached(cur, i) THEN WrittenOnce(written \o page, i) ELSE NotWritten(written \o page, i)
  <2>1. CASE Reached(exportCursor, i)
    <3>1. WrittenOnce(written, i)
      BY <2>1 DEF ExportSound
    <3> QED
      BY <2>1, <3>1, <1>17, <1>21, <1>22, WrittenOnceMore
  <2>2. CASE ~Reached(exportCursor, i)
    <3>1. NotWritten(written, i)
      BY <2>2 DEF ExportSound
    <3>2. IF Reached(cur, i) THEN WrittenOnce(page, i) ELSE NotWritten(page, i)
      BY <2>2, <1>23
    <3> QED
      BY <3>1, <3>2, <1>17, <1>21, WrittenOnceMore
  <2> QED
    BY <2>1, <2>2
<1>25. ASSUME exportPhase' = "ended", NEW i \in Solo PROVE Reached(cur, i)
  <2>1. m < BATCH_SIZE
    <3>1. Len(page) = m
      BY <1>15, <1>16
    <3> QED
      BY <3>1, <1>1, <1>14, <1>25
  <2>2. hi = n
    BY <2>1, <1>13, <1>16
  <2>3. CASE Reached(exportCursor, i)
    BY <2>3, <1>22
  <2>4. CASE ~Reached(exportCursor, i)
    <3>1. PICK p \in 1..n : IF p <= hi THEN Reached(cur, i) ELSE TRUE
      BY <2>4, <1>23
    <3> QED
      BY <2>2, <2>4, <1>23
  <2> QED
    BY <2>3, <2>4
<1>26. exportPhase' \in {"idle", "batching", "ended", "hung", "400"}
  BY <1>1
<1> QED
  BY <1>1, <1>2, <1>14, <1>18, <1>20, <1>21, <1>24, <1>25, <1>26 DEF ExportSound

LEMMA ExportStep ==
  ASSUME ExportSound(streamRows, exportPhase, exportCursor, written), [AccountsNext]_accountVars
  PROVE  ExportSound(streamRows', exportPhase', exportCursor', written')
<1>1. CASE ExportBatch
  BY <1>1, ExportBatchSound
<1>2. CASE ExportBegins
  BY <1>2 DEF ExportBegins, ExportSound
<1>3. CASE ExportFails
  BY <1>3 DEF ExportFails, ExportSound
<1>4. ASSUME NEW i \in ExportIds, StreamCreated(i) PROVE ExportSound(streamRows', exportPhase', exportCursor', written')
  BY <1>4 DEF StreamCreated, ExportSound
<1>5. CASE UNCHANGED exportVars
  BY <1>5 DEF exportVars
<1> QED
  BY <1>1, <1>2, <1>3, <1>4, <1>5 DEF AccountsNext, accountVars, exportVars, RegisterFind, RegisterCreate, UserUpserted

LEMMA AccountsStart ==
  AccountsInit => RegisterSound(registration, userRow) /\ ExportSound(streamRows, exportPhase, exportCursor, written)
<1> SUFFICES ASSUME AccountsInit
             PROVE  RegisterSound(registration, userRow) /\ ExportSound(streamRows, exportPhase, exportCursor, written)
  OBVIOUS
<1>1. RegisterSound(registration, userRow)
  BY DEF AccountsInit, RegisterSound
<1>2. written = <<>> /\ written \in Seq(ExportIds) /\ DOMAIN written = {}
  BY DEF AccountsInit
<1>3. ExportSound(streamRows, exportPhase, exportCursor, written)
  BY <1>2, AccountsAssumption DEF AccountsInit, ExportSound, Reached, NotWritten
<1> QED
  BY <1>1, <1>3

-----------------------------------------------------------------------------
(* The SDK.  While a call runs, what was handed over is what it has results   *)
(* for, and there is more to do.                                             *)
SdkPhases == {"idle", "simulating", "signing", "sending", "returned", "threw"}
StartsWith(s, t) == Len(s) <= Len(t) /\ \A k \in 1..Len(s) : s[k] = t[k]

SdkSound(s, h) ==
  /\ s \in [op : SdkOps \cup {"none"}, ids : Seq(SdkStreams), phase : SdkPhases, results : Seq(SdkStreams)]
  /\ h \in Seq(SdkStreams)
  /\ StartsWith(h, s.ids)
  /\ Len(h) \in Len(s.results)..Len(s.results) + 1
  /\ Len(h) > Len(s.results) => s.phase = "threw"
  /\ s.phase \in {"simulating", "signing", "sending"} => h = s.results /\ Len(h) < Len(s.ids)
  /\ s.phase = "returned" => h = s.ids
  /\ s.phase = "idle" => h = <<>>

LEMMA SdkHolds == SdkSound(sdk, handedOver) => SdkBatchIsPrefix /\ SdkTypeOK
<1> SUFFICES ASSUME SdkSound(sdk, handedOver) PROVE SdkBatchIsPrefix /\ SdkTypeOK
  OBVIOUS
<1>1. /\ sdk.ids \in Seq(SdkStreams) /\ handedOver \in Seq(SdkStreams) /\ sdk.op \in SdkOps \cup {"none"} /\ sdk.phase \in SdkPhases
  BY DEF SdkSound
<1>2. PICK n \in Nat, t \in Seq(SdkStreams) : n = Len(handedOver) /\ t = sdk.ids
  BY <1>1, LenProperties
<1>3. n <= Len(t) /\ \A k \in 1..n : handedOver[k] = t[k]
  BY <1>2 DEF SdkSound, StartsWith
<1>4. PICK one \in Int : one = 1
  OBVIOUS
<1>5. \A k \in one..n : handedOver[k] \in SdkStreams /\ t[k] \in SdkStreams
  <2>1. \A k \in 1..n : handedOver[k] \in SdkStreams
    BY <1>1, <1>2, ElementOfSeq
  <2> QED
    BY <2>1, <1>3, <1>4
<1>6. n \in Int
  BY <1>2
<1>7. /\ SubSeq(handedOver, one, n) \in Seq(SdkStreams)
      /\ Len(SubSeq(handedOver, one, n)) = (IF one <= n THEN n - one + 1 ELSE 0)
      /\ \A k \in 1..n - one + 1 : SubSeq(handedOver, one, n)[k] = handedOver[one + k - 1]
  BY <1>5, <1>6, SubSeqProperties
<1>8. /\ SubSeq(t, one, n) \in Seq(SdkStreams)
      /\ Len(SubSeq(t, one, n)) = (IF one <= n THEN n - one + 1 ELSE 0)
      /\ \A k \in 1..n - one + 1 : SubSeq(t, one, n)[k] = t[one + k - 1]
  BY <1>5, <1>6, SubSeqProperties
<1>9. SubSeq(handedOver, one, n) = SubSeq(t, one, n)
  <2>1. PICK a \in Seq(SdkStreams), b \in Seq(SdkStreams) : a = SubSeq(handedOver, one, n) /\ b = SubSeq(t, one, n)
    BY <1>7, <1>8
  <2>2. Len(a) = n /\ Len(b) = n
    BY <2>1, <1>4, <1>7, <1>8
  <2>3. \A k \in 1..n : a[k] = b[k]
    <3>1. \A k \in 1..n : k \in 1..n - one + 1 /\ one + k - 1 = k
      BY <1>4
    <3> QED
      BY <3>1, <2>1, <1>3, <1>7, <1>8
  <2> QED
    BY <2>1, <2>2, <2>3, SeqEqual
<1>10. IsPrefix(handedOver, sdk.ids)
  BY <1>2, <1>3, <1>4, <1>9 DEF IsPrefix
<1> QED
  BY <1>1, <1>10 DEF SdkBatchIsPrefix, SdkTypeOK, SdkSound, SdkPhases

LEMMA SdkStart == SdkInit => SdkSound(sdk, handedOver)
<1> SUFFICES ASSUME SdkInit PROVE SdkSound(sdk, handedOver)
  OBVIOUS
<1>1. PICK e \in Seq(SdkStreams) : e = <<>> /\ Len(e) = 0
  BY EmptySeq
<1>2. sdk = [op |-> "none", ids |-> e, phase |-> "idle", results |-> e] /\ handedOver = e
  BY <1>1 DEF SdkInit, SdkIdle
<1>3. StartsWith(e, e)
  BY <1>1 DEF StartsWith
<1> QED
  BY <1>1, <1>2, <1>3 DEF SdkSound, SdkPhases

(* A step that leaves ids, results and what was handed over alone. *)
LEMMA SdkPhaseMoves ==
  ASSUME SdkSound(sdk, handedOver), NEW p \in {"signing", "sending", "threw"},
         sdk.phase \in {"simulating", "signing", "sending"}
  PROVE  SdkSound([sdk EXCEPT !.phase = p], handedOver)
<1>1. PICK e : e = [sdk EXCEPT !.phase = p]
  OBVIOUS
<1>2. /\ e \in [op : SdkOps \cup {"none"}, ids : Seq(SdkStreams), phase : SdkPhases, results : Seq(SdkStreams)]
      /\ e.ids = sdk.ids /\ e.results = sdk.results /\ e.phase = p
  BY <1>1 DEF SdkSound, SdkPhases
<1> QED
  BY <1>1, <1>2 DEF SdkSound

LEMMA SdkSubmits ==
  ASSUME SdkSound(sdk, handedOver), NEW reached \in BOOLEAN, NEW ok \in BOOLEAN, SdkSend(reached, ok)
  PROVE  SdkSound(sdk', handedOver')
<1>1. PICK ids \in Seq(SdkStreams), h \in Seq(SdkStreams) : ids = sdk.ids /\ h = handedOver
  BY DEF SdkSound
<1>2. /\ sdk \in [op : SdkOps \cup {"none"}, ids : Seq(SdkStreams), phase : SdkPhases, results : Seq(SdkStreams)]
      /\ sdk.phase = "sending" /\ sdk.results = h /\ Len(h) < Len(ids) /\ StartsWith(h, ids)
  BY <1>1 DEF SdkSound, SdkSend
<1>3. PICK n \in Nat, l \in Nat : n = Len(h) /\ l = Len(ids)
  BY <1>1, LenProperties
<1>4. PICK x \in SdkStreams : x = ids[n + 1]
  <2>1. n + 1 \in 1..Len(ids)
    BY <1>2, <1>3
  <2> QED
    BY <2>1, ElementOfSeq
<1>5. Current = x
  BY <1>1, <1>2, <1>3, <1>4 DEF Current
<1>6. PICK g : g = Append(h, x)
  OBVIOUS
<1>7. g \in Seq(SdkStreams) /\ Len(g) = n + 1 /\ g[n + 1] = x /\ \A k \in 1..n : g[k] = h[k]
  BY <1>3, <1>6, AppendProperties
<1>8. StartsWith(g, ids)
  <2>1. n + 1 <= l
    BY <1>2, <1>3
  <2>2. ASSUME NEW k \in 1..n + 1 PROVE g[k] = ids[k]
    <3>1. k = n + 1 \/ k \in 1..n
      OBVIOUS
    <3> QED
      BY <3>1, <1>2, <1>3, <1>4, <1>7 DEF StartsWith
  <2> QED
    BY <2>1, <2>2, <1>3, <1>7 DEF StartsWith
<1>9. handedOver' = IF reached THEN g ELSE h
  BY <1>1, <1>5, <1>6 DEF SdkSend, Submit
<1>10. CASE ok
  <2>1. reached /\ handedOver' = g
    BY <1>9, <1>10 DEF SdkSend
  <2>2. PICK p : p = IF g = ids THEN "returned" ELSE "simulating"
    OBVIOUS
  <2>3. sdk' = [sdk EXCEPT !.results = g, !.phase = p]
    BY <1>1, <1>2, <1>5, <1>6, <1>10, <2>2 DEF SdkSend, Submit, Finished
  <2>4. PICK e : e = [sdk EXCEPT !.results = g, !.phase = p]
    OBVIOUS
  <2>5. p \in SdkPhases /\ p \in {"returned", "simulating"}
    BY <2>2 DEF SdkPhases
  <2>6. /\ e \in [op : SdkOps \cup {"none"}, ids : Seq(SdkStreams), phase : SdkPhases, results : Seq(SdkStreams)]
        /\ e.ids = ids /\ e.results = g /\ e.phase = p
    BY <2>4, <2>5, <1>1, <1>2, <1>7
  <2>7. g # ids => n + 1 < l
    <3>1. n + 1 <= l
      BY <1>2, <1>3
    <3>2. ASSUME n + 1 = l PROVE g = ids
      <4>1. Len(g) = Len(ids) /\ \A k \in 1..Len(g) : g[k] = ids[k]
        BY <3>2, <1>3, <1>7, <1>8 DEF StartsWith
      <4> QED
        BY <4>1, <1>7, SeqEqual
    <3> QED
      BY <3>1, <3>2
  <2>8. SdkSound(e, g)
    <3>1. Len(g) \in Len(g)..Len(g) + 1 /\ ~(Len(g) > Len(g))
      BY <1>7
    <3>2. p = "simulating" => Len(g) < Len(ids)
      BY <2>2, <2>7, <1>3, <1>7
    <3> QED
      BY <2>2, <2>5, <2>6, <3>1, <3>2, <1>7, <1>8 DEF SdkSound
  <2> QED
    BY <2>1, <2>3, <2>4, <2>8
<1>11. CASE ~ok
  <2>1. PICK e : e = [sdk EXCEPT !.phase = "threw"]
    OBVIOUS
  <2>2. sdk' = e
    BY <1>11, <2>1 DEF SdkSend, Submit
  <2>3. /\ e \in [op : SdkOps \cup {"none"}, ids : Seq(SdkStreams), phase : SdkPhases, results : Seq(SdkStreams)]
        /\ e.ids = ids /\ e.results = h /\ e.phase = "threw"
    BY <2>1, <1>1, <1>2 DEF SdkPhases
  <2>4. SdkSound(e, g)
    <3>1. Len(g) \in Len(h)..Len(h) + 1
      BY <1>3, <1>7
    <3> QED
      BY <2>3, <3>1, <1>7, <1>8 DEF SdkSound
  <2>5. SdkSound(e, h)
    <3>1. Len(h) \in Len(h)..Len(h) + 1
      BY <1>3
    <3> QED
      BY <2>3, <3>1, <1>1, <1>2 DEF SdkSound
  <2> QED
    BY <2>2, <2>4, <2>5, <1>9
<1> QED
  BY <1>10, <1>11

LEMMA SdkStep == SdkSound(sdk, handedOver) /\ [SdkNext]_sdkVars => SdkSound(sdk', handedOver')
<1> SUFFICES ASSUME SdkSound(sdk, handedOver), [SdkNext]_sdkVars PROVE SdkSound(sdk', handedOver')
  OBVIOUS
<1>1. ASSUME NEW n \in 0..3, NEW ids \in [1..n -> SdkStreams], SdkCalls(ids) PROVE SdkSound(sdk', handedOver')
  <2>1. ids \in Seq(SdkStreams) /\ Len(ids) = n
    OBVIOUS
  <2>2. PICK op \in SdkOps, accepted \in BOOLEAN : SdkCall(op, ids, accepted)
    BY <1>1 DEF SdkCalls
  <2>3. PICK e \in Seq(SdkStreams) : e = <<>> /\ Len(e) = 0
    BY EmptySeq
  <2>4. PICK p : p = IF accepted /\ ids # <<>> THEN "simulating" ELSE "threw"
    OBVIOUS
  <2>5. p \in {"simulating", "threw"} /\ p \in SdkPhases
    BY <2>4 DEF SdkPhases
  <2>6. PICK s : s = [op |-> op, ids |-> ids, results |-> e, phase |-> p]
    OBVIOUS
  <2>7. sdk' = s /\ handedOver' = e
    BY <2>2, <2>3, <2>4, <2>6 DEF SdkCall, SdkSound
  <2>8. /\ s \in [op : SdkOps \cup {"none"}, ids : Seq(SdkStreams), phase : SdkPhases, results : Seq(SdkStreams)]
        /\ s.ids = ids /\ s.results = e /\ s.phase = p
    BY <2>1, <2>5, <2>6
  <2>9. p = "simulating" => Len(ids) > 0
    BY <2>1, <2>4, EmptySeq
  <2>10. StartsWith(e, ids)
    BY <2>1, <2>3 DEF StartsWith
  <2> QED
    BY <2>1, <2>3, <2>5, <2>7, <2>8, <2>9, <2>10 DEF SdkSound
<1>2. ASSUME NEW ok \in BOOLEAN, SdkSimulate(ok) PROVE SdkSound(sdk', handedOver')
  <2>1. PICK p \in {"signing", "sending", "threw"} : p = IF ok THEN "signing" ELSE "threw"
    OBVIOUS
  <2>2. sdk' = [sdk EXCEPT !.phase = p] /\ handedOver' = handedOver /\ sdk.phase = "simulating"
    BY <1>2, <2>1 DEF SdkSimulate
  <2> QED
    BY <2>2, SdkPhaseMoves
<1>3. ASSUME NEW ok \in BOOLEAN, SdkSign(ok) PROVE SdkSound(sdk', handedOver')
  <2>1. PICK p \in {"signing", "sending", "threw"} : p = IF ok THEN "sending" ELSE "threw"
    OBVIOUS
  <2>2. sdk' = [sdk EXCEPT !.phase = p] /\ handedOver' = handedOver /\ sdk.phase = "signing"
    BY <1>3, <2>1 DEF SdkSign
  <2> QED
    BY <2>2, SdkPhaseMoves
<1>4. ASSUME NEW ok \in BOOLEAN, NEW reached \in BOOLEAN, SdkSend(reached, ok) PROVE SdkSound(sdk', handedOver')
  BY <1>4, SdkSubmits
<1>5. CASE UNCHANGED sdkVars
  BY <1>5 DEF sdkVars
<1> QED
  BY <1>1, <1>2, <1>3, <1>4, <1>5 DEF SdkNext

-----------------------------------------------------------------------------
(* The in-memory cache.  Every entry is what the last set of its key stored,   *)
(* and the entries stand in the order in which their keys were last used.     *)
Occurs(rec, k) == \E n \in 1..Len(rec) : rec[n] = k
Before(rec, k, j) == \E m, n \in 1..Len(rec) : m < n /\ rec[m] = k /\ rec[n] = j

OrderSound(c, rec) ==
  /\ \A i \in 1..Len(c) : Occurs(rec, c[i].key)
  /\ \A i, j \in 1..Len(c) : i < j => Before(rec, c[i].key, c[j].key)
Distinct(rec) == \A m, n \in 1..Len(rec) : rec[m] = rec[n] => m = n

SetRecords == [value : CacheValues, at : 0..MaxCacheClock] \cup {NoSet}
EntrySound(e, ls) ==
  /\ e.value = ls[e.key].value /\ e.createdAt = ls[e.key].at
  /\ e.expiresAt = e.createdAt + ttlSeconds

CacheSound(c, now, rec, ls) ==
  /\ c \in Seq(Entry) /\ Len(c) <= maxItems
  /\ now \in 0..MaxCacheClock
  /\ rec \in Seq(CacheKeys) /\ Distinct(rec)
  /\ ls \in [CacheKeys -> SetRecords]
  /\ \A i \in 1..Len(c) : EntrySound(c[i], ls)
  /\ OrderSound(c, rec)

GetSound(now, ls, g) ==
  /\ g \in [key : CacheKeys \cup {Miss}, value : CacheValues \cup {Miss}]
  /\ g.value # Miss => /\ g.key \in CacheKeys /\ g.value = ls[g.key].value
                       /\ now - ls[g.key].at < ttlSeconds

CacheIInv == CacheSound(cache, cacheClock, recency, lastSet) /\ GetSound(cacheClock, lastSet, lastGet)

LEMMA CacheHolds == CacheIInv => CacheTypeOK /\ CacheHitsAreCurrent
  BY DEF CacheIInv, CacheSound, GetSound, CacheTypeOK, CacheHitsAreCurrent, SetRecords

(* t has, in their order, the elements of s at the positions in K. *)
Drawn(s, K, t, pos) ==
  /\ pos \in [1..Len(t) -> 1..Len(s)]
  /\ \A j \in 1..Len(t) : t[j] = s[pos[j]] /\ pos[j] \in K
  /\ \A i, j \in 1..Len(t) : i < j => pos[i] < pos[j]
  /\ \A k \in K : \E j \in 1..Len(t) : pos[j] = k

(* What passes a filter stands at increasing positions of what was filtered. *)
LEMMA Filtered ==
  ASSUME NEW S, NEW s \in Seq(S), NEW K \in SUBSET (1..Len(s)), NEW t, t = AtPositions(s, K)
  PROVE  /\ t \in Seq(S) /\ Len(t) \in Nat /\ Len(t) <= Len(s)
         /\ K # 1..Len(s) => Len(t) < Len(s)
         /\ \E pos : Drawn(s, K, t, pos)
<1>1. DOMAIN s = 1..Len(s) /\ Len(s) \in Nat /\ K \in SUBSET DOMAIN s
  BY LenProperties
<1>2. \A k \in K : s[k] \in S
  BY <1>1, ElementOfSeq
<1>3. t \in Seq(S) /\ Len(t) = Cardinality(K) /\ Cardinality(K) \in Nat
  BY <1>1, <1>2, AtPositionsKeeps
<1>4. IsFiniteSet(1..Len(s)) /\ Cardinality(1..Len(s)) = Len(s)
  BY <1>1, InitialPositions
<1>5. Cardinality(K) <= Len(s) /\ (K # 1..Len(s) => Cardinality(K) # Len(s))
  BY <1>4, FS_Subset
<1>8. K # 1..Len(s) => Cardinality(K) < Len(s)
  BY <1>1, <1>3, <1>5
<1>6. PICK pos \in [1..Len(t) -> K] :
           /\ \A j \in 1..Len(t) : t[j] = s[pos[j]]
           /\ \A i, j \in 1..Len(t) : i < j => pos[i] < pos[j]
           /\ \A k \in K : \E j \in 1..Len(t) : pos[j] = k
  <2>1. K \in SUBSET DOMAIN s
    BY <1>1
  <2> QED
    BY <2>1, AtPositionsInOrder, SMTT(40)
<1>7. pos \in [1..Len(t) -> 1..Len(s)] /\ \A j \in 1..Len(t) : pos[j] \in K
  BY <1>6
<1>9. Drawn(s, K, t, pos)
  BY <1>6, <1>7 DEF Drawn
<1> QED
  BY <1>3, <1>5, <1>8, <1>9

(* Entries left in their order are still in the order of their use. *)
LEMMA OrderFiltered ==
  ASSUME NEW c \in Seq(Entry), NEW rec, OrderSound(c, rec), NEW d, Len(d) \in Nat,
         NEW pos \in [1..Len(d) -> 1..Len(c)],
         \A j \in 1..Len(d) : d[j] = c[pos[j]],
         \A i, j \in 1..Len(d) : i < j => pos[i] < pos[j]
  PROVE  OrderSound(d, rec)
<1>1. ASSUME NEW j \in 1..Len(d) PROVE Occurs(rec, d[j].key)
  BY DEF OrderSound
<1>2. ASSUME NEW i \in 1..Len(d), NEW j \in 1..Len(d), i < j PROVE Before(rec, d[i].key, d[j].key)
  BY <1>2 DEF OrderSound
<1> QED
  BY <1>1, <1>2 DEF OrderSound

UsedOrder(rec, key) == Append(AtPositions(rec, {i \in DOMAIN rec : rec[i] # key}), key)
MovedLast(rec, key, t) ==
  /\ Occurs(t, key)
  /\ \A k : Occurs(rec, k) /\ k # key => Occurs(t, k) /\ Before(t, k, key)
  /\ \A k, j : Before(rec, k, j) /\ k # key /\ j # key => Before(t, k, j)

(* A key that is used moves to the end of the order; the others keep theirs. *)
LEMMA UsedLast ==
  ASSUME NEW rec \in Seq(CacheKeys), Distinct(rec), NEW key \in CacheKeys, NEW t,
         t = UsedOrder(rec, key)
  PROVE  t \in Seq(CacheKeys) /\ Distinct(t) /\ MovedLast(rec, key, t)
<1>1. DOMAIN rec = 1..Len(rec) /\ Len(rec) \in Nat
  BY LenProperties
<1>2. PICK K \in SUBSET (1..Len(rec)) : K = {i \in DOMAIN rec : rec[i] # key}
  BY <1>1
<1>3. PICK f : f = AtPositions(rec, K)
  OBVIOUS
<1>4. /\ f \in Seq(CacheKeys) /\ Len(f) \in Nat
      /\ \E pos : Drawn(rec, K, f, pos)
  BY <1>3, Filtered
<1>5. PICK pos \in [1..Len(f) -> 1..Len(rec)] :
              /\ \A j \in 1..Len(f) : f[j] = rec[pos[j]] /\ pos[j] \in K
              /\ \A i, j \in 1..Len(f) : i < j => pos[i] < pos[j]
              /\ \A k \in K : \E j \in 1..Len(f) : pos[j] = k
  BY <1>4 DEF Drawn
<1>6. PICK n \in Nat : n = Len(f)
  BY <1>4
<1>7. t = Append(f, key)
  BY <1>2, <1>3 DEF UsedOrder
<1>8. t \in Seq(CacheKeys) /\ Len(t) = n + 1 /\ t[n + 1] = key /\ \A i \in 1..n : t[i] = f[i]
  <2>1. t \in Seq(CacheKeys) /\ Len(t) = Len(f) + 1 /\ t[Len(f) + 1] = key /\ \A i \in 1..Len(f) : t[i] = f[i]
    <3>1. /\ Append(f, key) \in Seq(CacheKeys) /\ Len(Append(f, key)) = Len(f) + 1
          /\ Append(f, key)[Len(f) + 1] = key /\ \A i \in 1..Len(f) : Append(f, key)[i] = f[i]
      BY <1>4, AppendProperties
    <3> QED
      BY <3>1, <1>7, Zenon
  <2> QED
    BY <1>6, <2>1, Zenon
<1>9. \A i \in 1..n : t[i] # key /\ t[i] = rec[pos[i]] /\ pos[i] \in 1..Len(rec)
  BY <1>1, <1>2, <1>5, <1>6, <1>8
<1>10. n + 1 \in 1..Len(t) /\ \A i \in 1..n : i \in 1..Len(t) /\ i < n + 1
  <2>1. n + 1 \in 1..n + 1 /\ \A i \in 1..n : i \in 1..n + 1 /\ i < n + 1
    OBVIOUS
  <2> QED
    BY <1>8, <2>1, Zenon
<1>11. \A i \in 1..Len(t) : i \in 1..n \/ i = n + 1
  BY <1>8
<1>12. Distinct(t)
  <2> SUFFICES ASSUME NEW i \in 1..Len(t), NEW j \in 1..Len(t), t[i] = t[j], i # j PROVE FALSE
    BY DEF Distinct
  <2>1. i \in 1..n /\ j \in 1..n
    BY <1>8, <1>9, <1>11
  <2>2. rec[pos[i]] = rec[pos[j]]
    BY <1>9, <2>1
  <2>3. pos[i] = pos[j]
    BY <1>9, <2>1, <2>2 DEF Distinct
  <2>4. i < j \/ j < i
    BY <2>1
  <2>5. pos[i] < pos[j] \/ pos[j] < pos[i]
    BY <1>5, <1>6, <2>1, <2>4
  <2>6. PICK p \in Nat : p = pos[i]
    BY <1>9, <2>1
  <2> QED
    BY <2>3, <2>5, <2>6
<1>13. Occurs(t, key)
  BY <1>8, <1>10 DEF Occurs
<1>14. ASSUME NEW k, Occurs(rec, k), k # key
       PROVE  \E i \in 1..n : t[i] = k
  <2>1. PICK m \in 1..Len(rec) : rec[m] = k
    BY <1>14 DEF Occurs
  <2>2. m \in K
    BY <1>1, <1>2, <1>14, <2>1
  <2>3. PICK i \in 1..Len(f) : pos[i] = m
    BY <1>5, <2>2
  <2> QED
    BY <1>6, <1>9, <2>1, <2>3
<1>15. ASSUME NEW k, Occurs(rec, k), k # key
       PROVE  Occurs(t, k) /\ Before(t, k, key)
  BY <1>8, <1>10, <1>14, <1>15 DEF Occurs, Before
<1>16. ASSUME NEW k, NEW j, Before(rec, k, j), k # key, j # key
       PROVE  Before(t, k, j)
  <2>1. PICK a \in 1..Len(rec), b \in 1..Len(rec) : a < b /\ rec[a] = k /\ rec[b] = j
    BY <1>16 DEF Before
  <2>2. a \in K /\ b \in K
    BY <1>1, <1>2, <1>16, <2>1
  <2>3. PICK x \in 1..Len(f) : pos[x] = a
    BY <1>5, <2>2
  <2>4. PICK y \in 1..Len(f) : pos[y] = b
    BY <1>5, <2>2
  <2>5. x \in 1..n /\ y \in 1..n
    BY <1>6, <2>3, <2>4
  <2>6. x < y
    <3>1. CASE y < x
      <4>1. pos[y] < pos[x]
        BY <1>5, <3>1
      <4> QED
        BY <4>1, <2>1, <2>3, <2>4
    <3>2. CASE x = y
      BY <3>2, <2>1, <2>3, <2>4
    <3> QED
      BY <3>1, <3>2, <2>5
  <2>7. t[x] = k /\ t[y] = j
    BY <1>9, <2>1, <2>3, <2>4, <2>5
  <2> QED
    BY <1>10, <2>5, <2>6, <2>7 DEF Before
<1>17. MovedLast(rec, key, t)
  BY <1>13, <1>15, <1>16 DEF MovedLast
<1> QED
  BY <1>8, <1>12, <1>17

(* No key has two entries: they would have to be used one after the other. *)
LEMMA KeysDistinct ==
  ASSUME NEW c, NEW now, NEW rec, NEW ls, CacheSound(c, now, rec, ls),
         NEW i \in 1..Len(c), NEW j \in 1..Len(c), c[i].key = c[j].key
  PROVE  i = j
<1>1. ASSUME NEW k, Before(rec, k, k) PROVE FALSE
  <2>1. PICK m \in 1..Len(rec), n \in 1..Len(rec) : m < n /\ rec[m] = k /\ rec[n] = k
    BY <1>1 DEF Before
  <2>2. m = n
    BY <2>1 DEF CacheSound, Distinct
  <2> QED
    BY <2>1, <2>2
<1>2. ~(i < j) /\ ~(j < i)
  BY <1>1 DEF CacheSound, OrderSound
<1>3. Len(c) \in Nat
  BY LenProperties DEF CacheSound
<1>4. i \in Nat /\ j \in Nat
  BY <1>3
<1> QED
  BY <1>2, <1>4

HasThoseAt(d, c, K) ==
  /\ \A j \in 1..Len(d) : \E k \in K : d[j] = c[k]
  /\ \A k \in K : \E j \in 1..Len(d) : d[j] = c[k]

(* Dropping entries leaves a sound cache. *)
LEMMA CacheFiltered ==
  ASSUME NEW c, NEW now, NEW rec, NEW ls, CacheSound(c, now, rec, ls),
         NEW K \in SUBSET (1..Len(c)), NEW d, d = AtPositions(c, K)
  PROVE  /\ CacheSound(d, now, rec, ls)
         /\ Len(d) \in Nat /\ Len(c) \in Nat /\ (K # 1..Len(c) => Len(d) < Len(c))
         /\ HasThoseAt(d, c, K)
<1>1. /\ c \in Seq(Entry) /\ Len(c) <= maxItems /\ Len(c) \in Nat /\ maxItems \in Nat
      /\ now \in 0..MaxCacheClock
      /\ rec \in Seq(CacheKeys) /\ Distinct(rec)
      /\ ls \in [CacheKeys -> SetRecords]
      /\ \A i \in 1..Len(c) : EntrySound(c[i], ls)
      /\ OrderSound(c, rec)
  BY LenProperties, CacheAssumption DEF CacheSound
<1>2. /\ d \in Seq(Entry) /\ Len(d) \in Nat /\ Len(d) <= Len(c)
      /\ K # 1..Len(c) => Len(d) < Len(c)
      /\ \E pos : Drawn(c, K, d, pos)
  BY <1>1, Filtered
<1>3. PICK pos \in [1..Len(d) -> 1..Len(c)] :
              /\ \A j \in 1..Len(d) : d[j] = c[pos[j]] /\ pos[j] \in K
              /\ \A i, j \in 1..Len(d) : i < j => pos[i] < pos[j]
              /\ \A k \in K : \E j \in 1..Len(d) : pos[j] = k
  BY <1>2 DEF Drawn
<1>4. OrderSound(d, rec)
  <2>1. \A j \in 1..Len(d) : d[j] = c[pos[j]]
    BY <1>3
  <2>2. \A i, j \in 1..Len(d) : i < j => pos[i] < pos[j]
    BY <1>3
  <2> QED
    BY <1>1, <1>2, <2>1, <2>2, OrderFiltered
<1>5. \A i \in 1..Len(d) : EntrySound(d[i], ls)
  BY <1>1, <1>3
<1>6. Len(d) <= maxItems
  <2>1. PICK a \in Nat, b \in Nat : a = Len(d) /\ b = Len(c)
    BY <1>1, <1>2
  <2> QED
    BY <1>1, <1>2, <2>1
<1>7. CacheSound(d, now, rec, ls)
  BY <1>1, <1>2, <1>4, <1>5, <1>6 DEF CacheSound
<1>8. \A j \in 1..Len(d) : \E k \in K : d[j] = c[k]
  BY <1>3
<1>9. \A k \in K : \E j \in 1..Len(d) : d[j] = c[k]
  BY <1>3
<1>10. HasThoseAt(d, c, K)
  BY <1>8, <1>9 DEF HasThoseAt
<1> QED
  BY <1>1, <1>2, <1>7, <1>10

Prolongs(x, d, e) == Len(x) = Len(d) + 1 /\ x[Len(d) + 1] = e /\ \A i \in 1..Len(d) : x[i] = d[i]
NoEntryOf(d, key) == \A i \in 1..Len(d) : d[i].key # key
SameBut(ls, ls2, key) == \A k \in CacheKeys \ {key} : ls2[k] = ls[k]
EntriesSound(x, ls) == \A i \in 1..Len(x) : EntrySound(x[i], ls)

(* An entry put at the end, for a key that had none and is now the last used. *)
LEMMA CacheAppended ==
  ASSUME NEW d, NEW now, NEW rec, NEW ls, CacheSound(d, now, rec, ls), NEW key \in CacheKeys,
         NoEntryOf(d, key), NEW t, t = UsedOrder(rec, key),
         NEW ls2, ls2 \in [CacheKeys -> SetRecords], SameBut(ls, ls2, key),
         NEW e, e \in Entry, e.key = key, EntrySound(e, ls2), NEW x, x = Append(d, e)
  PROVE  /\ x \in Seq(Entry) /\ Prolongs(x, d, e)
         /\ t \in Seq(CacheKeys) /\ Distinct(t)
         /\ EntriesSound(x, ls2) /\ OrderSound(x, t)
<1>1. /\ d \in Seq(Entry) /\ Len(d) \in Nat
      /\ rec \in Seq(CacheKeys) /\ Distinct(rec)
      /\ \A i \in 1..Len(d) : EntrySound(d[i], ls)
      /\ OrderSound(d, rec)
  BY LenProperties DEF CacheSound
<1>2. /\ x \in Seq(Entry) /\ Len(x) = Len(d) + 1 /\ x[Len(d) + 1] = e
      /\ \A i \in 1..Len(d) : x[i] = d[i]
  <2>1. /\ Append(d, e) \in Seq(Entry) /\ Len(Append(d, e)) = Len(d) + 1
        /\ Append(d, e)[Len(d) + 1] = e /\ \A i \in 1..Len(d) : Append(d, e)[i] = d[i]
    BY <1>1, AppendProperties
  <2> QED
    BY <2>1, Zenon
<1>3. /\ t \in Seq(CacheKeys) /\ Distinct(t) /\ Occurs(t, key)
      /\ \A k : Occurs(rec, k) /\ k # key => Occurs(t, k) /\ Before(t, k, key)
      /\ \A k, j : Before(rec, k, j) /\ k # key /\ j # key => Before(t, k, j)
  <2>1. t \in Seq(CacheKeys) /\ Distinct(t) /\ MovedLast(rec, key, t)
    BY <1>1, UsedLast
  <2> QED
    BY <2>1 DEF MovedLast
<1>4. PICK n \in Nat : n = Len(d)
  BY <1>1
<1>5. Len(x) = n + 1 /\ x[n + 1] = e /\ \A i \in 1..n : x[i] = d[i]
  BY <1>2, <1>4, Zenon
<1>6. \A i \in 1..Len(x) : i \in 1..n \/ i = n + 1
  <2>1. \A i \in 1..n + 1 : i \in 1..n \/ i = n + 1
    OBVIOUS
  <2> QED
    BY <1>5, <2>1, Zenon
<1>7. \A i \in 1..n : d[i] \in Entry /\ d[i].key \in CacheKeys /\ d[i].key # key /\ EntrySound(d[i], ls)
                      /\ Occurs(rec, d[i].key)
  <2> SUFFICES ASSUME NEW i \in 1..n
               PROVE  d[i] \in Entry /\ d[i].key \in CacheKeys /\ d[i].key # key /\ EntrySound(d[i], ls)
                      /\ Occurs(rec, d[i].key)
    OBVIOUS
  <2>1. d[i] \in Entry
    BY <1>1, <1>4, ElementOfSeq
  <2> QED
    BY <1>1, <1>4, <2>1 DEF Entry, OrderSound, NoEntryOf
<1>8. ASSUME NEW i \in 1..Len(x) PROVE EntrySound(x[i], ls2)
  <2>1. CASE i \in 1..n
    BY <1>5, <1>7, <2>1 DEF EntrySound, SameBut
  <2>2. CASE i = n + 1
    BY <1>5, <2>2
  <2> QED
    BY <1>6, <2>1, <2>2
<1>9. ASSUME NEW i \in 1..Len(x) PROVE Occurs(t, x[i].key)
  <2>1. CASE i \in 1..n
    BY <1>3, <1>5, <1>7, <2>1
  <2>2. CASE i = n + 1
    BY <1>3, <1>5, <2>2
  <2> QED
    BY <1>6, <2>1, <2>2
<1>10. ASSUME NEW i \in 1..Len(x), NEW j \in 1..Len(x), i < j PROVE Before(t, x[i].key, x[j].key)
  <2>1. i \in 1..n
    <3>1. i \in 1..n + 1 /\ j \in 1..n + 1
      BY <1>5
    <3> QED
      BY <3>1, <1>10
  <2>2. CASE j \in 1..n
    <3>1. Before(rec, d[i].key, d[j].key)
      BY <1>1, <1>4, <1>10, <2>1, <2>2 DEF OrderSound
    <3> QED
      BY <1>3, <1>5, <1>7, <2>1, <2>2, <3>1
  <2>3. CASE j = n + 1
    BY <1>3, <1>5, <1>7, <2>1, <2>3
  <2> QED
    BY <1>6, <2>2, <2>3
<1>11. OrderSound(x, t)
  BY <1>9, <1>10 DEF OrderSound
<1>12. \A i \in 1..Len(x) : EntrySound(x[i], ls2)
  BY <1>8
<1>13. Prolongs(x, d, e) /\ EntriesSound(x, ls2)
  BY <1>2, <1>12, Zenon DEF Prolongs, EntriesSound
<1> QED
  BY <1>2, <1>3, <1>11, <1>13, Zenon

LastOnes(y, x, n) ==
  /\ \A i \in 1..maxItems : n - maxItems + i \in 1..n /\ y[i] = x[n - maxItems + i]
  /\ \A i \in 1..n : i > n - maxItems => \E j \in 1..maxItems : y[j] = x[i]

(* Eviction takes the first entries, and no more than are too many. *)
LEMMA Evicted ==
  ASSUME NEW x, x \in Seq(Entry), NEW rec, OrderSound(x, rec), NEW ls, EntriesSound(x, ls),
         NEW n \in Nat, n = Len(x), n > maxItems, NEW y, y = EvictIfOverCapacity(x)
  PROVE  /\ y \in Seq(Entry) /\ Len(y) = maxItems /\ maxItems \in Nat
         /\ LastOnes(y, x, n) /\ OrderSound(y, rec) /\ EntriesSound(y, ls)
<1>1. maxItems \in Nat \ {0}
  BY CacheAssumption
<1>2. PICK m \in Int : m = n - maxItems + 1
  BY <1>1
<1>3. y = SubSeq(x, m, n)
  BY <1>2 DEF EvictIfOverCapacity
<1>4. \A i \in m..n : x[i] \in Entry
  <2>1. m..n \subseteq 1..Len(x)
    BY <1>1, <1>2
  <2> QED
    BY <2>1, ElementOfSeq
<1>5. /\ SubSeq(x, m, n) \in Seq(Entry)
      /\ Len(SubSeq(x, m, n)) = IF m <= n THEN n - m + 1 ELSE 0
      /\ \A i \in 1..n - m + 1 : SubSeq(x, m, n)[i] = x[m + i - 1]
  BY <1>4, SubSeqProperties
<1>6. m <= n /\ n - m + 1 = maxItems /\ \A i \in 1..maxItems : m + i - 1 = n - maxItems + i /\ n - maxItems + i \in 1..n
  BY <1>1, <1>2
<1>7. y \in Seq(Entry) /\ Len(y) = maxItems /\ \A i \in 1..maxItems : y[i] = x[n - maxItems + i]
  BY <1>3, <1>5, <1>6
<1>8. ASSUME NEW i \in 1..n, i > n - maxItems PROVE \E j \in 1..maxItems : y[j] = x[i]
  <2>1. PICK j \in 1..maxItems : i = n - maxItems + j
    <3>1. i - (n - maxItems) \in 1..maxItems /\ i = n - maxItems + (i - (n - maxItems))
      BY <1>1, <1>8
    <3> QED
      BY <3>1
  <2> QED
    BY <1>7, <2>1
<1>9. OrderSound(y, rec)
  <2> DEFINE pos == [i \in 1..Len(y) |-> n - maxItems + i]
  <2>1. pos \in [1..Len(y) -> 1..Len(x)]
    BY <1>6, <1>7
  <2>2. \A j \in 1..Len(y) : y[j] = x[pos[j]]
    BY <1>7
  <2>3. \A i, j \in 1..Len(y) : i < j => pos[i] < pos[j]
    BY <1>1, <1>7
  <2>4. Len(y) \in Nat
    BY <1>1, <1>7
  <2> HIDE DEF pos
  <2> QED
    BY <2>1, <2>2, <2>3, <2>4, OrderFiltered
<1>10. EntriesSound(y, ls)
  BY <1>6, <1>7 DEF EntriesSound
<1>11. LastOnes(y, x, n)
  BY <1>6, <1>7, <1>8 DEF LastOnes
<1> QED
  BY <1>1, <1>7, <1>9, <1>10, <1>11

(* What the cache and a key's entry may be assumed to be. *)
LEMMA CacheFacts ==
  ASSUME CacheSound(cache, cacheClock, recency, lastSet)
  PROVE  /\ Len(cache) \in Nat /\ DOMAIN cache = 1..Len(cache) /\ Range(cache) = {cache[i] : i \in 1..Len(cache)}
         /\ DOMAIN recency = 1..Len(recency)
         /\ \A i \in 1..Len(cache) : cache[i] \in Entry /\ cache[i].key \in CacheKeys /\ EntrySound(cache[i], lastSet)
         /\ cacheClock \in Nat /\ ttlSeconds \in Nat \ {0} /\ maxItems \in Nat \ {0} /\ Miss \notin CacheValues
<1>1. Len(cache) \in Nat /\ DOMAIN cache = 1..Len(cache) /\ DOMAIN recency = 1..Len(recency)
  BY LenProperties DEF CacheSound
<1>2. Range(cache) = {cache[i] : i \in 1..Len(cache)}
  BY <1>1 DEF Range
<1>3. \A i \in 1..Len(cache) : cache[i] \in Entry
  BY ElementOfSeq DEF CacheSound
<1>4. \A i \in 1..Len(cache) : cache[i].key \in CacheKeys /\ EntrySound(cache[i], lastSet)
  BY <1>3 DEF Entry, CacheSound
<1>5. cacheClock \in Nat
  BY CacheAssumption DEF CacheSound
<1> QED
  BY <1>1, <1>2, <1>3, <1>4, <1>5, CacheAssumption

LEMMA ItemFound ==
  ASSUME CacheSound(cache, cacheClock, recency, lastSet), NEW key \in CacheKeys, HasKey(key)
  PROVE  \E i \in 1..Len(cache) : /\ cache[i] = ItemOf(key) /\ cache[i].key = key
                                  /\ \A j \in 1..Len(cache) : cache[j].key = key => j = i
<1>1. /\ DOMAIN cache = 1..Len(cache) /\ Range(cache) = {cache[i] : i \in 1..Len(cache)}
  BY CacheFacts
<1>2. \E e \in Range(cache) : e.key = key
  BY <1>1 DEF HasKey
<1>3. ItemOf(key) \in Range(cache) /\ ItemOf(key).key = key
  BY <1>2 DEF ItemOf
<1>4. PICK i \in 1..Len(cache) : cache[i] = ItemOf(key)
  BY <1>1, <1>3
<1>5. ASSUME NEW j \in 1..Len(cache), cache[j].key = key PROVE j = i
  BY <1>3, <1>4, <1>5, KeysDistinct
<1> QED
  BY <1>3, <1>4, <1>5

LEMMA KeyRemoved ==
  ASSUME CacheSound(cache, cacheClock, recency, lastSet), NEW key \in CacheKeys, NEW d, d = WithoutKey(key)
  PROVE  /\ CacheSound(d, cacheClock, recency, lastSet)
         /\ Len(d) \in Nat /\ (HasKey(key) => Len(d) < Len(cache))
         /\ \A j \in 1..Len(d) : d[j].key # key
         /\ \A i \in 1..Len(cache) : cache[i].key # key => \E j \in 1..Len(d) : d[j] = cache[i]
<1>1. DOMAIN cache = 1..Len(cache)
  BY CacheFacts
<1>2. PICK K \in SUBSET (1..Len(cache)) : K = {i \in DOMAIN cache : cache[i].key # key}
  BY <1>1
<1>3. d = AtPositions(cache, K)
  BY <1>2 DEF WithoutKey
<1>4. /\ CacheSound(d, cacheClock, recency, lastSet)
      /\ Len(d) \in Nat /\ (K # 1..Len(cache) => Len(d) < Len(cache))
      /\ HasThoseAt(d, cache, K)
  BY <1>3, CacheFiltered
<1>5. HasKey(key) => K # 1..Len(cache)
  BY <1>1, <1>2 DEF HasKey
<1>6. \A j \in 1..Len(d) : d[j].key # key
  BY <1>2, <1>4 DEF HasThoseAt
<1>7. \A i \in 1..Len(cache) : cache[i].key # key => i \in K
  BY <1>1, <1>2
<1>8. \A i \in 1..Len(cache) : cache[i].key # key => \E j \in 1..Len(d) : d[j] = cache[i]
  BY <1>4, <1>7 DEF HasThoseAt
<1> QED
  BY <1>4, <1>5, <1>6, <1>8

(* Either a live entry is kept or everything kept was used after it. *)
StillThere(c, e, t) ==
  \/ \E j \in 1..Len(c) : c[j].key = e.key
  \/ Len(c) = maxItems /\ \A j \in 1..Len(c) : Before(t, e.key, c[j].key)

LEMMA LruHolds ==
  ASSUME CacheSound(cache, cacheClock, recency, lastSet),
         NEW c2, c2 \in Seq(Entry), cache' = c2, NEW ls2, lastSet' = ls2, NEW t, t \in Seq(CacheKeys), recency' = t,
         \A i \in 1..Len(cache) :
           cacheClock < cache[i].expiresAt /\ ls2[cache[i].key] # NoSet => StillThere(c2, cache[i], t)
  PROVE  CacheIsLru
<1>1. Range(cache) = {cache[i] : i \in 1..Len(cache)}
  BY CacheFacts
<1>2. DOMAIN c2 = 1..Len(c2) /\ DOMAIN t = 1..Len(t)
  BY LenProperties
<1>3. Range(c2) = {c2[j] : j \in 1..Len(c2)}
  BY <1>2 DEF Range
<1>4. \A j \in 1..Len(c2) : c2[j].key \in CacheKeys
  <2>1. \A j \in 1..Len(c2) : c2[j] \in Entry
    BY ElementOfSeq
  <2> QED
    BY <2>1 DEF Entry
<1> DEFINE keptKeys == {e.key : e \in Range(c2)}
           later(k) == {j \in CacheKeys : \E m, n \in DOMAIN t : m < n /\ t[m] = k /\ t[n] = j}
<1>5. ASSUME NEW e \in Range(cache), e.key \notin keptKeys, cacheClock < e.expiresAt, ls2[e.key] # NoSet
      PROVE  Len(c2) = maxItems /\ keptKeys \subseteq later(e.key)
  <2>1. PICK i \in 1..Len(cache) : e = cache[i]
    BY <1>1
  <2>2. StillThere(c2, e, t)
    BY <1>5, <2>1
  <2>3. Len(c2) = maxItems /\ \A j \in 1..Len(c2) : Before(t, e.key, c2[j].key)
    BY <1>3, <1>5, <2>2 DEF StillThere
  <2>4. ASSUME NEW k \in keptKeys PROVE k \in later(e.key)
    <3>1. PICK j \in 1..Len(c2) : k = c2[j].key
      BY <1>3
    <3> QED
      BY <1>2, <1>4, <2>3, <3>1 DEF Before
  <2> QED
    BY <2>3, <2>4
<1> QED
  BY <1>5 DEF CacheIsLru

(* Looking a key up, for its value or its metadata. *)
LEMMA RefreshSound ==
  ASSUME CacheSound(cache, cacheClock, recency, lastSet), NEW key \in CacheKeys,
         NEW c2, c2 = Refreshed(key), NEW v, v = CachedValue(key),
         NEW t, t = IF v = Miss THEN recency ELSE Touched(key)
  PROVE  /\ CacheSound(c2, cacheClock, t, lastSet)
         /\ v \in CacheValues \cup {Miss}
         /\ v # Miss => v = lastSet[key].value /\ cacheClock - lastSet[key].at < ttlSeconds
         /\ \A i \in 1..Len(cache) : cacheClock < cache[i].expiresAt => StillThere(c2, cache[i], t)
<1>0. /\ Len(cache) \in Nat /\ DOMAIN cache = 1..Len(cache)
      /\ \A i \in 1..Len(cache) : cache[i] \in Entry /\ cache[i].key \in CacheKeys /\ EntrySound(cache[i], lastSet)
      /\ cacheClock \in Nat /\ ttlSeconds \in Nat \ {0} /\ maxItems \in Nat \ {0} /\ Miss \notin CacheValues
  BY CacheFacts
<1>1. CASE ~HasKey(key)
  <2>1. c2 = cache /\ v = Miss /\ t = recency
    BY <1>1 DEF Refreshed, CachedValue
  <2> QED
    BY <2>1 DEF StillThere
<1>2. CASE HasKey(key)
  <2>1. PICK p \in 1..Len(cache) : /\ cache[p] = ItemOf(key) /\ cache[p].key = key
                                   /\ \A j \in 1..Len(cache) : cache[j].key = key => j = p
    BY <1>2, ItemFound
  <2>2. PICK d : d = WithoutKey(key)
    OBVIOUS
  <2>3. /\ CacheSound(d, cacheClock, recency, lastSet)
        /\ Len(d) \in Nat /\ (HasKey(key) => Len(d) < Len(cache))
        /\ \A j \in 1..Len(d) : d[j].key # key
        /\ \A i \in 1..Len(cache) : cache[i].key # key => \E j \in 1..Len(d) : d[j] = cache[i]
    BY <2>2, KeyRemoved
  <2>4. CASE Expired(ItemOf(key))
    <3>1. c2 = d /\ v = Miss /\ t = recency
      BY <1>2, <2>2, <2>4 DEF Refreshed, CachedValue
    <3>2. ASSUME NEW i \in 1..Len(cache), cacheClock < cache[i].expiresAt PROVE StillThere(c2, cache[i], t)
      <4>1. cache[p].expiresAt \in Nat
        BY <1>0, CacheAssumption DEF Entry
      <4>2. i # p
        BY <1>0, <2>1, <2>4, <3>2, <4>1 DEF Expired
      <4>3. cache[i].key # key
        BY <2>1, <4>2
      <4> QED
        BY <2>3, <3>1, <4>3 DEF StillThere
    <3> QED
      BY <2>3, <3>1, <3>2
  <2>5. CASE ~Expired(ItemOf(key))
    <3>1. PICK e \in Entry : e = ItemOf(key)
      BY <1>0, <2>1
    <3>2. c2 = Append(d, e) /\ v = e.value
      BY <1>2, <2>2, <2>5, <3>1 DEF Refreshed, CachedValue
    <3>3. v \in CacheValues /\ v # Miss
      BY <1>0, <3>1, <3>2 DEF Entry
    <3>4. t = UsedOrder(recency, key)
      BY <3>3 DEF Touched, UsedOrder
    <3>5. e.key = key /\ EntrySound(e, lastSet)
      BY <1>0, <2>1, <3>1
    <3>6. NoEntryOf(d, key)
      BY <2>3 DEF NoEntryOf
    <3>7. PICK ls2 : ls2 = lastSet /\ ls2 \in [CacheKeys -> SetRecords]
      BY DEF CacheSound
    <3>8. SameBut(lastSet, ls2, key)
      BY <3>7 DEF SameBut
    <3>9. EntrySound(e, ls2)
      BY <3>5, <3>7
    <3>10. /\ c2 \in Seq(Entry) /\ Len(c2) = Len(d) + 1 /\ c2[Len(d) + 1] = e
           /\ \A i \in 1..Len(d) : c2[i] = d[i]
           /\ t \in Seq(CacheKeys) /\ Distinct(t)
           /\ \A i \in 1..Len(c2) : EntrySound(c2[i], ls2)
           /\ OrderSound(c2, t)
      <4>1. CacheSound(d, cacheClock, recency, lastSet)
        BY <2>3
      <4>2. c2 = Append(d, e)
        BY <3>2
      <4>3. /\ c2 \in Seq(Entry) /\ Prolongs(c2, d, e)
            /\ t \in Seq(CacheKeys) /\ Distinct(t)
            /\ EntriesSound(c2, ls2) /\ OrderSound(c2, t)
        BY <4>1, <4>2, <3>1, <3>4, <3>5, <3>6, <3>7, <3>8, <3>9, CacheAppended
      <4> QED
        BY <4>3, Zenon DEF Prolongs, EntriesSound
    <3>11. PICK n \in Nat : n = Len(d)
      BY <2>3
    <3>12. Len(c2) = n + 1 /\ n + 1 \in 1..Len(c2) /\ \A i \in 1..n : i \in 1..Len(c2)
      <4>1. n + 1 \in 1..n + 1 /\ \A i \in 1..n : i \in 1..n + 1
        OBVIOUS
      <4>2. Len(c2) = n + 1
        BY <3>10, <3>11, Zenon
      <4> QED
        BY <4>1, <4>2, Zenon
    <3>13. Len(c2) <= maxItems
      <4>1. n < Len(cache) /\ Len(cache) <= maxItems
        BY <1>2, <2>3, <3>11 DEF CacheSound
      <4>2. PICK q \in Nat : q = Len(cache)
        BY <1>0
      <4>3. n + 1 <= maxItems
        BY <1>0, <4>1, <4>2
      <4> QED
        BY <3>12, <4>3
    <3>14. CacheSound(c2, cacheClock, t, lastSet)
      BY <3>7, <3>10, <3>13 DEF CacheSound
    <3>15. ASSUME NEW i \in 1..Len(cache) PROVE \E j \in 1..Len(c2) : c2[j].key = cache[i].key
      <4>1. CASE cache[i].key = key
        <5>1. c2[n + 1] = e
          BY <3>10, <3>11, Zenon
        <5> QED
          BY <3>5, <3>12, <4>1, <5>1
      <4>2. CASE cache[i].key # key
        <5>1. PICK j \in 1..Len(d) : d[j] = cache[i]
          BY <2>3, <4>2
        <5>2. j \in 1..Len(c2) /\ c2[j] = d[j]
          BY <3>10, <3>11, <3>12, <5>1, Zenon
        <5> QED
          BY <5>1, <5>2
      <4> QED
        BY <4>1, <4>2
    <3>16. cacheClock - lastSet[key].at < ttlSeconds /\ v = lastSet[key].value
      <4>1. e.expiresAt \in Nat /\ e.createdAt \in Nat
        BY <3>1, CacheAssumption DEF Entry
      <4>2. cacheClock < e.expiresAt
        BY <1>0, <2>5, <3>1, <4>1 DEF Expired
      <4>3. e.expiresAt = e.createdAt + ttlSeconds /\ e.createdAt = lastSet[key].at /\ e.value = lastSet[key].value
        BY <3>5 DEF EntrySound
      <4> QED
        BY <1>0, <3>2, <4>1, <4>2, <4>3
    <3> QED
      BY <3>3, <3>14, <3>15, <3>16 DEF StillThere
  <2> QED
    BY <2>4, <2>5
<1> QED
  BY <1>1, <1>2

LEMMA LookUpKeeps ==
  ASSUME CacheIInv, NEW key \in CacheKeys, CacheGet(key) \/ GetMetadata(key)
  PROVE  CacheIInv' /\ CacheIsLru
<1>1. CacheSound(cache, cacheClock, recency, lastSet) /\ GetSound(cacheClock, lastSet, lastGet)
  BY DEF CacheIInv
<1>2. PICK c2, v : c2 = Refreshed(key) /\ v = CachedValue(key)
  OBVIOUS
<1>3. PICK t : t = IF v = Miss THEN recency ELSE Touched(key)
  OBVIOUS
<1>4. /\ CacheSound(c2, cacheClock, t, lastSet)
      /\ v \in CacheValues \cup {Miss}
      /\ v # Miss => v = lastSet[key].value /\ cacheClock - lastSet[key].at < ttlSeconds
      /\ \A i \in 1..Len(cache) : cacheClock < cache[i].expiresAt => StillThere(c2, cache[i], t)
  BY <1>1, <1>2, <1>3, RefreshSound
<1>5. PICK g : g = [key |-> key, value |-> v]
  OBVIOUS
<1>6. GetSound(cacheClock, lastSet, g)
  BY <1>4, <1>5 DEF GetSound
<1>7. /\ cache' = c2 /\ recency' = t /\ cacheClock' = cacheClock /\ lastSet' = lastSet
      /\ lastGet' = g \/ lastGet' = lastGet
  BY <1>2, <1>3, <1>5 DEF CacheGet, GetMetadata
<1>8. CacheIInv'
  BY <1>1, <1>4, <1>6, <1>7 DEF CacheIInv
<1>9. c2 \in Seq(Entry) /\ t \in Seq(CacheKeys)
  BY <1>4 DEF CacheSound
<1>10. PICK ls2 : ls2 = lastSet
  OBVIOUS
<1>11. lastSet' = ls2
  BY <1>7, <1>10
<1>12. \A i \in 1..Len(cache) :
         cacheClock < cache[i].expiresAt /\ ls2[cache[i].key] # NoSet => StillThere(c2, cache[i], t)
  BY <1>4
<1>13. cache' = c2 /\ recency' = t
  BY <1>7
<1>14. CacheIsLru
  BY <1>1, <1>9, <1>11, <1>12, <1>13, LruHolds
<1> QED
  BY <1>8, <1>14

NoAnswer == [key |-> Miss, value |-> Miss]

LEMMA NoAnswerSound ==
  ASSUME NEW now, NEW ls
  PROVE  GetSound(now, ls, NoAnswer)
  BY DEF GetSound, NoAnswer

LEMMA DelKeeps ==
  ASSUME CacheIInv, NEW key \in CacheKeys, CacheDel(key)
  PROVE  CacheIInv' /\ CacheIsLru
<1>1. CacheSound(cache, cacheClock, recency, lastSet)
  BY DEF CacheIInv
<1>2. PICK d : d = WithoutKey(key)
  OBVIOUS
<1>3. /\ CacheSound(d, cacheClock, recency, lastSet)
      /\ \A j \in 1..Len(d) : d[j].key # key
      /\ \A i \in 1..Len(cache) : cache[i].key # key => \E j \in 1..Len(d) : d[j] = cache[i]
  BY <1>1, <1>2, KeyRemoved
<1>4. PICK ls2 : ls2 = [lastSet EXCEPT ![key] = NoSet]
  OBVIOUS
<1>5. lastSet \in [CacheKeys -> SetRecords]
  BY <1>1 DEF CacheSound
<1>6. /\ ls2 \in [CacheKeys -> SetRecords] /\ ls2[key] = NoSet
      /\ \A k \in CacheKeys \ {key} : ls2[k] = lastSet[k]
  BY <1>4, <1>5 DEF SetRecords
<1>7. \A j \in 1..Len(d) : EntrySound(d[j], ls2)
  <2> SUFFICES ASSUME NEW j \in 1..Len(d) PROVE EntrySound(d[j], ls2)
    OBVIOUS
  <2>1. d[j] \in Entry /\ EntrySound(d[j], lastSet)
    BY <1>3, ElementOfSeq DEF CacheSound
  <2>2. d[j].key \in CacheKeys \ {key}
    BY <1>3, <2>1 DEF Entry
  <2> QED
    BY <1>6, <2>1, <2>2 DEF EntrySound
<1>8. CacheSound(d, cacheClock, recency, ls2)
  BY <1>3, <1>6, <1>7 DEF CacheSound
<1>9. cache' = d /\ recency' = recency /\ cacheClock' = cacheClock /\ lastSet' = ls2 /\ lastGet' = NoAnswer
  BY <1>2, <1>4 DEF CacheDel, NoAnswer
<1>10. CacheIInv'
  BY <1>8, <1>9, NoAnswerSound DEF CacheIInv
<1>11. PICK t : t = recency
  OBVIOUS
<1>12. d \in Seq(Entry) /\ t \in Seq(CacheKeys) /\ recency' = t /\ cache' = d /\ lastSet' = ls2
  BY <1>8, <1>9, <1>11 DEF CacheSound
<1>13. \A i \in 1..Len(cache) :
         cacheClock < cache[i].expiresAt /\ ls2[cache[i].key] # NoSet => StillThere(d, cache[i], t)
  BY <1>3, <1>6 DEF StillThere
<1>14. CacheIsLru
  BY <1>1, <1>12, <1>13, LruHolds
<1> QED
  BY <1>10, <1>14

LEMMA SetKeeps ==
  ASSUME CacheIInv, NEW key \in CacheKeys, NEW value \in CacheValues, CacheSet(key, value)
  PROVE  CacheIInv' /\ CacheIsLru
<1>1. CacheSound(cache, cacheClock, recency, lastSet)
  BY DEF CacheIInv
<1>0. /\ \A i \in 1..Len(cache) : cache[i] \in Entry /\ cache[i].key \in CacheKeys
      /\ ttlSeconds \in Nat \ {0} /\ maxItems \in Nat \ {0}
  BY <1>1, CacheFacts
<1>2. PICK d : d = WithoutKey(key)
  OBVIOUS
<1>3. /\ CacheSound(d, cacheClock, recency, lastSet) /\ Len(d) \in Nat
      /\ \A j \in 1..Len(d) : d[j].key # key
      /\ \A i \in 1..Len(cache) : cache[i].key # key => \E j \in 1..Len(d) : d[j] = cache[i]
  BY <1>1, <1>2, KeyRemoved
<1>4. PICK now \in 0..MaxCacheClock : now = cacheClock
  BY <1>1 DEF CacheSound
<1>5. PICK s : s = [value |-> value, at |-> now]
  OBVIOUS
<1>6. s \in SetRecords /\ s.value = value /\ s.at = now
  BY <1>5 DEF SetRecords
<1>7. PICK ls2 : ls2 = [lastSet EXCEPT ![key] = s]
  OBVIOUS
<1>8. lastSet \in [CacheKeys -> SetRecords]
  BY <1>1 DEF CacheSound
<1>9. ls2 \in [CacheKeys -> SetRecords] /\ ls2[key] = s /\ SameBut(lastSet, ls2, key)
  BY <1>6, <1>7, <1>8 DEF SameBut
<1>10. PICK e : e = [key |-> key, value |-> value, createdAt |-> now, expiresAt |-> now + ttlSeconds]
  OBVIOUS
<1>11. e \in Entry /\ e.key = key /\ e.value = value /\ e.createdAt = now /\ e.expiresAt = now + ttlSeconds
  <2>1. PICK ex \in 0..(MaxCacheClock + ttlSeconds) : ex = now + ttlSeconds
    BY CacheAssumption
  <2> QED
    BY <1>10, <2>1 DEF Entry
<1>12. EntrySound(e, ls2)
  BY <1>6, <1>9, <1>11 DEF EntrySound
<1>13. PICK x : x = Append(d, e)
  OBVIOUS
<1>14. PICK t : t = UsedOrder(recency, key)
  OBVIOUS
<1>15. NoEntryOf(d, key)
  BY <1>3 DEF NoEntryOf
<1>16. /\ x \in Seq(Entry) /\ Prolongs(x, d, e)
       /\ t \in Seq(CacheKeys) /\ Distinct(t)
       /\ EntriesSound(x, ls2) /\ OrderSound(x, t)
  <2>1. CacheSound(d, cacheClock, recency, lastSet)
    BY <1>3
  <2>2. e \in Entry /\ e.key = key /\ ls2 \in [CacheKeys -> SetRecords] /\ SameBut(lastSet, ls2, key)
    BY <1>9, <1>11
  <2> QED
    BY <2>1, <2>2, <1>12, <1>13, <1>14, <1>15, CacheAppended
<1>17. PICK y : y = EvictIfOverCapacity(x)
  OBVIOUS
<1>18. /\ cache' = y /\ recency' = t /\ cacheClock' = cacheClock /\ lastSet' = ls2 /\ lastGet' = NoAnswer
  BY <1>2, <1>4, <1>5, <1>7, <1>10, <1>13, <1>14, <1>17 DEF CacheSet, NoAnswer, Touched, UsedOrder
<1>19. PICK n \in Nat : n = Len(x)
  BY <1>16, LenProperties
<1>20. PICK a \in Nat : a = Len(d)
  BY <1>3
<1>21. n = a + 1 /\ x[n] = e /\ \A i \in 1..a : x[i] = d[i]
  BY <1>16, <1>19, <1>20, Zenon DEF Prolongs
(* Every entry that was there is still in x, under its key. *)
<1>22. \A i \in 1..Len(cache) : \E j \in 1..n : x[j].key = cache[i].key
  <2> SUFFICES ASSUME NEW i \in 1..Len(cache) PROVE \E j \in 1..n : x[j].key = cache[i].key
    OBVIOUS
  <2>1. CASE cache[i].key = key
    <3>1. n \in 1..n
      BY <1>21
    <3> QED
      BY <1>11, <1>21, <2>1, <3>1
  <2>2. CASE cache[i].key # key
    <3>1. PICK j \in 1..Len(d) : d[j] = cache[i]
      BY <1>3, <2>2
    <3>2. j \in 1..a
      BY <1>20, <3>1
    <3>3. j \in 1..n /\ x[j] = cache[i]
      BY <1>21, <3>1, <3>2
    <3> QED
      BY <3>3
  <2> QED
    BY <2>1, <2>2
<1>23. /\ CacheSound(y, cacheClock, t, ls2)
       /\ \A i \in 1..Len(cache) : StillThere(y, cache[i], t)
  <2>1. CASE n > maxItems
    <3>0. /\ y \in Seq(Entry) /\ Len(y) = maxItems /\ maxItems \in Nat
          /\ LastOnes(y, x, n) /\ OrderSound(y, t) /\ EntriesSound(y, ls2)
      BY <1>16, <1>17, <1>19, <2>1, Evicted
    <3>1. /\ y \in Seq(Entry) /\ Len(y) = maxItems /\ maxItems \in Nat
          /\ \A i \in 1..maxItems : n - maxItems + i \in 1..n /\ y[i] = x[n - maxItems + i]
          /\ \A i \in 1..n : i > n - maxItems => \E j \in 1..maxItems : y[j] = x[i]
          /\ OrderSound(y, t) /\ \A i \in 1..Len(y) : EntrySound(y[i], ls2)
      BY <3>0 DEF LastOnes, EntriesSound
    <3>2. CacheSound(y, cacheClock, t, ls2)
      <4>1. Len(y) <= maxItems
        BY <3>1
      <4> QED
        BY <1>1, <1>9, <1>16, <3>1, <4>1 DEF CacheSound
    <3>3. ASSUME NEW i \in 1..Len(cache) PROVE StillThere(y, cache[i], t)
      <4>1. PICK p \in 1..n : x[p].key = cache[i].key
        BY <1>22
      <4>2. CASE p > n - maxItems
        <5>1. PICK j \in 1..maxItems : y[j] = x[p]
          BY <3>1, <4>2
        <5> QED
          BY <3>1, <4>1, <5>1 DEF StillThere
      <4>3. CASE ~(p > n - maxItems)
        <5>1. ASSUME NEW j \in 1..maxItems PROVE Before(t, cache[i].key, y[j].key)
          <6>1. PICK q \in 1..n : q = n - maxItems + j
            BY <3>1
          <6>2. y[j] = x[q]
            BY <3>1, <6>1
          <6>3. p < q
            BY <1>0, <4>3, <6>1
          <6>4. Before(t, x[p].key, x[q].key)
            BY <1>16, <1>19, <6>3 DEF OrderSound
          <6> QED
            BY <4>1, <6>2, <6>4
        <5> QED
          BY <3>1, <5>1 DEF StillThere
      <4> QED
        BY <4>2, <4>3
    <3> QED
      BY <3>2, <3>3
  <2>2. CASE ~(n > maxItems)
    <3>1. y = x /\ Len(x) <= maxItems
      BY <1>0, <1>17, <1>19, <2>2 DEF EvictIfOverCapacity
    <3>2. CacheSound(y, cacheClock, t, ls2)
      BY <1>1, <1>9, <1>16, <3>1 DEF CacheSound, EntriesSound
    <3>3. \A i \in 1..Len(cache) : StillThere(y, cache[i], t)
      BY <1>19, <1>22, <3>1 DEF StillThere
    <3> QED
      BY <3>2, <3>3
  <2> QED
    BY <2>1, <2>2
<1>24. CacheIInv'
  BY <1>18, <1>23, NoAnswerSound DEF CacheIInv
<1>25. CacheIsLru
  <2>1. y \in Seq(Entry) /\ t \in Seq(CacheKeys) /\ cache' = y /\ recency' = t /\ lastSet' = ls2
    BY <1>18, <1>23 DEF CacheSound
  <2>2. \A i \in 1..Len(cache) :
          cacheClock < cache[i].expiresAt /\ ls2[cache[i].key] # NoSet => StillThere(y, cache[i], t)
    BY <1>23
  <2> QED
    BY <1>1, <2>1, <2>2, LruHolds
<1> QED
  BY <1>24, <1>25

LEMMA CleanupKeeps ==
  ASSUME CacheIInv, CacheCleanup
  PROVE  CacheIInv' /\ CacheIsLru
<1>1. CacheSound(cache, cacheClock, recency, lastSet) /\ GetSound(cacheClock, lastSet, lastGet)
  BY DEF CacheIInv
<1>2. /\ DOMAIN cache = 1..Len(cache) /\ Len(cache) \in Nat /\ maxItems \in Nat
      /\ \A i \in 1..Len(cache) : cache[i] \in Entry
      /\ cacheClock \in Nat
  BY <1>1, CacheFacts
<1>3. PICK K \in SUBSET (1..Len(cache)) : K = {i \in DOMAIN cache : ~Expired(cache[i])}
  BY <1>2
<1>4. PICK d : d = AtPositions(cache, K)
  OBVIOUS
<1>5. CacheSound(d, cacheClock, recency, lastSet) /\ Len(d) \in Nat /\ HasThoseAt(d, cache, K)
  BY <1>1, <1>4, CacheFiltered
<1>6. Len(d) <= maxItems /\ d \in Seq(Entry)
  BY <1>5 DEF CacheSound
<1>7. cache' = d /\ recency' = recency /\ cacheClock' = cacheClock /\ lastSet' = lastSet /\ lastGet' = lastGet
  <2>1. EvictIfOverCapacity(d) = d
    <3>1. PICK n \in Nat : n = Len(d)
      BY <1>5
    <3>2. ~(n > maxItems)
      BY <1>2, <1>6, <3>1
    <3> QED
      BY <3>1, <3>2 DEF EvictIfOverCapacity
  <2> QED
    BY <1>3, <1>4, <2>1 DEF CacheCleanup
<1>8. CacheIInv'
  BY <1>1, <1>5, <1>7 DEF CacheIInv
<1>9. PICK ls2, t : ls2 = lastSet /\ t = recency
  OBVIOUS
<1>10. ASSUME NEW i \in 1..Len(cache), cacheClock < cache[i].expiresAt PROVE StillThere(d, cache[i], t)
  <2>1. cache[i].expiresAt \in Nat
    BY <1>2, CacheAssumption DEF Entry
  <2>2. ~Expired(cache[i])
    BY <1>2, <1>10, <2>1 DEF Expired
  <2>3. i \in K
    BY <1>2, <1>3, <2>2
  <2> QED
    BY <1>5, <2>3 DEF HasThoseAt, StillThere
<1>11. \A i \in 1..Len(cache) :
         cacheClock < cache[i].expiresAt /\ ls2[cache[i].key] # NoSet => StillThere(d, cache[i], t)
  BY <1>10
<1>12. t \in Seq(CacheKeys) /\ cache' = d /\ recency' = t /\ lastSet' = ls2
  BY <1>1, <1>7, <1>9 DEF CacheSound
<1>13. CacheIsLru
  BY <1>1, <1>6, <1>11, <1>12, LruHolds
<1> QED
  BY <1>8, <1>13

LEMMA CacheStart == CacheInit => CacheIInv
<1> SUFFICES ASSUME CacheInit PROVE CacheIInv
  OBVIOUS
<1>1. /\ cache \in Seq(Entry) /\ Len(cache) = 0 /\ recency \in Seq(CacheKeys) /\ Len(recency) = 0
  BY DEF CacheInit
<1>2. lastSet \in [CacheKeys -> SetRecords]
  BY DEF CacheInit, SetRecords
<1>3. lastGet = NoAnswer
  BY DEF CacheInit, NoAnswer
<1>4. CacheSound(cache, cacheClock, recency, lastSet)
  <2>1. cacheClock \in 0..MaxCacheClock /\ 0 <= maxItems
    BY CacheAssumption DEF CacheInit
  <2>2. 1..0 = {}
    OBVIOUS
  <2> QED
    BY <1>1, <1>2, <2>1, <2>2 DEF CacheSound, Distinct, OrderSound
<1> QED
  BY <1>3, <1>4, NoAnswerSound DEF CacheIInv

(* A step that leaves the entries alone loses none. *)
LEMMA CacheStep ==
  ASSUME CacheIInv, [CacheNext]_cacheVars
  PROVE  CacheIInv' /\ CacheIsLru
<1>1. CacheSound(cache, cacheClock, recency, lastSet) /\ GetSound(cacheClock, lastSet, lastGet)
  BY DEF CacheIInv
<1>2. ASSUME UNCHANGED <<cache, recency, lastSet>>
      PROVE  CacheIsLru
  BY <1>2 DEF CacheIsLru
<1>3. CASE UNCHANGED cacheVars
  <2>1. UNCHANGED <<cache, cacheClock, recency, lastSet, lastGet>>
    BY <1>3 DEF cacheVars
  <2>2. CacheIInv'
    BY <1>1, <2>1 DEF CacheIInv
  <2> QED
    BY <1>2, <2>1, <2>2
<1>4. CASE CacheTick
  <2>1. /\ UNCHANGED <<cache, recency, lastSet>> /\ lastGet' = NoAnswer
        /\ cacheClock' = cacheClock + 1 /\ cacheClock < MaxCacheClock
    BY <1>4 DEF CacheTick, NoAnswer
  <2>2. cacheClock' \in 0..MaxCacheClock
    BY <1>1, <2>1, CacheAssumption DEF CacheSound
  <2>3. CacheSound(cache', cacheClock', recency', lastSet')
    BY <1>1, <2>1, <2>2 DEF CacheSound
  <2>4. CacheIInv'
    BY <2>1, <2>3, NoAnswerSound DEF CacheIInv
  <2> QED
    BY <1>2, <2>1, <2>4
<1> QED
  BY <1>3, <1>4, LookUpKeeps, DelKeeps, SetKeeps, CleanupKeeps DEF CacheNext

-----------------------------------------------------------------------------
(* The read-through caches.  An entry was read before it was stored, and the   *)
(* summary's expires with its reading; a caller reads after it asked.  Unless  *)
(* two reads overlapped, one caller at most is between miss and store, and     *)
(* the entry is no newer than its request; for the health check that caller   *)
(* is the one whose promise the others share.                                *)
RtEntries == [readAt : 0..MaxRtClock, storedAt : 0..MaxRtClock, expiresAt : 0..(MaxRtClock + RtTtl)]
RtCalls == [phase : {"reading", "storing", "waiting"}, nowMs : 0..MaxRtClock, readAt : 0..MaxRtClock]
RtAnswers == [hit : BOOLEAN, readAt : 0..MaxRtClock, storedAt : 0..MaxRtClock]

RtEntrySound(kind, e, now) ==
  /\ e \in RtEntries /\ e.readAt <= e.storedAt /\ e.storedAt <= now
  /\ e.expiresAt <= e.storedAt + RtTtl
  /\ kind = "summary" => e.expiresAt <= e.readAt + RtTtl
  /\ kind = "none" => e = NoEntry

RtCallSound(c, now) ==
  \/ c = NoCall
  \/ /\ c \in RtCalls /\ c.nowMs <= now
     /\ c.phase = "storing" => c.nowMs <= c.readAt /\ c.readAt <= now

UnderWay(c) == c.phase \in {"reading", "storing"}

RtAlone(kind, e, call, flight, overlap) ==
  /\ ~overlap => /\ \A r, s \in RtCallers : UnderWay(call[r]) /\ UnderWay(call[s]) => r = s
                 /\ \A r \in RtCallers : UnderWay(call[r]) => e.readAt <= call[r].nowMs
  /\ kind = "health" => ~overlap /\ \A r \in RtCallers : UnderWay(call[r]) => r = flight
  /\ kind = "none" => ~overlap /\ \A r \in RtCallers : call[r] = NoCall

RtSound(kind, e, call, flight, now, overlap) ==
  /\ kind \in RtKinds \cup {"none"} /\ flight \in RtCallers \cup {NobodyRt}
  /\ now \in 0..MaxRtClock /\ overlap \in BOOLEAN
  /\ DOMAIN call = RtCallers /\ \A r \in RtCallers : RtCallSound(call[r], now)
  /\ RtEntrySound(kind, e, now) /\ RtAlone(kind, e, call, flight, overlap)

RtIInv == RtSound(rtKind, rtEntry, rtCall, rtFlight, rtClock, rtOverlap) /\ rtServed \in RtAnswers

LEMMA RtConstants == RtTtl \in Nat \ {0} /\ MaxRtClock \in Nat \ {0} /\ NobodyRt \notin RtCallers
  BY RtAssumption

LEMMA RtHolds == RtIInv => RtTypeOK
  BY DEF RtIInv, RtSound, RtTypeOK, RtEntrySound, RtEntries, RtCallSound, RtCalls, RtAnswers

LEMMA NoEntrySound ==
  ASSUME NEW kind, NEW now \in 0..MaxRtClock
  PROVE  RtEntrySound(kind, NoEntry, now)
<1>1. PICK z \in 0..MaxRtClock : z = 0
  BY RtConstants
<1>2. z \in 0..(MaxRtClock + RtTtl)
  BY <1>1, RtConstants
<1>3. NoEntry = [readAt |-> z, storedAt |-> z, expiresAt |-> z]
  BY <1>1 DEF NoEntry
<1>4. NoEntry \in RtEntries /\ NoEntry.readAt = z /\ NoEntry.storedAt = z /\ NoEntry.expiresAt = z
  BY <1>2, <1>3 DEF RtEntries
<1> QED
  BY <1>1, <1>4, RtConstants DEF RtEntrySound

LEMMA NoCallIdle == /\ NoCall.phase = "idle" /\ ~UnderWay(NoCall)
                    /\ \A now : RtCallSound(NoCall, now)
  BY DEF NoCall, UnderWay, RtCallSound

LEMMA RtStart == RtInit => RtIInv
<1> SUFFICES ASSUME RtInit PROVE RtIInv
  OBVIOUS
<1>1. rtClock \in 0..MaxRtClock
  BY RtConstants DEF RtInit
<1>2. RtEntrySound(rtKind, rtEntry, rtClock)
  BY <1>1, NoEntrySound DEF RtInit
<1>3. DOMAIN rtCall = RtCallers /\ \A r \in RtCallers : rtCall[r] = NoCall
  BY DEF RtInit
<1>4. \A r \in RtCallers : RtCallSound(rtCall[r], rtClock) /\ ~UnderWay(rtCall[r])
  BY <1>3, NoCallIdle
<1>5. RtAlone(rtKind, rtEntry, rtCall, rtFlight, rtOverlap)
  BY <1>3, <1>4 DEF RtAlone, RtInit
<1>6. rtServed \in RtAnswers
  <2>1. PICK z \in 0..MaxRtClock : z = 0
    BY RtConstants
  <2>2. rtServed = [hit |-> FALSE, readAt |-> z, storedAt |-> z]
    BY <2>1 DEF RtInit
  <2> QED
    BY <2>2 DEF RtAnswers
<1> QED
  BY <1>1, <1>2, <1>3, <1>4, <1>5, <1>6 DEF RtIInv, RtSound, RtInit

LEMMA HitKeeps ==
  ASSUME RtIInv, NEW r \in RtCallers, RtHit(r)
  PROVE  RtIInv' /\ RtHitsAreFresh /\ RtNeverGoesBack
<1>1. PICK e \in RtEntries : e = rtEntry
  BY DEF RtIInv, RtSound, RtEntrySound
<1>2. PICK a : a = [hit |-> TRUE, readAt |-> e.readAt, storedAt |-> e.storedAt]
  OBVIOUS
<1>3. a \in RtAnswers /\ a.readAt = e.readAt /\ a.storedAt = e.storedAt
  <2>1. e.readAt \in 0..MaxRtClock /\ e.storedAt \in 0..MaxRtClock
    BY DEF RtEntries
  <2> QED
    BY <1>2, <2>1 DEF RtAnswers
<1>4. /\ rtServed' = a /\ UNCHANGED <<rtKind, rtEntry, rtCall, rtFlight, rtClock, rtOverlap>>
      /\ e.expiresAt > rtClock
  BY <1>1, <1>2 DEF RtHit, Served, Fresh
<1>5. RtIInv'
  BY <1>3, <1>4 DEF RtIInv
<1>6. RtHitsAreFresh
  <2>1. PICK ra \in Nat, sa \in Nat, ex \in Nat, now \in Nat :
          ra = e.readAt /\ sa = e.storedAt /\ ex = e.expiresAt /\ now = rtClock
    BY RtConstants DEF RtEntries, RtIInv, RtSound
  <2>2. /\ ex > now /\ ex <= sa + RtTtl
        /\ rtKind = "summary" => ex <= ra + RtTtl
    BY <1>1, <1>4, <2>1 DEF RtIInv, RtSound, RtEntrySound
  <2>3. now - sa < RtTtl /\ (rtKind = "summary" => now - ra < RtTtl)
    BY <2>2, RtConstants
  <2> QED
    BY <1>3, <1>4, <2>1, <2>3 DEF RtHitsAreFresh
<1>7. RtNeverGoesBack
  <2>1. rtEntry'.readAt = e.readAt /\ rtEntry.readAt = e.readAt /\ e.readAt \in Nat
    BY <1>1, <1>4, RtConstants DEF RtEntries
  <2> QED
    BY <2>1 DEF RtNeverGoesBack
<1> QED
  BY <1>5, <1>6, <1>7

(* A step that answers nobody and keeps the entry, or empties it. *)
LEMMA QuietStep ==
  ASSUME RtIInv, rtServed' = rtServed, rtEntry' = rtEntry \/ rtEntry' = NoEntry
  PROVE  RtHitsAreFresh /\ RtNeverGoesBack
<1>1. RtHitsAreFresh
  BY DEF RtHitsAreFresh
<1>2. rtEntry.readAt \in Nat
  BY RtConstants DEF RtIInv, RtSound, RtEntrySound, RtEntries
<1>3. RtNeverGoesBack
  BY <1>2 DEF RtNeverGoesBack
<1> QED
  BY <1>1, <1>3

(* A caller moves on within its request. *)
LEMMA RtMoves ==
  ASSUME RtSound(rtKind, rtEntry, rtCall, rtFlight, rtClock, rtOverlap), NEW r \in RtCallers,
         NEW c, RtCallSound(c, rtClock), UnderWay(c) => UnderWay(rtCall[r]) /\ c.nowMs = rtCall[r].nowMs,
         rtKind # "none", NEW call, call = [rtCall EXCEPT ![r] = c]
  PROVE  RtSound(rtKind, rtEntry, call, rtFlight, rtClock, rtOverlap)
<1>1. DOMAIN rtCall = RtCallers /\ \A s \in RtCallers : RtCallSound(rtCall[s], rtClock)
  BY DEF RtSound
<1>2. DOMAIN call = RtCallers /\ call[r] = c /\ \A s \in RtCallers \ {r} : call[s] = rtCall[s]
  BY <1>1
<1>3. \A s \in RtCallers : RtCallSound(call[s], rtClock)
  BY <1>1, <1>2
<1>4. \A s \in RtCallers : UnderWay(call[s]) => UnderWay(rtCall[s]) /\ call[s].nowMs = rtCall[s].nowMs
  BY <1>2
<1>5. RtAlone(rtKind, rtEntry, call, rtFlight, rtOverlap)
  BY <1>4 DEF RtSound, RtAlone
<1> QED
  BY <1>2, <1>3, <1>5 DEF RtSound

LEMMA ReadKeeps ==
  ASSUME RtIInv, NEW r \in RtCallers, RtRead(r) \/ RtFails(r)
  PROVE  RtIInv' /\ RtHitsAreFresh /\ RtNeverGoesBack
<1>1. /\ RtSound(rtKind, rtEntry, rtCall, rtFlight, rtClock, rtOverlap) /\ rtServed \in RtAnswers
      /\ rtClock \in 0..MaxRtClock /\ DOMAIN rtCall = RtCallers /\ RtCallSound(rtCall[r], rtClock)
  BY DEF RtIInv, RtSound
<1>2. rtCall[r].phase = "reading" /\ rtCall[r] # NoCall
  BY NoCallIdle DEF RtRead, RtFails
<1>3. rtCall[r] \in RtCalls /\ rtCall[r].nowMs <= rtClock
  BY <1>1, <1>2 DEF RtCallSound
<1>4. rtKind # "none"
  BY <1>1, <1>2 DEF RtSound, RtAlone
<1>5. UNCHANGED <<rtKind, rtEntry, rtFlight, rtClock, rtServed, rtOverlap>>
  BY DEF RtRead, RtFails
<1>6. ASSUME NEW c, RtCallSound(c, rtClock), UnderWay(c) => UnderWay(rtCall[r]) /\ c.nowMs = rtCall[r].nowMs,
             rtCall' = [rtCall EXCEPT ![r] = c]
      PROVE  RtIInv'
  <2>1. PICK call : call = [rtCall EXCEPT ![r] = c]
    OBVIOUS
  <2>2. RtSound(rtKind, rtEntry, call, rtFlight, rtClock, rtOverlap)
    BY <1>1, <1>4, <1>6, <2>1, RtMoves
  <2> QED
    BY <1>1, <1>5, <1>6, <2>1, <2>2 DEF RtIInv
<1>7. CASE RtRead(r)
  <2>1. PICK c : c = [rtCall[r] EXCEPT !.phase = "storing", !.readAt = rtClock]
    OBVIOUS
  <2>2. c \in RtCalls /\ c.phase = "storing" /\ c.readAt = rtClock /\ c.nowMs = rtCall[r].nowMs
    BY <1>1, <1>3, <2>1 DEF RtCalls
  <2>3. rtClock <= rtClock
    BY <1>1, RtConstants
  <2>4. RtCallSound(c, rtClock)
    BY <1>3, <2>2, <2>3 DEF RtCallSound
  <2>5. UnderWay(rtCall[r])
    BY <1>2 DEF UnderWay
  <2>6. rtCall' = [rtCall EXCEPT ![r] = c]
    BY <1>1, <1>7, <2>1 DEF RtRead
  <2> QED
    BY <1>5, <1>6, <2>2, <2>4, <2>5, <2>6, QuietStep
<1>8. CASE RtFails(r)
  <2>1. PICK c : c = NoCall
    OBVIOUS
  <2>2. RtCallSound(c, rtClock) /\ ~UnderWay(c) /\ rtCall' = [rtCall EXCEPT ![r] = c]
    BY <1>8, <2>1, NoCallIdle DEF RtFails
  <2> QED
    BY <1>5, <1>6, <2>2, QuietStep
<1> QED
  BY <1>7, <1>8

LEMMA MissKeeps ==
  ASSUME RtIInv, NEW r \in RtCallers, NEW kind \in RtKinds, RtMiss(r, kind)
  PROVE  RtIInv' /\ RtHitsAreFresh /\ RtNeverGoesBack
<1>1. /\ RtSound(rtKind, rtEntry, rtCall, rtFlight, rtClock, rtOverlap) /\ rtServed \in RtAnswers
      /\ rtClock \in 0..MaxRtClock /\ DOMAIN rtCall = RtCallers /\ rtOverlap \in BOOLEAN
      /\ \A s \in RtCallers : RtCallSound(rtCall[s], rtClock)
      /\ RtEntrySound(rtKind, rtEntry, rtClock) /\ RtAlone(rtKind, rtEntry, rtCall, rtFlight, rtOverlap)
      /\ rtFlight \in RtCallers \cup {NobodyRt}
  BY DEF RtIInv, RtSound
<1>2. PICK j \in BOOLEAN : j = Joins(kind)
  BY DEF Joins
<1>3. PICK ph \in {"waiting", "reading"} : ph = IF j THEN "waiting" ELSE "reading"
  OBVIOUS
<1>4. PICK z \in 0..MaxRtClock : z = 0
  BY RtConstants
<1>5. PICK c : c = [phase |-> ph, nowMs |-> rtClock, readAt |-> z]
  OBVIOUS
<1>6. c \in RtCalls /\ c.phase = ph /\ c.nowMs = rtClock
  BY <1>1, <1>5 DEF RtCalls
<1>7. RtCallSound(c, rtClock)
  <2>1. rtClock <= rtClock /\ ph # "storing"
    BY <1>1, <1>3, RtConstants
  <2> QED
    BY <1>6, <2>1 DEF RtCallSound
<1>8. PICK call : call = [rtCall EXCEPT ![r] = c]
  OBVIOUS
<1>9. DOMAIN call = RtCallers /\ call[r] = c /\ \A s \in RtCallers \ {r} : call[s] = rtCall[s]
  BY <1>1, <1>8
<1>10. PICK e : e = IF kind = "summary" THEN NoEntry ELSE rtEntry
  OBVIOUS
<1>11. PICK fl : fl = IF kind = "health" /\ ~j THEN r ELSE rtFlight
  OBVIOUS
<1>12. PICK ov \in BOOLEAN : ov = (rtOverlap \/ (~j /\ InPhase({"reading", "storing"}) # {}))
  BY <1>1, <1>2
<1>13. /\ rtKind' = kind /\ rtCall' = call /\ rtFlight' = fl /\ rtEntry' = e /\ rtOverlap' = ov
       /\ rtClock' = rtClock /\ rtServed' = rtServed /\ rtKind \in {kind, "none"} /\ rtCall[r] = NoCall
  BY <1>2, <1>3, <1>4, <1>5, <1>8, <1>10, <1>11, <1>12 DEF RtMiss
<1>14. InPhase({"reading", "storing"}) = {s \in RtCallers : UnderWay(rtCall[s])}
  BY DEF InPhase, UnderWay
<1>15. ~UnderWay(rtCall[r])
  BY <1>13, NoCallIdle
<1>16. RtEntrySound(kind, e, rtClock)
  <2>1. kind # "none"
    BY DEF RtKinds
  <2>2. CASE kind = "summary"
    BY <1>1, <1>10, <2>2, NoEntrySound
  <2>3. CASE kind # "summary"
    BY <1>1, <1>10, <2>1, <2>3 DEF RtEntrySound
  <2> QED
    BY <2>2, <2>3
<1>17. e.readAt \in Nat /\ rtEntry.readAt \in Nat /\ e.readAt <= rtEntry.readAt /\ e.readAt <= rtClock
  <2>1. /\ e \in RtEntries /\ rtEntry \in RtEntries /\ e.readAt <= e.storedAt /\ e.storedAt <= rtClock
    BY <1>1, <1>16 DEF RtEntrySound
  <2>2. e.readAt \in Nat /\ e.storedAt \in Nat /\ rtEntry.readAt \in Nat /\ rtClock \in Nat
    BY <1>1, <2>1, RtConstants DEF RtEntries
  <2>3. e.readAt <= rtClock
    BY <2>1, <2>2
  <2>4. e.readAt <= rtEntry.readAt
    <3>1. NoEntry.readAt = 0
      BY DEF NoEntry
    <3> QED
      BY <1>10, <2>2, <3>1
  <2> QED
    BY <2>2, <2>3, <2>4
(* Who is under way now: those who were, and r unless it joins. *)
<1>18. \A s \in RtCallers : UnderWay(call[s]) => (s # r /\ UnderWay(rtCall[s])) \/ (s = r /\ ~j)
  <2>1. ASSUME j PROVE ~UnderWay(c)
    <3>1. c.phase = "waiting"
      BY <1>3, <1>6, <2>1
    <3> QED
      BY <3>1 DEF UnderWay
  <2> QED
    BY <1>9, <2>1
<1>19. ASSUME ~ov
       PROVE  /\ \A x, y \in RtCallers : UnderWay(call[x]) /\ UnderWay(call[y]) => x = y
              /\ \A x \in RtCallers : UnderWay(call[x]) => e.readAt <= call[x].nowMs
  <2>1. ~rtOverlap /\ (j \/ \A s \in RtCallers : ~UnderWay(rtCall[s]))
    BY <1>12, <1>14, <1>19
  <2>2. /\ \A x, y \in RtCallers : UnderWay(rtCall[x]) /\ UnderWay(rtCall[y]) => x = y
        /\ \A x \in RtCallers : UnderWay(rtCall[x]) => rtEntry.readAt <= rtCall[x].nowMs
    BY <1>1, <2>1 DEF RtAlone
  <2>3. \A x, y \in RtCallers : UnderWay(call[x]) /\ UnderWay(call[y]) => x = y
    BY <1>18, <2>1, <2>2
  <2>4. ASSUME NEW x \in RtCallers, UnderWay(call[x]) PROVE e.readAt <= call[x].nowMs
    <3>1. CASE x = r
      BY <1>6, <1>9, <1>17, <3>1
    <3>2. CASE x # r
      <4>1. UnderWay(rtCall[x]) /\ call[x] = rtCall[x] /\ rtEntry.readAt <= rtCall[x].nowMs
        BY <1>9, <1>18, <2>2, <2>4, <3>2
      <4>2. rtCall[x] # NoCall
        BY <4>1, NoCallIdle
      <4>3. rtCall[x].nowMs \in Nat
        BY <1>1, <4>2, RtConstants DEF RtCallSound, RtCalls
      <4> QED
        BY <1>17, <4>1, <4>3
    <3> QED
      BY <3>1, <3>2
  <2> QED
    BY <2>3, <2>4
<1>20. ASSUME kind = "health"
       PROVE  ~ov /\ \A x \in RtCallers : UnderWay(call[x]) => x = fl
  <2>1. ~rtOverlap /\ \A x \in RtCallers : UnderWay(rtCall[x]) => x = rtFlight
    <3>1. CASE rtKind = "health"
      BY <1>1, <3>1 DEF RtAlone
    <3>2. CASE rtKind = "none"
      BY <1>1, <3>2, NoCallIdle DEF RtAlone
    <3> QED
      BY <1>13, <1>20, <3>1, <3>2
  <2>2. CASE j
    <3>1. fl = rtFlight /\ ~ov
      BY <1>11, <1>12, <2>1, <2>2
    <3> QED
      BY <1>18, <2>1, <2>2, <3>1
  <2>3. CASE ~j
    <3>1. rtFlight = NobodyRt
      BY <1>2, <1>20, <2>3 DEF Joins
    <3>2. \A s \in RtCallers : ~UnderWay(rtCall[s])
      BY <2>1, <3>1, RtConstants
    <3>3. fl = r /\ ~ov
      BY <1>11, <1>12, <1>14, <1>20, <2>1, <2>3, <3>2
    <3> QED
      BY <1>18, <3>2, <3>3
  <2> QED
    BY <2>2, <2>3
<1>21. RtAlone(kind, e, call, fl, ov)
  BY <1>19, <1>20 DEF RtAlone, RtKinds
<1>22. \A s \in RtCallers : RtCallSound(call[s], rtClock)
  BY <1>1, <1>7, <1>9
<1>23. fl \in RtCallers \cup {NobodyRt} /\ kind \in RtKinds \cup {"none"}
  BY <1>1, <1>11
<1>24. RtSound(kind, e, call, fl, rtClock, ov)
  BY <1>1, <1>9, <1>16, <1>21, <1>22, <1>23 DEF RtSound
<1>25. RtIInv'
  BY <1>1, <1>13, <1>24 DEF RtIInv
<1>26. rtEntry' = rtEntry \/ rtEntry' = NoEntry
  BY <1>10, <1>13
<1> QED
  BY <1>13, <1>25, <1>26, QuietStep

LEMMA StoreKeeps ==
  ASSUME RtIInv, NEW r \in RtCallers, RtStore(r)
  PROVE  RtIInv' /\ RtHitsAreFresh /\ RtNeverGoesBack
<1>1. /\ RtSound(rtKind, rtEntry, rtCall, rtFlight, rtClock, rtOverlap) /\ rtServed \in RtAnswers
      /\ rtKind \in RtKinds \cup {"none"}
      /\ rtClock \in 0..MaxRtClock /\ DOMAIN rtCall = RtCallers /\ rtOverlap \in BOOLEAN
      /\ \A s \in RtCallers : RtCallSound(rtCall[s], rtClock)
      /\ RtEntrySound(rtKind, rtEntry, rtClock) /\ RtAlone(rtKind, rtEntry, rtCall, rtFlight, rtOverlap)
  BY DEF RtIInv, RtSound
<1>2. rtCall[r].phase = "storing" /\ rtCall[r] # NoCall
  BY NoCallIdle DEF RtStore
<1>3. PICK now \in 0..MaxRtClock : now = rtClock
  BY <1>1
<1>4. PICK ra \in 0..MaxRtClock, nm \in 0..MaxRtClock : ra = rtCall[r].readAt /\ nm = rtCall[r].nowMs
  BY <1>1, <1>2 DEF RtCallSound, RtCalls
<1>5. nm <= ra /\ ra <= now
  BY <1>1, <1>2, <1>3, <1>4 DEF RtCallSound
<1>6. PICK ex \in 0..(MaxRtClock + RtTtl) : ex = (IF rtKind = "summary" THEN nm ELSE now) + RtTtl
  BY RtConstants
<1>7. PICK e : e = [readAt |-> ra, storedAt |-> now, expiresAt |-> ex]
  OBVIOUS
<1>8. e \in RtEntries /\ e.readAt = ra /\ e.storedAt = now /\ e.expiresAt = ex
  BY <1>7 DEF RtEntries
<1>9. PICK a : a = [hit |-> FALSE, readAt |-> ra, storedAt |-> now]
  OBVIOUS
<1>10. a \in RtAnswers /\ a.hit = FALSE
  BY <1>9 DEF RtAnswers
<1>11. PICK call : call = [s \in RtCallers |-> IF s \in {r} \cup InPhase({"waiting"}) THEN NoCall ELSE rtCall[s]]
  OBVIOUS
<1>12. /\ rtEntry' = e /\ rtServed' = a /\ rtFlight' = NobodyRt /\ rtCall' = call
       /\ UNCHANGED <<rtKind, rtClock, rtOverlap>>
  BY <1>3, <1>4, <1>6, <1>7, <1>8, <1>9, <1>11 DEF RtStore, Expiry, Served
<1>13. /\ DOMAIN call = RtCallers /\ call[r] = NoCall
       /\ \A s \in RtCallers : call[s] = NoCall \/ (call[s] = rtCall[s] /\ s # r)
  BY <1>11
<1>14. \A s \in RtCallers : RtCallSound(call[s], rtClock)
  BY <1>1, <1>13, NoCallIdle
<1>15. \A s \in RtCallers : UnderWay(call[s]) => UnderWay(rtCall[s]) /\ call[s] = rtCall[s] /\ s # r
  BY <1>13, NoCallIdle
<1>16. UnderWay(rtCall[r])
  BY <1>2 DEF UnderWay
<1>17. rtKind # "none"
  BY <1>1, <1>2 DEF RtAlone
<1>18. ex <= now + RtTtl /\ (rtKind = "summary" => ex <= ra + RtTtl)
  <2>1. nm \in Nat /\ ra \in Nat /\ now \in Nat /\ RtTtl \in Nat
    BY RtConstants
  <2> QED
    BY <1>5, <1>6, <2>1
<1>19. RtEntrySound(rtKind, e, rtClock)
  <2>1. now <= now
    BY RtConstants
  <2> QED
    BY <1>3, <1>5, <1>8, <1>17, <1>18, <2>1 DEF RtEntrySound
<1>20. RtAlone(rtKind, e, call, NobodyRt, rtOverlap)
  <2>1. ASSUME ~rtOverlap PROVE \A s \in RtCallers : ~UnderWay(call[s])
    BY <1>1, <1>15, <1>16, <2>1 DEF RtAlone
  <2>2. rtKind = "health" => ~rtOverlap
    BY <1>1 DEF RtAlone
  <2> QED
    BY <1>17, <2>1, <2>2 DEF RtAlone
<1>21. RtSound(rtKind, e, call, NobodyRt, rtClock, rtOverlap)
  BY <1>1, <1>13, <1>14, <1>19, <1>20 DEF RtSound
<1>22. RtIInv'
  BY <1>10, <1>12, <1>21 DEF RtIInv
<1>23. RtHitsAreFresh
  BY <1>10, <1>12 DEF RtHitsAreFresh
<1>24. RtNeverGoesBack
  <2>1. CASE rtOverlap
    <3>1. rtKind # "health"
      BY <1>1, <2>1 DEF RtAlone
    <3> QED
      BY <2>1, <3>1 DEF RtNeverGoesBack
  <2>2. CASE ~rtOverlap
    <3>1. rtEntry.readAt <= nm
      BY <1>1, <1>4, <1>16, <2>2 DEF RtAlone
    <3>2. PICK old \in Nat : old = rtEntry.readAt
      BY <1>1, RtConstants DEF RtEntrySound, RtEntries
    <3>3. ~(ra < old)
      BY <1>5, <3>1, <3>2, RtConstants
    <3> QED
      BY <1>8, <1>12, <3>2, <3>3 DEF RtNeverGoesBack
  <2> QED
    BY <2>1, <2>2
<1> QED
  BY <1>22, <1>23, <1>24

(* The entry is pruned, or time passes. *)
LEMMA PruneAndTickKeep ==
  ASSUME RtIInv, RtPrune \/ RtTick
  PROVE  RtIInv' /\ RtHitsAreFresh /\ RtNeverGoesBack
<1>1. /\ RtSound(rtKind, rtEntry, rtCall, rtFlight, rtClock, rtOverlap) /\ rtServed \in RtAnswers
      /\ rtClock \in 0..MaxRtClock /\ DOMAIN rtCall = RtCallers
      /\ \A s \in RtCallers : RtCallSound(rtCall[s], rtClock)
      /\ RtEntrySound(rtKind, rtEntry, rtClock) /\ RtAlone(rtKind, rtEntry, rtCall, rtFlight, rtOverlap)
  BY DEF RtIInv, RtSound
<1>2. CASE RtPrune
  <2>1. rtEntry' = NoEntry /\ UNCHANGED <<rtKind, rtCall, rtFlight, rtClock, rtServed, rtOverlap>>
    BY <1>2 DEF RtPrune
  <2>2. RtEntrySound(rtKind, NoEntry, rtClock)
    BY <1>1, NoEntrySound
  <2>3. PICK old \in 0..MaxRtClock : old = rtEntry.readAt
    BY <1>1 DEF RtEntrySound, RtEntries
  <2>4. ASSUME NEW s \in RtCallers, UnderWay(rtCall[s]), rtEntry.readAt <= rtCall[s].nowMs
        PROVE  NoEntry.readAt <= rtCall[s].nowMs
    <3>1. rtCall[s] # NoCall
      BY <2>4, NoCallIdle
    <3>2. PICK nm \in 0..MaxRtClock : nm = rtCall[s].nowMs
      BY <1>1, <3>1 DEF RtCallSound, RtCalls
    <3>3. NoEntry.readAt = 0
      BY DEF NoEntry
    <3> QED
      BY <3>2, <3>3, RtConstants
  <2>5. RtAlone(rtKind, NoEntry, rtCall, rtFlight, rtOverlap)
    BY <1>1, <2>4 DEF RtAlone
  <2>6. RtSound(rtKind, NoEntry, rtCall, rtFlight, rtClock, rtOverlap)
    BY <1>1, <2>2, <2>5 DEF RtSound
  <2>7. RtIInv'
    BY <1>1, <2>1, <2>6 DEF RtIInv
  <2> QED
    BY <2>1, <2>7, QuietStep
<1>3. CASE RtTick
  <2>1. /\ rtClock < MaxRtClock /\ rtClock' = rtClock + 1
        /\ UNCHANGED <<rtKind, rtEntry, rtCall, rtFlight, rtServed, rtOverlap>>
    BY <1>3 DEF RtTick
  <2>2. PICK now \in 0..MaxRtClock, next \in 0..MaxRtClock : now = rtClock /\ next = now + 1
    BY <1>1, <2>1, RtConstants
  <2>3. now \in Nat /\ \A n \in Nat : n <= now => n <= next
    BY <2>2, RtConstants
  <2>4. ASSUME NEW s \in RtCallers PROVE RtCallSound(rtCall[s], next)
    <3>1. CASE rtCall[s] = NoCall
      BY <3>1, NoCallIdle
    <3>2. CASE rtCall[s] # NoCall
      <4>1. /\ rtCall[s] \in RtCalls /\ rtCall[s].nowMs <= now
            /\ rtCall[s].phase = "storing" => rtCall[s].nowMs <= rtCall[s].readAt /\ rtCall[s].readAt <= now
        BY <1>1, <2>2, <3>2 DEF RtCallSound
      <4>2. rtCall[s].nowMs \in Nat /\ rtCall[s].readAt \in Nat
        BY <4>1, RtConstants DEF RtCalls
      <4> QED
        BY <2>3, <4>1, <4>2 DEF RtCallSound
    <3> QED
      BY <3>1, <3>2
  <2>5. RtEntrySound(rtKind, rtEntry, next)
    <3>1. rtEntry.storedAt \in Nat /\ rtEntry.storedAt <= now
      BY <1>1, <2>2, RtConstants DEF RtEntrySound, RtEntries
    <3>2. rtEntry.storedAt <= next
      BY <2>3, <3>1
    <3> QED
      BY <1>1, <3>2 DEF RtEntrySound
  <2>6. RtSound(rtKind, rtEntry, rtCall, rtFlight, next, rtOverlap)
    BY <1>1, <2>2, <2>4, <2>5 DEF RtSound
  <2>7. RtIInv'
    BY <1>1, <2>1, <2>2, <2>6 DEF RtIInv
  <2> QED
    BY <2>1, <2>7, QuietStep
<1> QED
  BY <1>2, <1>3

LEMMA RtStep ==
  ASSUME RtIInv, [RtNext]_rtVars
  PROVE  RtIInv' /\ RtHitsAreFresh /\ RtNeverGoesBack
<1>1. CASE UNCHANGED rtVars
  <2>1. UNCHANGED <<rtKind, rtEntry, rtCall, rtFlight, rtClock, rtServed, rtOverlap>>
    BY <1>1 DEF rtVars
  <2>2. RtIInv'
    BY <2>1 DEF RtIInv
  <2> QED
    BY <2>1, <2>2, QuietStep
<1> QED
  BY <1>1, HitKeeps, ReadKeeps, MissKeeps, StoreKeeps, PruneAndTickKeep DEF RtNext

-----------------------------------------------------------------------------
(* The types the runs check.  Wallet login keeps them step by step. *)
Admissions == {Refused} \cup [status : {200, 403}, token : Token \cup {NoToken},
                              at : 0..MaxAuthClock, secret : 0..1]

LEMMA AuthTypesStart == AuthInit => AuthTypeOK
<1> SUFFICES ASSUME AuthInit PROVE AuthTypeOK
  OBVIOUS
<1>1. PICK z \in 0..MaxAuthClock : z = 0
  BY AuthAssumption
<1>2. issuedAt = [n \in Nonces |-> [key |-> ADMIN_PUBLIC_KEY, at |-> z]]
  BY <1>1 DEF AuthInit
<1>3. issuedAt \in [Nonces -> [key : AuthKeys, at : 0..MaxAuthClock]]
  BY <1>2, AuthAssumption
<1>4. issuedNonces \in 0..MaxNonces /\ authClock \in 0..MaxAuthClock
  BY AuthAssumption DEF AuthInit
<1> QED
  BY <1>3, <1>4 DEF AuthInit, AuthTypeOK

LEMMA AuthTypesStep ==
  ASSUME AuthTypeOK, [AuthNext]_authVars
  PROVE  AuthTypeOK'
<1>0. /\ ChallengeTtl \in Nat /\ JWT_EXPIRY_SECONDS \in Nat /\ MaxNonces \in Nat /\ MaxAuthClock \in Nat
  BY AuthAssumption
<1>1. /\ challenges \in [AuthKeys -> Challenge \cup {NoChallenge}]
      /\ issuedNonces \in 0..MaxNonces
      /\ issuedAt \in [Nonces -> [key : AuthKeys, at : 0..MaxAuthClock]]
      /\ tokens \subseteq Token
      /\ jwtSecret \in 0..1 /\ authClock \in 0..MaxAuthClock
      /\ admitted \in Admissions
  BY DEF AuthTypeOK, Admissions
<1>2. PICK now \in 0..MaxAuthClock : now = authClock
  BY <1>1
<1>3. ASSUME NEW k \in AuthKeys, IssueChallenge(k) PROVE AuthTypeOK'
  <2>1. PICK n \in Nonces : n = issuedNonces + 1
    BY <1>0, <1>1, <1>3 DEF IssueChallenge, Nonces
  <2>2. PICK ex \in 0..(MaxAuthClock + ChallengeTtl) : ex = now + ChallengeTtl
    BY <1>0
  <2>3. PICK c \in Challenge : c = [nonce |-> n, expiresAt |-> ex]
    BY DEF Challenge
  <2>4. PICK issue \in [key : AuthKeys, at : 0..MaxAuthClock] : issue = [key |-> k, at |-> now]
    OBVIOUS
  <2>5. /\ issuedNonces' = n /\ challenges' = [challenges EXCEPT ![k] = c]
        /\ issuedAt' = [issuedAt EXCEPT ![n] = issue]
        /\ UNCHANGED <<tokens, jwtSecret, authClock, admitted>>
    BY <1>2, <1>3, <2>1, <2>2, <2>3, <2>4 DEF IssueChallenge
  <2>6. n \in 0..MaxNonces
    BY <1>0 DEF Nonces
  <2> QED
    BY <1>1, <2>5, <2>6 DEF AuthTypeOK, Admissions
<1>4. ASSUME NEW k \in AuthKeys, NEW source \in AuthKeys, NEW nonce \in Nonces, NEW signer \in AuthKeys,
             VerifyChallenge(k, source, nonce, signer)
      PROVE  AuthTypeOK'
  <2>1. PICK ex \in 0..(MaxAuthClock + JWT_EXPIRY_SECONDS) : ex = now + JWT_EXPIRY_SECONDS
    BY <1>0
  <2>2. PICK t \in Token : t = [sub |-> k, nonce |-> nonce, signer |-> signer, secret |-> jwtSecret, exp |-> ex]
    BY <1>1 DEF Token
  <2>3. /\ tokens' = tokens \cup {t} /\ challenges' = [challenges EXCEPT ![k] = NoChallenge]
        /\ UNCHANGED <<issuedNonces, issuedAt, jwtSecret, authClock, admitted>>
    BY <1>2, <1>4, <2>1, <2>2 DEF VerifyChallenge, SignJwt
  <2> QED
    BY <1>1, <2>3 DEF AuthTypeOK, Admissions
<1>5. CASE SweepExpiredChallenges \/ AuthRestart
  <2>1. /\ UNCHANGED <<issuedNonces, issuedAt, tokens, authClock, admitted>> /\ jwtSecret' \in 0..1
        /\ challenges' \in [AuthKeys -> Challenge \cup {NoChallenge}]
    BY <1>1, <1>5 DEF SweepExpiredChallenges, AuthRestart
  <2> QED
    BY <1>1, <2>1 DEF AuthTypeOK, Admissions
<1>6. ASSUME NEW token \in tokens \cup {NoToken},
             RequireAuth(token) \/ RequireAdmin(token) \/ OptionalAuth(token)
      PROVE  AuthTypeOK'
  <2>1. UNCHANGED <<challenges, issuedNonces, issuedAt, tokens, jwtSecret, authClock>>
    BY <1>6 DEF RequireAuth, RequireAdmin, OptionalAuth
  <2>2. \A st \in {200, 403}, x \in Token \cup {NoToken} : Entered(st, x) \in Admissions
    BY <1>1 DEF Entered, Admissions
  <2>3. token \in Token \cup {NoToken} /\ NoToken \in Token \cup {NoToken} /\ Refused \in Admissions
    BY <1>1 DEF Admissions
  <2>4. \/ admitted' = Refused
        \/ \E st \in {200, 403} : admitted' = Entered(st, token) \/ admitted' = Entered(st, NoToken)
    BY <1>6 DEF RequireAuth, RequireAdmin, OptionalAuth
  <2>5. admitted' \in Admissions
    BY <2>2, <2>3, <2>4
  <2> QED
    BY <1>1, <2>1, <2>5 DEF AuthTypeOK, Admissions
<1>7. CASE AuthTick
  <2>1. authClock' \in 0..MaxAuthClock
    BY <1>0, <1>1, <1>7 DEF AuthTick
  <2> QED
    BY <1>1, <1>7, <2>1 DEF AuthTypeOK, Admissions, AuthTick
<1>8. CASE UNCHANGED authVars
  BY <1>1, <1>8 DEF AuthTypeOK, Admissions, authVars
<1> QED
  BY <1>3, <1>4, <1>5, <1>6, <1>7, <1>8 DEF AuthNext

(* What the SSE service's own invariant leaves out of its types. *)
SseRest ==
  /\ socket \in [Conns -> {"open", "closed"}]
  /\ subscriptions \in [Conns -> SUBSET Topics]
  /\ paused \in [Conns -> BOOLEAN]
  /\ shuttingDown \in BOOLEAN /\ overlapped \in BOOLEAN
  /\ bus \subseteq Topics
  /\ reconnected \subseteq Conns /\ lateJoiners \subseteq Conns

LEMMA SseTypesHold ==
  ASSUME SseTyped, SseCountsMatch, SseRest
  PROVE  SseTypeOK
<1>1. IsFiniteSet(Conns) /\ Cardinality(Conns) \in Nat
  BY ConnsFinite, FS_CardinalityType
<1>2. ASSUME NEW S, S \subseteq Conns PROVE Cardinality(S) \in 0..Cardinality(Conns)
  <2>1. Cardinality(S) \in Nat /\ Cardinality(S) <= Cardinality(Conns)
    BY <1>1, <1>2, FS_Subset, FS_CardinalityType
  <2> QED
    BY <1>1, <2>1
<1>3. \A i \in Ips : ipConnectionCounts[i] \in 0..Cardinality(Conns)
  <2> SUFFICES ASSUME NEW i \in Ips PROVE ipConnectionCounts[i] \in 0..Cardinality(Conns)
    OBVIOUS
  <2>1. PICK S : S = {c \in clients : IpOf[c] = i}
    OBVIOUS
  <2>2. S \subseteq Conns /\ ipConnectionCounts[i] = Cardinality(S)
    BY <2>1 DEF SseTyped, SseCountsMatch
  <2> QED
    BY <1>2, <2>2
<1>4. \A u \in Users : userConnectionCounts[u] \in 0..Cardinality(Conns)
  <2> SUFFICES ASSUME NEW u \in Users PROVE userConnectionCounts[u] \in 0..Cardinality(Conns)
    OBVIOUS
  <2>1. PICK S : S = {c \in clients : UserOf[c] = u}
    OBVIOUS
  <2>2. S \subseteq Conns /\ userConnectionCounts[u] = Cardinality(S)
    BY <2>1 DEF SseTyped, SseCountsMatch
  <2> QED
    BY <1>2, <2>2
<1>5. /\ ipConnectionCounts \in [Ips -> 0..Cardinality(Conns)]
      /\ userConnectionCounts \in [Users -> 0..Cardinality(Conns)]
  BY <1>3, <1>4 DEF SseTyped
<1> QED
  BY <1>5 DEF SseTyped, SseRest, SseTypeOK

LEMMA SseTypesStart == SseInit => SseRest
  BY DEF SseInit, SseRest

LEMMA SseTypesStep ==
  ASSUME SseTyped, SseRest, [SseNext]_sseVars
  PROVE  SseRest'
<1>1. /\ socket \in [Conns -> {"open", "closed"}]
      /\ subscriptions \in [Conns -> SUBSET Topics]
      /\ paused \in [Conns -> BOOLEAN]
      /\ shuttingDown \in BOOLEAN /\ overlapped \in BOOLEAN
      /\ bus \subseteq Topics
      /\ reconnected \subseteq Conns /\ lateJoiners \subseteq Conns
      /\ clients \subseteq Conns /\ Querying \subseteq Conns
  BY DEF SseTyped, SseRest, Querying
<1>2. ASSUME NEW S, NEW wait, NEW length, RemoveClients(S, wait, length),
             \A c \in Conns : wait[c] \in BOOLEAN
      PROVE  subscriptions' \in [Conns -> SUBSET Topics] /\ paused' \in [Conns -> BOOLEAN]
  <2>1. PICK gone : gone = S \cap clients
    OBVIOUS
  <2>2. /\ subscriptions' = [c \in Conns |-> IF c \in gone THEN {} ELSE subscriptions[c]]
        /\ paused' = [c \in Conns |-> c \notin gone /\ wait[c]]
    BY <1>2, <2>1 DEF RemoveClients
  <2> QED
    BY <1>1, <1>2, <2>2
<1>3. ASSUME NEW targets, WriteTo(targets)
      PROVE  subscriptions' \in [Conns -> SUBSET Topics] /\ paused' \in [Conns -> BOOLEAN]
  <2>1. PICK length \in [targets -> 0..2], throws \in SUBSET targets :
          RemoveClients({c \in targets : length[c] = 2 \/ c \in throws},
                     [c \in Conns |-> paused[c] \/ (c \in targets /\ (length[c] > 0 \/ socket[c] = "closed"))],
                     [c \in Conns |-> IF c \in targets THEN length[c] ELSE backlog[c]])
    BY <1>3 DEF WriteTo
  <2>2. PICK S, wait, len : /\ RemoveClients(S, wait, len)
                            /\ wait = [c \in Conns |-> paused[c] \/ (c \in targets /\ (length[c] > 0 \/ socket[c] = "closed"))]
    BY <2>1
  <2>3. \A c \in Conns : wait[c] \in BOOLEAN
    BY <1>1, <2>2
  <2> QED
    BY <1>2, <2>2, <2>3
<1>4. ASSUME NEW c \in Conns, Subscribe(c) \/ QueryFails(c) \/ Drain(c) PROVE SseRest'
  <2>1. overlapped' \in BOOLEAN /\ paused' \in [Conns -> BOOLEAN]
    BY <1>1, <1>4 DEF Subscribe, QueryFails, Drain
  <2> QED
    BY <1>1, <1>4, <2>1 DEF SseRest, Subscribe, QueryFails, Drain
<1>5. ASSUME NEW c \in Conns, Close(c) PROVE SseRest'
  <2>1. RemoveClients({c}, paused, backlog) /\ \A d \in Conns : paused[d] \in BOOLEAN
    BY <1>1, <1>5 DEF Close
  <2>2. subscriptions' \in [Conns -> SUBSET Topics] /\ paused' \in [Conns -> BOOLEAN]
    BY <1>2, <2>1
  <2>3. socket' \in [Conns -> {"open", "closed"}]
    BY <1>1, <1>5 DEF Close
  <2> QED
    BY <1>1, <1>5, <2>2, <2>3 DEF SseRest, Close
<1>6. ASSUME NEW c \in Conns, NEW streams \in SUBSET SseStreams, NEW users \in SUBSET Users,
             AddClient(c, streams, users)
      PROVE  SseRest'
  <2>1. PICK sc : sc = Scope(c, streams, users)
    OBVIOUS
  <2>2. UserOf[c] \in Users /\ OwnedIds[UserOf[c]] \subseteq SseStreams
    BY SseAssumption
  <2>3. sc \in SUBSET Topics
    BY <2>1, <2>2 DEF Scope, Topics
  <2>4. subscriptions' = [subscriptions EXCEPT ![c] = sc] /\ paused' = [paused EXCEPT ![c] = FALSE]
    BY <1>6, <2>1 DEF AddClient
  <2>5. subscriptions' \in [Conns -> SUBSET Topics] /\ paused' \in [Conns -> BOOLEAN]
    BY <1>1, <2>3, <2>4
  <2> QED
    BY <1>1, <1>6, <2>5 DEF SseRest, AddClient
<1>7. ASSUME NEW topic \in Topics, Broadcast(topic) \/ Publish(topic) \/ OnPmessage(topic) PROVE SseRest'
  <2>1. bus' \subseteq Topics /\ UNCHANGED <<socket, shuttingDown, overlapped, reconnected, lateJoiners>>
    BY <1>1, <1>7 DEF Broadcast, Publish, OnPmessage
  <2>2. UNCHANGED <<subscriptions, paused>> \/ WriteTo({c \in clients : topic \in subscriptions[c]})
    BY <1>7 DEF Broadcast, Publish, OnPmessage, LocalBroadcast
  <2>3. subscriptions' \in [Conns -> SUBSET Topics] /\ paused' \in [Conns -> BOOLEAN]
    BY <1>1, <1>3, <2>2
  <2> QED
    BY <1>1, <2>1, <2>3 DEF SseRest
<1>8. CASE SendHeartbeat
  BY <1>1, <1>3, <1>8 DEF SendHeartbeat, SseRest
<1>9. CASE SendReconnectToAll
  BY <1>1, <1>9 DEF SendReconnectToAll, SseRest
<1>10. CASE UNCHANGED sseVars
  BY <1>1, <1>10 DEF sseVars, SseRest
<1> QED
  BY <1>4, <1>5, <1>6, <1>7, <1>8, <1>9, <1>10 DEF SseNext

-----------------------------------------------------------------------------
(* The components together.  A step of the backend is a step of the component *)
(* it is of, and every other component stays as it is.                       *)
RequestVars == <<focus, sseVars, authVars, cacheVars, rtVars, accountVars, apiVars, sdkVars>>

LEMMA StepsOfEach ==
  ASSUME [RequestsNext]_RequestVars
  PROVE  /\ [SseNext]_sseVars /\ [AuthNext]_authVars /\ [CacheNext]_cacheVars /\ [RtNext]_rtVars
         /\ [AccountsNext]_accountVars /\ [ApiNext]_apiVars /\ [SdkNext]_sdkVars /\ UNCHANGED focus
<1>1. CASE UNCHANGED RequestVars
  BY <1>1 DEF RequestVars
<1>2. CASE RequestsNext
  <2>1. /\ UNCHANGED focus
        /\ (focus = "sse" /\ SseNext) \/ UNCHANGED sseVars
        /\ (focus = "auth" /\ AuthNext) \/ UNCHANGED authVars
        /\ (focus = "cache" /\ CacheNext) \/ UNCHANGED cacheVars
        /\ (focus = "readThrough" /\ RtNext) \/ UNCHANGED rtVars
        /\ (focus = "accounts" /\ AccountsNext) \/ UNCHANGED accountVars
        /\ (focus = "api" /\ ApiNext) \/ UNCHANGED apiVars
        /\ (focus = "sdk" /\ SdkNext) \/ UNCHANGED sdkVars
    BY <1>2 DEF RequestsNext, Keep
  <2> QED
    BY <2>1
<1> QED
  BY <1>1, <1>2

(* However registrations race one another, rows appear while an export pages   *)
(* through them and calls of a batch fail: one registration creates the user,  *)
(* an export that ended wrote each row that was there when it began and shares *)
(* its createdAt with no other exactly once, and the SDK handed over, each     *)
(* once and in order, a prefix of what it was given (user.controller.ts,       *)
(* export.controller.ts, sdk/src).                                            *)
THEOREM EveryoneServedOnce == RequestsSpec => []ServedOnce
<1> DEFINE Inv == /\ RegisterSound(registration, userRow)
                  /\ ExportSound(streamRows, exportPhase, exportCursor, written)
                  /\ SdkSound(sdk, handedOver)
<1>1. RequestsInit => Inv
  BY AccountsStart, SdkStart DEF RequestsInit
<1>2. Inv /\ [RequestsNext]_RequestVars => Inv'
  <2> SUFFICES ASSUME Inv, [RequestsNext]_RequestVars PROVE Inv'
    OBVIOUS
  <2>1. [AccountsNext]_accountVars /\ [SdkNext]_sdkVars
    BY StepsOfEach
  <2> QED
    BY <2>1, RegisterStep, ExportStep, SdkStep
<1>3. Inv => ServedOnce
  BY RegisterHolds, ExportHolds, SdkHolds DEF ServedOnce
<1> QED
  BY <1>1, <1>2, <1>3, PTL DEF RequestsSpec, RequestVars

(* Whatever is set, read, deleted, evicted and swept and whichever requests    *)
(* miss, read, fail and store in whatever order: a hit of the in-memory cache  *)
(* is the last value set and alive, eviction takes the least recently used,   *)
(* and the read-through caches neither outlive their time nor, unless two     *)
(* reads overlapped, go back (redis.ts, stream.controller.ts, admin.routes.ts, *)
(* sorobanService.ts).                                                       *)
THEOREM CachesStayFresh == RequestsSpec => CachesAreFresh
<1> DEFINE Inv == CacheIInv /\ RtIInv
           Good == CacheHitsAreCurrent' /\ CacheIsLru /\ RtHitsAreFresh /\ RtNeverGoesBack
<1>1. RequestsInit => Inv
  BY CacheStart, RtStart DEF RequestsInit
<1>2. Inv /\ [RequestsNext]_RequestVars => Inv' /\ Good
  <2> SUFFICES ASSUME Inv, [RequestsNext]_RequestVars PROVE Inv' /\ Good
    OBVIOUS
  <2>1. [CacheNext]_cacheVars /\ [RtNext]_rtVars
    BY StepsOfEach
  <2>2. CacheIInv' /\ CacheIsLru
    BY <2>1, CacheStep
  <2>3. RtIInv' /\ RtHitsAreFresh /\ RtNeverGoesBack
    BY <2>1, RtStep
  <2>4. CacheHitsAreCurrent'
    <3>1. (CacheIInv => CacheHitsAreCurrent)'
      BY CacheHolds, PTL
    <3> QED
      BY <2>2, <3>1
  <2> QED
    BY <2>2, <2>3, <2>4
<1> HIDE DEF Inv
<1>3. Inv /\ [RequestsNext]_RequestVars => [Good]_<<cacheVars, rtVars>>
  BY <1>2
<1>4. Inv /\ [RequestsNext]_RequestVars => Inv'
  BY <1>2
<1> HIDE DEF Good
<1>5. RequestsSpec => [][Good]_<<cacheVars, rtVars>>
  BY <1>1, <1>3, <1>4, PTL DEF RequestsSpec, RequestVars
<1> QED
  BY <1>5 DEF CachesAreFresh, Good

(* Every component keeps the types its code gives its state, whatever the      *)
(* constants are: no count leaves the number of connections, no cache its      *)
(* capacity, no row, call or token its fields.                               *)
THEOREM RequestsTypes == RequestsSpec => []RequestsTypeOK
<1> DEFINE Inv == /\ SseIInv /\ SseRest /\ AuthTypeOK /\ CacheIInv /\ RtIInv /\ ApiIInv
                  /\ RegisterSound(registration, userRow)
                  /\ ExportSound(streamRows, exportPhase, exportCursor, written)
                  /\ SdkSound(sdk, handedOver)
<1>1. RequestsInit => Inv
  BY SseAssumption, SseInitInv, SseTypesStart, AuthTypesStart, CacheStart, RtStart, ApiStart, AccountsStart,
     SdkStart DEF RequestsInit
<1>2. Inv /\ [RequestsNext]_RequestVars => Inv'
  <2> SUFFICES ASSUME Inv, [RequestsNext]_RequestVars PROVE Inv'
    OBVIOUS
  <2>1. /\ [SseNext]_sseVars /\ [AuthNext]_authVars /\ [CacheNext]_cacheVars /\ [RtNext]_rtVars
        /\ [AccountsNext]_accountVars /\ [ApiNext]_apiVars /\ [SdkNext]_sdkVars
    BY StepsOfEach
  <2>2. SseIInv' /\ SseRest'
    <3>1. SseTyped
      BY DEF SseIInv
    <3> QED
      BY <2>1, <3>1, SseAssumption, SseNextKeeps, SseTypesStep
  <2>3. AuthTypeOK' /\ CacheIInv' /\ RtIInv' /\ ApiIInv'
    BY <2>1, AuthTypesStep, CacheStep, RtStep, ApiStep
  <2>4. /\ RegisterSound(registration', userRow')
        /\ ExportSound(streamRows', exportPhase', exportCursor', written')
        /\ SdkSound(sdk', handedOver')
    BY <2>1, RegisterStep, ExportStep, SdkStep
  <2> QED
    BY <2>2, <2>3, <2>4
<1>3. Inv => RequestsTypeOK
  <2> SUFFICES ASSUME Inv PROVE RequestsTypeOK
    OBVIOUS
  <2>1. SseTypeOK
    BY SseTypesHold DEF SseIInv, SseSound
  <2>2. AccountsTypeOK
    BY DEF RegisterSound, ExportSound, AccountsTypeOK
  <2>3. AuthTypeOK /\ CacheTypeOK /\ RtTypeOK /\ ApiTypeOK /\ SdkTypeOK
    BY CacheHolds, RtHolds, ApiHolds, SdkHolds
  <2> QED
    BY <2>1, <2>2, <2>3 DEF RequestsTypeOK
<1> HIDE DEF Inv
<1> QED
  BY <1>1, <1>2, <1>3, PTL DEF RequestsSpec, RequestVars
=============================================================================
