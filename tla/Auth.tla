-------------------------------- MODULE Auth --------------------------------
(***************************************************************************)
(* Wallet login (middleware/auth.ts): a nonce per public key, a transaction *)
(* signed over it exchanged for a JWT, and the three guards that read the   *)
(* JWT.  Challenges live in the process and are lost with it; the secret is *)
(* kept across a restart when JWT_SECRET is set and drawn anew otherwise.   *)
(***************************************************************************)
EXTENDS Naturals

CONSTANTS
  AuthKeys, ADMIN_PUBLIC_KEY,
  ChallengeTtl, JWT_EXPIRY_SECONDS,
  MaxNonces, MaxAuthClock     \* bounds: challenges issued, and the clock

ASSUME AuthAssumption ==
  /\ ADMIN_PUBLIC_KEY \in AuthKeys
  /\ {ChallengeTtl, JWT_EXPIRY_SECONDS, MaxNonces, MaxAuthClock} \subseteq Nat

VARIABLES
  challenges,   \* per key the nonce and its expiry, or NoChallenge
  issuedNonces, \* how many nonces were drawn; the n-th is n
  issuedAt,     \* history: the key and the time of every nonce
  tokens,       \* JWTs handed out; nonce and signer are history
  jwtSecret, authClock,
  admitted      \* what the last guarded request came to

authVars == <<challenges, issuedNonces, issuedAt, tokens, jwtSecret, authClock, admitted>>

NoChallenge == [nonce |-> 0, expiresAt |-> 0]
Nonces == 1..MaxNonces
Challenge == [nonce : Nonces, expiresAt : 0..(MaxAuthClock + ChallengeTtl)]
Token == [sub : AuthKeys, nonce : Nonces, signer : AuthKeys, secret : 0..1,
          exp : 0..(MaxAuthClock + JWT_EXPIRY_SECONDS)]
NoToken == [sub |-> "none"]
Refused == [status |-> 401]

AuthTypeOK ==
  /\ challenges \in [AuthKeys -> Challenge \cup {NoChallenge}]
  /\ issuedNonces \in 0..MaxNonces
  /\ issuedAt \in [Nonces -> [key : AuthKeys, at : 0..MaxAuthClock]]
  /\ tokens \subseteq Token
  /\ jwtSecret \in 0..1 /\ authClock \in 0..MaxAuthClock
  /\ admitted \in {Refused} \cup [status : {200, 403}, token : Token \cup {NoToken},
                                     at : 0..MaxAuthClock, secret : 0..1]

AuthInit ==
  /\ challenges = [k \in AuthKeys |-> NoChallenge]
  /\ issuedNonces = 0
  /\ issuedAt = [n \in Nonces |-> [key |-> ADMIN_PUBLIC_KEY, at |-> 0]]
  /\ tokens = {}
  /\ jwtSecret = 0 /\ authClock = 0
  /\ admitted = Refused

(* A challenge for k replaces the one that was pending for k. *)
IssueChallenge(k) ==
  /\ issuedNonces < MaxNonces
  /\ issuedNonces' = issuedNonces + 1
  /\ challenges' = [challenges EXCEPT ![k] =
       [nonce |-> issuedNonces + 1, expiresAt |-> authClock + ChallengeTtl]]
  /\ issuedAt' = [issuedAt EXCEPT ![issuedNonces + 1] = [key |-> k, at |-> authClock]]
  /\ UNCHANGED <<tokens, jwtSecret, authClock, admitted>>

ChallengeLive(k) == challenges[k] # NoChallenge /\ ~(challenges[k].expiresAt < authClock)

SignJwt(k, nonce, signer) ==
  [sub |-> k, nonce |-> nonce, signer |-> signer, secret |-> jwtSecret,
   exp |-> authClock + JWT_EXPIRY_SECONDS]

\* A variant: the challenge stays after it was exchanged for a token.
ReplayableVerify(k, source, nonce, signer) ==
  /\ ChallengeLive(k)
  /\ source = k /\ nonce = challenges[k].nonce /\ signer = k
  /\ tokens' = tokens \cup {SignJwt(k, nonce, signer)}
  /\ UNCHANGED <<challenges, issuedNonces, issuedAt, jwtSecret, authClock, admitted>>

(* A transaction with this source, carrying this nonce in its first operation and
   signed by `signer`, is presented for k.  Every other combination is answered
   401 and changes nothing. *)
VerifyChallenge(k, source, nonce, signer) ==
  /\ ChallengeLive(k)
  /\ source = k /\ nonce = challenges[k].nonce /\ signer = k
  /\ challenges' = [challenges EXCEPT ![k] = NoChallenge]
  /\ tokens' = tokens \cup {SignJwt(k, nonce, signer)}
  /\ UNCHANGED <<issuedNonces, issuedAt, jwtSecret, authClock, admitted>>

SweepExpiredChallenges ==
  /\ \E k \in AuthKeys : challenges[k] # NoChallenge
  /\ challenges' = [k \in AuthKeys |->
       IF challenges[k].expiresAt < authClock THEN NoChallenge ELSE challenges[k]]
  /\ UNCHANGED <<issuedNonces, issuedAt, tokens, jwtSecret, authClock, admitted>>

VerifyJwt(token) == token # NoToken /\ token.secret = jwtSecret /\ ~(token.exp < authClock)

Entered(status, token) == [status |-> status, token |-> token, at |-> authClock, secret |-> jwtSecret]

RequireAuth(token) ==
  /\ admitted' = IF VerifyJwt(token) THEN Entered(200, token) ELSE Refused
  /\ UNCHANGED <<challenges, issuedNonces, issuedAt, tokens, jwtSecret, authClock>>

RequireAdmin(token) ==
  /\ admitted' = IF ~VerifyJwt(token) THEN Refused
                 ELSE Entered(IF token.sub = ADMIN_PUBLIC_KEY THEN 200 ELSE 403, token)
  /\ UNCHANGED <<challenges, issuedNonces, issuedAt, tokens, jwtSecret, authClock>>

(* optionalAuthMiddleware lets everybody through, as nobody when the token is
   missing or bad. *)
OptionalAuth(token) ==
  /\ admitted' = Entered(200, IF VerifyJwt(token) THEN token ELSE NoToken)
  /\ UNCHANGED <<challenges, issuedNonces, issuedAt, tokens, jwtSecret, authClock>>

(* The process starts again: the map is empty; without JWT_SECRET the secret is new. *)
AuthRestart ==
  /\ challenges' = [k \in AuthKeys |-> NoChallenge]
  /\ jwtSecret' \in {jwtSecret, 1}
  /\ UNCHANGED <<issuedNonces, issuedAt, tokens, authClock, admitted>>

AuthTick ==
  /\ authClock < MaxAuthClock
  /\ authClock' = authClock + 1
  /\ UNCHANGED <<challenges, issuedNonces, issuedAt, tokens, jwtSecret, admitted>>

AuthNext ==
  \/ \E k \in AuthKeys :
       \/ IssueChallenge(k)
       \/ \E source, signer \in AuthKeys, nonce \in Nonces : VerifyChallenge(k, source, nonce, signer)
  \/ \E token \in tokens \cup {NoToken} : RequireAuth(token) \/ RequireAdmin(token) \/ OptionalAuth(token)
  \/ SweepExpiredChallenges \/ AuthRestart \/ AuthTick

AuthSpec == AuthInit /\ [][AuthNext]_authVars

-----------------------------------------------------------------------------
(* A nonce buys one session: verifyChallenge deletes the challenge it accepts,
   and no reissue, sweep or restart brings it back (auth.ts:206). *)
AuthOneTokenPerNonce ==
  \A s, t \in tokens : s.nonce = t.nonce => s = t

(* Whoever a guard lets through as k holds a token of the running secret, and k
   signed a nonce that was issued to k no longer ago than the challenge and the
   token may live together (requireAuth, auth.ts:226). *)
AuthSessionsAreSigned ==
  (admitted.status = 200 /\ admitted.token # NoToken) =>
    LET t == admitted.token IN
    /\ t.signer = t.sub /\ issuedAt[t.nonce].key = t.sub
    /\ admitted.at - issuedAt[t.nonce].at <= ChallengeTtl + JWT_EXPIRY_SECONDS
    /\ t.secret = admitted.secret

(* A challenge that verifyChallenge would still accept goes away only by being
   used, by a newer one for the same key, or with the process: the sweep and
   verify agree on the last moment (auth.ts:59 and :179). *)
AuthLiveChallengesStay ==
  \A k \in AuthKeys :
    (ChallengeLive(k) /\ challenges'[k] # challenges[k]) =>
      \/ \E t \in tokens' : t.nonce = challenges[k].nonce
      \/ issuedNonces' > issuedNonces
      \/ AuthRestart

(* A session is bought with one signature over one live challenge, however
   challenges, sweeps, guards and restarts follow each other. *)
AuthSound ==
  [][AuthOneTokenPerNonce' /\ AuthSessionsAreSigned' /\ AuthLiveChallengesStay]_authVars
=============================================================================
