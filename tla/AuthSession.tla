---------------------------- MODULE AuthSession ----------------------------
(***************************************************************************)
(* Signing in: auth.service.ts over auth.repo.ts, with withAuth.ts.        *)
(*                                                                         *)
(* The server issues a challenge that holds a fresh nonce, the wallet      *)
(* signs it, and the server exchanges it for a session: it looks the nonce *)
(* up, marks it consumed and inserts the session, in three statements      *)
(* between which other requests run and the process may die.               *)
(*                                                                         *)
(* A wallet signs what it is shown: the account chosen in it may not be    *)
(* the one the challenge was issued for.  Nonces and session ids are       *)
(* random and never repeat.                                                *)
(***************************************************************************)
EXTENDS Integers, FiniteSets

CONSTANTS
    Keys,               \* public keys
    Nonces, NoNonce,
    SessionIds, NoSession,
    Requests,           \* verifications in flight
    NONCE_TTL,          \* NONCE_TTL_SECONDS
    SESSION_TTL,        \* SESSION_TTL_SECONDS
    ENABLE_TEST_LOGIN,
    MaxTime             \* bound: the clock

ASSUME TtlAssumption == NONCE_TTL \in Nat \ {0} /\ SESSION_TTL \in Nat \ {0}
ASSUME TimeAssumption == MaxTime \in Nat /\ ENABLE_TEST_LOGIN \in BOOLEAN
ASSUME NoNonceAssumption == NoNonce \notin Nonces

Nonce == [publicKey : Keys, expiresAt : Nat, consumed : BOOLEAN]

\* A sessions row; from and seenAt are history: the nonce it was minted for and
\* when that was looked up; deleted keeps the rows that are gone.
Session == [publicKey : Keys, expiresAt : Nat, deleted : BOOLEAN,
            from : Nonces \cup {NoNonce}, seenAt : Nat]

ASSUME PlaceholderAssumption == NoNonce \notin Nonce /\ NoSession \notin Session

VARIABLES
    now,       \* Date.now()
    nonces,    \* auth_nonces
    signed,    \* which wallet has signed which challenge
    sessions,  \* sessions
    job        \* verifyAndCreateSession of each request

avars == <<now, nonces, signed, sessions, job>>

Idle == [at |-> "idle"]
Jobs ==
    {Idle} \cup [at : {"find", "consume", "mint"}, publicKey : Keys, nonce : Nonces,
                 seenAt : Nat]

Init ==
    /\ now = 0
    /\ nonces = [n \in Nonces |-> NoNonce]
    /\ signed = {}
    /\ sessions = [s \in SessionIds |-> NoSession]
    /\ job = [r \in Requests |-> Idle]

Return(r) == job' = [job EXCEPT ![r] = Idle]

\* createChallenge.
CreateChallenge(k, n) ==
    /\ nonces[n] = NoNonce
    /\ nonces' = [nonces EXCEPT ![n] =
           [publicKey |-> k, expiresAt |-> now + NONCE_TTL, consumed |-> FALSE]]
    /\ UNCHANGED <<now, signed, sessions, job>>

\* The wallet of k signs a challenge.
Sign(k, n) ==
    /\ nonces[n] # NoNonce
    /\ signed' = signed \cup {<<k, n>>}
    /\ UNCHANGED <<now, nonces, sessions, job>>

\* verifyAndCreateSession, up to its first await: the signature must be k's.
\* (mutant) the signature of any key passes.
SignedByAnybody(k, n) == \E w \in Keys : <<w, n>> \in signed
HasValidSig(k, n) == <<k, n>> \in signed

Verify(r, k, n) ==
    /\ job[r] = Idle
    /\ HasValidSig(k, n)
    /\ job' = [job EXCEPT ![r] =
           [at |-> "find", publicKey |-> k, nonce |-> n, seenAt |-> 0]]
    /\ UNCHANGED <<now, nonces, signed, sessions>>

\* authNonceRepo.findActive: issued for this key, not consumed, not expired.
\* (mutant) by nonce alone.
FindActiveAnyKey(k, n) ==
    nonces[n] # NoNonce /\ ~nonces[n].consumed /\ nonces[n].expiresAt > now

FindActive(k, n) ==
    /\ nonces[n] # NoNonce
    /\ nonces[n].publicKey = k
    /\ ~nonces[n].consumed
    /\ nonces[n].expiresAt > now

Find(r) ==
    /\ job[r].at = "find"
    /\ IF FindActive(job[r].publicKey, job[r].nonce)
       THEN job' = [job EXCEPT ![r] = [@ EXCEPT !.at = "consume", !.seenAt = now]]
       ELSE Return(r)
    /\ UNCHANGED <<now, nonces, signed, sessions>>

\* authNonceRepo.consume: by nonce, whatever is there now.
\* (mutant) the nonce stays as it was.
KeptActive(n) == nonces[n]
Consumed(n) == [nonces[n] EXCEPT !.consumed = TRUE]

Consume(r) ==
    /\ job[r].at = "consume"
    /\ nonces' = [nonces EXCEPT ![job[r].nonce] = Consumed(job[r].nonce)]
    /\ job' = [job EXCEPT ![r] = [@ EXCEPT !.at = "mint"]]
    /\ UNCHANGED <<now, signed, sessions>>

\* mintSession: the row of a session.
Minted(k, n, t) ==
    [publicKey |-> k, expiresAt |-> now + SESSION_TTL, deleted |-> FALSE,
     from |-> n, seenAt |-> t]

MintSession(r, s) ==
    /\ job[r].at = "mint"
    /\ sessions[s] = NoSession
    /\ sessions' = [sessions EXCEPT ![s] =
           Minted(job[r].publicKey, job[r].nonce, job[r].seenAt)]
    /\ Return(r)
    /\ UNCHANGED <<now, nonces, signed>>

\* testLogin, where it is enabled.
TestLogin(k, s) ==
    /\ ENABLE_TEST_LOGIN
    /\ sessions[s] = NoSession
    /\ sessions' = [sessions EXCEPT ![s] = Minted(k, NoNonce, now)]
    /\ UNCHANGED <<now, nonces, signed, job>>

\* logout, which anybody may ask for who holds the cookie.
DestroySession(s) ==
    /\ sessions[s] # NoSession
    /\ sessions' = [sessions EXCEPT ![s] = [@ EXCEPT !.deleted = TRUE]]
    /\ UNCHANGED <<now, nonces, signed, job>>

\* A statement throws, or the process dies.
Abort(r) ==
    /\ job[r] # Idle
    /\ Return(r)
    /\ UNCHANGED <<now, nonces, signed, sessions>>

Tick ==
    /\ now < MaxTime                                              \* bound
    /\ now' = now + 1
    /\ UNCHANGED <<nonces, signed, sessions, job>>

Next ==
    \/ \E k \in Keys, n \in Nonces : CreateChallenge(k, n) \/ Sign(k, n)
    \/ \E r \in Requests, k \in Keys, n \in Nonces : Verify(r, k, n)
    \/ \E r \in Requests : Find(r) \/ Consume(r) \/ Abort(r)
    \/ \E r \in Requests, s \in SessionIds : MintSession(r, s)
    \/ \E k \in Keys, s \in SessionIds : TestLogin(k, s)
    \/ \E s \in SessionIds : DestroySession(s)
    \/ Tick

Spec == Init /\ [][Next]_avars

-----------------------------------------------------------------------------
TypeOK ==
    /\ now \in 0 .. MaxTime
    /\ nonces \in [Nonces -> Nonce \cup {NoNonce}]
    /\ signed \subseteq Keys \X Nonces
    /\ sessions \in [SessionIds -> Session \cup {NoSession}]
    /\ job \in [Requests -> Jobs]

\* withAuth: the row exists and has not expired.
Accepted(s) ==
    /\ sessions[s] # NoSession
    /\ ~sessions[s].deleted
    /\ sessions[s].expiresAt >= now

\* A cookie that is accepted for a key was earned by it: unless test logins are
\* on, there was a challenge issued for that very key, its own wallet signed it,
\* it was alive when it was looked up, and it is used up (verifyAndCreateSession,
\* withAuth).
SessionsAreEarned ==
    \A s \in SessionIds : Accepted(s) =>
        \/ ENABLE_TEST_LOGIN /\ sessions[s].from = NoNonce
        \/ /\ sessions[s].from \in Nonces
           /\ nonces[sessions[s].from] # NoNonce
           /\ nonces[sessions[s].from].publicKey = sessions[s].publicKey
           /\ nonces[sessions[s].from].consumed
           /\ nonces[sessions[s].from].expiresAt > sessions[s].seenAt
           /\ <<sessions[s].publicKey, sessions[s].from>> \in signed

\* A signed challenge posted again and again makes no more sessions than there
\* were requests verifying it at once: the look-up and the consumption are two
\* statements, but nothing gets past the second (findActive, consume).  With a
\* single request this is one session per challenge.
ReplaysAreBounded ==
    \A n \in Nonces :
        Cardinality({s \in SessionIds : sessions[s] # NoSession /\ sessions[s].from = n})
            <= Cardinality(Requests)
=============================================================================
