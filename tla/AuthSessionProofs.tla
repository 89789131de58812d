------------------------- MODULE AuthSessionProofs -------------------------
(***************************************************************************)
(* Proofs about AuthSession: types, that sessions are earned, and that     *)
(* replays are bounded.                                                    *)
(***************************************************************************)
EXTENDS AuthSession, FiniteSetTheorems, TLAPS

\* The challenge n was issued for k and signed by its wallet.
Presented(k, n) ==
    /\ <<k, n>> \in signed
    /\ nonces[n] # NoNonce /\ nonces[n].publicKey = k

\* What verifyAndCreateSession knows after each of its awaits.
Knows(r) ==
    /\ job[r] # Idle => <<job[r].publicKey, job[r].nonce>> \in signed
    /\ job[r].at \in {"consume", "mint"} =>
        /\ Presented(job[r].publicKey, job[r].nonce)
        /\ nonces[job[r].nonce].expiresAt > job[r].seenAt
    /\ job[r].at = "mint" => nonces[job[r].nonce].consumed

\* What is kept of a session, whether or not it is still accepted.
Earned(s) ==
    sessions[s] # NoSession =>
        \/ ENABLE_TEST_LOGIN /\ sessions[s].from = NoNonce
        \/ /\ sessions[s].from \in Nonces
           /\ Presented(sessions[s].publicKey, sessions[s].from)
           /\ nonces[sessions[s].from].consumed
           /\ nonces[sessions[s].from].expiresAt > sessions[s].seenAt

SInv ==
    /\ TypeOK
    /\ \A r \in Requests : Knows(r)
    /\ \A s \in SessionIds : Earned(s)

\* A row of auth_nonces keeps its key and expiry, and is never unconsumed.
NonceLasts(n) ==
    nonces[n] # NoNonce =>
        /\ nonces'[n] # NoNonce
        /\ nonces'[n].publicKey = nonces[n].publicKey
        /\ nonces'[n].expiresAt = nonces[n].expiresAt
        /\ nonces[n].consumed => nonces'[n].consumed

LEMMA KnowledgeLasts ==
    ASSUME SInv, \A n \in Nonces : NonceLasts(n), signed \subseteq signed'
    PROVE  /\ \A r \in Requests : job'[r] = job[r] => Knows(r)'
           /\ \A s \in SessionIds : sessions'[s] = sessions[s] => Earned(s)'
  <1>1. ASSUME NEW r \in Requests, job'[r] = job[r] PROVE Knows(r)'
    <2>1. Knows(r) /\ job[r] \in Jobs
      BY DEF SInv, TypeOK
    <2>2. CASE job[r] = Idle
      BY <1>1, <2>2 DEF Knows, Idle
    <2>3. CASE job[r] # Idle
      <3>1. job[r].nonce \in Nonces
        BY <2>1, <2>3 DEF Jobs
      <3> QED
        BY <1>1, <2>1, <3>1 DEF Knows, NonceLasts, Presented
    <2> QED
      BY <2>2, <2>3
  <1>2. ASSUME NEW s \in SessionIds, sessions'[s] = sessions[s] PROVE Earned(s)'
    <2>1. Earned(s)
      BY DEF SInv
    <2> QED
      BY <1>2, <2>1 DEF Earned, NonceLasts, Presented
  <1> QED
    BY <1>1, <1>2

LEMMA SInvInit == Init => SInv
BY TimeAssumption DEF Init, SInv, TypeOK, Knows, Earned, Jobs, Idle

LEMMA SInvStep == SInv /\ [Next]_avars => SInv'
  <1> SUFFICES ASSUME SInv, [Next]_avars PROVE SInv'
    OBVIOUS
  <1> USE TtlAssumption, TimeAssumption
  <1>0. TypeOK
    BY DEF SInv
  <1>1. ASSUME NEW k \in Keys, NEW n \in Nonces, CreateChallenge(k, n) PROVE SInv'
    <2>1. TypeOK'
      BY <1>0, <1>1 DEF CreateChallenge, TypeOK, Nonce
    <2>2. \A m \in Nonces : NonceLasts(m)
      BY <1>0, <1>1 DEF CreateChallenge, TypeOK, NonceLasts
    <2> QED
      BY <1>1, <2>1, <2>2, KnowledgeLasts DEF CreateChallenge, SInv
  <1>2. ASSUME NEW k \in Keys, NEW n \in Nonces, Sign(k, n) PROVE SInv'
    <2>1. TypeOK'
      BY <1>0, <1>2 DEF Sign, TypeOK
    <2>2. \A m \in Nonces : NonceLasts(m)
      BY <1>2 DEF Sign, NonceLasts
    <2> QED
      BY <1>2, <2>1, <2>2, KnowledgeLasts DEF Sign, SInv
  <1>3. ASSUME NEW r \in Requests, NEW k \in Keys, NEW n \in Nonces, Verify(r, k, n)
        PROVE  SInv'
    <2>1. TypeOK'
      BY <1>0, <1>3 DEF Verify, TypeOK, Jobs
    <2>2. \A m \in Nonces : NonceLasts(m)
      BY <1>3 DEF Verify, NonceLasts
    <2>3. Knows(r)'
      BY <1>0, <1>3 DEF Verify, HasValidSig, TypeOK, Knows
    <2>4. \A q \in Requests \ {r} : job'[q] = job[q]
      BY <1>0, <1>3 DEF Verify, TypeOK
    <2> QED
      BY <1>3, <2>1, <2>2, <2>3, <2>4, KnowledgeLasts DEF Verify, SInv
  <1>4. ASSUME NEW r \in Requests, Find(r) PROVE SInv'
    <2>1. job[r] \in Jobs /\ job[r] # Idle /\ Knows(r)
      BY <1>0, <1>4 DEF Find, TypeOK, Idle, SInv
    <2> DEFINE x == [job[r] EXCEPT !.at = "consume", !.seenAt = now]
    <2>5. /\ x \in Jobs /\ x.publicKey = job[r].publicKey /\ x.nonce = job[r].nonce
          /\ x.at = "consume" /\ x.seenAt = now
      <3> DEFINE Running == [at : {"find", "consume", "mint"}, publicKey : Keys,
                             nonce : Nonces, seenAt : Nat]
      <3>1. job[r] \in Running
        BY <2>1 DEF Jobs
      <3>2. now \in Nat
        BY <1>0 DEF TypeOK
      <3>3. x \in Running
        BY <3>1, <3>2
      <3> QED
        BY <3>1, <3>3 DEF Jobs
    <2>6. /\ IF FindActive(job[r].publicKey, job[r].nonce)
             THEN job' = [job EXCEPT ![r] = x] ELSE job' = [job EXCEPT ![r] = Idle]
          /\ UNCHANGED <<now, nonces, signed, sessions>>
      BY <1>4 DEF Find, Return
    <2> HIDE DEF x
    <2>2. TypeOK' /\ \A q \in Requests \ {r} : job'[q] = job[q]
      <3>1. Idle \in Jobs
        BY DEF Jobs
      <3> QED
        BY <1>0, <2>5, <2>6, <3>1 DEF TypeOK
    <2>3. \A m \in Nonces : NonceLasts(m)
      BY <1>4 DEF Find, NonceLasts
    <2>4. Knows(r)'
      <3>1. CASE FindActive(job[r].publicKey, job[r].nonce)
        <4>1. /\ job'[r].publicKey = job[r].publicKey /\ job'[r].nonce = job[r].nonce
              /\ job'[r].at = "consume" /\ job'[r].seenAt = now
          BY <1>0, <2>5, <2>6, <3>1 DEF TypeOK
        <4> QED
          BY <1>4, <2>1, <3>1, <4>1 DEF Find, FindActive, Knows, Presented
      <3>2. CASE ~FindActive(job[r].publicKey, job[r].nonce)
        BY <1>0, <1>4, <3>2 DEF Find, Return, TypeOK, Knows, Idle
      <3> QED
        BY <3>1, <3>2
    <2> QED
      BY <1>4, <2>2, <2>3, <2>4, KnowledgeLasts DEF Find, SInv
  <1>5. ASSUME NEW r \in Requests, Consume(r) PROVE SInv'
    <2> DEFINE n == job[r].nonce
    <2>1. job[r] \in Jobs /\ job[r] # Idle /\ Knows(r)
      BY <1>0, <1>5 DEF Consume, TypeOK, Idle, SInv
    <2>2. n \in Nonces /\ nonces[n] \in Nonce
      BY <1>0, <1>5, <2>1 DEF Consume, TypeOK, Jobs, Knows, Presented
    <2>3. /\ Consumed(n) \in Nonce /\ Consumed(n).consumed
          /\ Consumed(n).publicKey = nonces[n].publicKey
          /\ Consumed(n).expiresAt = nonces[n].expiresAt
      BY <2>2 DEF Consumed, Nonce
    <2>4. /\ nonces' = [nonces EXCEPT ![n] = Consumed(n)]
          /\ UNCHANGED <<now, signed, sessions>>
      BY <1>5 DEF Consume
    <2>5. /\ job' \in [Requests -> Jobs]
          /\ job'[r].publicKey = job[r].publicKey /\ job'[r].nonce = job[r].nonce
          /\ job'[r].at = "mint" /\ job'[r].seenAt = job[r].seenAt
          /\ \A q \in Requests \ {r} : job'[q] = job[q]
      BY <1>0, <1>5, <2>1 DEF Consume, TypeOK, Jobs
    <2>6. /\ nonces'[n] = Consumed(n)
          /\ \A m \in Nonces \ {n} : nonces'[m] = nonces[m]
      BY <1>0, <2>2, <2>4 DEF TypeOK
    <2>7. TypeOK'
      BY <1>0, <2>2, <2>3, <2>4, <2>5 DEF TypeOK
    <2>8. \A m \in Nonces : NonceLasts(m)
      BY <2>3, <2>6, PlaceholderAssumption DEF NonceLasts
    <2>9. Knows(r)'
      BY <1>5, <2>1, <2>2, <2>3, <2>4, <2>5, <2>6, PlaceholderAssumption
         DEF Consume, Knows, Presented
    <2> QED
      BY <2>4, <2>5, <2>7, <2>8, <2>9, KnowledgeLasts DEF SInv
  <1>6. ASSUME NEW r \in Requests, NEW s \in SessionIds, MintSession(r, s) PROVE SInv'
    <2> DEFINE x == Minted(job[r].publicKey, job[r].nonce, job[r].seenAt)
    <2>1. job[r] \in Jobs /\ job[r] # Idle /\ Knows(r) /\ job[r].at = "mint"
      BY <1>0, <1>6 DEF MintSession, TypeOK, Idle, SInv
    <2>2. job[r].publicKey \in Keys /\ job[r].nonce \in Nonces /\ job[r].seenAt \in Nat
      BY <2>1 DEF Jobs
    <2>3. /\ x \in Session /\ x.from = job[r].nonce /\ x.publicKey = job[r].publicKey
          /\ x.seenAt = job[r].seenAt
      BY <1>0, <2>2 DEF Minted, Session, TypeOK
    <2>4. /\ sessions' = [sessions EXCEPT ![s] = x] /\ Return(r)
          /\ UNCHANGED <<now, nonces, signed>>
      BY <1>6 DEF MintSession
    <2> HIDE DEF x
    <2>5. TypeOK' /\ \A q \in Requests \ {r} : job'[q] = job[q]
      BY <1>0, <2>3, <2>4 DEF TypeOK, Return, Jobs
    <2>6. \A m \in Nonces : NonceLasts(m)
      BY <2>4 DEF NonceLasts
    <2>7. Knows(r)'
      BY <1>0, <2>4 DEF TypeOK, Return, Knows, Idle
    <2>8. sessions'[s] = x /\ \A o \in SessionIds \ {s} : sessions'[o] = sessions[o]
      BY <1>0, <2>4 DEF TypeOK
    <2>9. Earned(s)'
      BY <2>1, <2>2, <2>3, <2>4, <2>8 DEF Knows, Earned, Presented
    <2> QED
      BY <2>4, <2>5, <2>6, <2>7, <2>8, <2>9, KnowledgeLasts DEF SInv
  <1>7. ASSUME NEW k \in Keys, NEW s \in SessionIds, TestLogin(k, s) PROVE SInv'
    <2> DEFINE x == Minted(k, NoNonce, now)
    <2>1. x \in Session /\ x.from = NoNonce
      BY <1>0 DEF Minted, Session, TypeOK
    <2>2. /\ ENABLE_TEST_LOGIN /\ sessions' = [sessions EXCEPT ![s] = x]
          /\ UNCHANGED <<now, nonces, signed, job>>
      BY <1>7 DEF TestLogin
    <2> HIDE DEF x
    <2>3. TypeOK'
      BY <1>0, <2>1, <2>2 DEF TypeOK
    <2>4. sessions'[s] = x /\ \A o \in SessionIds \ {s} : sessions'[o] = sessions[o]
      BY <1>0, <2>2 DEF TypeOK
    <2>5. Earned(s)'
      BY <2>1, <2>2, <2>4 DEF Earned
    <2>6. \A m \in Nonces : NonceLasts(m)
      BY <2>2 DEF NonceLasts
    <2> QED
      BY <2>2, <2>3, <2>4, <2>5, <2>6, KnowledgeLasts DEF SInv
  <1>8. ASSUME NEW s \in SessionIds, DestroySession(s) PROVE SInv'
    <2> DEFINE x == [sessions[s] EXCEPT !.deleted = TRUE]
    <2>1. sessions[s] \in Session
      BY <1>0, <1>8 DEF DestroySession, TypeOK
    <2>2. /\ x \in Session /\ x.from = sessions[s].from /\ x.seenAt = sessions[s].seenAt
          /\ x.publicKey = sessions[s].publicKey
      BY <2>1 DEF Session
    <2>3. /\ sessions' = [sessions EXCEPT ![s] = x] /\ sessions[s] # NoSession
          /\ UNCHANGED <<now, nonces, signed, job>>
      BY <1>8 DEF DestroySession
    <2> HIDE DEF x
    <2>4. TypeOK'
      BY <1>0, <2>2, <2>3 DEF TypeOK
    <2>5. sessions'[s] = x /\ \A o \in SessionIds \ {s} : sessions'[o] = sessions[o]
      BY <1>0, <2>3 DEF TypeOK
    <2>6. Earned(s)'
      BY <2>2, <2>3, <2>5 DEF SInv, Earned, Presented
    <2>7. \A m \in Nonces : NonceLasts(m)
      BY <2>3 DEF NonceLasts
    <2> QED
      BY <2>3, <2>4, <2>5, <2>6, <2>7, KnowledgeLasts DEF SInv
  <1>9. ASSUME NEW r \in Requests, Abort(r) PROVE SInv'
    <2>1. TypeOK' /\ \A q \in Requests \ {r} : job'[q] = job[q]
      BY <1>0, <1>9 DEF Abort, Return, TypeOK, Jobs
    <2>2. Knows(r)'
      BY <1>0, <1>9 DEF Abort, TypeOK, Return, Knows, Idle
    <2>3. \A m \in Nonces : NonceLasts(m)
      BY <1>9 DEF Abort, NonceLasts
    <2> QED
      BY <1>9, <2>1, <2>2, <2>3, KnowledgeLasts DEF Abort, SInv
  <1>10. CASE Tick \/ UNCHANGED avars
    <2>1. TypeOK' /\ UNCHANGED <<nonces, signed, sessions, job>>
      BY <1>0, <1>10 DEF Tick, avars, TypeOK
    <2>2. \A m \in Nonces : NonceLasts(m)
      BY <2>1 DEF NonceLasts
    <2> QED
      BY <2>1, <2>2, KnowledgeLasts DEF SInv
  <1> QED
    BY <1>1, <1>2, <1>3, <1>4, <1>5, <1>6, <1>7, <1>8, <1>9, <1>10 DEF Next

\* What every operation on nonces and sessions keeps.
THEOREM SessionInvariance == Spec => []SInv
  BY SInvInit, SInvStep, PTL DEF Spec

\* Every reachable state is well typed (all operations of auth.service.ts).
THEOREM SessionTypes == Spec => []TypeOK
  BY SessionInvariance, PTL DEF SInv

\* However verifications interleave and die, an accepted cookie was earned with a
\* live challenge issued for its key and signed by it (verifyAndCreateSession).
THEOREM EverySessionIsEarned == Spec => []SessionsAreEarned
  <1>1. SInv => SessionsAreEarned
    BY DEF SInv, Earned, Presented, SessionsAreEarned, Accepted
  <1> QED
    BY <1>1, SessionInvariance, PTL
-----------------------------------------------------------------------------
(***************************************************************************)
(* Replays.  A request that has found a challenge either makes its session *)
(* or gives up its chance of one, and once the challenge has been consumed *)
(* nobody else finds it.                                                   *)
(***************************************************************************)
MadeFrom(n) == {s \in SessionIds : sessions[s] # NoSession /\ sessions[s].from = n}

Found(n) == {r \in Requests : job[r].at \in {"consume", "mint"} /\ job[r].nonce = n}

Bounded(n) ==
    /\ IsFiniteSet(MadeFrom(n))
    /\ Cardinality(MadeFrom(n)) + Cardinality(Found(n)) <= Cardinality(Requests)

LEMMA FoundIsFinite ==
    ASSUME IsFiniteSet(Requests), NEW F, F \subseteq Requests
    PROVE  /\ IsFiniteSet(F) /\ Cardinality(F) \in Nat /\ Cardinality(Requests) \in Nat
           /\ Cardinality(F) <= Cardinality(Requests)
BY FS_Subset, FS_CardinalityType

\* No session is made, and nobody else finds the challenge.
LEMMA BoundStays ==
    ASSUME IsFiniteSet(Requests), NEW n \in Nonces, Bounded(n),
           MadeFrom(n)' = MadeFrom(n), Found(n)' \subseteq Found(n)
    PROVE  Bounded(n)'
  <1>1. IsFiniteSet(Found(n)) /\ Cardinality(Requests) \in Nat
    BY FoundIsFinite DEF Found
  <1>2. /\ Cardinality(Found(n)) \in Nat /\ Cardinality(Found(n)') \in Nat
        /\ Cardinality(Found(n)') <= Cardinality(Found(n))
    BY <1>1, FS_Subset, FS_CardinalityType
  <1>3. Cardinality(MadeFrom(n)) \in Nat
    BY FS_CardinalityType DEF Bounded
  <1>4. /\ IsFiniteSet(MadeFrom(n)')
        /\ Cardinality(MadeFrom(n)') + Cardinality(Found(n)') <= Cardinality(Requests)
    BY <1>1, <1>2, <1>3 DEF Bounded
  <1> QED
    BY <1>4 DEF Bounded

LEMMA BoundInit ==
    ASSUME IsFiniteSet(Requests), Init, NEW n \in Nonces PROVE Bounded(n)
  <1>1. MadeFrom(n) = {} /\ Found(n) = {}
    BY DEF Init, MadeFrom, Found, Idle
  <1> QED
    BY <1>1, FS_EmptySet, FS_CardinalityType DEF Bounded

LEMMA BoundStep ==
    ASSUME IsFiniteSet(Requests), SInv, [Next]_avars, NEW n \in Nonces, Bounded(n)
    PROVE  Bounded(n)'
  <1>0. TypeOK
    BY DEF SInv
  <1>1. ASSUME NEW r \in Requests, Find(r) PROVE Bounded(n)'
    <2>1. /\ MadeFrom(n)' = MadeFrom(n) /\ job[r] \in Jobs /\ job[r].at = "find"
          /\ job[r] # Idle
      BY <1>0, <1>1 DEF Find, MadeFrom, TypeOK, Idle
    <2>2. \A q \in Requests \ {r} : job'[q] = job[q]
      BY <1>0, <1>1 DEF Find, Return, TypeOK
    <2>3. CASE FindActive(job[r].publicKey, job[r].nonce) /\ job[r].nonce = n
      <3>1. MadeFrom(n) = {}
        BY <2>3, NoNonceAssumption DEF FindActive, MadeFrom, SInv, Earned
      <3>2. IsFiniteSet(MadeFrom(n)') /\ Cardinality(MadeFrom(n)') = 0
        BY <2>1, <3>1, FS_EmptySet
      <3>3. /\ Cardinality(Found(n)') \in Nat
            /\ Cardinality(Found(n)') <= Cardinality(Requests)
        BY FoundIsFinite DEF Found
      <3>4. Cardinality(MadeFrom(n)') + Cardinality(Found(n)') <= Cardinality(Requests)
        BY <3>2, <3>3
      <3> QED
        BY <3>2, <3>4 DEF Bounded
    <2>4. CASE ~FindActive(job[r].publicKey, job[r].nonce)
      <3>1. job'[r] = Idle
        BY <1>0, <1>1, <2>4 DEF Find, Return, TypeOK
      <3>2. Found(n)' \subseteq Found(n)
        BY <2>2, <3>1 DEF Found, Idle
      <3> QED
        BY <2>1, <3>2, BoundStays
    <2>5. CASE job[r].nonce # n /\ FindActive(job[r].publicKey, job[r].nonce)
      <3>1. job'[r] = [job[r] EXCEPT !.at = "consume", !.seenAt = now]
        BY <1>0, <1>1, <2>5 DEF Find, TypeOK
      <3>2. job'[r].nonce = job[r].nonce
        BY <2>1, <3>1 DEF Jobs
      <3>3. Found(n)' \subseteq Found(n)
        BY <2>2, <2>5, <3>2 DEF Found
      <3> QED
        BY <2>1, <3>3, BoundStays
    <2> QED
      BY <2>3, <2>4, <2>5
  <1>2. ASSUME NEW r \in Requests, NEW s \in SessionIds, MintSession(r, s)
        PROVE  Bounded(n)'
    <2> DEFINE x == Minted(job[r].publicKey, job[r].nonce, job[r].seenAt)
    <2>1. /\ job[r] \in Jobs /\ job[r] # Idle /\ job[r].at = "mint"
          /\ sessions[s] = NoSession /\ x.from = job[r].nonce
      BY <1>0, <1>2 DEF MintSession, TypeOK, Idle, Minted
    <2>2. x \in Session
      <3>1. /\ job[r].publicKey \in Keys /\ job[r].nonce \in Nonces
            /\ job[r].seenAt \in Nat /\ now + SESSION_TTL \in Nat
        BY <1>0, <2>1, TtlAssumption, TimeAssumption DEF Jobs, TypeOK
      <3> QED
        BY <3>1 DEF Minted, Session
    <2>3. /\ sessions'[s] = x /\ \A o \in SessionIds \ {s} : sessions'[o] = sessions[o]
          /\ job'[r] = Idle /\ \A q \in Requests \ {r} : job'[q] = job[q]
      BY <1>0, <1>2 DEF MintSession, Return, TypeOK
    <2> HIDE DEF x
    <2>4. x # NoSession
      BY <2>2, PlaceholderAssumption
    <2>5. CASE job[r].nonce = n
      <3>1. /\ MadeFrom(n)' = MadeFrom(n) \cup {s} /\ s \notin MadeFrom(n)
            /\ Found(n)' = Found(n) \ {r} /\ r \in Found(n)
        BY <2>1, <2>3, <2>4, <2>5 DEF MadeFrom, Found, Idle
      <3>2. IsFiniteSet(MadeFrom(n)) /\ IsFiniteSet(Found(n))
        BY FoundIsFinite DEF Bounded, Found
      <3>3. /\ IsFiniteSet(MadeFrom(n)')
            /\ Cardinality(MadeFrom(n)') = Cardinality(MadeFrom(n)) + 1
        BY <3>1, <3>2, FS_AddElement
      <3>4. Cardinality(Found(n)') = Cardinality(Found(n)) - 1
        BY <3>1, <3>2, FS_RemoveElement
      <3>5. Cardinality(MadeFrom(n)) \in Nat /\ Cardinality(Found(n)) \in Nat
        BY <3>2, FS_CardinalityType
      <3>6. Cardinality(MadeFrom(n)') + Cardinality(Found(n)')
                = Cardinality(MadeFrom(n)) + Cardinality(Found(n))
        BY <3>3, <3>4, <3>5
      <3> QED
        BY <3>3, <3>6 DEF Bounded
    <2>6. CASE job[r].nonce # n
      <3>1. MadeFrom(n)' = MadeFrom(n) /\ Found(n)' \subseteq Found(n)
        BY <2>1, <2>3, <2>6 DEF MadeFrom, Found, Idle
      <3> QED
        BY <3>1, BoundStays
    <2> QED
      BY <2>5, <2>6
  <1>3. ASSUME NEW r \in Requests, NEW k \in Keys, NEW m \in Nonces, Verify(r, k, m)
        PROVE  Bounded(n)'
    <2>1. /\ MadeFrom(n)' = MadeFrom(n) /\ job'[r].at = "find"
          /\ \A q \in Requests \ {r} : job'[q] = job[q]
      BY <1>0, <1>3 DEF Verify, MadeFrom, TypeOK
    <2>2. Found(n)' \subseteq Found(n)
      BY <2>1 DEF Found
    <2> QED
      BY <2>1, <2>2, BoundStays
  <1>4. ASSUME NEW r \in Requests, Consume(r) PROVE Bounded(n)'
    <2>1. /\ MadeFrom(n)' = MadeFrom(n) /\ job[r].at = "consume" /\ job[r] \in Jobs
          /\ job[r] # Idle
          /\ job'[r] = [job[r] EXCEPT !.at = "mint"]
          /\ \A q \in Requests \ {r} : job'[q] = job[q]
      BY <1>0, <1>4 DEF Consume, MadeFrom, TypeOK, Idle
    <2>2. job'[r].nonce = job[r].nonce
      BY <2>1 DEF Jobs
    <2>3. Found(n)' \subseteq Found(n)
      BY <2>1, <2>2 DEF Found
    <2> QED
      BY <2>1, <2>3, BoundStays
  <1>5. ASSUME NEW r \in Requests, Abort(r) PROVE Bounded(n)'
    <2>1. /\ MadeFrom(n)' = MadeFrom(n) /\ job'[r] = Idle
          /\ \A q \in Requests \ {r} : job'[q] = job[q]
      BY <1>0, <1>5 DEF Abort, Return, MadeFrom, TypeOK
    <2>2. Found(n)' \subseteq Found(n)
      BY <2>1 DEF Found, Idle
    <2> QED
      BY <2>1, <2>2, BoundStays
  <1>6. ASSUME NEW k \in Keys, NEW s \in SessionIds, TestLogin(k, s) PROVE Bounded(n)'
    <2>1. /\ sessions[s] = NoSession /\ sessions'[s].from = NoNonce
          /\ \A o \in SessionIds \ {s} : sessions'[o] = sessions[o]
          /\ UNCHANGED job
      BY <1>0, <1>6 DEF TestLogin, TypeOK, Minted
    <2>2. MadeFrom(n)' = MadeFrom(n) /\ Found(n)' \subseteq Found(n)
      BY <2>1, NoNonceAssumption DEF MadeFrom, Found
    <2> QED
      BY <2>2, BoundStays
  <1>7. ASSUME NEW s \in SessionIds, DestroySession(s) PROVE Bounded(n)'
    <2> DEFINE x == [sessions[s] EXCEPT !.deleted = TRUE]
    <2>1. /\ sessions[s] \in Session /\ sessions'[s] = x /\ UNCHANGED job
          /\ \A o \in SessionIds \ {s} : sessions'[o] = sessions[o]
      BY <1>0, <1>7 DEF DestroySession, TypeOK
    <2>2. x \in Session /\ x.from = sessions[s].from
      BY <2>1 DEF Session
    <2> HIDE DEF x
    <2>3. MadeFrom(n)' = MadeFrom(n) /\ Found(n)' \subseteq Found(n)
      BY <2>1, <2>2, PlaceholderAssumption DEF MadeFrom, Found
    <2> QED
      BY <2>3, BoundStays
  <1>8. CASE UNCHANGED <<sessions, job>>
    <2>1. MadeFrom(n)' = MadeFrom(n) /\ Found(n)' \subseteq Found(n)
      BY <1>8 DEF MadeFrom, Found
    <2> QED
      BY <2>1, BoundStays
  <1>9. ASSUME NEW k \in Keys, NEW m \in Nonces, CreateChallenge(k, m) \/ Sign(k, m)
        PROVE  Bounded(n)'
    BY <1>8, <1>9 DEF CreateChallenge, Sign
  <1>10. CASE Tick \/ UNCHANGED avars
    BY <1>8, <1>10 DEF Tick, avars
  <1> QED
    BY <1>1, <1>2, <1>3, <1>4, <1>5, <1>6, <1>7, <1>9, <1>10 DEF Next

\* Whatever the number of keys, challenges and replays, one challenge makes no
\* more sessions than there are requests (findActive, consume, mintSession).
THEOREM ReplaysStayBounded ==
    ASSUME IsFiniteSet(Requests) PROVE Spec => []ReplaysAreBounded
  <1> DEFINE BInv == SInv /\ \A n \in Nonces : Bounded(n)
  <1>1. Init => BInv
    BY SInvInit, BoundInit
  <1>2. BInv /\ [Next]_avars => BInv'
    BY SInvStep, BoundStep
  <1>3. BInv => ReplaysAreBounded
    <2> SUFFICES ASSUME BInv, NEW n \in Nonces
                 PROVE  Cardinality(MadeFrom(n)) <= Cardinality(Requests)
      BY DEF ReplaysAreBounded, MadeFrom
    <2>1. /\ Cardinality(Found(n)) \in Nat /\ Cardinality(Requests) \in Nat
          /\ Cardinality(MadeFrom(n)) \in Nat
      BY FoundIsFinite, FS_CardinalityType DEF Found, Bounded
    <2> QED
      BY <2>1 DEF Bounded
  <1> HIDE DEF BInv
  <1> QED
    BY <1>1, <1>2, <1>3, PTL DEF Spec
=============================================================================
