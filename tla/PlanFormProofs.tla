--------------------------- MODULE PlanFormProofs ---------------------------
(***************************************************************************)
(* Proofs about PlanForm and the wallet of WalletSession, for any number   *)
(* of keys, provider calls, submissions and environments: types, and what  *)
(* a tab knows of its session.  Then about the amounts of Amounts, for any *)
(* number of places, parts and percentages.                                *)
(***************************************************************************)
EXTENDS PlanForm, SumsProofs

-----------------------------------------------------------------------------
(***************************************************************************)
(* The wallet.  Undisturbed, at most one call of the provider is running,  *)
(* and the answer of me is about the cookie that is still there.           *)
(***************************************************************************)
Alone ==
    ~disturbed =>
        /\ \A f, g \in Flows : Running(f) /\ Running(g) => f = g
        /\ \A f \in Flows : flow[f].at = "me" => flow[f].key = cookie

WInv == WTypeOK /\ TabKnowsItsSession /\ Alone

\* Mounting the page starts the provider afresh.
LEMMA Mounting ==
    ASSUME cookie \in Keys \cup {NoKey}, NEW f \in Flows, Mount(f)
    PROVE  WInv'
  <1> USE DEF Mount
  <1>1. WTypeOK'
    BY DEF WTypeOK, Statuses, MountedWith, Off
  <1>2. \A g \in Flows : Running(g)' => g = f
    BY DEF Running, MountedWith, Off
  <1>3. flow'[f].key = cookie'
    BY DEF MountedWith
  <1>4. TabKnowsItsSession'
    BY DEF TabKnowsItsSession
  <1>5. \A g \in Flows : flow'[g].at = "me" => flow'[g].key = cookie'
    BY DEF MountedWith, Off
  <1> QED
    BY <1>1, <1>2, <1>4, <1>5 DEF WInv, Alone

LEMMA WalletInit == WInit => WInv
  <1> SUFFICES ASSUME WInit PROVE WInv
    OBVIOUS
  <1>1. PICK f \in Flows : flow = MountedWith(f)
    BY DEF WInit
  <1>2. WTypeOK
    BY <1>1 DEF WInit, WTypeOK, Statuses, MountedWith, Off
  <1>3. \A g \in Flows : Running(g) => g = f
    BY <1>1 DEF Running, MountedWith, Off
  <1>4. \A g \in Flows : flow[g].at = "me" => flow[g].key = cookie
    BY <1>1 DEF MountedWith, Off
  <1> QED
    BY <1>2, <1>3, <1>4 DEF WInit, WInv, TabKnowsItsSession, Alone

LEMMA WalletStep == WInv /\ [WNext]_wvars => WInv'
  <1> SUFFICES ASSUME WInv, [WNext]_wvars PROVE WInv'
    OBVIOUS
  <1> USE NoKeyAssumption DEF WInv
  <1>1. CASE Elsewhere
    BY <1>1 DEF Elsewhere, WTypeOK, TabKnowsItsSession, Alone
  <1>2. ASSUME NEW f \in Flows, Connect(f) \/ Disconnect(f) PROVE WInv'
    <2>1. PICK place \in {"access", "logout"}, key \in Keys \cup {NoKey} :
              flow' = [flow EXCEPT ![f] = [at |-> place, key |-> key]]
      BY <1>2 DEF Connect, Disconnect, Begin, WTypeOK
    <2>2. /\ status' = "connecting" \/ (status' = status /\ flow'[f].at = "logout")
          /\ UNCHANGED <<cookie, publicKey>>
          /\ disturbed' = (disturbed \/ \E g \in Flows : Running(g))
      BY <1>2 DEF Connect, Disconnect, Begin, WTypeOK
    <2>3. WTypeOK'
      BY <2>1, <2>2 DEF WTypeOK, Statuses
    <2>4. TabKnowsItsSession'
      BY <2>2 DEF TabKnowsItsSession, SigningOut
    <2>5. Alone'
      <3> SUFFICES ASSUME ~disturbed' PROVE Alone'
        BY DEF Alone
      <3>1. \A g \in Flows : ~Running(g)
        BY <2>2
      <3>2. \A g \in Flows : g # f => flow'[g] = Off
        BY <2>1, <3>1 DEF WTypeOK, Running
      <3>3. flow'[f].at # "me"
        BY <2>1 DEF WTypeOK
      <3> QED
        BY <3>2, <3>3 DEF Alone, Running, Off
    <2> QED
      BY <2>3, <2>4, <2>5
  <1>3. ASSUME NEW f \in Flows,
               MeAnswers(f) \/ ConnectSucceeds(f) \/ ConnectFails(f) \/ LogoutAnswers(f)
        PROVE  WInv'
    <2>1. /\ flow' = [flow EXCEPT ![f] = Off] /\ disturbed' = disturbed
          /\ Running(f)
      BY <1>3 DEF MeAnswers, ConnectSucceeds, ConnectFails, LogoutAnswers, AskingWallet,
                  AskingServer, SigningOut, Ends, Running, Off
    <2>2. WTypeOK'
      BY <1>3, <2>1 DEF MeAnswers, ConnectSucceeds, ConnectFails, LogoutAnswers,
                        LogoutHeard, Now, Verified, WTypeOK, Statuses, Off
    <2>3. TabKnowsItsSession'
      BY <1>3, <2>1 DEF MeAnswers, ConnectSucceeds, ConnectFails, LogoutAnswers,
                        Now, Verified, TabKnowsItsSession, Alone, WTypeOK, SigningOut
    <2>4. Alone'
      <3> SUFFICES ASSUME ~disturbed' PROVE Alone'
        BY DEF Alone
      <3>1. \A g \in Flows : g # f => ~Running(g)
        BY <2>1 DEF Alone
      <3>2. \A g \in Flows : flow'[g] = Off
        BY <2>1, <3>1 DEF WTypeOK, Running
      <3> QED
        BY <3>2 DEF Alone, Running, Off
    <2> QED
      BY <2>2, <2>3, <2>4
  <1>6. ASSUME NEW f \in Flows,
               AccessGranted(f) \/ Challenged(f) \/ ChallengeSigned(f) \/ SessionDestroyed(f)
        PROVE  WInv'
    <2>1. PICK to \in {"challenge", "sign", "verify", "loggedOut"} :
              /\ flow' = [flow EXCEPT ![f] = [at |-> to, key |-> NoKey]]
              /\ cookie' # cookie => to = "loggedOut"
              /\ SigningOut(f) => to = "loggedOut"
      BY <1>6 DEF AccessGranted, Challenged, ChallengeSigned, SessionDestroyed, GoesOn,
                  SigningOut
    <2>2. /\ UNCHANGED <<status, publicKey, disturbed>> /\ cookie' \in {cookie, NoKey}
          /\ Running(f)
      BY <1>6 DEF AccessGranted, Challenged, ChallengeSigned, SessionDestroyed, GoesOn,
                  Running, Off
    <2>3. /\ flow'[f].at = to
          /\ \A g \in Flows : g # f => flow'[g] = flow[g]
      BY <2>1 DEF WTypeOK
    <2>4. WTypeOK'
      BY <2>1, <2>2 DEF WTypeOK
    <2>5. (\E g \in Flows : SigningOut(g)) => \E g \in Flows : SigningOut(g)'
      BY <2>1, <2>3 DEF SigningOut
    <2>6. cookie' # cookie => SigningOut(f)'
      BY <2>1, <2>3 DEF SigningOut
    <2>7. TabKnowsItsSession'
      BY <2>2, <2>5, <2>6 DEF TabKnowsItsSession
    <2>8. Alone'
      <3> SUFFICES ASSUME ~disturbed' PROVE Alone'
        BY DEF Alone
      <3>1. \A g \in Flows : g # f => ~Running(g)
        BY <2>2 DEF Alone
      <3>2. \A g \in Flows : g # f => flow'[g] = Off
        BY <2>3, <3>1 DEF Running
      <3> QED
        BY <2>1, <2>3, <3>2 DEF Alone, Running, Off
    <2> QED
      BY <2>4, <2>7, <2>8
  <1>4. ASSUME NEW f \in Flows, Mount(f) PROVE WInv'
    BY <1>4, Mounting DEF WTypeOK
  <1>5. CASE UNCHANGED wvars
    BY <1>5 DEF wvars, WTypeOK, TabKnowsItsSession, Alone, Running, SigningOut
  <1> QED
    BY <1>1, <1>2, <1>3, <1>4, <1>5, <1>6 DEF WNext, Answers, ServerSays, WalletSays

\* Whatever runs the wallet's provider: a connected tab knows a key, and undisturbed
\* it is the one of its session until it begins to sign out (the effect of
\* WalletProvider, connect, disconnect).
THEOREM WalletsKnowTheirSession == WSpec => []TabKnowsItsSession
  <1>1. WInv => TabKnowsItsSession
    BY DEF WInv
  <1> QED
    BY <1>1, WalletInit, WalletStep, PTL DEF WSpec

-----------------------------------------------------------------------------
(***************************************************************************)
(* The form.  A form waits only for what is at work, and what is over      *)
(* takes the form it came from along.                                      *)
(***************************************************************************)
Place == {"intent", "sign", "escrow", "plan", "done"}

\* The form's part of TypeOK.
FormTypeOK ==
    /\ env \in Envs
    /\ loading \in BOOLEAN /\ fetches \in 0..MaxFetches
    /\ showForm \in BOOLEAN
    /\ mine \subseteq Saves
    /\ save \in [Saves -> Place]
    /\ \A v \in mine : AtWork(v)

LEMMA FormInit == Init => FormTypeOK
  <1> SUFFICES ASSUME Init PROVE FormTypeOK
    OBVIOUS
  <1>1. fetches \in 0..MaxFetches
    BY MaxFetchesAssumption DEF Init
  <1>2. save \in [Saves -> Place]
    BY DEF Init, Place
  <1> QED
    BY <1>1, <1>2 DEF Init, FormTypeOK, NoSave

\* What the end of a submission, well or badly, does to the page.
LEMMA EndKeeps ==
    ASSUME FormTypeOK, NEW v \in Saves, env' = env, Succeeds(v) \/ Fails(v)
    PROVE  FormTypeOK'
  <1>1. save' = [save EXCEPT ![v] = "done"]
    BY DEF Succeeds, Fails, Over
  <1>2. save' \in [Saves -> Place] /\ \A w \in Saves : w # v => save'[w] = save[w]
    BY <1>1 DEF FormTypeOK, Place
  <1>3. fetches' \in 0..MaxFetches
    BY MaxFetchesAssumption DEF FormTypeOK, Succeeds, Fails, BeginFetch
  <1>4. loading' \in BOOLEAN /\ showForm' \in BOOLEAN /\ mine' \subseteq mine \ {v}
    BY DEF FormTypeOK, Succeeds, Fails, BeginFetch, NoSave
  <1>5. \A w \in mine' : AtWork(w)'
    BY <1>2, <1>4 DEF FormTypeOK, AtWork
  <1> QED
    BY <1>2, <1>3, <1>4, <1>5 DEF FormTypeOK

LEMMA FormStep == FormTypeOK /\ [Next]_fvars => FormTypeOK'
  <1> SUFFICES ASSUME FormTypeOK, [Next]_fvars PROVE FormTypeOK'
    OBVIOUS
  <1>1. ASSUME NEW f \in Flows, FormWallet(f) PROVE FormTypeOK'
    <2>1. FormEffect
      BY <1>1 DEF FormWallet, Provider
    <2>2. fetches' \in 0..MaxFetches
      BY <2>1, MaxFetchesAssumption DEF FormEffect, BeginFetch, FormTypeOK
    <2>3. loading' \in BOOLEAN
      BY <2>1 DEF FormEffect, BeginFetch, FormTypeOK
    <2>4. mine' \subseteq mine /\ UNCHANGED <<env, showForm, save>>
      BY <2>1 DEF FormEffect, Unmounted, NoSave
    <2> QED
      BY <2>2, <2>3, <2>4 DEF FormTypeOK, AtWork
  <1>2. CASE FetchAnswers
    <2>1. fetches' \in 0..MaxFetches
      BY <1>2, MaxFetchesAssumption DEF FetchAnswers, FormTypeOK
    <2> QED
      BY <1>2, <2>1 DEF FetchAnswers, Answered, FormTypeOK, AtWork
  <1>3. CASE Toggle
    BY <1>3 DEF Toggle, FormTypeOK, NoSave, AtWork
  <1>4. ASSUME NEW v \in Saves, Submit(v) PROVE FormTypeOK'
    <2>1. PICK first \in {"intent", "plan"} : save' = [save EXCEPT ![v] = first]
      BY <1>4 DEF Submit
    <2>2. save' \in [Saves -> Place] /\ save'[v] # "done"
      BY <2>1 DEF FormTypeOK, Place
    <2> QED
      BY <1>4, <2>2 DEF Submit, FormTypeOK, AtWork
  <1>5. ASSUME NEW v \in Saves, BuildEscrow(v) \/ SignEscrow(v) PROVE FormTypeOK'
    <2>1. PICK to \in {"sign", "escrow"} : save' = [save EXCEPT ![v] = to]
      BY <1>5 DEF BuildEscrow, SignEscrow, GoesTo
    <2>2. save' \in [Saves -> Place] /\ save'[v] # "done"
          /\ \A w \in Saves : w # v => save'[w] = save[w]
      BY <2>1 DEF FormTypeOK, Place
    <2>3. UNCHANGED <<env, loading, fetches, showForm, mine>>
      BY <1>5 DEF BuildEscrow, SignEscrow, GoesTo, fpage
    <2> QED
      BY <2>2, <2>3 DEF FormTypeOK, AtWork
  <1>6. ASSUME NEW v \in Saves, Create(v) \/ Throws(v) PROVE FormTypeOK'
    BY <1>6, EndKeeps DEF Create, Throws
  <1>7. CASE SessionElsewhere
    BY <1>7 DEF SessionElsewhere, fpage, FormTypeOK, AtWork
  <1>8. CASE Reload
    <2>1. fetches' \in 0..MaxFetches
      BY <1>8, MaxFetchesAssumption DEF Reload
    <2> QED
      BY <1>8, <2>1 DEF Reload, FormTypeOK, NoSave, Place
  <1>9. CASE UNCHANGED fvars
    BY <1>9 DEF fvars, fpage, FormTypeOK, AtWork
  <1> QED
    BY <1>1, <1>2, <1>3, <1>4, <1>5, <1>6, <1>7, <1>8, <1>9 DEF Next, Step, WalletSigns

\* A step of the dashboard is a step of the wallet's provider, or none.
LEMMA FormSeesWallet == [Next]_fvars => [WNext]_wvars
  <1> SUFFICES ASSUME [Next]_fvars PROVE [WNext]_wvars
    OBVIOUS
  <1>1. ASSUME NEW f \in Flows, FormWallet(f) PROVE WNext
    BY <1>1 DEF FormWallet, Provider, WNext, Answers
  <1>2. ASSUME NEW v \in Saves, Submit(v) \/ Step(v) \/ WalletSigns(v) PROVE UNCHANGED wvars
    BY <1>2 DEF Submit, Step, WalletSigns, BuildEscrow, SignEscrow, GoesTo, Create, Throws
  <1>3. CASE FetchAnswers \/ Toggle \/ UNCHANGED fvars
    BY <1>3 DEF FetchAnswers, Toggle, fvars
  <1>4. CASE SessionElsewhere \/ Reload
    BY <1>4 DEF SessionElsewhere, Reload, WNext
  <1> QED
    BY <1>1, <1>2, <1>3, <1>4 DEF Next

\* The dashboard runs the wallet's provider: whatever its form and its list do, the
\* cookie, the status and the key only ever change as WalletProvider changes them.
THEOREM FormRunsTheWallet == Spec => WSpec
  <1>1. Init => WInit
    BY DEF Init
  <1> QED
    BY <1>1, FormSeesWallet, PTL DEF Spec, WSpec

\* The dashboard's state keeps its types, and a form only ever waits for a
\* submission at work (DashboardPage, CreateForm).
THEOREM FormTypes == Spec => []TypeOK
  <1>1. Spec => []FormTypeOK
    BY FormInit, FormStep, PTL DEF Spec
  <1>2. Spec => []WInv
    BY FormRunsTheWallet, WalletInit, WalletStep, PTL DEF WSpec
  <1>3. FormTypeOK /\ WInv => TypeOK
    BY DEF WInv, FormTypeOK, TypeOK, Place
  <1> QED
    BY <1>1, <1>2, <1>3, PTL

\* With any number of calls of the provider at once: a connected tab knows a key,
\* and undisturbed it is the one of its session until it begins to sign out
\* (connect, disconnect, the effect of WalletProvider).
THEOREM TabsKnowTheirSession == Spec => []TabKnowsItsSession
  BY FormRunsTheWallet, WalletsKnowTheirSession, PTL

-----------------------------------------------------------------------------
(***************************************************************************)
(* Powers of ten: the recursive function is the union of its finite        *)
(* beginnings, each of which exists by induction and is unique.            *)
(***************************************************************************)
IsPow(f, n) == f[0] = 1 /\ \A i \in 1..n : f[i] = 10 * f[i - 1]

\* There is a beginning of every length.
LEMMA PowExists == \A n \in Nat : \E f \in [0..n -> Nat \ {0}] : IsPow(f, n)
  <1> DEFINE S == {n \in Nat : \E f \in [0..n -> Nat \ {0}] : IsPow(f, n)}
  <1>1. 0 \in S
    <2> DEFINE f == [i \in 0..0 |-> 1]
    <2>1. f \in [0..0 -> Nat \ {0}] /\ IsPow(f, 0)
      BY DEF IsPow
    <2> QED
      BY <2>1
  <1>2. ASSUME NEW n \in Nat, n \in S PROVE n + 1 \in S
    <2>1. PICK f \in [0..n -> Nat \ {0}] : IsPow(f, n)
      BY <1>2
    <2> DEFINE g == [i \in 0..(n + 1) |-> IF i = n + 1 THEN 10 * f[n] ELSE f[i]]
    <2>2. g \in [0..(n + 1) -> Nat \ {0}]
      OBVIOUS
    <2>3. IsPow(g, n + 1)
      BY <2>1 DEF IsPow
    <2> QED
      BY <2>2, <2>3
  <1> HIDE DEF S
  <1>3. \A n \in Nat : n \in S
    BY <1>1, <1>2, SetInduction
  <1> QED
    BY <1>3 DEF S

\* Two of them agree as far as both go.
LEMMA PowUnique ==
    ASSUME NEW n \in Nat, NEW m \in Nat, NEW f, NEW g, IsPow(f, n), IsPow(g, m)
    PROVE  \A i \in Nat : i <= n /\ i <= m => f[i] = g[i]
  <1> DEFINE S == {i \in Nat : i <= n /\ i <= m => f[i] = g[i]}
  <1>1. 0 \in S
    BY DEF IsPow
  <1>2. ASSUME NEW i \in Nat, i \in S PROVE i + 1 \in S
    <2> SUFFICES ASSUME i + 1 <= n, i + 1 <= m PROVE f[i + 1] = g[i + 1]
      OBVIOUS
    <2>1. i + 1 \in 1..n /\ i + 1 \in 1..m /\ (i + 1) - 1 = i
      OBVIOUS
    <2> QED
      BY <1>2, <2>1 DEF IsPow
  <1> HIDE DEF S
  <1>3. \A i \in Nat : i \in S
    BY <1>1, <1>2, SetInduction
  <1> QED
    BY <1>3 DEF S

\* So Pow10 is what its definition says.
LEMMA PowUnfolds ==
    /\ Pow10 \in [Nat -> Nat \ {0}]
    /\ Pow10[0] = 1
    /\ \A n \in Nat : Pow10[n + 1] = 10 * Pow10[n]
  <1> DEFINE P(n) == CHOOSE f \in [0..n -> Nat \ {0}] : IsPow(f, n)
             G == [n \in Nat |-> P(n)[n]]
  <1>1. \A n \in Nat : P(n) \in [0..n -> Nat \ {0}] /\ IsPow(P(n), n)
    BY PowExists
  <1> HIDE DEF P
  <1>2. G \in [Nat -> Nat \ {0}]
    BY <1>1
  <1>3. G[0] = 1
    BY <1>1 DEF IsPow
  <1>4. \A n \in Nat : n # 0 => G[n] = 10 * G[n - 1]
    <2> SUFFICES ASSUME NEW n \in Nat, n # 0 PROVE P(n)[n] = 10 * P(n - 1)[n - 1]
      OBVIOUS
    <2>1. P(n)[n] = 10 * P(n)[n - 1]
      BY <1>1 DEF IsPow
    <2>2. n - 1 \in Nat
      OBVIOUS
    <2>3. P(n)[n - 1] = P(n - 1)[n - 1]
      BY <1>1, <2>2, PowUnique
    <2> QED
      BY <2>1, <2>3
  <1> HIDE DEF G
  <1>5. G = [n \in Nat |-> IF n = 0 THEN 1 ELSE 10 * G[n - 1]]
    BY <1>2, <1>3, <1>4
  <1>6. Pow10 = [n \in Nat |-> IF n = 0 THEN 1 ELSE 10 * Pow10[n - 1]]
    BY <1>5 DEF Pow10
  <1>7. \A n \in Nat : n \in {i \in Nat : Pow10[i] \in Nat \ {0}}
    <2> DEFINE S == {i \in Nat : Pow10[i] \in Nat \ {0}}
    <2>1. 0 \in S
      BY <1>6
    <2>2. ASSUME NEW n \in Nat, n \in S PROVE n + 1 \in S
      <3>1. n + 1 \in Nat /\ n + 1 # 0 /\ (n + 1) - 1 = n
        OBVIOUS
      <3>2. Pow10[n + 1] = 10 * Pow10[n]
        BY <1>6, <3>1
      <3> QED
        BY <2>2, <3>2
    <2> HIDE DEF S
    <2> QED
      BY <2>1, <2>2, SetInduction DEF S
  <1>8. \A n \in Nat : n + 1 \in Nat /\ n + 1 # 0 /\ (n + 1) - 1 = n
    OBVIOUS
  <1>9. \A n \in Nat : Pow10[n + 1] = 10 * Pow10[n]
    BY <1>6, <1>8
  <1> QED
    BY <1>6, <1>7, <1>9

\* Places add up.
LEMMA PowAdds == \A a, b \in Nat : Pow10[a + b] = Pow10[a] * Pow10[b]
  <1> SUFFICES ASSUME NEW a \in Nat PROVE \A b \in Nat : Pow10[a + b] = Pow10[a] * Pow10[b]
    OBVIOUS
  <1> DEFINE S == {b \in Nat : Pow10[a + b] = Pow10[a] * Pow10[b]}
  <1>1. 0 \in S
    BY PowUnfolds
  <1>2. ASSUME NEW b \in Nat, b \in S PROVE b + 1 \in S
    <2>1. a + b \in Nat /\ a + (b + 1) = (a + b) + 1
      OBVIOUS
    <2>2. Pow10[a + (b + 1)] = 10 * Pow10[a + b] /\ Pow10[b + 1] = 10 * Pow10[b]
      BY <2>1, PowUnfolds
    <2>3. Pow10[a] \in Int /\ Pow10[b] \in Int
      BY PowUnfolds
    <2>4. \A x, y \in Int : 10 * (x * y) = x * (10 * y)
      OBVIOUS
    <2> QED
      BY <1>2, <2>2, <2>3, <2>4
  <1> HIDE DEF S
  <1>3. \A b \in Nat : b \in S
    BY <1>1, <1>2, SetInduction
  <1> QED
    BY <1>3 DEF S

-----------------------------------------------------------------------------
(***************************************************************************)
(* Division with remainder.                                                *)
(***************************************************************************)
\* What div and % are.
LEMMA Division ==
    ASSUME NEW a \in Nat, NEW b \in Nat \ {0}
    PROVE  /\ a \div b \in Nat /\ a % b \in 0..(b - 1)
           /\ a = b * (a \div b) + (a % b)
  OBVIOUS

\* And nothing else is.
LEMMA DivisionUnique ==
    ASSUME NEW b \in Nat \ {0}, NEW q \in Nat, NEW r \in 0..(b - 1)
    PROVE  (b * q + r) \div b = q /\ (b * q + r) % b = r
  <1> DEFINE a == b * q + r
             q2 == a \div b
             r2 == a % b
  <1>0. a \in Nat
    OBVIOUS
  <1>1. q2 \in Nat /\ r2 \in 0..(b - 1) /\ a = b * q2 + r2
    BY <1>0, Division
  <1>2. b * q + r = b * q2 + r2
    BY <1>1
  <1> HIDE DEF q2, r2, a
  <1>3. ~(q < q2)
    <2> SUFFICES ASSUME q + 1 <= q2 PROVE FALSE
      BY <1>1
    <2>1. b * (q + 1) <= b * q2
      BY <1>1
    <2>2. b * (q + 1) = b * q + b
      OBVIOUS
    <2> QED
      BY <1>1, <1>2, <2>1, <2>2
  <1>4. ~(q2 < q)
    <2> SUFFICES ASSUME q2 + 1 <= q PROVE FALSE
      BY <1>1
    <2>1. b * (q2 + 1) <= b * q
      BY <1>1
    <2>2. b * (q2 + 1) = b * q2 + b
      BY <1>1
    <2> QED
      BY <1>1, <1>2, <2>1, <2>2
  <1>5. q2 = q
    BY <1>1, <1>3, <1>4
  <1> QED
    BY <1>1, <1>2, <1>5 DEF q2, r2, a

-----------------------------------------------------------------------------
(***************************************************************************)
(* Conversions.  Whatever is in stroops is a whole number of some power of *)
(* ten, and Places finds the largest one that fits.                        *)
(***************************************************************************)
\* The unit is a positive number.
LEMMA StroopsArePositive == STROOPS \in Nat \ {0}
  BY PowUnfolds, DecimalsAssumption DEF STROOPS

\* A power of ten for the places there are, and one for those that are left.
LEMMA PowSplits ==
    ASSUME NEW p \in 0..DECIMALS
    PROVE  /\ Pow10[p] \in Nat \ {0} /\ Pow10[DECIMALS - p] \in Nat \ {0}
           /\ Pow10[p] * Pow10[DECIMALS - p] = STROOPS
  <1>1. p \in Nat /\ DECIMALS - p \in Nat /\ p + (DECIMALS - p) = DECIMALS
    BY DecimalsAssumption
  <1> QED
    BY <1>1, PowUnfolds, PowAdds DEF STROOPS

\* Places is the fewest places that the number can be written in.
LEMMA PlacesFound ==
    ASSUME NEW frac \in Nat
    PROVE  /\ Places(frac) \in 0..DECIMALS
           /\ frac % Pow10[DECIMALS - Places(frac)] = 0
           /\ \A q \in 0..DECIMALS :
                  frac % Pow10[DECIMALS - q] = 0 => Places(frac) <= q
  <1> DEFINE Fits(p) == frac % Pow10[DECIMALS - p] = 0
             T == {p \in 0..DECIMALS : Fits(p)}
  <1>1. DECIMALS \in T
    <2>1. DECIMALS - DECIMALS = 0 /\ DECIMALS \in 0..DECIMALS
      BY DecimalsAssumption
    <2>2. frac % 1 = 0
      OBVIOUS
    <2> QED
      BY <2>1, <2>2, PowUnfolds
  <1>2. T \subseteq Nat /\ T # {}
    BY <1>1, DecimalsAssumption
  <1>3. PICK m \in T : \A n \in T : m <= n
    BY <1>2, LeastNumber
  <1>4. m \in 0..DECIMALS /\ Fits(m)
    BY <1>3
  <1>5. \A q \in 0..(m - 1) : ~Fits(q)
    <2> SUFFICES ASSUME NEW q \in 0..(m - 1), Fits(q) PROVE FALSE
      OBVIOUS
    <2>1. q \in T /\ ~(m <= q)
      BY <1>4, DecimalsAssumption
    <2> QED
      BY <1>3, <2>1
  <1> HIDE DEF T
  <1> DEFINE p == Places(frac)
  <1>6. p \in 0..DECIMALS /\ Fits(p) /\ \A q \in 0..(p - 1) : ~Fits(q)
    BY <1>4, <1>5 DEF Places
  <1> HIDE DEF p
  <1>7. \A q \in 0..DECIMALS : Fits(q) => p <= q
    BY <1>6, DecimalsAssumption
  <1> QED
    BY <1>6, <1>7 DEF p

\* What fromStroops prints of a number of stroops.
LEMMA Printed ==
    ASSUME NEW s \in Int, NEW n \in Nat, n = IF s < 0 THEN -s ELSE s
    PROVE  LET t == FromStroops(s) IN
           /\ t \in [neg : BOOLEAN, whole : Nat,
                     places : 0..DECIMALS, frac : Nat]
           /\ t.neg = (s < 0)
           /\ t.places = Places(n % STROOPS)
           /\ t.whole * STROOPS + t.frac * Pow10[DECIMALS - t.places] = n
  <1> DEFINE frac == n % STROOPS
             p == Places(frac)
             unit == Pow10[DECIMALS - p]
             t == FromStroops(s)
  <1>1. /\ n \div STROOPS \in Nat /\ frac \in Nat
        /\ n = STROOPS * (n \div STROOPS) + frac
    BY StroopsArePositive, Division
  <1>2. p \in 0..DECIMALS /\ frac % unit = 0
    BY <1>1, PlacesFound
  <1>3. unit \in Nat \ {0}
    BY <1>2, PowSplits
  <1>4. frac \div unit \in Nat /\ frac = unit * (frac \div unit)
    <2> DEFINE q == frac \div unit
    <2> HIDE DEF frac, unit
    <2>1. q \in Nat /\ frac = unit * q + (frac % unit)
      BY <1>1, <1>3, Division
    <2> HIDE DEF q
    <2>2. unit * q \in Nat
      BY <1>3, <2>1
    <2>3. frac = unit * q
      BY <1>2, <2>1, <2>2
    <2> QED
      BY <2>1, <2>3 DEF q
  <1>5. t = [neg |-> s < 0, whole |-> n \div STROOPS,
             places |-> p, frac |-> frac \div unit]
    BY DEF FromStroops
  <1> HIDE DEF frac, p, unit, t
  <1>6. t \in [neg : BOOLEAN, whole : Nat,
               places : 0..DECIMALS, frac : Nat]
    BY <1>1, <1>2, <1>4, <1>5
  <1>7. t.whole * STROOPS = STROOPS * (n \div STROOPS)
    BY <1>1, <1>5, StroopsArePositive
  <1>8. t.frac * unit = unit * (frac \div unit)
    BY <1>3, <1>4, <1>5
  <1>9. t.whole * STROOPS + t.frac * unit = n
    BY <1>1, <1>4, <1>7, <1>8
  <1>10. t.places = p /\ t.neg = (s < 0)
    BY <1>5
  <1> QED
    BY <1>6, <1>9, <1>10 DEF p, frac, unit, t

\* However large the amount and whatever its sign: what fromStroops prints of it,
\* toStroops reads again as the same number of stroops.
THEOREM ReadBack == \A s \in Int : ToStroops(FromStroops(s)) = s
  <1> SUFFICES ASSUME NEW s \in Int PROVE ToStroops(FromStroops(s)) = s
    OBVIOUS
  <1> DEFINE n == IF s < 0 THEN -s ELSE s
             t == FromStroops(s)
  <1>1. n \in Nat
    OBVIOUS
  <1>2. /\ t \in [neg : BOOLEAN, whole : Nat,
                  places : 0..DECIMALS, frac : Nat]
        /\ t.neg = (s < 0)
        /\ t.whole * STROOPS + t.frac * Pow10[DECIMALS - t.places] = n
    BY <1>1, Printed
  <1>3. t # Malformed /\ t.places <= DECIMALS
    BY <1>2, MalformedAssumption, DecimalsAssumption
  <1>4. ToStroops(t) = Signed(s < 0, n)
    <2> HIDE DEF t, n
    <2> QED
      BY <1>2, <1>3, DecimalsAssumption DEF ToStroops
  <1> QED
    BY <1>4 DEF Signed

\* A decimal that is not refused is worth what it spells.
LEMMA Worth ==
    ASSUME NEW t \in [neg : BOOLEAN, whole : Nat,
                      places : 0..DECIMALS, frac : Nat],
           t.frac < Pow10[t.places]
    PROVE  LET n == t.whole * STROOPS + t.frac * Pow10[DECIMALS - t.places] IN
           /\ n \in Nat
           /\ ToStroops(t) = Signed(t.neg, n)
           /\ n * Pow10[t.places] = (t.whole * Pow10[t.places] + t.frac) * STROOPS
           /\ Places(n % STROOPS) <= t.places
  <1> DEFINE unit == Pow10[DECIMALS - t.places]
             p10 == Pow10[t.places]
             n == t.whole * STROOPS + t.frac * unit
  <1>1. unit \in Nat \ {0} /\ p10 \in Nat \ {0} /\ p10 * unit = STROOPS
    BY PowSplits
  <1>2. t.whole \in Nat /\ t.frac \in Nat /\ t.places \in 0..DECIMALS /\ STROOPS \in Nat \ {0}
    BY StroopsArePositive
  <1>3. t # Malformed /\ t.places <= DECIMALS
    BY MalformedAssumption, DecimalsAssumption
  <1>4. ToStroops(t) = Signed(t.neg, n)
    BY <1>3, <1>2, DecimalsAssumption DEF ToStroops
  <1>5. t.frac * unit \in 0..(STROOPS - 1)
    <2> HIDE DEF unit, p10, n
    <2>1. (t.frac + 1) * unit <= p10 * unit
      <3>1. t.frac + 1 <= p10
        BY <1>1, <1>2 DEF p10
      <3>2. \A a, b, c \in Nat : a <= b => a * c <= b * c
        OBVIOUS
      <3> QED
        BY <1>1, <1>2, <3>1, <3>2
    <2>2. (t.frac + 1) * unit = t.frac * unit + unit
      BY <1>1, <1>2
    <2>3. t.frac * unit \in Nat
      BY <1>1, <1>2
    <2> QED
      BY <1>1, <2>1, <2>2, <2>3
  <1> HIDE DEF unit, p10
  <1>6. n \in Nat
    BY <1>1, <1>2
  <1>7. n * p10 = (t.whole * p10 + t.frac) * STROOPS
    <2> DEFINE a == t.whole * STROOPS
               b == t.frac * unit
    <2>1. a \in Nat /\ b \in Nat
      BY <1>1, <1>2
    <2>2. (a + b) * p10 = a * p10 + b * p10
      <3> HIDE DEF a, b
      <3> QED
        BY <1>1, <2>1
    <2>3. (t.whole * p10 + t.frac) * STROOPS
              = (t.whole * p10) * STROOPS + t.frac * STROOPS
      <3>1. t.whole * p10 \in Nat
        BY <1>1, <1>2
      <3>2. \A x, y, z \in Nat : (x + y) * z = x * z + y * z
        OBVIOUS
      <3> QED
        BY <1>2, <3>1, <3>2
    <2>4. \A x, y, z \in Nat :
              (x * y) * z = (x * z) * y /\ (x * y) * z = x * (z * y)
      OBVIOUS
    <2>5. a * p10 = (t.whole * p10) * STROOPS
      BY <1>1, <1>2, <2>4
    <2>6. b * p10 = t.frac * STROOPS
      <3>1. b * p10 = t.frac * (p10 * unit)
        BY <1>1, <1>2, <2>4
      <3> QED
        BY <1>1, <3>1
    <2> QED
      BY <2>2, <2>3, <2>5, <2>6
  <1>8. n % STROOPS = t.frac * unit
    <2>1. (STROOPS * t.whole + t.frac * unit) % STROOPS = t.frac * unit
      BY <1>2, <1>5, DivisionUnique
    <2>2. STROOPS * t.whole = t.whole * STROOPS
      BY <1>2
    <2> QED
      BY <2>1, <2>2
  <1>9. (n % STROOPS) % unit = 0
    <2>1. (unit * t.frac + 0) % unit = 0
      BY <1>1, <1>2, DivisionUnique
    <2>2. unit * t.frac + 0 = t.frac * unit
      BY <1>1, <1>2
    <2> QED
      BY <1>8, <2>1, <2>2
  <1>10. Places(n % STROOPS) <= t.places
    <2>1. n % STROOPS \in Nat
      BY <1>5, <1>8, <1>2
    <2> HIDE DEF n
    <2> QED
      BY <1>2, <1>9, <2>1, PlacesFound DEF unit
  <1> QED
    BY <1>4, <1>6, <1>7, <1>10 DEF n, unit, p10

\* With any number of places, and any whole parts: what is written of an amount and
\* read again is the same amount, and a decimal is worth what it spells or refused
\* (toStroops, fromStroops).
THEOREM AmountsKeepTheirValue == ConversionsAreExact
  <1>1. \A s \in -(2 * STROOPS)..(2 * STROOPS) : ToStroops(FromStroops(s)) = s
    BY StroopsArePositive, ReadBack
  <1>2. ASSUME NEW t \in Texts, t.places > DECIMALS PROVE ToStroops(t) = NotAnAmount
    BY <1>2 DEF ToStroops
  <1>3. ASSUME NEW t \in Texts, ~(t.places > DECIMALS)
        PROVE  LET s == ToStroops(t) IN
               /\ s * Pow10[t.places]
                      = Signed(t.neg, t.whole * Pow10[t.places] + t.frac) * STROOPS
               /\ FromStroops(s).places <= t.places
    <2> DEFINE s == ToStroops(t)
               n == t.whole * STROOPS + t.frac * Pow10[DECIMALS - t.places]
    <2>1. PICK p \in 0..(DECIMALS + 1) :
              t \in [neg : BOOLEAN, whole : Wholes, places : {p},
                     frac : 0..(Pow10[p] - 1)]
      BY DEF Texts
    <2>2. /\ t \in [neg : BOOLEAN, whole : Nat,
                    places : 0..DECIMALS, frac : Nat]
          /\ t.frac < Pow10[t.places]
      <3>1. p \in Nat /\ Pow10[p] \in Nat
        BY PowUnfolds, DecimalsAssumption
      <3>2. t.places = p /\ p \in 0..DECIMALS
        BY <1>3, <2>1, <3>1, DecimalsAssumption
      <3>3. t.frac \in 0..(Pow10[p] - 1)
        BY <2>1
      <3>4. t.frac \in Nat /\ t.frac < Pow10[p]
        BY <3>1, <3>3
      <3> QED
        BY <2>1, <3>2, <3>4, WholesAssumption
    <2>3. /\ n \in Nat
          /\ s = Signed(t.neg, n)
          /\ n * Pow10[t.places] = (t.whole * Pow10[t.places] + t.frac) * STROOPS
          /\ Places(n % STROOPS) <= t.places
      BY <2>2, Worth
    <2> HIDE DEF n, s
    <2>4. s \in Int /\ n = IF s < 0 THEN -s ELSE s
      BY <2>3 DEF Signed
    <2>5. FromStroops(s).places <= t.places
      BY <2>3, <2>4, Printed
    <2>6. s * Pow10[t.places]
              = Signed(t.neg, t.whole * Pow10[t.places] + t.frac) * STROOPS
      <3> DEFINE q == Pow10[t.places]
                 m == t.whole * Pow10[t.places] + t.frac
      <3>1. q \in Nat /\ m \in Nat /\ STROOPS \in Nat /\ n * q = m * STROOPS
        BY <2>2, <2>3, PowSplits, StroopsArePositive
      <3> HIDE DEF q, m
      <3>2. (-n) * q = (-m) * STROOPS
        <4>1. \A a, b \in Int : (-a) * b = -(a * b)
          OBVIOUS
        <4> QED
          BY <2>3, <3>1, <4>1
      <3>3. s * q = Signed(t.neg, m) * STROOPS
        BY <2>3, <3>1, <3>2 DEF Signed
      <3> QED
        BY <3>3 DEF q, m
    <2> QED
      BY <2>5, <2>6 DEF s
  <1> QED
    BY <1>1, <1>2, <1>3 DEF ConversionsAreExact

-----------------------------------------------------------------------------
(***************************************************************************)
(* What allocateByShares makes of sums.                                    *)
(***************************************************************************)
\* What is due of a total, in hundredths.
IsDue(due, total, shares, n) == \A i \in 1..n : due[i] = total * shares[i]

\* The sum of the multiples is the multiple of the sum.
LEMMA SumScales ==
    ASSUME NEW n \in Nat, NEW total \in Nat, NEW shares, NEW due, NEW u, NEW v,
           IsSum(u, due, n), IsSum(v, shares, n), IsDue(due, total, shares, n)
    PROVE  u[n] = total * v[n]
  <1> DEFINE S == {i \in Nat : i <= n => u[i] = total * v[i]}
  <1>1. 0 \in S
    BY DEF IsSum
  <1>2. ASSUME NEW i \in Nat, i \in S PROVE i + 1 \in S
    <2> SUFFICES ASSUME i + 1 <= n PROVE u[i + 1] = total * v[i + 1]
      OBVIOUS
    <2>1. /\ u[i + 1] = u[i] + due[i + 1] /\ v[i + 1] = v[i] + shares[i + 1]
          /\ v[i] \in Int /\ shares[i + 1] \in Int
      BY SumStep
    <2>2. u[i] = total * v[i] /\ due[i + 1] = total * shares[i + 1]
      BY <1>2 DEF IsDue
    <2>3. \A x, y, z \in Int : x * (y + z) = x * y + x * z
      OBVIOUS
    <2>4. total * (v[i] + shares[i + 1]) = total * v[i] + total * shares[i + 1]
      BY <2>1, <2>3
    <2> QED
      BY <2>1, <2>2, <2>4
  <1>3. n \in S
    <2> HIDE DEF S
    <2> QED
      BY <1>1, <1>2, SetInduction
  <1> QED
    BY <1>3

\* out is what is due, in hundredths, rounded down.
Rounded(out, due, n) == \A i \in 1..n : due[i] - 100 * out[i] \in 0..99

\* Up to any place, the parts lack less than a stroop each.
LEMMA RoundingLosesLittle ==
    ASSUME NEW n \in Nat, NEW due, NEW out, Rounded(out, due, n),
           NEW u, IsSum(u, out, n), NEW v, IsSum(v, due, n), NEW m \in 0..n
    PROVE  v[m] - 100 * u[m] \in 0..(99 * m)
  <1> DEFINE S == {i \in Nat : i <= n => v[i] - 100 * u[i] \in 0..(99 * i)}
  <1>1. 0 \in S
    BY DEF IsSum
  <1>2. ASSUME NEW i \in Nat, i \in S PROVE i + 1 \in S
    <2> SUFFICES ASSUME i + 1 <= n PROVE v[i + 1] - 100 * u[i + 1] \in 0..(99 * (i + 1))
      OBVIOUS
    <2>1. /\ u[i + 1] = u[i] + out[i + 1] /\ v[i + 1] = v[i] + due[i + 1]
          /\ u[i] \in Int /\ v[i] \in Int /\ out[i + 1] \in Int /\ due[i + 1] \in Int
      BY SumStep
    <2>2. v[i] - 100 * u[i] \in 0..(99 * i) /\ due[i + 1] - 100 * out[i + 1] \in 0..99
      BY <1>2 DEF Rounded
    <2> QED
      BY <2>1, <2>2
  <1>3. m \in S
    <2> HIDE DEF S
    <2> QED
      BY <1>1, <1>2, SetInduction
  <1> QED
    BY <1>3

\* parts is out, and the last one has what is left of the total on top.
RestPut(parts, out, n, total) == parts = [out EXCEPT ![n] = @ + (total - Sum(out))]

\* How far the parts are off what is due.
Fair(parts, due, n) ==
    /\ \A i \in 1..n : i < n => 100 * parts[i] - due[i] \in -99..0
    /\ 100 * parts[n] - due[n] \in 0..(99 * (n - 1))

\* Each part is rounded down from what is due, and the last one gets the rest.
LEMMA RestGoesLast ==
    ASSUME NEW total \in Nat, NEW n \in Nat \ {0}, NEW shares, NEW due, NEW out, NEW parts
    PROVE  /\ shares \in [1..n -> Int] /\ due \in [1..n -> Int] /\ out \in [1..n -> Int]
           /\ Sum(shares) = 100 /\ IsDue(due, total, shares, n)
           /\ Rounded(out, due, n) /\ RestPut(parts, out, n, total)
           => /\ parts \in [1..n -> Int] /\ Sum(parts) = total
              /\ Fair(parts, due, n)
  <1>0. SUFFICES ASSUME shares \in [1..n -> Int], due \in [1..n -> Int],
                        out \in [1..n -> Int], Sum(shares) = 100,
                        IsDue(due, total, shares, n),
                        Rounded(out, due, n), RestPut(parts, out, n, total)
                 PROVE  /\ parts \in [1..n -> Int] /\ Sum(parts) = total
                        /\ Fair(parts, due, n)
    OBVIOUS
  <1>1. n \in Nat /\ Rounded(out, due, n)
    BY <1>0
  <1>2. PICK s : IsSum(s, shares, n) /\ s[n] = 100
    <2>1. shares \in [1..n -> Int] /\ Sum(shares) = 100
      BY <1>0
    <2> QED
      BY <1>1, <2>1, SumUnfolds
  <1>3. PICK v : IsSum(v, due, n)
    <2>1. due \in [1..n -> Int]
      BY <1>0
    <2> QED
      BY <1>1, <2>1, SumUnfolds
  <1>4. v[n] = 100 * total
    <2>1. IsDue(due, total, shares, n)
      BY <1>0
    <2>2. v[n] = total * s[n]
      BY <1>1, <1>2, <1>3, <2>1, SumScales
    <2> QED
      BY <1>2, <2>2
  <1>5. PICK u : IsSum(u, out, n) /\ Sum(out) = u[n]
    <2>1. out \in [1..n -> Int]
      BY <1>0
    <2> QED
      BY <1>1, <2>1, SumUnfolds
  <1>6. PICK k \in Nat : n = k + 1 /\ k \in 0..n /\ n - 1 = k
    <2>1. n - 1 \in Nat /\ n = (n - 1) + 1 /\ n - 1 \in 0..n
      OBVIOUS
    <2> QED
      BY <2>1
  <1>7. k + 1 <= n
    BY <1>1, <1>6
  <1>8. /\ u[n] = u[k] + out[n] /\ u[k] \in Int /\ out[n] \in Int
        /\ v[n] = v[k] + due[n] /\ v[k] \in Int /\ due[n] \in Int
    <2>1. u[k + 1] = u[k] + out[k + 1] /\ u[k] \in Int /\ out[k + 1] \in Int
      BY <1>1, <1>5, <1>7, SumStep
    <2>2. v[k + 1] = v[k] + due[k + 1] /\ v[k] \in Int /\ due[k + 1] \in Int
      BY <1>1, <1>3, <1>7, SumStep
    <2> QED
      BY <1>6, <2>1, <2>2
  <1>9. /\ parts \in [1..n -> Int] /\ parts[n] = total - u[k]
        /\ \A i \in 1..n : i # n => parts[i] = out[i]
    <2>1. parts = [out EXCEPT ![n] = @ + (total - u[n])]
      BY <1>0, <1>5 DEF RestPut
    <2>2. PICK x \in Int : x = total - u[k]
      BY <1>8
    <2>3. out[n] + (total - u[n]) = x
      BY <1>8, <2>2
    <2>4. out \in [1..n -> Int] /\ n \in 1..n
      BY <1>0
    <2>5. parts = [out EXCEPT ![n] = x]
      BY <2>1, <2>3
    <2> QED
      BY <2>2, <2>4, <2>5
  <1>10. PICK w : IsSum(w, parts, n) /\ Sum(parts) = w[n]
    BY <1>1, <1>9, SumUnfolds
  <1>11. w[k] = u[k]
    <2>1. \A i \in 1..k : parts[i] = out[i]
      <3>1. \A i \in 1..k : i \in 1..n /\ i # n
        BY <1>6
      <3> QED
        BY <1>9, <3>1
    <2> QED
      BY <1>1, <1>5, <1>6, <1>10, <2>1, SumOfSame
  <1>12. Sum(parts) = total
    <2>1. w[k + 1] = w[k] + parts[k + 1]
      BY <1>1, <1>7, <1>10, SumStep
    <2> QED
      BY <1>6, <1>8, <1>9, <1>10, <1>11, <2>1
  <1>13. 100 * parts[n] - due[n] \in 0..(99 * k)
    <2>1. v[k] - 100 * u[k] \in 0..(99 * k)
      BY <1>1, <1>3, <1>5, <1>6, RoundingLosesLittle
    <2>2. v[k] + due[n] = 100 * total
      BY <1>4, <1>8
    <2>3. parts[n] = total - u[k]
      BY <1>9
    <2>4. 100 * parts[n] - due[n] = v[k] - 100 * u[k]
      BY <1>8, <2>2, <2>3
    <2> QED
      BY <2>1, <2>4
  <1>14. ASSUME NEW i \in 1..n, i < n PROVE 100 * parts[i] - due[i] \in -99..0
    <2>1. out[i] \in Int /\ due[i] \in Int
      BY <1>0
    <2>2. due[i] - 100 * out[i] \in 0..99
      BY <1>1 DEF Rounded
    <2>3. parts[i] = out[i]
      BY <1>9, <1>14
    <2> QED
      BY <2>1, <2>2, <2>3
  <1> QED
    BY <1>6, <1>9, <1>12, <1>13, <1>14 DEF Fair

\* allocateByShares, of any total and any list of percentages that make up 100:
\* the parts are the total, each is its share rounded down, and the last takes
\* less than a stroop per other part on top.
THEOREM Allocated ==
    ASSUME NEW total \in Nat, NEW shares \in Seq(Nat), Sum(shares) = 100
    PROVE  LET parts == AllocateByShares(total, shares) IN
           /\ Sum(parts) = total
           /\ \A i \in DOMAIN parts :
                  LET over == 100 * parts[i] - total * shares[i] IN
                  IF i < Len(parts) THEN over \in -99..0
                  ELSE over \in 0..(99 * (Len(parts) - 1))
  <1>1. PICK n \in Nat : /\ Len(shares) = n /\ shares \in [1..n -> Nat]
                         /\ shares \in [1..n -> Int] /\ DOMAIN shares = 1..n
    OBVIOUS
  <1>2. n \in Nat \ {0} /\ shares # <<>>
    <2>1. IsSum(SumUpTo(shares), shares, n) /\ SumUpTo(shares)[n] = 100
      BY <1>1, SumUnfolds
    <2>2. n # 0
      BY <2>1 DEF IsSum
    <2> QED
      BY <1>1, <2>2
  <1>3. PICK due : due = [i \in 1..n |-> total * shares[i]]
    OBVIOUS
  <1>4. \A i \in 1..n : due[i] \in Nat /\ due[i] = total * shares[i]
    BY <1>1, <1>3
  <1>5. due \in [1..n -> Int] /\ due \in [1..n -> Nat]
    BY <1>3, <1>4
  <1>6. PICK out : out = [i \in 1..n |-> due[i] \div 100]
    OBVIOUS
  <1>7. \A i \in 1..n : out[i] \in Int /\ due[i] - 100 * out[i] \in 0..99
    <2>1. \A x \in Nat : x \div 100 \in Int /\ x - 100 * (x \div 100) \in 0..99
      OBVIOUS
    <2>2. ASSUME NEW i \in 1..n PROVE out[i] \in Int /\ due[i] - 100 * out[i] \in 0..99
      <3>1. PICK x \in Nat : x = due[i]
        BY <1>4
      <3>2. out[i] = x \div 100
        BY <1>6, <3>1
      <3> QED
        BY <2>1, <3>1, <3>2
    <2> QED
      BY <2>2
  <1>8. out \in [1..n -> Int] /\ Rounded(out, due, n)
    BY <1>6, <1>7 DEF Rounded
  <1>9. PICK parts : RestPut(parts, out, n, total)
    BY DEF RestPut
  <1>10. AllocateByShares(total, shares) = parts
    <2>1. out = [i \in DOMAIN shares |-> (total * shares[i]) \div 100]
      BY <1>1, <1>3, <1>6
    <2> QED
      BY <1>1, <1>2, <1>9, <2>1 DEF AllocateByShares, RestPut
  <1>11. parts \in [1..n -> Int] /\ Sum(parts) = total /\ Fair(parts, due, n)
    <2>1. IsDue(due, total, shares, n)
      BY <1>4 DEF IsDue
    <2>2. shares \in [1..n -> Int] /\ due \in [1..n -> Int]
      BY <1>1, <1>5
    <2> QED
      BY <1>2, <1>8, <1>9, <2>1, <2>2, RestGoesLast
  <1>12. Len(parts) = n /\ DOMAIN parts = 1..n
    BY <1>11
  <1>13. PICK m \in Nat \ {0} : /\ m = Len(parts) /\ DOMAIN parts = 1..m
                               /\ Fair(parts, due, m)
                               /\ \A i \in 1..m : due[i] = total * shares[i]
    BY <1>2, <1>4, <1>11, <1>12
  <1>14. ASSUME NEW i \in 1..m
         PROVE  LET over == 100 * parts[i] - total * shares[i] IN
                IF i < m THEN over \in -99..0 ELSE over \in 0..(99 * (m - 1))
    <2>1. due[i] = total * shares[i]
      BY <1>13
    <2>2. CASE i < m
      BY <1>13, <2>1, <2>2 DEF Fair
    <2>3. CASE ~(i < m)
      <3>1. i = m
        BY <2>3
      <3>2. 100 * parts[i] - due[i] \in 0..(99 * (m - 1))
        BY <1>13, <3>1 DEF Fair
      <3> QED
        BY <2>1, <2>3, <3>2
    <2> QED
      BY <2>2, <2>3
  <1>15. \A i \in DOMAIN parts :
             LET over == 100 * parts[i] - total * shares[i] IN
             IF i < m THEN over \in -99..0 ELSE over \in 0..(99 * (m - 1))
    BY <1>13, <1>14, Zenon
  <1>16. Sum(parts) = total /\ m = Len(parts)
    BY <1>11, <1>13
  <1> QED
    BY <1>10, <1>15, <1>16

\* Whatever the totals, and whatever lists of percentages make up 100: the parts
\* make up the total (allocateByShares).
THEOREM SharesMakeUpTheTotal == SplitsAreComplete
  BY Allocated, SharesAssumption DEF SplitsAreComplete
=============================================================================
