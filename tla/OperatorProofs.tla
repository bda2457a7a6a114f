--------------------------- MODULE OperatorProofs ---------------------------
(***************************************************************************)
(* Proofs about what operators and jobs run beside the broker: the CI      *)
(* session, the Nix signer and batches, encrypted streams, and the sealed  *)
(* bundle with its maintenance commands.                                   *)
(***************************************************************************)
EXTENDS NixCache, CiSession, Streaming, Bundle, FiniteSetTheorems, SequenceTheorems,
        FunctionTheorems, NaturalsInduction, WellFoundedInduction, TLAPS

----------------------------------------------------------------------------
(* The CI session. *)

Names == {"directory", "control", "adapter"}
Times == Nat \cup {NoTime}
Phases == {"boot", "fetching", "binding", "printed", "serving", "ended"}

CiTypeOK ==
  /\ now \in Nat /\ until \in Nat /\ invoked \in Nat
  /\ phase \in Phases /\ served \in Times
  /\ refresh \in [next : Times, flying : Times]
  /\ made \subseteq Names

(* The one invocation is behind the claim. *)
OneClaim == (~used => invoked = 0) /\ invoked <= 1

(* A refresh that is owed is under way or set for a second in which the    *)
(* identity is still valid.                                                *)
RefreshOwed ==
  phase = "serving" =>
    /\ served # NoTime /\ served <= now
    /\ refresh.flying = NoTime /\ lastFetch \notin {"failed", "short"} /\ served < until =>
         refresh.next # NoTime /\ now <= refresh.next /\ refresh.next < until

CiInv ==
  /\ CiTypeOK /\ OneClaim /\ RefreshOwed
  /\ \A a \in answers : a.at < a.until
  /\ phase = "ended" /\ ~leaked => made = {}

(* The end of a session takes every name it made with it. *)
LEMMA AllDropped ==
  ASSUME made \subseteq Names
  PROVE  Dropped(made) = {}
  BY DEF Names, Dropped, SocketsDropped

LEMMA TwoMin ==
  ASSUME NEW a \in Int, NEW b \in Int
  PROVE  Min({a, b}) \in {a, b} /\ Min({a, b}) <= a /\ Min({a, b}) <= b
<1>1. \E x \in {a, b} : \A y \in {a, b} : x =< y
  BY SMT
<1>2. QED BY <1>1 DEF Min

LEMMA TwoMax ==
  ASSUME NEW a \in Int, NEW b \in Int
  PROVE  Max({a, b}) \in {a, b} /\ Max({a, b}) >= a /\ Max({a, b}) >= b
<1>1. \E x \in {a, b} : \A y \in {a, b} : x >= y
  BY SMT
<1>2. QED BY <1>1 DEF Max

(* An identity that is valid leaves time for a refresh that starts before  *)
(* it expires; one that is valid for two seconds more, also for a refresh  *)
(* in a later second.                                                      *)
LEMMA RefreshFits ==
  ASSUME NEW t \in Nat, NEW at \in Nat, t > at
  PROVE  /\ RefreshAt(t, at) \in Nat /\ at <= RefreshAt(t, at) /\ RefreshAt(t, at) < t
         /\ t >= at + 2 => at < RefreshAt(t, at) /\ RefreshAfterSuccess(t, at) = RefreshAt(t, at)
<1> DEFINE ahead == Clamp((t - at) \div 5, 1, 30)
<1>1. ahead \in 1 .. (t - at) /\ (t >= at + 2 => ahead <= t - at - 1)
  BY DEF Clamp
<1>2. RefreshAt(t, at) = Max({t - ahead, at})
  BY DEF RefreshAt
<1>3. RefreshAt(t, at) = t - ahead
  <2> HIDE DEF ahead
  <2>1. t - ahead \in Int /\ t - ahead >= at
    BY <1>1
  <2> DEFINE back == t - ahead
  <2> HIDE DEF back
  <2>2. back \in Int /\ at \in Int /\ back >= at
    BY <2>1 DEF back
  <2>3. RefreshAt(t, at) = Max({back, at})
    BY <1>2 DEF back
  <2>4. Max({back, at}) \in {back, at} /\ Max({back, at}) >= back
    BY <2>2, TwoMax, Zenon
  <2>5. RefreshAt(t, at) = back
    BY <2>2, <2>3, <2>4
  <2>6. QED BY <2>5 DEF back
<1>4. /\ RefreshAt(t, at) \in Nat /\ at <= RefreshAt(t, at) /\ RefreshAt(t, at) < t
      /\ t >= at + 2 => at < RefreshAt(t, at)
  <2> HIDE DEF ahead
  <2>1. QED BY <1>1, <1>3
<1>5. QED BY <1>4, CiAssumption DEF RefreshAfterSuccess

LEMMA RefreshTimes ==
  ASSUME NEW t \in Nat, NEW at \in Nat
  PROVE  RefreshAt(t, at) \in Times /\ RefreshAfterSuccess(t, at) \in Times
         /\ RetryRefresh(t, at) \in Times
<1>1. RefreshAt(t, at) \in Times
  <2> DEFINE back == t - Clamp((t - at) \div 5, 1, 30)
  <2>1. CASE at >= t
    BY <2>1 DEF RefreshAt, Times
  <2>2. CASE ~(at >= t)
    <3>1. back \in Int
      BY DEF Clamp
    <3>2. RefreshAt(t, at) = Max({back, at})
      BY <2>2 DEF RefreshAt
    <3> HIDE DEF back
    <3>3. at \in Int
      OBVIOUS
    <3>4. Max({back, at}) \in {back, at} /\ Max({back, at}) >= at
      BY <3>1, <3>3, TwoMax, Zenon
    <3>5. QED BY <3>1, <3>2, <3>4 DEF Times
  <2>3. QED BY <2>1, <2>2
<1>2. QED BY <1>1 DEF RefreshAfterSuccess, RetryRefresh, Times

LEMMA TokensAreTimes ==
  ASSUME now \in Nat
  PROVE  Tokens \subseteq Nat
<1>1. ASSUME NEW life \in Lifetimes PROVE ValidUntil(now, now + life) \in Nat
  <2> DEFINE exp == now + life
             old == now + MaxAge
  <2>1. exp \in Nat /\ old \in Nat /\ exp \in Int /\ old \in Int
    BY CiAssumption
  <2>2. ValidUntil(now, now + life) = Min({exp, old})
    BY DEF ValidUntil
  <2> HIDE DEF exp, old
  <2>3. Min({exp, old}) \in {exp, old}
    BY <2>1, TwoMin, Zenon
  <2>4. QED BY <2>1, <2>2, <2>3
<1>2. QED BY <1>1 DEF Tokens

(* What the actions that only touch connections leave alone. *)
LEMMA TaskSteps ==
  ASSUME CiInv, TaskStep, OneClaim', \A a \in answers' : a.at < a.until, invoked' \in Nat
  PROVE  CiInv'
  BY DEF CiInv, TaskStep, CiTypeOK, RefreshOwed

LEMMA EndSteps ==
  ASSUME CiInv, NEW reason, SessionEnds(reason), UNCHANGED <<now, served>>, until' \in Nat, Keep
  PROVE  CiInv'
<1>1. made' = {} /\ phase' = "ended"
  BY AllDropped DEF CiInv, CiTypeOK, SessionEnds
<1>2. CiTypeOK'
  BY <1>1 DEF CiInv, CiTypeOK, SessionEnds, Keep, Times, Phases
<1>3. QED BY <1>1, <1>2 DEF CiInv, OneClaim, RefreshOwed, Keep

LEMMA CiStep == CiInv /\ [CiNext]_ciVars => CiInv'
<1> SUFFICES ASSUME CiInv, [CiNext]_ciVars PROVE CiInv'
  OBVIOUS
<1> USE CiAssumption
<1>1. CASE Bootstrap
  <2>1. CASE SessionEnds("refused")
    BY <1>1, <2>1, EndSteps DEF Bootstrap, CiInv, CiTypeOK
  <2>2. CASE CreateDirectory
    BY <1>1, <2>2 DEF Bootstrap, CreateDirectory, CiInv, CiTypeOK, OneClaim, RefreshOwed, Keep, Names, Phases
  <2>3. QED BY <1>1, <2>1, <2>2 DEF Bootstrap
<1>2. CASE FirstToken
  <2>1. CASE SessionEnds("refused") /\ TokenFails
    BY <1>2, <2>1, EndSteps DEF FirstToken, TokenFails, CiInv, CiTypeOK
  <2>2. CASE /\ \E t \in Tokens : NewIdentity(t)
             /\ phase' = "binding" /\ UNCHANGED <<why, made, task, refresh>>
    <3>1. PICK t \in Tokens : NewIdentity(t)
      BY <2>2
    <3>2. t \in Nat /\ now \in Nat
      BY TokensAreTimes DEF CiInv, CiTypeOK
    <3>3. QED BY <1>2, <2>2, <3>1, <3>2 DEF FirstToken, NewIdentity, CiInv, CiTypeOK, OneClaim, RefreshOwed, Keep, Phases
  <2>3. QED BY <1>2, <2>1, <2>2 DEF FirstToken
<1>3. CASE Bind
  <2>1. CASE SessionEnds("refused")
    BY <1>3, <2>1, EndSteps DEF Bind, CiInv, CiTypeOK
  <2>2. CASE phase' \in {"binding", "printed"} /\ UNCHANGED <<why, task, refresh, leaked>>
    BY <1>3, <2>2 DEF Bind, SessionEnds, CiInv, CiTypeOK, OneClaim, RefreshOwed, Keep, Names, Phases
  <2>3. CASE leaked' = TRUE /\ phase' = "ended" /\ UNCHANGED <<task, refresh>>
    <3>1. Dropped(made) = {} /\ made \subseteq Names
      BY AllDropped DEF CiInv, CiTypeOK
    <3>2. made' \subseteq Names
      BY <1>3, <3>1 DEF Bind, SessionEnds, Names
    <3>3. UNCHANGED <<now, served, until, used, invoked, answers>>
      BY <1>3 DEF Bind, Keep
    <3>4. QED BY <2>3, <3>2, <3>3 DEF CiInv, CiTypeOK, OneClaim, RefreshOwed, Phases
  <2>4. QED BY <1>3, <2>1, <2>2, <2>3 DEF Bind
<1>4. CASE Commit
  <2>1. RefreshAt(until, now) \in Times
    BY RefreshTimes DEF CiInv, CiTypeOK
  <2>2. CiTypeOK'
    BY <1>4, <2>1 DEF Commit, CiInv, CiTypeOK, Keep, Phases, Times
  <2>3. RefreshOwed'
    BY <1>4, RefreshFits DEF Commit, CiInv, CiTypeOK, RefreshOwed, Keep
  <2>4. QED BY <1>4, <2>2, <2>3 DEF Commit, CiInv, OneClaim, Keep
<1>5. CASE Uncommitted \/ Signal \/ Expire \/ Shutdown \/ LoopFails
  BY <1>5, EndSteps DEF Uncommitted, Signal, Expire, Shutdown, LoopFails, Ends, CiInv, CiTypeOK
<1>6. CASE StartRefresh
  BY <1>6 DEF StartRefresh, RefreshDue, CiInv, CiTypeOK, OneClaim, RefreshOwed, Keep, Times
<1>7. CASE EndRefresh
  <2>1. ASSUME NEW t \in Tokens, NewIdentity(t), lastFetch' = (IF t - now <= 1 THEN "short" ELSE "ok"),
               refresh' = [next |-> RefreshAfterSuccess(t, now), flying |-> NoTime],
               UNCHANGED <<phase, why, made, task>>
        PROVE  CiInv'
    <3>1. t \in Nat /\ now \in Nat
      BY TokensAreTimes DEF CiInv, CiTypeOK
    <3>2. RefreshAfterSuccess(t, now) \in Times
      BY <3>1, RefreshTimes
    <3>3. CiTypeOK'
      BY <1>7, <2>1, <3>1, <3>2 DEF EndRefresh, NewIdentity, CiInv, CiTypeOK, Keep, Times
    <3>4. t > now /\ (t >= now + 2 \/ lastFetch' = "short")
      BY <2>1, <3>1 DEF NewIdentity, IdentityIsValid
    <3>5. RefreshOwed'
      BY <1>7, <2>1, <3>1, <3>4, RefreshFits DEF EndRefresh, NewIdentity, CiInv, RefreshOwed, Keep
    <3>6. QED BY <1>7, <2>1, <3>3, <3>5 DEF EndRefresh, CiInv, OneClaim, Keep
  <2>2. CASE /\ TokenFails
             /\ refresh' = [next |-> RetryRefresh(until, now), flying |-> NoTime]
             /\ UNCHANGED <<phase, why, made, task>>
    <3>1. RetryRefresh(until, now) \in Times
      BY RefreshTimes DEF CiInv, CiTypeOK
    <3>2. QED BY <1>7, <2>2, <3>1 DEF EndRefresh, TokenFails, CiInv, CiTypeOK, OneClaim, RefreshOwed, Keep, Times
  <2>3. CASE TokenFails /\ SessionEnds("expired")
    BY <1>7, <2>3, EndSteps DEF EndRefresh, TokenFails, CiInv, CiTypeOK
  <2>4. QED BY <1>7, <2>1, <2>2, <2>3 DEF EndRefresh
<1>8. CASE Tick
  <2>1. CiTypeOK'
    BY <1>8 DEF Tick, CiInv, CiTypeOK, Keep
  <2>2. RefreshOwed'
    BY <1>8 DEF Tick, CiInv, CiTypeOK, RefreshOwed, Keep, RefreshDue, Expired, Times
  <2>3. QED BY <1>8, <2>1, <2>2 DEF Tick, CiInv, OneClaim, Keep
<1>9. ASSUME NEW c \in Conns, \E kind \in {"control", "adapter"} : AcceptConn(c, kind)
       PROVE  CiInv'
  BY <1>9, TaskSteps DEF AcceptConn, Keep, CiInv, CiTypeOK, OneClaim
<1>10. ASSUME NEW c \in Conns, Control(c) PROVE CiInv'
  BY <1>10, TaskSteps DEF Control, CiInv, CiTypeOK, OneClaim
<1>11. ASSUME NEW c \in Conns, Request(c) PROVE CiInv'
  BY <1>11, TaskSteps DEF Request, Claimable, Qualify, CiInv, CiTypeOK, OneClaim
<1>12. ASSUME NEW c \in Conns, Invoked(c) PROVE CiInv'
  <2>1. \A a \in answers' : a.at < a.until
    BY <1>12 DEF Invoked, Outcome, IdentityIsValid, CiInv
  <2>2. QED BY <1>12, <2>1, TaskSteps DEF Invoked, CiInv, CiTypeOK, OneClaim
<1>13. ASSUME NEW c \in Conns, HangUp(c) PROVE CiInv'
  BY <1>13, TaskSteps DEF HangUp, Keep, CiInv, CiTypeOK, OneClaim
<1>14. CASE UNCHANGED ciVars
  BY <1>14 DEF ciVars, CiInv, CiTypeOK, OneClaim, RefreshOwed
<1>15. QED
  BY <1>1, <1>2, <1>3, <1>4, <1>5, <1>6, <1>7, <1>8, <1>9, <1>10, <1>11, <1>12, <1>13, <1>14
     DEF CiNext

(* Evidence is given out under a valid identity and for one invocation, no *)
(* refresh is forgotten, and a session that ends leaves nothing behind,    *)
(* for any number of connections, any lifetimes and any age the rule sets  *)
(* (ci_session.rs run_session).                                            *)
THEOREM SessionSoundHolds == CiSpec => []SessionSound
<1>1. CiInit => CiInv
  BY DEF CiInit, CiInv, CiTypeOK, OneClaim, RefreshOwed, Times, Phases
<1>2. CiInv => SessionSound
  <2> SUFFICES ASSUME CiInv PROVE SessionSound
    OBVIOUS
  <2>1. EvidenceTimely /\ NothingLeft
    BY DEF CiInv, OneClaim, EvidenceTimely, NothingLeft
  <2>2. ExpiryExplained
    BY CiAssumption DEF CiInv, CiTypeOK, RefreshOwed, ExpiryExplained, Times
  <2>3. QED BY <2>1, <2>2 DEF SessionSound
<1>3. QED BY <1>1, <1>2, CiStep, PTL DEF CiSpec

----------------------------------------------------------------------------
(* The elements at some positions of a sequence. *)

LEMMA Ranks ==
  ASSUME NEW K, NEW N \in Nat, K \subseteq 1..N
  PROVE  /\ IsFiniteSet(K) /\ Cardinality(K) \in 0..N
         /\ \A k \in K : Rank(K, k) \in 1..Cardinality(K)
         /\ \A k, l \in K : Rank(K, k) = Rank(K, l) => k = l
         /\ \A n \in 1..Cardinality(K) : \E k \in K : Rank(K, k) = n
<1> DEFINE C == Cardinality(K)
           Upto(k) == {j \in K : j <= k}
<1>1. IsFiniteSet(K) /\ C \in Nat /\ C <= N
  <2>1. IsFiniteSet(1..N) /\ Cardinality(1..N) = N
    BY FS_Interval
  <2>2. QED BY <2>1, FS_Subset, FS_CardinalityType
<1>2. \A k \in K : Rank(K, k) \in 1..C
  <2> TAKE k \in K
  <2>1. Upto(k) \subseteq K /\ k \in Upto(k) /\ Upto(k) # {}
    OBVIOUS
  <2>2. IsFiniteSet(Upto(k)) /\ Cardinality(Upto(k)) <= C /\ Cardinality(Upto(k)) \in Nat
    BY <1>1, <2>1, FS_Subset, FS_CardinalityType
  <2>3. Cardinality(Upto(k)) # 0
    BY <2>1, <2>2, FS_EmptySet
  <2> HIDE DEF C
  <2>4. QED BY <1>1, <2>2, <2>3 DEF Rank
<1>3. \A k, l \in K : Rank(K, k) = Rank(K, l) => k = l
  <2>1. ASSUME NEW k \in K, NEW l \in K, k < l PROVE Rank(K, k) # Rank(K, l)
    <3>1. k \in Nat /\ l \in Nat /\ \A m \in K : m \in Nat
      OBVIOUS
    <3>2. Upto(k) \subseteq Upto(l) /\ l \in Upto(l) /\ l \notin Upto(k)
      <4>1. \A m \in K : m <= k => m <= l
        BY <2>1, <3>1
      <4>2. l <= l /\ ~(l <= k)
        BY <2>1, <3>1
      <4>3. QED BY <4>1, <4>2, Zenon
    <3>3. IsFiniteSet(Upto(l))
      BY <1>1, FS_Subset
    <3>4. QED BY <3>2, <3>3, FS_Subset DEF Rank
  <2>2. QED BY <2>1
<1>4. \A n \in 1..C : \E k \in K : Rank(K, k) = n
  <2> DEFINE f == [k \in K |-> Rank(K, k)]
  <2>1. f \in Injection(K, 1..C)
    BY <1>2, <1>3 DEF Injection, IsInjective
  <2>2. IsFiniteSet(1..C) /\ Cardinality(1..C) = C
    BY <1>1, FS_Interval
  <2>3. f \in Surjection(K, 1..C)
    BY <1>1, <2>1, <2>2, FS_Injection
  <2>4. QED BY <2>3 DEF Surjection
<1>5. QED BY <1>1, <1>2, <1>3, <1>4

(* They are a sequence of the elements at these positions, of all and only *)
(* them.                                                                   *)
LEMMA Positioned ==
  ASSUME NEW S, NEW q \in Seq(S), NEW K, K \subseteq DOMAIN q
  PROVE  /\ AtPositions(q, K) \in Seq(S) /\ Len(AtPositions(q, K)) = Cardinality(K)
         /\ Cardinality(K) \in 0..Len(q)
         /\ \A k \in K : /\ Rank(K, k) \in 1..Cardinality(K)
                         /\ AtPositions(q, K)[Rank(K, k)] = q[k]
         /\ \A n \in 1..Cardinality(K) : \E k \in K : AtPositions(q, K)[n] = q[k]
<1> DEFINE C == Cardinality(K)
           Of(n) == CHOOSE i \in K : Rank(K, i) = n
           p == AtPositions(q, K)
<1>1. Len(q) \in Nat /\ DOMAIN q = 1..Len(q) /\ \A i \in 1..Len(q) : q[i] \in S
  OBVIOUS
<1>2. /\ C \in 0..Len(q)
      /\ \A k \in K : Rank(K, k) \in 1..C
      /\ \A k, l \in K : Rank(K, k) = Rank(K, l) => k = l
      /\ \A n \in 1..C : \E k \in K : Rank(K, k) = n
  BY <1>1, Ranks
<1>3. \A n \in 1..C : Of(n) \in K /\ Rank(K, Of(n)) = n
  BY <1>2
<1>4. p = [n \in 1..C |-> q[Of(n)]]
  BY DEF AtPositions
<1> HIDE DEF C, Of, p
<1>5. p \in [1..C -> S]
  BY <1>1, <1>3, <1>4
<1>6. p \in Seq(S) /\ Len(p) = C
  <2>1. C \in Nat
    BY <1>1, <1>2
  <2>2. p \in Seq(S)
    BY <1>5, <2>1, SeqDef
  <2>3. QED BY <1>5, <2>1, <2>2, LenProperties
<1>7. \A k \in K : Rank(K, k) \in 1..C /\ p[Rank(K, k)] = q[k]
  BY <1>2, <1>3, <1>4
<1>8. \A n \in 1..C : \E k \in K : p[n] = q[k]
  BY <1>3, <1>4
<1>9. QED BY <1>2, <1>6, <1>7, <1>8 DEF C, p

----------------------------------------------------------------------------
(* Edits of a record's signatures. *)

LEMMA Filtered ==
  ASSUME NEW sigs \in Seq(Signatures), NEW names
  PROVE  /\ FilterSignatures(sigs, names) \in Seq(Signatures)
         /\ Len(FilterSignatures(sigs, names)) <= Len(sigs)
         /\ \A s \in Range(sigs) : s.name \notin names => s \in Range(FilterSignatures(sigs, names))
<1> DEFINE K == {i \in DOMAIN sigs : sigs[i].name \notin names}
           p == AtPositions(sigs, K)
<1>1. FilterSignatures(sigs, names) = p
  BY DEF FilterSignatures
<1>2. K \subseteq DOMAIN sigs
  OBVIOUS
<1>3. /\ p \in Seq(Signatures) /\ Len(p) = Cardinality(K) /\ Cardinality(K) \in 0..Len(sigs)
      /\ \A k \in K : Rank(K, k) \in 1..Cardinality(K) /\ p[Rank(K, k)] = sigs[k]
  <2> HIDE DEF K
  <2>1. QED BY <1>2, Positioned
<1>4. \A s \in Range(sigs) : s.name \notin names => \E k \in K : s = sigs[k]
  BY DEF Range
<1> HIDE DEF K, p
<1>5. \A k \in K : sigs[k] \in Range(p)
  BY <1>3 DEF Range
<1>6. QED BY <1>1, <1>3, <1>4, <1>5

LEMMA Added ==
  ASSUME NEW sigs \in Seq(Signatures), NEW sig \in Signatures, Len(sigs) <= MaxSigs,
         AddSignature(sigs, sig).ok
  PROVE  \E q \in Seq(Signatures) :
           /\ AddSignature(sigs, sig).sigs = q /\ Len(q) <= MaxSigs
           /\ sig \in Range(q) /\ Range(sigs) \subseteq Range(q)
<1>1. CASE sig \in Range(sigs)
  BY <1>1 DEF AddSignature
<1>2. CASE sig \notin Range(sigs)
  <2> DEFINE q == Append(sigs, sig)
  <2>1. Len(sigs) < MaxSigs /\ AddSignature(sigs, sig).sigs = q
    BY <1>2 DEF AddSignature
  <2>2. /\ q \in Seq(Signatures) /\ Len(q) = Len(sigs) + 1 /\ q[Len(sigs) + 1] = sig
        /\ \A i \in 1..Len(sigs) : q[i] = sigs[i]
    OBVIOUS
  <2>3. sig \in Range(q) /\ Range(sigs) \subseteq Range(q)
    BY <2>2 DEF Range
  <2>4. Len(q) <= MaxSigs
    BY <2>1, <2>2, NixAssumption
  <2>5. QED BY <2>1, <2>2, <2>3, <2>4
<1>3. QED BY <1>1, <1>2

(* An edit that succeeds keeps the signatures of other names, and has the  *)
(* new one unless it removes.                                              *)
LEMMA Edited ==
  ASSUME NEW op \in {"sign", "replace", "remove"}, NEW names, NEW sigs \in Seq(Signatures),
         Len(sigs) <= MaxSigs, NEW sig, op # "remove" => sig \in Signatures,
         EditNarinfo(op, sigs, names, sig).ok
  PROVE  LET q == EditNarinfo(op, sigs, names, sig).sigs IN
           /\ q \in Seq(Signatures) /\ Len(q) <= MaxSigs
           /\ op # "remove" => sig \in Range(q)
           /\ \A s \in Range(sigs) : s.name \notin names => s \in Range(q)
<1> DEFINE left == FilterSignatures(sigs, names)
<1>1. /\ left \in Seq(Signatures) /\ Len(left) <= Len(sigs) /\ Len(left) \in Nat /\ Len(sigs) \in Nat
      /\ \A s \in Range(sigs) : s.name \notin names => s \in Range(left)
  BY Filtered
<1>2. Len(left) <= MaxSigs
  BY <1>1, NixAssumption
<1> HIDE DEF left
<1>3. CASE op = "remove"
  BY <1>1, <1>2, <1>3 DEF EditNarinfo, left
<1>4. CASE op = "replace"
  <2>1. EditNarinfo(op, sigs, names, sig) = AddSignature(left, sig) /\ sig \in Signatures
    BY <1>4 DEF EditNarinfo, left
  <2>2. PICK q \in Seq(Signatures) :
           /\ AddSignature(left, sig).sigs = q /\ Len(q) <= MaxSigs
           /\ sig \in Range(q) /\ Range(left) \subseteq Range(q)
    BY <1>1, <1>2, <2>1, Added
  <2>3. QED BY <1>1, <2>1, <2>2
<1>5. CASE op = "sign"
  <2>1. EditNarinfo(op, sigs, names, sig) = AddSignature(sigs, sig) /\ sig \in Signatures
    BY <1>5 DEF EditNarinfo
  <2>2. PICK q \in Seq(Signatures) :
           /\ AddSignature(sigs, sig).sigs = q /\ Len(q) <= MaxSigs
           /\ sig \in Range(q) /\ Range(sigs) \subseteq Range(q)
    BY <2>1, Added
  <2>3. QED BY <2>1, <2>2
<1>6. QED BY <1>3, <1>4, <1>5

----------------------------------------------------------------------------
(* The Nix signer. *)

IdentOK == ident \in [state : {"pending", "enrolled"}, name : KeyNames, pub : Nat]
ClientPcs == {"idle", "read", "describe", "pinning", "check", "sign", "closed"}

(* A connection that will pin or has been let through holds an identity,   *)
(* and what is answered, or about to be, is under the pinned one.          *)
SignerInv ==
  /\ IdentOK
  /\ DOMAIN client = Clients
  /\ \A c \in Clients :
       /\ DOMAIN client[c] = {"pc", "kind", "names", "got"}
       /\ client[c].pc = "pinning" => client[c].got \in Identities
       /\ client[c].pc = "sign" => pin # NoSnap /\ client[c].got = pin
  /\ \A a \in answered : pin # NoSnap /\ a.key = pin

LEMMA SignerInit == NixInit => SignerInv
<1> SUFFICES ASSUME NixInit PROVE SignerInv
  OBVIOUS
<1>1. IdentOK
  BY NixAssumption DEF NixInit, IdentOK
<1>2. pin = NoSnap /\ client = [c \in Clients |-> IdleClient] /\ answered = {}
  BY DEF NixInit, NewProvider
<1>3. QED BY <1>1, <1>2 DEF SignerInv, IdleClient

LEMMA SignerStep == SignerInv /\ [NixNext]_nixVars => SignerInv'
<1> SUFFICES ASSUME SignerInv, [NixNext]_nixVars PROVE SignerInv'
  OBVIOUS
<1> USE NixAssumption
<1>1. CASE UNCHANGED <<ident, signerVars>>
  BY <1>1 DEF SignerInv, IdentOK, signerVars
<1>2. CASE Enroll
  BY <1>2 DEF Enroll, SignerInv, IdentOK, signerVars
<1>3. CASE Reidentify
  BY <1>3 DEF Reidentify, SignerInv, IdentOK, signerVars
<1>4. ASSUME NEW c \in Clients, Closes(c), UNCHANGED <<pin, answered, ident>> PROVE SignerInv'
  BY <1>4 DEF Closes, IdleClient, SignerInv, IdentOK
<1>5. ASSUME NEW c \in Clients, AcceptClient(c) PROVE SignerInv'
  <2>1. CASE Closes(c)
    BY <1>4, <1>5, <2>1 DEF AcceptClient
  <2>2. CASE ~Closes(c)
    BY <1>5, <2>2 DEF AcceptClient, On, SignerInv, IdentOK
  <2>3. QED BY <2>1, <2>2
<1>6. ASSUME NEW c \in Clients, ReadRequest(c) PROVE SignerInv'
  <2>1. CASE Closes(c)
    BY <1>4, <1>6, <2>1 DEF ReadRequest
  <2>2. CASE ~Closes(c)
    BY <1>6, <2>2 DEF ReadRequest, On, SignerInv, IdentOK
  <2>3. QED BY <2>1, <2>2
<1>7. ASSUME NEW c \in Clients, DescribeCall(c) PROVE SignerInv'
  <2>1. CASE Closes(c)
    BY <1>4, <1>7, <2>1 DEF DescribeCall
  <2>2. CASE ~Closes(c)
    BY <1>7, <2>2 DEF DescribeCall, On, SignerInv, IdentOK, Identities
  <2>3. QED BY <2>1, <2>2
<1>8. ASSUME NEW c \in Clients, PinIdentity(c) PROVE SignerInv'
  <2>1. client[c].got \in Identities /\ client[c].got # NoSnap
    BY <1>8 DEF PinIdentity, On, SignerInv
  <2>2. CASE pin = NoSnap
    BY <1>8, <2>1, <2>2 DEF PinIdentity, Pinned, Answer, Closes, IdleClient, SignerInv, IdentOK
  <2>3. CASE pin # NoSnap
    BY <1>8, <2>1, <2>3 DEF PinIdentity, Pinned, Answer, Closes, IdleClient, SignerInv, IdentOK
  <2>4. QED BY <2>2, <2>3
<1>9. ASSUME NEW c \in Clients, SignCheck(c) PROVE SignerInv'
  <2>1. CASE Closes(c)
    BY <1>4, <1>9, <2>1 DEF SignCheck
  <2>2. CASE ~Closes(c)
    BY <1>9, <2>2 DEF SignCheck, On, SignerInv, IdentOK
  <2>3. QED BY <2>1, <2>2
<1>10. ASSUME NEW c \in Clients, SignCall(c) PROVE SignerInv'
  BY <1>10 DEF SignCall, On, Answer, Closes, IdleClient, SignerInv, IdentOK
<1>11. ASSUME NEW c \in Clients, Deadline(c) PROVE SignerInv'
  BY <1>4, <1>11, SMTT(30) DEF Deadline
<1>12. ASSUME NEW b \in Batches, BatchStep(b) PROVE UNCHANGED <<ident, signerVars>>
  BY <1>12 DEF BatchStep, Begin, Cancel, Connect, Describe, TryLock, LockTimeout, RootRefused, Select,
     Preview, ReadRecord, SignRecord, Edit, Compare, Rename, SyncDir, Finish, Kill
<1>13. ASSUME NEW f, NEW content, NEW sigs, Publish(f, content, sigs)
       PROVE  UNCHANGED <<ident, signerVars>>
  BY <1>13 DEF Publish
<1>14. CASE UNCHANGED nixVars
  BY <1>1, <1>14 DEF nixVars, signerVars
<1>15. QED
  BY <1>1, <1>2, <1>3, <1>5, <1>6, <1>7, <1>8, <1>9, <1>10, <1>11, <1>12, <1>13, <1>14
     DEF NixNext, ClientStep

(* For any number of connections, and however often the broker's identity  *)
(* changes, the signer answers under one identity (nix_provider.rs).       *)
THEOREM OneIdentityHolds == NixSpec => []OneIdentity
<1>1. SignerInv => OneIdentity
  BY DEF SignerInv, OneIdentity
<1>2. QED BY <1>1, SignerInit, SignerStep, PTL DEF NixSpec

----------------------------------------------------------------------------
(* The batches over a Nix cache. *)

Records == [content : Nat, sigs : Seq(Signatures), ino : Nat]
CountFields == {"selected", "durable", "unchanged", "preview", "produced", "reused", "installed"}
BatchPcs == {"idle", "connect", "describe", "lock", "select", "target", "sign", "edit", "compare",
             "rename", "sync", "ended", "killed"}
(* Once it has selected, a batch works through its records. *)
Working == {"target", "sign", "edit", "compare", "rename", "sync"}
(* A record is being signed or edited. *)
Editing == {"sign", "edit", "compare", "rename", "sync"}

BatchTypeOK(w) ==
  /\ w \in [pc : BatchPcs, cmd : Commands \cup {NoSnap}, id : Identities \cup {NoSnap},
            todo : SUBSET Files, snap : Records \cup {NoSnap}, sig : Signatures \cup {NoSnap},
            edit : Seq(Signatures),
            counts : [selected : Nat, durable : Nat, unchanged : Nat, preview : Nat,
                      produced : Nat, reused : Nat, installed : Nat],
            end : {"none", "cancelled", "failed", "completed"}, synced : Nat, renames : Nat,
            late : BOOLEAN]
  /\ w.pc # "idle" => w.cmd \in Commands

(* What a batch knows of the record it is at. *)
BatchKnows(w) ==
  /\ w.pc \in Editing => ~w.cmd.dry /\ w.todo # {}
  /\ w.pc \in {"lock", "select"} \cup Working /\ w.cmd.op # "remove" => w.id \in Identities
  /\ w.pc = "lock" => ~w.cmd.dry
  /\ w.pc \in {"sign", "edit", "compare", "rename"} =>
       w.snap \in Records /\ Len(w.snap.sigs) <= MaxSigs
  /\ w.pc \in {"edit", "compare", "rename"} /\ w.cmd.op # "remove" =>
       w.sig \in Signatures /\ w.sig.over = w.snap.content
  /\ w.pc \in {"compare", "rename"} =>
       /\ Len(w.edit) <= MaxSigs
       /\ w.cmd.op # "remove" => w.sig \in Range(w.edit)
       /\ \A s \in Range(w.snap.sigs) : s.name \notin w.cmd.names => s \in Range(w.edit)

(* What a batch has counted. *)
BatchCounts(w) ==
  /\ w.counts.durable = w.synced
  /\ w.counts.installed <= w.counts.produced + w.counts.reused
  /\ w.pc \in {"edit", "compare", "rename", "sync"} /\ w.cmd.op # "remove" =>
       w.counts.installed + 1 <= w.counts.produced + w.counts.reused
  /\ w.pc \in Working =>
       w.counts.selected =
         Cardinality(w.todo) + w.counts.durable + w.counts.unchanged + w.counts.preview
  /\ w.pc \in Working => w.renames = w.counts.durable + (IF w.pc = "sync" THEN 1 ELSE 0)
  /\ w.pc \in {"idle", "connect", "describe", "lock", "select"} =>
       w.renames = 0 /\ w.counts = NoCounts
  /\ w.pc \notin {"ended"} => w.end = "none"
  /\ w.pc # "idle" /\ w.cmd.dry => w.renames = 0
  /\ w.end = "completed" =>
       /\ w.counts.selected = w.counts.durable + w.counts.unchanged + w.counts.preview
       /\ w.renames = w.counts.durable

BatchOK(w) == BatchTypeOK(w) /\ BatchKnows(w) /\ BatchCounts(w)

(* A batch that may write holds the cache lock. *)
Holding(w) == w.pc \in {"select"} \cup Working /\ ~w.cmd.dry

FilesOK ==
  /\ inodes \in Nat
  /\ DOMAIN files = Files
  /\ \A f \in Files : files[f] \in Records /\ files[f].ino <= inodes /\ Len(files[f].sigs) <= MaxSigs
KeptOK ==
  \A k \in kept : /\ k.file \in Files
                  /\ k.sig \in Range(files[k.file].sigs) /\ k.sig.over = files[k.file].content
(* What was kept when a batch compared its record is in its snapshot. *)
RenameReady(b) ==
  At(b, "rename") =>
    /\ ~batch[b].late => files[Target(b)] = batch[b].snap
    /\ \A k \in kept : k.file = Target(b) =>
         k.sig \in Range(batch[b].snap.sigs) /\ k.sig.over = batch[b].snap.content

NixInv ==
  /\ IdentOK /\ FilesOK /\ KeptOK
  /\ DOMAIN batch = Batches
  /\ \A b \in Batches : BatchOK(batch[b]) /\ RenameReady(b)
  /\ \A b \in Batches : Holding(batch[b]) => lock = {b}

LEMMA NixInitOK == NixInit => NixInv
<1> SUFFICES ASSUME NixInit PROVE NixInv
  OBVIOUS
<1>1. PICK n \in {0, 1} : files = [f \in Files |-> [content |-> n, sigs |-> <<>>, ino |-> n]]
  BY DEF NixInit
<1>2. inodes = 1 /\ kept = {} /\ lock = {} /\ batch = [b \in Batches |-> IdleBatch]
  BY DEF NixInit
<1>3. FilesOK
  BY <1>1, <1>2, NixAssumption DEF FilesOK, Records
<1>4. BatchOK(IdleBatch)
  <2>1. BatchTypeOK(IdleBatch)
    BY DEF BatchTypeOK, IdleBatch, NoCounts, BatchPcs
  <2>2. BatchKnows(IdleBatch)
    BY DEF BatchKnows, IdleBatch, Working, Editing
  <2>3. BatchCounts(IdleBatch)
    BY DEF BatchCounts, IdleBatch, NoCounts, Working
  <2>4. QED BY <2>1, <2>2, <2>3 DEF BatchOK
<1>5. IdleBatch.pc = "idle"
  BY DEF IdleBatch
<1>6. IdentOK
  BY NixAssumption DEF NixInit, IdentOK
<1>7. QED BY <1>2, <1>3, <1>4, <1>5, <1>6 DEF NixInv, KeptOK, RenameReady, At, Holding, Working

(* A batch's next record is one of those it has left. *)
LEMMA TargetLeft ==
  ASSUME NEW T, T \subseteq Files, T # {}
  PROVE  (CHOOSE f \in T : \A g \in T : f <= g) \in T
<1>1. PICK f \in T : \A g \in T : ~(<<g, f>> \in OpToRel(<, Nat))
  BY NixAssumption, NatLessThanWellFounded, WFMin
<1>2. \A g \in T : f <= g
  <2> TAKE g \in T
  <2>1. f \in Nat /\ g \in Nat
    BY NixAssumption
  <2>2. ~(g < f)
    BY <1>1, <2>1 DEF OpToRel
  <2>3. QED BY <2>1, <2>2
<1>3. QED BY <1>2

LEMMA TargetFile ==
  ASSUME NixInv, NEW b \in Batches, batch[b].todo # {}
  PROVE  Target(b) \in batch[b].todo /\ Target(b) \in Files
<1>1. batch[b].todo \subseteq Files
  BY DEF NixInv, BatchOK, BatchTypeOK
<1>2. QED BY <1>1, TargetLeft DEF Target

(* A step that moves one batch and writes no record. *)
LEMMA OneMoves ==
  ASSUME NixInv, NEW b \in Batches, NEW w,
         batch' = [batch EXCEPT ![b] = w], BatchOK(w),
         w.pc = "rename" => At(b, "compare") /\ files[Target(b)] = w.snap /\ w.todo = batch[b].todo,
         lock' = lock \ {b} \/ lock' = lock \/ (lock = {} /\ lock' = {b}),
         Holding(w) => lock' = {b},
         UNCHANGED <<files, inodes, kept, ident>>
  PROVE  NixInv'
<1>1. DOMAIN batch' = Batches /\ batch'[b] = w /\ \A a \in Batches \ {b} : batch'[a] = batch[a]
  BY DEF NixInv
<1>2. IdentOK' /\ FilesOK' /\ KeptOK'
  BY DEF NixInv, IdentOK, FilesOK, KeptOK
<1>3. ASSUME NEW a \in Batches PROVE BatchOK(batch'[a])
  BY <1>1 DEF NixInv
<1>4. ASSUME NEW a \in Batches PROVE RenameReady(a)'
  <2>1. CASE a # b
    BY <1>1, <2>1 DEF NixInv, RenameReady, At, Target
  <2>2. CASE a = b /\ w.pc = "rename"
    <3>1. batch[b].todo # {}
      BY <2>2 DEF NixInv, BatchOK, BatchKnows, At, Editing
    <3>2. Target(b)' = Target(b) /\ Target(b) \in Files
      BY <1>1, <2>2, <3>1, TargetFile DEF Target
    <3>3. QED BY <1>1, <2>2, <3>2 DEF NixInv, RenameReady, KeptOK
  <2>3. CASE a = b /\ w.pc # "rename"
    BY <1>1, <2>3 DEF RenameReady, At
  <2>4. QED BY <2>1, <2>2, <2>3
<1>5. ASSUME NEW a \in Batches, Holding(batch'[a]) PROVE lock' = {a}
  <2>1. CASE a = b
    BY <1>1, <1>5, <2>1
  <2>2. CASE a # b
    <3>1. lock = {a}
      BY <1>1, <1>5, <2>2 DEF NixInv
    <3>2. QED BY <2>2, <3>1
  <2>3. QED BY <2>1, <2>2
<1>6. QED BY <1>1, <1>2, <1>3, <1>4, <1>5 DEF NixInv

LEMMA Commanded ==
  ASSUME NixInv, NEW b \in Batches, batch[b].pc # "idle"
  PROVE  /\ Cmd(b) \in Commands /\ Cmd(b).op \in {"sign", "replace", "remove"}
         /\ Cmd(b).dry \in BOOLEAN /\ Cmd(b).paths \subseteq Files
  BY NixAssumption DEF NixInv, BatchOK, BatchTypeOK, Cmd, CommandOK

(* A batch that ends before its records are done, or whose process dies. *)
LEMMA EndMoves ==
  ASSUME NixInv, NEW b \in Batches, NEW how \in {"cancelled", "failed"}, EndsAs(b, how),
         batch[b].pc \notin {"idle", "ended"}, UNCHANGED <<files, inodes, kept, ident>>
  PROVE  NixInv'
<1> DEFINE w == [batch[b] EXCEPT !.pc = "ended", !.end = how]
<1>1. BatchOK(batch[b])
  BY DEF NixInv
<1>2. batch' = [batch EXCEPT ![b] = w]
  BY <1>1, ZenonT(40) DEF EndsAs, BatchEnds, NixInv, BatchOK, BatchTypeOK
<1>3. BatchTypeOK(w)
  BY <1>1 DEF BatchOK, BatchTypeOK, BatchPcs
<1>4. w.pc = "ended" /\ w.end = how /\ w.counts = batch[b].counts /\ w.synced = batch[b].synced
      /\ w.cmd = batch[b].cmd /\ w.renames = batch[b].renames
  BY <1>1 DEF BatchOK, BatchTypeOK
<1> HIDE DEF w
<1>5. BatchKnows(w)
  BY <1>4 DEF BatchKnows, Working, Editing
<1>6. BatchCounts(w)
  BY <1>1, <1>4 DEF BatchOK, BatchCounts, Working
<1>7. ~Holding(w)
  BY <1>4 DEF Holding, Working
<1>8. lock' = lock \ {b}
  BY DEF EndsAs, BatchEnds
<1>9. QED BY <1>2, <1>3, <1>4, <1>5, <1>6, <1>7, <1>8, OneMoves DEF BatchOK

LEMMA KillMoves ==
  ASSUME NixInv, NEW b \in Batches, Kill(b)
  PROVE  NixInv'
<1> DEFINE w == [batch[b] EXCEPT !.pc = "killed"]
<1>1. BatchOK(batch[b])
  BY DEF NixInv
<1>2. batch' = [batch EXCEPT ![b] = w]
  BY DEF Kill, NixInv
<1>3. BatchTypeOK(w)
  BY <1>1 DEF Kill, BatchOK, BatchTypeOK, BatchPcs
<1>4. w.pc = "killed" /\ w.end = batch[b].end /\ w.counts = batch[b].counts
      /\ w.synced = batch[b].synced /\ w.cmd = batch[b].cmd /\ w.renames = batch[b].renames
  BY <1>1 DEF BatchOK, BatchTypeOK
<1> HIDE DEF w
<1>5. BatchKnows(w)
  BY <1>4 DEF BatchKnows, Working, Editing
<1>6. BatchCounts(w)
  BY <1>1, <1>4 DEF Kill, BatchOK, BatchCounts, Working
<1>7. ~Holding(w)
  BY <1>4 DEF Holding, Working
<1>8. QED BY <1>2, <1>3, <1>4, <1>5, <1>6, <1>7, OneMoves DEF BatchOK, Kill

(* The steps before a batch selects: it has counted nothing yet. *)
LEMMA EarlyMoves ==
  ASSUME NixInv, NEW b \in Batches, NEW w, batch' = [batch EXCEPT ![b] = w],
         BatchTypeOK(w), w.pc \in {"connect", "describe", "lock", "select"}, w.end = "none",
         w.renames = 0, w.counts = NoCounts, w.synced = 0,
         w.pc \in {"lock", "select"} /\ w.cmd.op # "remove" => w.id \in Identities,
         w.pc = "lock" => ~w.cmd.dry,
         lock' = lock \/ (lock = {} /\ lock' = {b}),
         Holding(w) => lock' = {b},
         UNCHANGED <<files, inodes, kept, ident>>
  PROVE  NixInv'
<1>1. BatchKnows(w)
  BY DEF BatchKnows, Working, Editing
<1>2. BatchCounts(w)
  BY DEF BatchCounts, Working, NoCounts
<1>3. QED BY <1>1, <1>2, OneMoves DEF BatchOK

LEMMA EarlyFacts ==
  ASSUME NEW w, BatchOK(w), w.pc \in {"idle", "connect", "describe", "lock", "select"}
  PROVE  w.end = "none" /\ w.renames = 0 /\ w.counts = NoCounts /\ w.synced = 0
<1>1. w.end = "none" /\ w.renames = 0 /\ w.counts = NoCounts /\ w.counts.durable = w.synced
  BY DEF BatchOK, BatchCounts
<1>2. QED BY <1>1 DEF NoCounts

LEMMA BeginMoves ==
  ASSUME NixInv, NEW b \in Batches, NEW c \in Commands, Begin(b, c)
  PROVE  NixInv'
<1> DEFINE pc == IF c.op # "remove" THEN "connect" ELSE IF c.dry THEN "select" ELSE "lock"
           w == [batch[b] EXCEPT !.cmd = c, !.pc = pc]
<1>1. BatchOK(batch[b]) /\ batch[b].pc = "idle"
  BY DEF NixInv, Begin, At
<1>2. batch' = [batch EXCEPT ![b] = w]
  BY <1>1 DEF Begin, NixInv, BatchOK, BatchTypeOK
<1>3. pc \in {"connect", "select", "lock"} /\ (pc = "lock" => ~c.dry) /\ (pc = "select" => c.dry)
      /\ (pc \in {"lock", "select"} => c.op = "remove")
  OBVIOUS
<1> HIDE DEF pc
<1>4. BatchTypeOK(w) /\ w.pc = pc /\ w.cmd = c /\ w.end = batch[b].end
      /\ w.renames = batch[b].renames /\ w.counts = batch[b].counts /\ w.synced = batch[b].synced
  BY <1>1, <1>3, ZenonT(40) DEF BatchOK, BatchTypeOK, BatchPcs
<1> HIDE DEF w
<1>5. ~Holding(w)
  BY <1>3, <1>4 DEF Holding, Working
<1>6. w.end = "none" /\ w.renames = 0 /\ w.counts = NoCounts /\ w.synced = 0
  BY <1>1, <1>4, EarlyFacts
<1>7. QED BY <1>2, <1>3, <1>4, <1>5, <1>6, EarlyMoves DEF Begin

LEMMA ConnectMoves ==
  ASSUME NixInv, NEW b \in Batches, Connect(b)
  PROVE  NixInv'
<1> DEFINE w == [batch[b] EXCEPT !.pc = "describe"]
<1>1. BatchOK(batch[b]) /\ batch[b].pc = "connect"
  BY DEF NixInv, Connect, At
<1>2. CASE EndsAs(b, "failed")
  BY <1>1, <1>2, EndMoves DEF Connect
<1>3. CASE Goto(b, "describe") /\ UNCHANGED lock
  <2>1. batch' = [batch EXCEPT ![b] = w]
    BY <1>3 DEF Goto, NixInv
  <2>2. BatchTypeOK(w) /\ w.pc = "describe" /\ w.end = "none" /\ w.renames = 0
        /\ w.counts = NoCounts /\ w.synced = 0
    BY <1>1 DEF BatchOK, BatchTypeOK, BatchPcs, BatchCounts, NoCounts
  <2> HIDE DEF w
  <2>3. QED BY <1>3, <2>1, <2>2, EarlyMoves DEF Connect, Holding, Working
<1>4. QED BY <1>2, <1>3 DEF Connect

LEMMA DescribeMoves ==
  ASSUME NixInv, NEW b \in Batches, Describe(b)
  PROVE  NixInv'
<1> DEFINE id == [name |-> ident.name, pub |-> ident.pub]
           pc == IF Cmd(b).dry THEN "select" ELSE "lock"
           w == [batch[b] EXCEPT !.id = id, !.pc = pc]
<1>1. BatchOK(batch[b]) /\ batch[b].pc = "describe"
  BY DEF NixInv, Describe, At
<1>2. CASE EndsAs(b, "failed")
  BY <1>1, <1>2, EndMoves DEF Describe
<1>3. CASE ~EndsAs(b, "failed")
  <2>1. batch' = [batch EXCEPT ![b] = w] /\ lock' = lock
    BY <1>1, <1>3 DEF Describe, NixInv, BatchOK, BatchTypeOK
  <2>2. id \in Identities
    BY DEF NixInv, IdentOK, Identities
  <2>3. pc \in {"select", "lock"} /\ (pc = "select" => Cmd(b).dry) /\ (pc = "lock" => ~Cmd(b).dry)
    OBVIOUS
  <2> HIDE DEF id, pc
  <2>4. BatchTypeOK(w) /\ w.pc = pc /\ w.id = id /\ w.cmd = Cmd(b) /\ w.end = batch[b].end
        /\ w.renames = batch[b].renames /\ w.counts = batch[b].counts /\ w.synced = batch[b].synced
    BY <1>1, <2>2, <2>3 DEF BatchOK, BatchTypeOK, BatchPcs, Cmd
  <2> HIDE DEF w
  <2>5. w.end = "none" /\ w.renames = 0 /\ w.counts = NoCounts /\ w.synced = 0
    BY <1>1, <2>4, EarlyFacts
  <2>6. QED BY <2>1, <2>2, <2>3, <2>4, <2>5, EarlyMoves DEF Describe, Holding, Working
<1>4. QED BY <1>2, <1>3

LEMMA LockMoves ==
  ASSUME NixInv, NEW b \in Batches, TryLock(b)
  PROVE  NixInv'
<1> DEFINE w == [batch[b] EXCEPT !.pc = "select"]
<1>1. BatchOK(batch[b]) /\ batch[b].pc = "lock"
  BY DEF NixInv, TryLock, At
<1>2. batch' = [batch EXCEPT ![b] = w] /\ lock = {} /\ lock' = {b}
  BY DEF TryLock, Goto, CacheLockFree, NixInv
<1>3. BatchTypeOK(w) /\ w.pc = "select" /\ w.cmd = batch[b].cmd /\ w.id = batch[b].id
      /\ w.end = batch[b].end /\ w.renames = batch[b].renames /\ w.counts = batch[b].counts
      /\ w.synced = batch[b].synced
  BY <1>1 DEF BatchOK, BatchTypeOK, BatchPcs
<1>4. w.cmd.op # "remove" => w.id \in Identities
  BY <1>1, <1>3 DEF BatchOK, BatchKnows
<1> HIDE DEF w
<1>5. w.end = "none" /\ w.renames = 0 /\ w.counts = NoCounts /\ w.synced = 0
  BY <1>1, <1>3, EarlyFacts
<1>6. QED BY <1>2, <1>3, <1>4, <1>5, EarlyMoves DEF TryLock

LEMMA SelectMoves ==
  ASSUME NixInv, NEW b \in Batches, Select(b)
  PROVE  NixInv'
<1> DEFINE todo == IF Cmd(b).all THEN Existing ELSE Cmd(b).paths
           w == [batch[b] EXCEPT !.todo = todo, !.pc = "target",
                                 !.counts.selected = Cardinality(todo)]
<1>1. BatchOK(batch[b]) /\ batch[b].pc = "select"
  BY DEF NixInv, Select, At
<1>2. CASE EndsAs(b, "failed")
  BY <1>1, <1>2, EndMoves DEF Select
<1>3. CASE ~EndsAs(b, "failed")
  <2>1. batch' = [batch EXCEPT ![b] = w] /\ lock' = lock
    <3>1. /\ batch' = [batch EXCEPT ![b].todo = todo, ![b].pc = "target",
                                    ![b].counts.selected = Cardinality(todo)]
          /\ lock' = lock
      BY <1>3 DEF Select
    <3> HIDE DEF todo
    <3>2. QED BY <1>1, <3>1 DEF NixInv, BatchOK, BatchTypeOK
  <2>2. todo \subseteq Files
    BY <1>1, Commanded DEF Existing
  <2>3. IsFiniteSet(todo) /\ Cardinality(todo) \in Nat
    BY <2>2, NixAssumption, FS_Subset, FS_CardinalityType
  <2> HIDE DEF todo
  <2>4. batch[b].end = "none" /\ batch[b].renames = 0 /\ batch[b].counts = NoCounts /\ batch[b].synced = 0
    BY <1>1, EarlyFacts
  <2>5. /\ BatchTypeOK(w) /\ w.pc = "target" /\ w.cmd = batch[b].cmd /\ w.id = batch[b].id /\ w.todo = todo
        /\ w.end = batch[b].end /\ w.renames = batch[b].renames /\ w.synced = batch[b].synced
        /\ w.counts = [batch[b].counts EXCEPT !.selected = Cardinality(todo)]
    BY <1>1, <2>2, <2>3 DEF BatchOK, BatchTypeOK, BatchPcs
  <2>6. w.counts = [NoCounts EXCEPT !.selected = Cardinality(todo)]
    BY <2>4, <2>5
  <2> HIDE DEF w
  <2>7. w.cmd.op # "remove" => w.id \in Identities
    BY <1>1, <2>5 DEF BatchOK, BatchKnows
  <2>8. BatchKnows(w)
    BY <2>5, <2>7 DEF BatchKnows, Editing
  <2>9. BatchCounts(w)
    BY <2>3, <2>4, <2>5, <2>6 DEF BatchCounts, NoCounts, Working
  <2>10. Holding(w) => lock' = {b}
    BY <1>1, <2>1, <2>5 DEF NixInv, Holding, Working
  <2>11. QED BY <2>1, <2>5, <2>8, <2>9, <2>10, OneMoves DEF Select, BatchOK
<1>4. QED BY <1>2, <1>3

(* A record is done with. *)
LEMMA TodoShrinks ==
  ASSUME NEW T, T \subseteq Files, T # {}
  PROVE  /\ (T \ {CHOOSE f \in T : \A g \in T : f <= g}) \subseteq Files
         /\ Cardinality(T) \in Nat
         /\ Cardinality(T \ {CHOOSE f \in T : \A g \in T : f <= g}) + 1 = Cardinality(T)
<1> DEFINE x == CHOOSE f \in T : \A g \in T : f <= g
<1>1. x \in T
  BY TargetLeft
<1>2. IsFiniteSet(T)
  BY NixAssumption, FS_Subset
<1> HIDE DEF x
<1>3. Cardinality(T \ {x}) = Cardinality(T) - 1 /\ Cardinality(T) \in Nat
  BY <1>1, <1>2, FS_RemoveElement, FS_CardinalityType
<1>4. QED BY <1>3 DEF x

LEMMA NextOK ==
  ASSUME NixInv, NEW b \in Batches, NEW r, BatchTypeOK(r), r.todo # {}, r.pc \in Working,
         batch[b].pc \in Working, r.cmd = batch[b].cmd, r.id = batch[b].id,
         batch' = [batch EXCEPT ![b] = NextTarget(r)],
         r.end = "none", r.counts.durable = r.synced,
         r.counts.installed <= r.counts.produced + r.counts.reused,
         r.counts.selected + 1 = Cardinality(r.todo) + r.counts.durable + r.counts.unchanged + r.counts.preview,
         r.renames = r.counts.durable, r.cmd.dry => r.renames = 0,
         UNCHANGED <<files, inodes, kept, ident, lock>>
  PROVE  NixInv'
<1> DEFINE w == NextTarget(r)
           left == r.todo \ {CHOOSE f \in r.todo : \A g \in r.todo : f <= g}
<1>1. r.todo \subseteq Files
  BY DEF BatchTypeOK
<1>2. left \subseteq Files /\ Cardinality(r.todo) \in Nat /\ Cardinality(left) + 1 = Cardinality(r.todo)
      /\ Cardinality(left) \in Nat
  <2>1. IsFiniteSet(left)
    BY <1>1, NixAssumption, FS_Subset
  <2>2. QED BY <1>1, <2>1, TodoShrinks, FS_CardinalityType
<1>3. w = [r EXCEPT !.todo = left, !.snap = NoSnap, !.sig = NoSnap, !.edit = <<>>, !.late = FALSE, !.pc = "target"]
  BY DEF NextTarget, BatchTypeOK
<1> HIDE DEF left, w
<1>4. /\ BatchTypeOK(w) /\ w.pc = "target" /\ w.cmd = r.cmd /\ w.id = r.id /\ w.todo = left
      /\ w.end = r.end /\ w.renames = r.renames /\ w.synced = r.synced /\ w.counts = r.counts
  <2>1. r.cmd \in Commands
    BY DEF BatchTypeOK, Working
  <2>2. /\ w.pc = "target" /\ w.cmd = r.cmd /\ w.id = r.id /\ w.todo = left
        /\ w.end = r.end /\ w.renames = r.renames /\ w.synced = r.synced /\ w.counts = r.counts
    BY <1>3 DEF BatchTypeOK
  <2>3. <<>> \in Seq(Signatures)
    OBVIOUS
  <2>4. BatchTypeOK(w)
    BY <1>2, <1>3, <2>1, <2>3 DEF BatchTypeOK, BatchPcs
  <2>5. QED BY <2>2, <2>4
<1>5. w.cmd.op # "remove" => w.id \in Identities
  BY <1>4 DEF NixInv, BatchOK, BatchKnows
<1>6. BatchKnows(w)
  BY <1>4, <1>5 DEF BatchKnows, Editing
<1>7. r.counts.selected \in Nat /\ r.counts.durable \in Nat /\ r.counts.unchanged \in Nat /\ r.counts.preview \in Nat
      /\ r.renames \in Nat
  BY DEF BatchTypeOK
<1>8. BatchCounts(w)
  <2>1. w.counts.selected = Cardinality(w.todo) + w.counts.durable + w.counts.unchanged + w.counts.preview
    BY <1>2, <1>4, <1>7
  <2>2. w.renames = w.counts.durable + 0
    BY <1>4, <1>7
  <2>3. QED BY <1>4, <2>1, <2>2 DEF BatchCounts, Working
<1>9. Holding(w) => lock' = {b}
  BY <1>4 DEF NixInv, Holding, Working
<1>10. QED BY <1>4, <1>6, <1>8, <1>9, OneMoves DEF BatchOK, w

Counters == [selected : Nat, durable : Nat, unchanged : Nat, preview : Nat,
             produced : Nat, reused : Nat, installed : Nat]
LEMMA Counted ==
  ASSUME NEW n \in Counters
  PROVE  /\ Count(n, "durable") = [n EXCEPT !.durable = n.durable + 1]
         /\ Count(n, "unchanged") = [n EXCEPT !.unchanged = n.unchanged + 1]
         /\ Count(n, "preview") = [n EXCEPT !.preview = n.preview + 1]
         /\ Count(n, "produced") = [n EXCEPT !.produced = n.produced + 1]
         /\ Count(n, "reused") = [n EXCEPT !.reused = n.reused + 1]
         /\ Count(n, "installed") = [n EXCEPT !.installed = n.installed + 1]
  BY DEF Count, Counters

LEMMA UnchangedMore ==
  ASSUME NEW n \in Counters, NEW m, m = Count(n, "unchanged")
  PROVE  /\ m \in Counters /\ m.selected = n.selected /\ m.durable = n.durable
         /\ m.unchanged = n.unchanged + 1 /\ m.preview = n.preview
         /\ m.installed = n.installed /\ m.produced = n.produced /\ m.reused = n.reused
<1>1. m = [n EXCEPT !.unchanged = n.unchanged + 1]
  BY Counted
<1>2. QED BY <1>1 DEF Counters

LEMMA ReusedMore ==
  ASSUME NEW n \in Counters, NEW m, m = Count(n, "reused")
  PROVE  /\ m \in Counters /\ m.selected = n.selected /\ m.durable = n.durable
         /\ m.unchanged = n.unchanged /\ m.preview = n.preview
         /\ m.installed = n.installed /\ m.produced = n.produced /\ m.reused = n.reused + 1
<1>1. m = [n EXCEPT !.reused = n.reused + 1]
  BY Counted
<1>2. QED BY <1>1 DEF Counters

LEMMA DurableMore ==
  ASSUME NEW n \in Counters, NEW m, m = Count(n, "durable")
  PROVE  /\ m \in Counters /\ m.selected = n.selected /\ m.durable = n.durable + 1
         /\ m.unchanged = n.unchanged /\ m.preview = n.preview
         /\ m.installed = n.installed /\ m.produced = n.produced /\ m.reused = n.reused
<1>1. m = [n EXCEPT !.durable = n.durable + 1]
  BY Counted
<1>2. QED BY <1>1 DEF Counters

(* A record that needed no change, or would be changed by a dry run. *)
LEMMA DoneMoves ==
  ASSUME NixInv, NEW b \in Batches, NEW counts \in Counters, batch[b].pc \in Working, batch[b].todo # {},
         ~(batch[b].pc = "sync"),
         Done(b, counts),
         LET n == batch[b].counts IN
           /\ counts.selected = n.selected /\ counts.durable = n.durable
           /\ counts.unchanged + counts.preview = n.unchanged + n.preview + 1
           /\ counts.installed = n.installed /\ counts.produced >= n.produced /\ counts.reused >= n.reused,
         UNCHANGED <<files, inodes, kept, ident, lock>>
  PROVE  NixInv'
<1> DEFINE r == [batch[b] EXCEPT !.counts = counts]
           n == batch[b].counts
<1>1. BatchOK(batch[b])
  BY DEF NixInv
<1>2. /\ BatchTypeOK(r) /\ r.counts = counts /\ r.pc = batch[b].pc /\ r.todo = batch[b].todo
      /\ r.cmd = batch[b].cmd /\ r.id = batch[b].id /\ r.end = batch[b].end
      /\ r.synced = batch[b].synced /\ r.renames = batch[b].renames
  BY <1>1 DEF BatchOK, BatchTypeOK, Counters
<1>3. batch' = [batch EXCEPT ![b] = NextTarget(r)]
  BY DEF Done
<1>4. n \in Counters /\ Cardinality(batch[b].todo) \in Nat /\ batch[b].renames \in Nat
  <2>1. batch[b].todo \subseteq Files
    BY <1>1 DEF BatchOK, BatchTypeOK
  <2>2. IsFiniteSet(batch[b].todo)
    BY <2>1, NixAssumption, FS_Subset
  <2>3. QED BY <1>1, <2>2, FS_CardinalityType DEF BatchOK, BatchTypeOK, Counters
<1>5. /\ n.durable = batch[b].synced /\ n.installed <= n.produced + n.reused
      /\ n.selected = Cardinality(batch[b].todo) + n.durable + n.unchanged + n.preview
      /\ batch[b].renames = n.durable + 0 /\ batch[b].end = "none"
      /\ batch[b].cmd.dry => batch[b].renames = 0
  <2>1. batch[b].pc # "idle" /\ batch[b].pc # "ended"
    BY DEF Working
  <2>2. QED BY <1>1, <2>1 DEF BatchOK, BatchCounts
<1> HIDE DEF r
<1>6. /\ r.end = "none" /\ r.counts.durable = r.synced
      /\ r.renames = r.counts.durable /\ (r.cmd.dry => r.renames = 0)
  BY <1>2, <1>4, <1>5 DEF Counters
<1>7. r.counts.installed <= r.counts.produced + r.counts.reused
  BY <1>2, <1>4, <1>5 DEF Counters
<1>8. r.counts.selected + 1 = Cardinality(r.todo) + r.counts.durable + r.counts.unchanged + r.counts.preview
  BY <1>2, <1>4, <1>5 DEF Counters
<1>9. QED BY <1>2, <1>3, <1>6, <1>7, <1>8, NextOK

LEMMA PreviewMoves ==
  ASSUME NixInv, NEW b \in Batches, Preview(b)
  PROVE  NixInv'
<1>1. BatchOK(batch[b]) /\ batch[b].pc = "target" /\ batch[b].todo # {} /\ batch[b].counts \in Counters
  BY DEF NixInv, Preview, At, BatchOK, BatchTypeOK, Counters
<1>2. CASE EndsAs(b, "failed")
  BY <1>1, <1>2, EndMoves DEF Preview
<1>3. CASE ~EndsAs(b, "failed")
  <2> DEFINE field == IF WouldChange(b, files[Target(b)]) THEN "preview" ELSE "unchanged"
  <2>1. Done(b, Count(batch[b].counts, field)) /\ UNCHANGED <<files, inodes, kept, ident, lock>>
    BY <1>3 DEF Preview
  <2>2. field \in {"preview", "unchanged"}
    OBVIOUS
  <2> HIDE DEF field
  <2>3. /\ Count(batch[b].counts, field) \in Counters
        /\ LET n == batch[b].counts  m == Count(batch[b].counts, field) IN
             /\ m.selected = n.selected /\ m.durable = n.durable
             /\ m.unchanged + m.preview = n.unchanged + n.preview + 1
             /\ m.installed = n.installed /\ m.produced >= n.produced /\ m.reused >= n.reused
    <3>1. CASE field = "preview"
      <4>1. Count(batch[b].counts, field) = [batch[b].counts EXCEPT !.preview = batch[b].counts.preview + 1]
        BY <1>1, <3>1, Counted
      <4>2. QED BY <1>1, <4>1 DEF Counters
    <3>2. CASE field = "unchanged"
      <4>1. Count(batch[b].counts, field) = [batch[b].counts EXCEPT !.unchanged = batch[b].counts.unchanged + 1]
        BY <1>1, <3>2, Counted
      <4>2. QED BY <1>1, <4>1 DEF Counters
    <3>3. QED BY <2>2, <3>1, <3>2
  <2>4. QED BY <1>1, <2>1, <2>3, DoneMoves DEF Working
<1>4. QED BY <1>2, <1>3

LEMMA PlanFacts ==
  ASSUME NixInv, NEW b \in Batches, NEW file
  PROVE  /\ Plan(b, file) \in {"error", "edit", "unchanged", "sign", "reuse"}
         /\ Plan(b, file) = "edit" => Cmd(b).op = "remove"
         /\ Plan(b, file) \in {"sign", "reuse"} => Cmd(b).op # "remove"
  BY DEF Plan

(* The counts of a batch at one of its records. *)
LEMMA WorkFacts ==
  ASSUME NixInv, NEW b \in Batches, batch[b].pc \in Working
  PROVE  LET n == batch[b].counts IN
         /\ n \in Counters /\ Cardinality(batch[b].todo) \in Nat /\ batch[b].renames \in Nat
         /\ batch[b].synced \in Nat /\ batch[b].todo \subseteq Files
         /\ n.durable = batch[b].synced /\ n.installed <= n.produced + n.reused
         /\ n.selected = Cardinality(batch[b].todo) + n.durable + n.unchanged + n.preview
         /\ batch[b].renames = n.durable + (IF batch[b].pc = "sync" THEN 1 ELSE 0)
         /\ batch[b].end = "none"
         /\ batch[b].cmd.dry => batch[b].renames = 0
         /\ batch[b].cmd.op # "remove" => batch[b].id \in Identities
<1>1. BatchOK(batch[b]) /\ batch[b].pc # "idle" /\ batch[b].pc # "ended"
  BY DEF NixInv, Working
<1>2. batch[b].todo \subseteq Files /\ batch[b].counts \in Counters /\ batch[b].renames \in Nat
      /\ batch[b].synced \in Nat
  BY <1>1 DEF BatchOK, BatchTypeOK, Counters
<1>3. Cardinality(batch[b].todo) \in Nat
  <2>1. IsFiniteSet(batch[b].todo)
    BY <1>2, NixAssumption, FS_Subset
  <2>2. QED BY <2>1, FS_CardinalityType
<1>4. QED BY <1>1, <1>2, <1>3 DEF BatchOK, BatchCounts, BatchKnows

(* A step within one record that changes neither its place nor what was    *)
(* committed.                                                              *)
LEMMA StayMoves ==
  ASSUME NixInv, NEW b \in Batches, NEW w, batch[b].pc \in Working \ {"sync"},
         batch' = [batch EXCEPT ![b] = w], BatchTypeOK(w), BatchKnows(w),
         w.pc \in Working \ {"sync"}, w.cmd = batch[b].cmd, w.todo = batch[b].todo,
         w.end = batch[b].end, w.synced = batch[b].synced, w.renames = batch[b].renames,
         w.counts.selected = batch[b].counts.selected, w.counts.durable = batch[b].counts.durable,
         w.counts.unchanged = batch[b].counts.unchanged, w.counts.preview = batch[b].counts.preview,
         w.counts.installed <= w.counts.produced + w.counts.reused,
         w.pc \in {"edit", "compare", "rename"} /\ w.cmd.op # "remove" =>
           w.counts.installed + 1 <= w.counts.produced + w.counts.reused,
         w.pc = "rename" => At(b, "compare") /\ files[Target(b)] = w.snap,
         UNCHANGED <<files, inodes, kept, ident, lock>>
  PROVE  NixInv'
<1>1. LET n == batch[b].counts IN
         /\ n.durable = batch[b].synced
         /\ n.selected = Cardinality(batch[b].todo) + n.durable + n.unchanged + n.preview
         /\ batch[b].renames = n.durable + 0
         /\ batch[b].end = "none"
         /\ batch[b].cmd.dry => batch[b].renames = 0
  BY WorkFacts
<1>2. w.counts.selected = Cardinality(w.todo) + w.counts.durable + w.counts.unchanged + w.counts.preview
  BY <1>1
<1>3. BatchCounts(w)
  BY <1>1, <1>2 DEF BatchCounts, Working
<1>4. Holding(w) => lock' = {b}
  BY DEF NixInv, Holding, Working
<1>5. QED BY <1>3, <1>4, OneMoves DEF BatchOK

LEMMA ReadMoves ==
  ASSUME NixInv, NEW b \in Batches, ReadRecord(b)
  PROVE  NixInv'
<1> DEFINE file == files[Target(b)]
           plan == Plan(b, files[Target(b)])
           n == batch[b].counts
<1>1. /\ BatchOK(batch[b]) /\ batch[b].pc = "target" /\ batch[b].todo # {} /\ n \in Counters
      /\ ~batch[b].cmd.dry
  BY DEF NixInv, ReadRecord, At, Cmd, BatchOK, BatchTypeOK, Counters
<1>2. file \in Records /\ Len(file.sigs) <= MaxSigs
  BY <1>1, TargetFile DEF NixInv, FilesOK
<1>3. CASE EndsAs(b, "failed")
  BY <1>1, <1>3, EndMoves DEF ReadRecord
<1>4. CASE plan = "unchanged" /\ ~EndsAs(b, "failed")
  <2> DEFINE m == Count(Count(n, "reused"), "unchanged")
  <2>1. Done(b, m) /\ UNCHANGED <<files, inodes, kept, ident, lock>>
    BY <1>4 DEF ReadRecord
  <2> DEFINE k == Count(n, "reused")
  <2>2. /\ k \in Counters /\ k.selected = n.selected /\ k.durable = n.durable
        /\ k.unchanged = n.unchanged /\ k.preview = n.preview
        /\ k.installed = n.installed /\ k.produced = n.produced /\ k.reused = n.reused + 1
    BY <1>1, ReusedMore
  <2>3. m = Count(k, "unchanged")
    OBVIOUS
  <2> HIDE DEF m, k, n
  <2>4. /\ m \in Counters /\ m.selected = k.selected /\ m.durable = k.durable
        /\ m.unchanged = k.unchanged + 1 /\ m.preview = k.preview
        /\ m.installed = k.installed /\ m.produced = k.produced /\ m.reused = k.reused
    BY <2>2, <2>3, UnchangedMore
  <2> USE DEF n
  <2>6. /\ m \in Counters /\ m.selected = n.selected /\ m.durable = n.durable
        /\ m.unchanged + m.preview = n.unchanged + n.preview + 1
        /\ m.installed = n.installed /\ m.produced >= n.produced /\ m.reused >= n.reused
    <3>1. /\ m \in Counters /\ m.selected = n.selected /\ m.durable = n.durable
          /\ m.unchanged = n.unchanged + 1 /\ m.preview = n.preview
          /\ m.installed = n.installed /\ m.produced = n.produced /\ m.reused = n.reused + 1
      BY <2>2, <2>4
    <3>2. n.unchanged \in Nat /\ n.preview \in Nat /\ n.produced \in Nat /\ n.reused \in Nat
      BY <1>1 DEF Counters
    <3>3. QED BY <3>1, <3>2
  <2>7. QED BY <1>1, <2>1, <2>6, DoneMoves DEF Working
<1>5. CASE plan \in {"sign", "reuse", "edit"} /\ ~EndsAs(b, "failed")
  <2> DEFINE sig == IF plan = "reuse" THEN Sig(batch[b].id, file.content) ELSE NoSnap
             m == IF plan = "reuse" THEN Count(n, "reused") ELSE n
             pc == IF plan = "sign" THEN "sign" ELSE "edit"
             w == [batch[b] EXCEPT !.snap = file, !.sig = sig, !.counts = m, !.pc = pc]
  <2>1. batch' = [batch EXCEPT ![b] = w] /\ UNCHANGED <<files, inodes, kept, ident, lock>>
    <3>1. /\ batch' = [batch EXCEPT ![b].snap = file, ![b].sig = sig,
                 ![b].counts = IF plan = "reuse" THEN Count(@, "reused") ELSE @, ![b].pc = pc]
          /\ UNCHANGED <<files, inodes, kept, ident, lock>>
      BY <1>5, ZenonT(40) DEF ReadRecord
    <3> HIDE DEF file, plan, sig, pc
    <3>2. QED BY <1>1, <3>1 DEF NixInv, BatchOK, BatchTypeOK
  <2>2. /\ plan \in {"sign", "reuse", "edit"}
        /\ plan = "edit" => batch[b].cmd.op = "remove"
        /\ plan \in {"sign", "reuse"} => batch[b].cmd.op # "remove"
    BY <1>5, PlanFacts DEF Cmd
  <2> HIDE DEF plan, file
  <2>3. /\ sig \in Signatures \cup {NoSnap}
        /\ plan = "reuse" => sig \in Signatures /\ sig.over = file.content
    <3>1. CASE plan = "reuse"
      <4>1. batch[b].id \in Identities
        BY <1>1, <2>2, <3>1, WorkFacts DEF Working
      <4>2. sig = Sig(batch[b].id, file.content) /\ file.content \in Nat
        BY <1>2, <3>1 DEF Records
      <4>3. QED BY <4>1, <4>2 DEF Sig, Identities, Signatures
    <3>2. QED BY <3>1
  <2>4. /\ m \in Counters /\ m.selected = n.selected /\ m.durable = n.durable /\ m.unchanged = n.unchanged
        /\ m.preview = n.preview /\ m.installed = n.installed /\ m.produced = n.produced
        /\ m.reused = n.reused + (IF plan = "reuse" THEN 1 ELSE 0)
    <3>1. CASE plan = "reuse"
      <4>1. m = [n EXCEPT !.reused = n.reused + 1]
        BY <1>1, <3>1, Counted
      <4>2. QED BY <1>1, <3>1, <4>1 DEF Counters
    <3>2. CASE plan # "reuse"
      BY <1>1, <3>2 DEF Counters
    <3>3. QED BY <3>1, <3>2
  <2>5. pc \in {"sign", "edit"} /\ (pc = "sign" <=> plan = "sign")
    OBVIOUS
  <2> HIDE DEF sig, m, pc
  <2>6. /\ w.snap = file /\ w.sig = sig /\ w.counts = m /\ w.pc = pc /\ w.cmd = batch[b].cmd
        /\ w.todo = batch[b].todo /\ w.end = batch[b].end /\ w.synced = batch[b].synced
        /\ w.renames = batch[b].renames /\ w.id = batch[b].id
    BY <1>1 DEF BatchOK, BatchTypeOK
  <2>7. BatchTypeOK(w)
    BY <1>1, <1>2, <2>3, <2>4, <2>5, ZenonT(40) DEF BatchOK, BatchTypeOK, BatchPcs, Counters
  <2> HIDE DEF w
  <2>8. w.cmd.op # "remove" => w.id \in Identities
    BY <1>1, <2>6, WorkFacts DEF Working
  <2>9. BatchKnows(w)
    BY <1>1, <1>2, <2>2, <2>3, <2>5, <2>6, <2>8 DEF BatchKnows, Editing, Working
  <2>10. /\ w.counts.installed <= w.counts.produced + w.counts.reused
         /\ w.pc \in {"edit", "compare", "rename"} /\ w.cmd.op # "remove" =>
              w.counts.installed + 1 <= w.counts.produced + w.counts.reused
    <3>1. n.installed <= n.produced + n.reused
      BY <1>1, WorkFacts DEF Working
    <3>2. QED BY <1>1, <2>2, <2>4, <2>5, <2>6, <3>1 DEF Counters
  <2>11. QED BY <1>1, <2>1, <2>4, <2>5, <2>6, <2>7, <2>9, <2>10, StayMoves DEF Working
<1>6. QED BY <1>3, <1>4, <1>5, PlanFacts DEF ReadRecord

LEMMA SignMoves ==
  ASSUME NixInv, NEW b \in Batches, SignRecord(b)
  PROVE  NixInv'
<1> DEFINE n == batch[b].counts
           sig == Sig(ident, batch[b].snap.content)
           w == [batch[b] EXCEPT !.sig = sig, !.counts = Count(n, "produced"), !.pc = "edit"]
<1>1. /\ BatchOK(batch[b]) /\ batch[b].pc = "sign" /\ n \in Counters
      /\ batch[b].snap \in Records /\ Len(batch[b].snap.sigs) <= MaxSigs
      /\ batch[b].todo # {} /\ ~batch[b].cmd.dry
  BY DEF NixInv, SignRecord, At, BatchOK, BatchTypeOK, BatchKnows, Counters, Editing
<1>2. CASE EndsAs(b, "failed")
  BY <1>1, <1>2, EndMoves DEF SignRecord
<1>3. CASE ~EndsAs(b, "failed")
  <2>1. batch' = [batch EXCEPT ![b] = w] /\ UNCHANGED <<files, inodes, kept, ident, lock>>
    <3>1. /\ batch' = [batch EXCEPT ![b].sig = sig, ![b].counts = Count(@, "produced"), ![b].pc = "edit"]
          /\ UNCHANGED <<files, inodes, kept, ident, lock>>
      BY <1>3 DEF SignRecord
    <3> HIDE DEF sig
    <3>2. QED BY <1>1, <3>1 DEF NixInv, BatchOK, BatchTypeOK
  <2>2. sig \in Signatures /\ sig.over = batch[b].snap.content
    BY <1>1 DEF NixInv, IdentOK, Sig, Signatures, Records
  <2>3. Count(n, "produced") = [n EXCEPT !.produced = n.produced + 1]
    BY <1>1, Counted
  <2> DEFINE m == Count(n, "produced")
  <2>4. /\ m \in Counters /\ m.selected = n.selected /\ m.durable = n.durable /\ m.unchanged = n.unchanged
        /\ m.preview = n.preview /\ m.installed = n.installed /\ m.produced = n.produced + 1
        /\ m.reused = n.reused
    BY <1>1, <2>3, SMTT(30) DEF Counters
  <2> HIDE DEF sig, m
  <2>5. /\ w.snap = batch[b].snap /\ w.sig = sig /\ w.counts = m /\ w.pc = "edit" /\ w.cmd = batch[b].cmd
        /\ w.todo = batch[b].todo /\ w.end = batch[b].end /\ w.synced = batch[b].synced
        /\ w.renames = batch[b].renames /\ w.id = batch[b].id
    BY <1>1 DEF BatchOK, BatchTypeOK, m
  <2>6. BatchTypeOK(w)
    BY <1>1, <2>2, <2>4 DEF BatchOK, BatchTypeOK, BatchPcs, Counters, m
  <2> HIDE DEF w
  <2>7. w.cmd.op # "remove" => w.id \in Identities
    BY <1>1, <2>5, WorkFacts DEF Working
  <2>8. BatchKnows(w)
    BY <1>1, <2>2, <2>5, <2>7 DEF BatchKnows, Editing, Working
  <2>9. w.counts.installed + 1 <= w.counts.produced + w.counts.reused
        /\ w.counts.installed <= w.counts.produced + w.counts.reused
    <3>1. n.installed <= n.produced + n.reused
      BY <1>1, WorkFacts DEF Working
    <3>2. n.installed \in Nat /\ n.produced \in Nat /\ n.reused \in Nat
      BY <1>1 DEF Counters
    <3>3. /\ w.counts.installed = n.installed /\ w.counts.produced = n.produced + 1
          /\ w.counts.reused = n.reused
      BY <2>4, <2>5
    <3>4. QED BY <3>1, <3>2, <3>3
  <2>10. QED BY <1>1, <2>1, <2>4, <2>5, <2>6, <2>8, <2>9, StayMoves DEF Working
<1>4. QED BY <1>2, <1>3

LEMMA EditMoves ==
  ASSUME NixInv, NEW b \in Batches, Edit(b)
  PROVE  NixInv'
<1> DEFINE n == batch[b].counts
           cmd == batch[b].cmd
           snap == batch[b].snap
           e == EditNarinfo(cmd.op, snap.sigs, cmd.names, batch[b].sig)
<1>1. /\ BatchOK(batch[b]) /\ batch[b].pc = "edit" /\ n \in Counters
      /\ snap \in Records /\ Len(snap.sigs) <= MaxSigs
      /\ batch[b].todo # {} /\ ~cmd.dry
      /\ cmd.op # "remove" => batch[b].sig \in Signatures /\ batch[b].sig.over = snap.content
  BY DEF NixInv, Edit, At, BatchOK, BatchTypeOK, BatchKnows, Counters, Editing
<1>2. cmd.op \in {"sign", "replace", "remove"}
  BY <1>1, Commanded DEF Cmd
<1>3. CASE ~e.ok \/ (e.sigs # snap.sigs /\ files[Target(b)] # snap)
  <2>1. EndsAs(b, "failed") /\ UNCHANGED <<files, inodes, kept, ident>>
    BY <1>3 DEF Edit, Cmd
  <2>2. QED BY <1>1, <2>1, EndMoves
<1>4. CASE e.ok /\ ~(e.sigs # snap.sigs /\ files[Target(b)] # snap) /\ e.sigs = snap.sigs
  <2>1. Done(b, Count(n, "unchanged")) /\ UNCHANGED <<files, inodes, kept, ident, lock>>
    BY <1>4 DEF Edit, Cmd
  <2> DEFINE m == Count(n, "unchanged")
  <2>2. m = Count(n, "unchanged") /\ n \in Counters
    BY <1>1
  <2> HIDE DEF m, n
  <2>3. /\ m \in Counters /\ m.selected = n.selected /\ m.durable = n.durable
        /\ m.unchanged = n.unchanged + 1 /\ m.preview = n.preview
        /\ m.installed = n.installed /\ m.produced = n.produced /\ m.reused = n.reused
    BY <2>2, UnchangedMore
  <2> USE DEF n
  <2>4. n.unchanged \in Nat /\ n.preview \in Nat /\ n.produced \in Nat /\ n.reused \in Nat
    BY <1>1 DEF Counters
  <2>5. m.unchanged + m.preview = n.unchanged + n.preview + 1 /\ m.produced >= n.produced /\ m.reused >= n.reused
    BY <2>3, <2>4
  <2>6. Done(b, m)
    BY <2>1 DEF m
  <2>7. QED BY <1>1, <2>1, <2>3, <2>5, <2>6, DoneMoves DEF Working
<1>5. CASE e.ok /\ ~(e.sigs # snap.sigs /\ files[Target(b)] # snap) /\ e.sigs # snap.sigs
  <2> DEFINE w == [batch[b] EXCEPT !.edit = e.sigs, !.pc = "compare"]
  <2>1. batch' = [batch EXCEPT ![b] = w] /\ UNCHANGED <<files, inodes, kept, ident, lock>>
    <3>1. /\ batch' = [batch EXCEPT ![b].edit = e.sigs, ![b].pc = "compare"]
          /\ UNCHANGED <<files, inodes, kept, ident, lock>>
      BY <1>5 DEF Edit, Cmd
    <3> HIDE DEF e
    <3>2. QED BY <1>1, <3>1 DEF NixInv, BatchOK, BatchTypeOK
  <2>2. snap.sigs \in Seq(Signatures)
    BY <1>1 DEF Records
  <2>3. PICK q \in Seq(Signatures) :
           /\ e.sigs = q /\ Len(q) <= MaxSigs
           /\ cmd.op # "remove" => batch[b].sig \in Range(q)
           /\ \A s \in Range(snap.sigs) : s.name \notin cmd.names => s \in Range(q)
    <3> DEFINE op == cmd.op
               names == cmd.names
               sigs == snap.sigs
               sig == batch[b].sig
    <3>1. /\ op \in {"sign", "replace", "remove"} /\ sigs \in Seq(Signatures) /\ Len(sigs) <= MaxSigs
          /\ op # "remove" => sig \in Signatures
          /\ EditNarinfo(op, sigs, names, sig).ok
      BY <1>1, <1>2, <1>5, <2>2
    <3> HIDE DEF op, names, sigs, sig
    <3>2. LET q == EditNarinfo(op, sigs, names, sig).sigs IN
           /\ q \in Seq(Signatures) /\ Len(q) <= MaxSigs
           /\ op # "remove" => sig \in Range(q)
           /\ \A s \in Range(sigs) : s.name \notin names => s \in Range(q)
      BY <3>1, Edited
    <3>3. QED BY <3>2 DEF op, names, sigs, sig
  <2> HIDE DEF e
  <2>4. /\ w.edit = q /\ w.snap = snap /\ w.sig = batch[b].sig /\ w.counts = n /\ w.pc = "compare" /\ w.cmd = cmd
        /\ w.todo = batch[b].todo /\ w.end = batch[b].end /\ w.synced = batch[b].synced
        /\ w.renames = batch[b].renames /\ w.id = batch[b].id
    BY <1>1, <2>3 DEF BatchOK, BatchTypeOK
  <2>5. BatchTypeOK(w)
    BY <1>1, <2>3 DEF BatchOK, BatchTypeOK, BatchPcs
  <2> HIDE DEF w
  <2>6. w.cmd.op # "remove" => w.id \in Identities
    BY <1>1, <2>4, WorkFacts DEF Working
  <2>7. BatchKnows(w)
    BY <1>1, <2>3, <2>4, <2>6 DEF BatchKnows, Editing, Working
  <2>8. /\ n.installed <= n.produced + n.reused
        /\ cmd.op # "remove" => n.installed + 1 <= n.produced + n.reused
    BY <1>1 DEF BatchOK, BatchCounts
  <2>9. QED BY <1>1, <2>1, <2>4, <2>5, <2>7, <2>8, StayMoves DEF Working
<1>6. QED BY <1>3, <1>4, <1>5

LEMMA CompareMoves ==
  ASSUME NixInv, NEW b \in Batches, Compare(b)
  PROVE  NixInv'
<1> DEFINE w == [batch[b] EXCEPT !.pc = "rename"]
           n == batch[b].counts
<1>1. BatchOK(batch[b]) /\ batch[b].pc = "compare"
  BY DEF NixInv, Compare, At
<1>2. CASE EndsAs(b, "failed")
  BY <1>1, <1>2, EndMoves DEF Compare
<1>3. CASE ~EndsAs(b, "failed")
  <2>1. batch' = [batch EXCEPT ![b] = w] /\ UNCHANGED <<files, inodes, kept, ident, lock>>
        /\ files[Target(b)] = batch[b].snap
    BY <1>3 DEF Compare, Goto, StillThere, NixInv
  <2>2. BatchTypeOK(w)
    BY <1>1 DEF BatchOK, BatchTypeOK, BatchPcs
  <2>3. /\ w.edit = batch[b].edit /\ w.snap = batch[b].snap /\ w.sig = batch[b].sig /\ w.counts = n
        /\ w.pc = "rename" /\ w.cmd = batch[b].cmd
        /\ w.todo = batch[b].todo /\ w.end = batch[b].end /\ w.synced = batch[b].synced
        /\ w.renames = batch[b].renames /\ w.id = batch[b].id
    BY <1>1 DEF BatchOK, BatchTypeOK
  <2> HIDE DEF w
  <2>4. BatchKnows(w)
    BY <1>1, <2>3 DEF BatchOK, BatchKnows, Editing, Working
  <2>5. /\ n.installed <= n.produced + n.reused
        /\ w.cmd.op # "remove" => n.installed + 1 <= n.produced + n.reused
    BY <1>1, <2>3 DEF BatchOK, BatchCounts
  <2>6. QED BY <1>1, <2>1, <2>2, <2>3, <2>4, <2>5, StayMoves DEF Working, At
<1>4. QED BY <1>2, <1>3

LEMMA RenameMoves ==
  ASSUME NixInv, NEW b \in Batches, Rename(b)
  PROVE  NixInv'
<1> DEFINE t == Target(b)
           snap == batch[b].snap
           cmd == batch[b].cmd
           new == [content |-> snap.content, sigs |-> batch[b].edit, ino |-> inodes + 1]
           w == [batch[b] EXCEPT !.pc = "sync", !.renames = batch[b].renames + 1]
<1>1. /\ BatchOK(batch[b]) /\ batch[b].pc = "rename"
      /\ snap \in Records /\ batch[b].todo # {} /\ ~cmd.dry
      /\ cmd.op # "remove" => batch[b].sig \in Signatures /\ batch[b].sig.over = snap.content
      /\ batch[b].edit \in Seq(Signatures) /\ Len(batch[b].edit) <= MaxSigs
      /\ cmd.op # "remove" => batch[b].sig \in Range(batch[b].edit)
      /\ \A s \in Range(snap.sigs) : s.name \notin cmd.names => s \in Range(batch[b].edit)
  BY DEF NixInv, Rename, At, BatchOK, BatchTypeOK, BatchKnows, Editing
<1>2. CASE EndsAs(b, "failed") /\ UNCHANGED <<files, inodes, kept>>
  BY <1>1, <1>2, EndMoves DEF Rename
<1>3. CASE ~(EndsAs(b, "failed") /\ UNCHANGED <<files, inodes, kept>>)
  <2>1. /\ files' = [files EXCEPT ![t] = new] /\ inodes' = inodes + 1 /\ UNCHANGED <<lock, ident>>
        /\ kept' = {k \in kept : ~(k.file = t /\ k.sig.name \in cmd.names)}
                     \cup (IF cmd.op = "remove" THEN {} ELSE {[file |-> t, sig |-> batch[b].sig]})
    BY <1>3 DEF Rename, Cmd
  <2>2. batch' = [batch EXCEPT ![b] = w]
    BY <1>1, <1>3 DEF Rename, NixInv, BatchOK, BatchTypeOK
  <2>3. t \in Files
    BY <1>1, TargetFile
  <2>4. lock = {b}
    BY <1>1 DEF NixInv, Holding, Working
  <2>5. \A k \in kept : k.file = t => k.sig \in Range(snap.sigs) /\ k.sig.over = snap.content
    BY <1>1 DEF NixInv, RenameReady, At
  <2>6. /\ new \in Records /\ Len(new.sigs) <= MaxSigs /\ new.ino = inodes + 1
        /\ new.content = snap.content /\ new.sigs = batch[b].edit /\ inodes \in Nat
    BY <1>1 DEF NixInv, FilesOK, Records
  <2> HIDE DEF t, new
  <2>7. FilesOK'
    BY <2>1, <2>3, <2>6 DEF NixInv, FilesOK, Records
  <2>8. KeptOK'
    <3> SUFFICES ASSUME NEW k \in kept'
                 PROVE  /\ k.file \in Files
                        /\ k.sig \in Range(files'[k.file].sigs) /\ k.sig.over = files'[k.file].content
      BY DEF KeptOK
    <3>1. files'[t] = new /\ \A f \in Files \ {t} : files'[f] = files[f]
      BY <2>1, <2>3 DEF NixInv, FilesOK
    <3>2. CASE k \in kept /\ k.file # t
      BY <3>1, <3>2 DEF NixInv, KeptOK
    <3>3. CASE k \in kept /\ k.file = t
      BY <1>1, <2>1, <2>3, <2>5, <2>6, <3>1, <3>3
    <3>4. CASE k \notin kept
      <4>1. cmd.op # "remove" /\ k = [file |-> t, sig |-> batch[b].sig]
        BY <2>1, <3>4
      <4>2. QED BY <1>1, <2>3, <2>6, <3>1, <4>1
    <3>5. QED BY <3>2, <3>3, <3>4
  <2>9. /\ w.counts = batch[b].counts /\ w.pc = "sync" /\ w.cmd = cmd /\ w.todo = batch[b].todo
        /\ w.end = batch[b].end /\ w.synced = batch[b].synced
        /\ w.renames = batch[b].renames + 1 /\ w.id = batch[b].id
    BY <1>1 DEF BatchOK, BatchTypeOK
  <2>10. BatchTypeOK(w)
    <3>1. BatchTypeOK(batch[b]) /\ batch[b].cmd \in Commands /\ batch[b].renames + 1 \in Nat
      BY <1>1, SMTT(30) DEF BatchOK, BatchTypeOK
    <3>2. QED BY <3>1 DEF BatchTypeOK, BatchPcs
  <2> HIDE DEF w
  <2>11. BatchKnows(w)
    <3>1. w.cmd.op # "remove" => w.id \in Identities
      BY <1>1, <2>9, WorkFacts DEF Working
    <3>2. QED BY <1>1, <2>9, <3>1 DEF BatchKnows, Editing, Working
  <2>12. BatchCounts(w)
    <3>1. /\ w.counts.durable = w.synced /\ w.end = "none"
          /\ w.counts.selected = Cardinality(w.todo) + w.counts.durable + w.counts.unchanged + w.counts.preview
          /\ w.renames = w.counts.durable + 1
      <4>1. batch[b].renames = batch[b].counts.durable + 0 /\ batch[b].counts.durable \in Nat
        BY <1>1, WorkFacts DEF Working, Counters
      <4>2. QED BY <1>1, <2>9, <4>1, WorkFacts DEF Working
    <3>2. /\ w.counts.installed <= w.counts.produced + w.counts.reused
          /\ w.cmd.op # "remove" => w.counts.installed + 1 <= w.counts.produced + w.counts.reused
      BY <1>1, <2>9 DEF BatchOK, BatchCounts
    <3>3. QED BY <1>1, <2>9, <3>1, <3>2 DEF BatchCounts, Working
  <2>13. DOMAIN batch' = Batches /\ batch'[b] = w /\ \A a \in Batches \ {b} : batch'[a] = batch[a]
    BY <2>2 DEF NixInv
  <2>14. ASSUME NEW a \in Batches PROVE BatchOK(batch'[a])
    BY <2>10, <2>11, <2>12, <2>13 DEF NixInv, BatchOK
  <2>15. ASSUME NEW a \in Batches PROVE RenameReady(a)'
    <3>1. CASE a = b
      BY <2>9, <2>13, <3>1 DEF RenameReady, At
    <3>2. CASE a # b
      <4>1. batch[a].pc = "rename" => Holding(batch[a])
        BY DEF NixInv, BatchOK, BatchKnows, Holding, Working, Editing
      <4>2. batch[a].pc # "rename"
        BY <2>4, <3>2, <4>1 DEF NixInv
      <4>3. QED BY <2>13, <3>2, <4>2 DEF RenameReady, At
    <3>3. QED BY <3>1, <3>2
  <2>16. ASSUME NEW a \in Batches, Holding(batch'[a]) PROVE lock' = {a}
    BY <2>1, <2>4, <2>13, <2>16 DEF NixInv
  <2>17. IdentOK'
    BY <2>1 DEF NixInv, IdentOK
  <2>18. QED BY <2>7, <2>8, <2>13, <2>14, <2>15, <2>16, <2>17 DEF NixInv
<1>4. QED BY <1>2, <1>3

LEMMA SyncMoves ==
  ASSUME NixInv, NEW b \in Batches, SyncDir(b)
  PROVE  NixInv'
<1> DEFINE n == batch[b].counts
           cmd == batch[b].cmd
<1>1. /\ BatchOK(batch[b]) /\ batch[b].pc = "sync" /\ n \in Counters /\ batch[b].todo # {} /\ ~cmd.dry
      /\ cmd.op # "remove" => n.installed + 1 <= n.produced + n.reused
      /\ UNCHANGED <<files, inodes, kept, ident>>
  BY SMTT(30) DEF NixInv, SyncDir, At, BatchOK, BatchTypeOK, BatchKnows, BatchCounts, Editing, Counters
<1>2. PICK synced \in BOOLEAN, printed \in BOOLEAN :
        LET done == [batch[b] EXCEPT !.synced = @ + (IF synced THEN 1 ELSE 0), !.counts = Committed(b, synced)]
        IN IF synced /\ printed
           THEN batch' = [batch EXCEPT ![b] = NextTarget(done)] /\ UNCHANGED lock
           ELSE /\ batch' = [batch EXCEPT ![b] = [done EXCEPT !.pc = "ended", !.end = "failed"]]
                /\ lock' = lock \ {b}
  BY DEF SyncDir
<1> DEFINE m == Committed(b, synced)
           more == IF synced THEN 1 ELSE 0
           done == [batch[b] EXCEPT !.synced = batch[b].synced + more, !.counts = m]
<1>3. /\ m \in Counters /\ m.selected = n.selected /\ m.durable = n.durable + more
      /\ m.unchanged = n.unchanged /\ m.preview = n.preview /\ m.produced = n.produced /\ m.reused = n.reused
      /\ m.installed = n.installed + (IF synced /\ cmd.op # "remove" THEN 1 ELSE 0)
  <2>1. CASE ~synced
    <3>1. m = n /\ more = 0
      BY <2>1 DEF Committed, CountedDurable
    <3>2. QED BY <1>1, <2>1, <3>1 DEF Counters
  <2>2. CASE synced
    <3> DEFINE d == Count(n, "durable")
    <3>1. /\ more = 1 /\ d \in Counters
          /\ d.selected = n.selected /\ d.durable = n.durable + 1 /\ d.unchanged = n.unchanged
          /\ d.preview = n.preview /\ d.produced = n.produced /\ d.reused = n.reused
          /\ d.installed = n.installed
      BY <1>1, <2>2, DurableMore
    <3>2. CASE cmd.op = "remove"
      <4>1. m = d
        BY <2>2, <3>2 DEF Committed, CountedDurable, Cmd
      <4>2. n.installed \in Nat /\ n.installed + 0 = n.installed
        BY <1>1 DEF Counters
      <4>3. (IF synced /\ cmd.op # "remove" THEN 1 ELSE 0) = 0
        BY <3>2
      <4> HIDE DEF m, d, n, cmd
      <4>4. m.installed = n.installed + (IF synced /\ cmd.op # "remove" THEN 1 ELSE 0)
        BY <3>1, <4>1, <4>2, <4>3
      <4>5. QED BY <3>1, <4>1, <4>4
    <3>3. CASE cmd.op # "remove"
      <4>1. m = Count(d, "installed")
        BY <2>2, <3>3 DEF Committed, CountedDurable, Cmd
      <4> HIDE DEF d
      <4>2. m = [d EXCEPT !.installed = d.installed + 1]
        BY <3>1, <4>1, Counted
      <4>3. /\ m \in Counters /\ m.selected = d.selected /\ m.durable = d.durable /\ m.unchanged = d.unchanged
            /\ m.preview = d.preview /\ m.produced = d.produced /\ m.reused = d.reused
            /\ m.installed = d.installed + 1
        <5> HIDE DEF m
        <5>1. QED BY <3>1, <4>2 DEF Counters
      <4> HIDE DEF m, n
      <4>4. QED BY <2>2, <3>1, <3>3, <4>3
    <3>4. QED BY <3>2, <3>3
  <2>3. QED BY <2>1, <2>2
<1>4. /\ n.durable = batch[b].synced /\ n.installed <= n.produced + n.reused
      /\ n.selected = Cardinality(batch[b].todo) + n.durable + n.unchanged + n.preview
      /\ batch[b].renames = n.durable + 1 /\ batch[b].end = "none"
      /\ Cardinality(batch[b].todo) \in Nat
  BY <1>1, WorkFacts DEF Working
<1>5. n.selected \in Nat /\ n.durable \in Nat /\ n.unchanged \in Nat /\ n.preview \in Nat
      /\ n.produced \in Nat /\ n.reused \in Nat /\ n.installed \in Nat
  BY <1>1 DEF Counters
<1> HIDE DEF m
<1>6. /\ BatchTypeOK(done) /\ done.counts = m /\ done.synced = batch[b].synced + more /\ done.cmd = cmd
      /\ done.todo = batch[b].todo /\ done.pc = "sync" /\ done.end = "none" /\ done.id = batch[b].id
      /\ done.renames = batch[b].renames
  BY <1>1, <1>3, <1>4, ZenonT(40) DEF BatchOK, BatchTypeOK, Counters
<1>7. m.installed <= m.produced + m.reused
  BY <1>1, <1>3, <1>4, <1>5
<1>8. m.durable = batch[b].synced + more
  BY <1>3, <1>4
<1>9. CASE synced /\ printed
  <2>1. batch' = [batch EXCEPT ![b] = NextTarget(done)] /\ lock' = lock
    BY <1>2, <1>9 DEF m
  <2>2. more = 1
    BY <1>9
  <2> HIDE DEF done, n, more
  <2>3. m.selected + 1 = Cardinality(done.todo) + m.durable + m.unchanged + m.preview
    BY <1>3, <1>4, <1>5, <1>6, <2>2
  <2>4. done.renames = m.durable
    BY <1>3, <1>4, <1>6, <2>2
  <2>5. QED BY <1>1, <1>6, <1>7, <1>8, <2>1, <2>3, <2>4, NextOK DEF Working
<1>10. CASE ~(synced /\ printed)
  <2> DEFINE w == [done EXCEPT !.pc = "ended", !.end = "failed"]
  <2>1. batch' = [batch EXCEPT ![b] = w] /\ lock' = lock \ {b}
    BY <1>2, <1>10 DEF m
  <2> HIDE DEF done, n, more
  <2>2. /\ BatchTypeOK(w) /\ w.pc = "ended" /\ w.end = "failed" /\ w.counts = m /\ w.synced = done.synced
        /\ w.cmd = cmd
    BY <1>6 DEF BatchTypeOK, BatchPcs
  <2> HIDE DEF w
  <2>3. BatchKnows(w)
    BY <2>2 DEF BatchKnows, Editing, Working
  <2>4. BatchCounts(w)
    BY <1>1, <1>6, <1>7, <1>8, <2>2 DEF BatchCounts, Working
  <2>5. ~Holding(w)
    BY <2>2 DEF Holding, Working
  <2>6. QED BY <1>1, <2>1, <2>2, <2>3, <2>4, <2>5, OneMoves DEF BatchOK
<1>11. QED BY <1>9, <1>10


LEMMA FinishMoves ==
  ASSUME NixInv, NEW b \in Batches, Finish(b)
  PROVE  NixInv'
<1> DEFINE w == [batch[b] EXCEPT !.pc = "ended", !.end = "completed"]
           n == batch[b].counts
<1>1. BatchOK(batch[b]) /\ batch[b].pc = "target" /\ batch[b].todo = {}
      /\ UNCHANGED <<files, inodes, kept, ident>>
  BY DEF NixInv, Finish, At
<1>2. batch' = [batch EXCEPT ![b] = w] /\ lock' = lock \ {b}
  <2>1. EndsAs(b, "completed")
    BY DEF Finish
  <2>2. batch' = [batch EXCEPT ![b] = w]
    BY <1>1, <2>1, ZenonT(40) DEF EndsAs, BatchEnds, NixInv, BatchOK, BatchTypeOK
  <2>3. QED BY <2>1, <2>2 DEF EndsAs, BatchEnds
<1>3. BatchTypeOK(w)
  BY <1>1 DEF BatchOK, BatchTypeOK, BatchPcs
<1>4. w.pc = "ended" /\ w.end = "completed" /\ w.counts = n /\ w.synced = batch[b].synced
      /\ w.cmd = batch[b].cmd /\ w.renames = batch[b].renames
  BY <1>1 DEF BatchOK, BatchTypeOK
<1> HIDE DEF w
<1>5. BatchKnows(w)
  BY <1>4 DEF BatchKnows, Working, Editing
<1>6. n.selected = n.durable + n.unchanged + n.preview /\ batch[b].renames = n.durable
  <2>1. /\ n.selected = Cardinality(batch[b].todo) + n.durable + n.unchanged + n.preview
        /\ batch[b].renames = n.durable + 0 /\ n \in Counters
    BY <1>1, WorkFacts DEF Working
  <2>2. Cardinality(batch[b].todo) = 0
    BY <1>1, FS_EmptySet
  <2>3. n.durable \in Nat /\ n.unchanged \in Nat /\ n.preview \in Nat
    BY <2>1 DEF Counters
  <2> HIDE DEF n
  <2>4. QED BY <2>1, <2>2, <2>3
<1>7. BatchCounts(w)
  BY <1>1, <1>4, <1>6 DEF BatchOK, BatchCounts, Working
<1>8. ~Holding(w)
  BY <1>4 DEF Holding, Working
<1>9. QED BY <1>1, <1>2, <1>3, <1>4, <1>5, <1>7, <1>8, OneMoves DEF BatchOK

(* Another program replaces a record; the batches it races notice later.   *)
LEMMA PublishMoves ==
  ASSUME NixInv, NEW f \in Files, NEW content \in Nat, NEW sigs \in Seq(Signatures),
         Len(sigs) <= MaxSigs, Publish(f, content, sigs)
  PROVE  NixInv'
<1> DEFINE new == [content |-> content, sigs |-> sigs, ino |-> inodes + 1]
           w(b) == IF At(b, "rename") /\ Target(b) = f THEN [batch[b] EXCEPT !.late = TRUE] ELSE batch[b]
<1>1. /\ inodes' = inodes + 1 /\ files' = [files EXCEPT ![f] = new]
      /\ kept' = {k \in kept : k.file # f} /\ batch' = [b \in Batches |-> w(b)]
      /\ UNCHANGED <<lock, ident>>
  BY DEF Publish
<1>2. files'[f] = new /\ DOMAIN files' = Files /\ \A g \in Files \ {f} : files'[g] = files[g]
  BY <1>1 DEF NixInv, FilesOK
<1>3. FilesOK'
  BY <1>1, <1>2 DEF NixInv, FilesOK, Records
<1>4. KeptOK'
  BY <1>1, <1>2 DEF NixInv, KeptOK
<1>5. IdentOK'
  BY <1>1 DEF NixInv, IdentOK
<1>6. ASSUME NEW b \in Batches
      PROVE  /\ BatchOK(w(b)) /\ w(b).pc = batch[b].pc /\ w(b).todo = batch[b].todo
             /\ w(b).snap = batch[b].snap /\ w(b).cmd = batch[b].cmd
             /\ (At(b, "rename") /\ Target(b) = f => w(b).late)
             /\ (Target(b) # f => w(b).late = batch[b].late)
  <2>1. BatchTypeOK(batch[b]) /\ BatchKnows(batch[b]) /\ BatchCounts(batch[b])
    BY DEF NixInv, BatchOK
  <2>2. CASE At(b, "rename") /\ Target(b) = f
    <3> DEFINE v == [batch[b] EXCEPT !.late = TRUE]
    <3>1. w(b) = v
      BY <2>2
    <3>2. /\ v.pc = batch[b].pc /\ v.todo = batch[b].todo /\ v.snap = batch[b].snap
          /\ v.cmd = batch[b].cmd /\ v.late = TRUE /\ v.id = batch[b].id /\ v.sig = batch[b].sig
          /\ v.edit = batch[b].edit /\ v.counts = batch[b].counts /\ v.synced = batch[b].synced
          /\ v.renames = batch[b].renames /\ v.end = batch[b].end
      BY <2>1 DEF BatchTypeOK
    <3>3. BatchTypeOK(v)
      BY <2>1 DEF BatchTypeOK
    <3> HIDE DEF v
    <3>4. BatchKnows(v)
      BY <2>1, <3>2 DEF BatchKnows
    <3>5. BatchCounts(v)
      BY <2>1, <3>2 DEF BatchCounts
    <3>6. QED BY <2>2, <3>1, <3>2, <3>3, <3>4, <3>5 DEF BatchOK
  <2>3. CASE ~(At(b, "rename") /\ Target(b) = f)
    <3>1. w(b) = batch[b]
      BY <2>3
    <3>2. QED BY <2>1, <2>3, <3>1 DEF BatchOK
  <2>4. QED BY <2>2, <2>3
<1>7. DOMAIN batch' = Batches /\ \A b \in Batches : batch'[b] = w(b)
  BY <1>1
<1> HIDE DEF w
<1>8. ASSUME NEW b \in Batches PROVE RenameReady(b)'
  <2> SUFFICES ASSUME At(b, "rename")' PROVE RenameReady(b)'
    BY DEF RenameReady
  <2>1. At(b, "rename") /\ Target(b)' = Target(b)
    BY <1>6, <1>7 DEF At, Target
  <2>2. batch[b].todo # {}
    BY <2>1 DEF NixInv, BatchOK, BatchKnows, At, Editing
  <2>3. Target(b) \in Files
    BY <2>2, TargetFile
  <2>4. CASE Target(b) = f
    BY <1>1, <1>6, <1>7, <2>1, <2>4 DEF RenameReady
  <2>5. CASE Target(b) # f
    <3>1. files'[Target(b)] = files[Target(b)] /\ kept' \subseteq kept
      BY <1>1, <1>2, <2>3, <2>5
    <3>2. batch'[b].late = batch[b].late /\ batch'[b].snap = batch[b].snap
      BY <1>6, <1>7, <2>5
    <3>3. QED BY <2>1, <3>1, <3>2 DEF NixInv, RenameReady
  <2>6. QED BY <2>4, <2>5
<1>9. ASSUME NEW b \in Batches, Holding(batch'[b]) PROVE lock' = {b}
  BY <1>1, <1>6, <1>7, <1>9 DEF NixInv, Holding
<1>10. QED BY <1>3, <1>4, <1>5, <1>6, <1>7, <1>8, <1>9 DEF NixInv

LEMMA NixStep == NixInv /\ [NixNext]_nixVars => NixInv'
<1> SUFFICES ASSUME NixInv, [NixNext]_nixVars PROVE NixInv'
  OBVIOUS
<1>1. ASSUME IdentOK', UNCHANGED <<files, lock, batch, inodes, kept>> PROVE NixInv'
  <2>1. /\ files' = files /\ lock' = lock /\ batch' = batch
        /\ inodes' = inodes /\ kept' = kept
    BY <1>1
  <2>2. FilesOK'
    BY <2>1 DEF NixInv, FilesOK
  <2>3. KeptOK'
    BY <2>1 DEF NixInv, KeptOK
  <2>4. ASSUME NEW b \in Batches PROVE RenameReady(b)'
    <3>1. RenameReady(b)
      BY DEF NixInv
    <3>2. QED BY <2>1, <3>1 DEF RenameReady, At, Target
  <2>5. DOMAIN batch' = Batches /\ \A b \in Batches : BatchOK(batch'[b])
    BY <2>1 DEF NixInv
  <2>6. \A b \in Batches : Holding(batch'[b]) => lock' = {b}
    BY <2>1 DEF NixInv
  <2>7. QED BY <1>1, <2>2, <2>3, <2>4, <2>5, <2>6 DEF NixInv
<1>2. ASSUME UNCHANGED <<ident, files, lock, batch, inodes, kept>> PROVE NixInv'
  BY <1>1, <1>2 DEF NixInv, IdentOK
<1>3. ASSUME NEW b \in Batches, BatchStep(b) PROVE NixInv'
  <2>1. ASSUME NEW c \in Commands, Begin(b, c) PROVE NixInv'
    BY <2>1, BeginMoves
  <2>2. CASE Cancel(b)
    BY <2>2, EndMoves DEF Cancel
  <2>3. CASE LockTimeout(b)
    BY <2>3, EndMoves DEF LockTimeout, At
  <2>4. CASE RootRefused(b)
    BY <2>4, EndMoves DEF RootRefused, At
  <2>5. QED
    BY <1>3, <2>1, <2>2, <2>3, <2>4, ConnectMoves, DescribeMoves, LockMoves, SelectMoves, PreviewMoves,
       ReadMoves, SignMoves, EditMoves, CompareMoves, RenameMoves, SyncMoves, FinishMoves, KillMoves
       DEF BatchStep
<1>4. ASSUME NEW c \in Clients, ClientStep(c) PROVE NixInv'
  BY <1>2, <1>4 DEF ClientStep, AcceptClient, ReadRequest, DescribeCall, PinIdentity, SignCheck, SignCall,
     Deadline, cacheVars
<1>5. CASE Enroll
  BY <1>1, <1>5 DEF Enroll, cacheVars, NixInv, IdentOK
<1>6. CASE Reidentify
  BY <1>1, <1>6 DEF Reidentify, cacheVars, NixInv, IdentOK
<1>7. CASE UNCHANGED nixVars
  BY <1>2, <1>7 DEF nixVars
<1>8. QED BY <1>3, <1>4, <1>5, <1>6, <1>7, PublishMoves DEF NixNext

(* For any records, batches and commands, and whatever other programs      *)
(* publish beside them: what a batch renamed into place stays and          *)
(* verifies, a publication seen in time is not overwritten, and the audit  *)
(* record of a batch counts what it did (nix_cache_cli.rs, local_cache.rs).*)
THEOREM CacheKeptHolds == NixSpec => []CacheKept
<1>1. NixInv => CacheKept
  <2> SUFFICES ASSUME NixInv PROVE CacheKept
    OBVIOUS
  <2>1. ASSUME NEW f \in Files PROVE RecordOK(files[f])
    BY DEF NixInv, FilesOK, RecordOK, Records
  <2>2. SignaturesKept
    BY DEF NixInv, KeptOK, SignaturesKept
  <2>3. PublicationKept
    BY DEF NixInv, RenameReady, PublicationKept
  <2>4. BatchAuditExact
    <3> SUFFICES ASSUME NEW b \in Batches, batch[b].end # "none"
                 PROVE  LET n == batch[b].counts IN
                        /\ n.durable = batch[b].synced
                        /\ n.installed <= n.produced + n.reused
                        /\ batch[b].end = "completed" =>
                             /\ n.selected = n.durable + n.unchanged + n.preview
                             /\ batch[b].renames = n.durable
                        /\ Cmd(b).dry => batch[b].renames = 0
      BY DEF BatchAuditExact
    <3>1. BatchCounts(batch[b])
      BY DEF NixInv, BatchOK
    <3>2. batch[b].pc = "ended"
      BY <3>1 DEF BatchCounts
    <3>3. QED BY <3>1, <3>2 DEF BatchCounts, Cmd
  <2>5. QED BY <2>1, <2>2, <2>3, <2>4 DEF CacheKept
<1>2. QED BY <1>1, NixInitOK, NixStep, PTL DEF NixSpec

----------------------------------------------------------------------------
(* Encrypted streams: where the chunks of a plaintext lie. *)

Bytes == Streams \X Nat

LEMMA Multiples ==
  ASSUME NEW z \in Nat, NEW k \in Nat
  PROVE  /\ k * z \in Nat /\ (k + 1) * z = k * z + z /\ (k + 1) * z \in Nat
         /\ \A j \in Nat : k < j => (k + 1) * z <= j * z
<1>1. k * z \in Nat /\ (k + 1) * z = k * z + z
  OBVIOUS
<1>2. ASSUME NEW j \in Nat, k < j PROVE (k + 1) * z <= j * z
  <2>1. PICK d \in Nat : j = (k + 1) + d
    <3>1. j - (k + 1) \in Nat /\ j = (k + 1) + (j - (k + 1))
      BY <1>2
    <3>2. QED BY <3>1
  <2>2. j * z = (k + 1) * z + d * z
    BY <2>1
  <2>3. d * z \in Nat /\ (k + 1) * z \in Nat
    OBVIOUS
  <2>4. QED BY <2>2, <2>3
<1>3. QED BY <1>1, <1>2

LEMMA Sub ==
  ASSUME NEW S, NEW p \in Seq(S), NEW a \in Nat, NEW b \in Nat, b <= Len(p)
  PROVE  /\ SubSeq(p, a + 1, b) \in Seq(S)
         /\ Len(SubSeq(p, a + 1, b)) = IF a <= b THEN b - a ELSE 0
         /\ \A i \in 1..(b - a) : SubSeq(p, a + 1, b)[i] = p[a + i]
<1>1. \A i \in (a + 1)..b : p[i] \in S
  BY ElementOfSeq
<1>2. /\ SubSeq(p, a + 1, b) \in Seq(S)
      /\ Len(SubSeq(p, a + 1, b)) = IF a + 1 <= b THEN b - (a + 1) + 1 ELSE 0
      /\ \A i \in 1..(b - (a + 1) + 1) : SubSeq(p, a + 1, b)[i] = p[(a + 1) + i - 1]
  BY <1>1, SubSeqProperties
<1>3. QED BY <1>2

(* The part of p from a on, its first z elements and the rest. *)
LEMMA Cuts ==
  ASSUME NEW S, NEW p \in Seq(S), NEW a \in Nat, NEW z \in Nat, a <= Len(p)
  PROVE  LET left == SubSeq(p, a + 1, Len(p))
             e == IF Len(p) <= a + z THEN Len(p) ELSE a + z
         IN /\ FinalChunk(left, z) <=> Len(p) <= a + z
            /\ Chunk(left, z) = SubSeq(p, a + 1, e)
            /\ Chunk(left, z) \in Seq(S) /\ Len(Chunk(left, z)) = e - a
            /\ Len(p) > a + z => Rest(left, z) = SubSeq(p, (a + z) + 1, Len(p))
            /\ SubSeq(p, 1, a) \o Chunk(left, z) = SubSeq(p, 1, e)
<1> DEFINE left == SubSeq(p, a + 1, Len(p))
           e == IF Len(p) <= a + z THEN Len(p) ELSE a + z
<1>1. /\ Len(p) \in Nat /\ e \in Nat /\ e <= Len(p) /\ a <= e /\ a + z \in Nat
  OBVIOUS
<1>2. /\ left \in Seq(S) /\ Len(left) = Len(p) - a
      /\ \A i \in 1..(Len(p) - a) : left[i] = p[a + i]
  BY <1>1, Sub
<1>3. /\ SubSeq(p, a + 1, e) \in Seq(S) /\ Len(SubSeq(p, a + 1, e)) = e - a
      /\ \A i \in 1..(e - a) : SubSeq(p, a + 1, e)[i] = p[a + i]
  BY <1>1, Sub
<1> HIDE DEF left
<1>4. FinalChunk(left, z) <=> Len(p) <= a + z
  BY <1>1, <1>2 DEF FinalChunk
<1>5. Chunk(left, z) = SubSeq(p, a + 1, e)
  <2>1. CASE Len(p) <= a + z
    <3>1. e = Len(p) /\ Len(left) <= z
      BY <1>1, <1>2, <2>1
    <3>2. QED BY <3>1 DEF Chunk, left
  <2>2. CASE ~(Len(p) <= a + z)
    <3>1. e = a + z /\ ~(Len(left) <= z) /\ z <= Len(left) /\ e - a = z
      BY <1>1, <1>2, <2>2
    <3>2. /\ SubSeq(left, 0 + 1, z) \in Seq(S) /\ Len(SubSeq(left, 0 + 1, z)) = z
          /\ \A i \in 1..z : SubSeq(left, 0 + 1, z)[i] = left[i]
      <4>1. /\ SubSeq(left, 0 + 1, z) \in Seq(S)
            /\ Len(SubSeq(left, 0 + 1, z)) = IF 0 <= z THEN z - 0 ELSE 0
            /\ \A i \in 1..(z - 0) : SubSeq(left, 0 + 1, z)[i] = left[0 + i]
        BY <1>2, <3>1, Sub
      <4>2. QED BY <4>1
    <3>3. Chunk(left, z) = SubSeq(left, 0 + 1, z)
      BY <3>1 DEF Chunk
    <3>4. \A i \in 1..z : SubSeq(left, 0 + 1, z)[i] = SubSeq(p, a + 1, e)[i]
      BY <1>1, <1>2, <1>3, <3>1, <3>2
    <3>5. QED BY <1>3, <3>1, <3>2, <3>3, <3>4, SeqEqual
  <2>3. QED BY <2>1, <2>2
<1>6. ASSUME Len(p) > a + z PROVE Rest(left, z) = SubSeq(p, (a + z) + 1, Len(p))
  <2> DEFINE r == SubSeq(left, z + 1, Len(left))
             q == SubSeq(p, (a + z) + 1, Len(p))
  <2>1. z <= Len(left) /\ Len(left) \in Nat /\ Len(left) - z = Len(p) - (a + z)
    BY <1>1, <1>2, <1>6
  <2>2. /\ r \in Seq(S) /\ Len(r) = Len(left) - z /\ \A i \in 1..(Len(left) - z) : r[i] = left[z + i]
    BY <1>2, <2>1, Sub
  <2>3. /\ q \in Seq(S) /\ Len(q) = Len(p) - (a + z)
        /\ \A i \in 1..(Len(p) - (a + z)) : q[i] = p[(a + z) + i]
    BY <1>1, <1>6, Sub
  <2> HIDE DEF r, q
  <2>4. \A i \in 1..Len(r) : r[i] = q[i]
    <3> TAKE i \in 1..Len(r)
    <3>1. z + i \in 1..(Len(p) - a) /\ a + (z + i) = (a + z) + i
      BY <1>1, <2>1, <2>2, SMTT(30)
    <3>2. QED BY <1>2, <2>1, <2>2, <2>3, <3>1
  <2>5. r = q
    BY <2>1, <2>2, <2>3, <2>4, SeqEqual
  <2>6. QED BY <2>5 DEF Rest, r, q
<1>7. SubSeq(p, 1, a) \o SubSeq(p, a + 1, e) = SubSeq(p, 1, e)
  <2> DEFINE h == SubSeq(p, 0 + 1, a)
             c == SubSeq(p, a + 1, e)
             q == SubSeq(p, 0 + 1, e)
  <2>1. h \in Seq(S) /\ Len(h) = a /\ \A i \in 1..a : h[i] = p[i]
    <3>1. h \in Seq(S) /\ Len(h) = (IF 0 <= a THEN a - 0 ELSE 0) /\ \A i \in 1..(a - 0) : h[i] = p[0 + i]
      BY <1>1, Sub
    <3> HIDE DEF h
    <3>2. QED BY <3>1
  <2>2. q \in Seq(S) /\ Len(q) = e /\ \A i \in 1..e : q[i] = p[i]
    <3>1. q \in Seq(S) /\ Len(q) = (IF 0 <= e THEN e - 0 ELSE 0) /\ \A i \in 1..(e - 0) : q[i] = p[0 + i]
      BY <1>1, Sub
    <3> HIDE DEF q, e
    <3>2. QED BY <1>1, <3>1
  <2>3. c \in Seq(S) /\ Len(c) = e - a /\ \A i \in 1..(e - a) : c[i] = p[a + i]
    BY <1>3
  <2> HIDE DEF h, c, q, e
  <2>4. /\ h \o c \in Seq(S) /\ Len(h \o c) = e
        /\ \A i \in 1..e : (h \o c)[i] = IF i <= a THEN h[i] ELSE c[i - a]
    <3>1. /\ h \o c \in Seq(S) /\ Len(h \o c) = Len(h) + Len(c)
          /\ \A i \in 1..(Len(h) + Len(c)) : (h \o c)[i] = IF i <= Len(h) THEN h[i] ELSE c[i - Len(h)]
      BY <2>1, <2>3, ConcatProperties, ZenonT(40)
    <3>2. Len(h) + Len(c) = e
      BY <1>1, <2>1, <2>3
    <3>3. QED BY <2>1, <3>1, <3>2
  <2>5. \A i \in 1..e : (h \o c)[i] = q[i]
    <3> TAKE i \in 1..e
    <3>1. CASE i <= a
      BY <1>1, <2>1, <2>2, <2>4, <3>1
    <3>2. CASE ~(i <= a)
      <4>1. i - a \in 1..(e - a) /\ a + (i - a) = i
        BY <1>1, <3>2
      <4>2. QED BY <2>2, <2>3, <2>4, <3>2, <4>1
    <3>3. QED BY <3>1, <3>2
  <2>6. h \o c = q
    BY <2>2, <2>4, <2>5, SeqEqual
  <2>7. 0 + 1 = 1
    OBVIOUS
  <2>8. h = SubSeq(p, 1, a) /\ q = SubSeq(p, 1, e)
    BY <2>7 DEF h, q
  <2>9. QED BY <2>6, <2>8 DEF c
<1>8. QED BY <1>3, <1>4, <1>5, <1>6, <1>7 DEF left

(* Chunk k of a plaintext, as chunks of size z cut it, and whether it is   *)
(* the last.                                                               *)
LastPiece(p, z, k) == Len(p) <= (k + 1) * z
PieceEnd(p, z, k) == IF LastPiece(p, z, k) THEN Len(p) ELSE (k + 1) * z
Piece(p, z, k) == SubSeq(p, k * z + 1, PieceEnd(p, z, k))
Began(p, z, k) == k = 0 \/ k * z < Len(p)

LEMMA Pieces ==
  ASSUME NEW S, NEW p \in Seq(S), NEW z \in Nat, NEW k \in Nat, Began(p, z, k)
  PROVE  LET left == SubSeq(p, k * z + 1, Len(p)) IN
         /\ FinalChunk(left, z) <=> LastPiece(p, z, k)
         /\ Chunk(left, z) = Piece(p, z, k)
         /\ Piece(p, z, k) \in Seq(S) /\ Len(Piece(p, z, k)) <= z
         /\ ~LastPiece(p, z, k) =>
              /\ Len(Piece(p, z, k)) = z
              /\ Rest(left, z) = SubSeq(p, (k + 1) * z + 1, Len(p))
         /\ SubSeq(p, 1, k * z) \o Piece(p, z, k) = SubSeq(p, 1, PieceEnd(p, z, k))
<1> DEFINE a == k * z
           left == SubSeq(p, a + 1, Len(p))
           e == IF Len(p) <= a + z THEN Len(p) ELSE a + z
<1>1. a \in Nat /\ (k + 1) * z = a + z /\ a <= Len(p) /\ Len(p) \in Nat
  BY Multiples DEF Began
<1>2. PieceEnd(p, z, k) = e /\ (LastPiece(p, z, k) <=> Len(p) <= a + z)
  BY <1>1 DEF PieceEnd, LastPiece
<1>3. Piece(p, z, k) = SubSeq(p, a + 1, e)
  BY <1>2 DEF Piece
<1> HIDE DEF a
<1>4. /\ FinalChunk(left, z) <=> Len(p) <= a + z
      /\ Chunk(left, z) = SubSeq(p, a + 1, e)
      /\ Chunk(left, z) \in Seq(S) /\ Len(Chunk(left, z)) = e - a
      /\ Len(p) > a + z => Rest(left, z) = SubSeq(p, (a + z) + 1, Len(p))
      /\ SubSeq(p, 1, a) \o Chunk(left, z) = SubSeq(p, 1, e)
  BY <1>1, Cuts
<1>5. e - a <= z /\ (~(Len(p) <= a + z) => e - a = z)
  BY <1>1
<1> HIDE DEF e, left
<1>6. Len(p) > a + z <=> ~(Len(p) <= a + z)
  BY <1>1
<1>7. QED BY <1>1, <1>2, <1>3, <1>4, <1>5, <1>6 DEF a, left

----------------------------------------------------------------------------
(* Encrypted streams: the invariant. *)

(* The record of chunk i that the writer of stream s makes. *)
SealedBy(w, s, i) ==
  AeadSeal(w.header, CekOf(w.header.suite, s), i, LastPiece(w.plain, w.header.size, i),
           Piece(w.plain, w.header.size, i))
(* Every record made so far. *)
Genuine ==
  {SealedBy(writer[p[1]], p[1], p[2]) :
     p \in {q \in Streams \X Nat : writer[q[1]].pc # "idle" /\ q[2] < writer[q[1]].index}}

(* A writer that has not sealed its last chunk has more to seal. *)
WriterOK(w, s) ==
  /\ DOMAIN w = {"pc", "header", "plain", "left", "index"}
  /\ w.pc \in {"idle", "writing", "done", "stopped"} /\ w.index \in Nat
  /\ w.pc = "idle" => w = NoWriter
  /\ w.pc # "idle" =>
       /\ w.header.id = s /\ w.header.size \in Nat \ {0} /\ w.plain \in Seq(Bytes)
       /\ w.pc \in {"writing", "stopped"} => Began(w.plain, w.header.size, w.index)
       /\ w.pc = "writing" =>
            w.left = SubSeq(w.plain, w.index * w.header.size + 1, Len(w.plain))
       /\ w.pc = "done" =>
            /\ w.index # 0 /\ LastPiece(w.plain, w.header.size, w.index - 1)
            /\ Began(w.plain, w.header.size, w.index - 1)

FileOK(f) == DOMAIN f = {"header", "env", "records", "cut"} /\ f.records \in Seq(Genuine)

(* What a writer has stored and nobody has altered. *)
Untouched(s) ==
  /\ stored[s].header = writer[s].header
  /\ IsKem(stored[s].header.suite) /\ writer[s].pc # "idle" => stored[s].env.cek = s
  /\ Len(stored[s].records) = writer[s].index
  /\ \A i \in 1..writer[s].index : stored[s].records[i] = SealedBy(writer[s], s, i - 1)
  /\ writer[s].pc # "stopped" => ~stored[s].cut

(* What a reader has given out, by what it has opened. *)
ReadingOK(w) ==
  /\ w.pc # "idle" /\ reader.header.size = w.header.size
  /\ reader.index * w.header.size < Len(w.plain)
  /\ reader.out = SubSeq(w.plain, 1, reader.index * w.header.size)
CleanOK(w) ==
  /\ reader.pc \in {"reading", "ok"} /\ w.pc = "done" /\ reader.header = w.header
  /\ reader.cek = CekOf(w.header.suite, reader.of) /\ reader.at = reader.index + 1
  /\ reader.pc = "reading" => reader.at <= w.index
ReaderOK ==
  /\ DOMAIN reader = {"pc", "of", "header", "cek", "at", "index", "out", "clean"}
  /\ reader.pc \in {"idle", "reading", "ok", "failed"}
  /\ reader.at \in Nat \ {0} /\ reader.index \in Nat /\ reader.clean \in BOOLEAN
  /\ reader.pc = "idle" => reader = NoReader
  /\ reader.out # <<>> => \E s \in Streams : writer[s].pc # "idle" /\ IsPrefix(reader.out, writer[s].plain)
  /\ reader.pc = "reading" =>
       /\ reader.of \in Streams
       /\ IF reader.index = 0 THEN reader.out = <<>>
          ELSE reader.header.id \in Streams /\ ReadingOK(writer[reader.header.id])
  /\ reader.pc = "ok" =>
       /\ reader.header.id \in Streams /\ writer[reader.header.id].pc = "done"
       /\ reader.out = writer[reader.header.id].plain
  /\ reader.clean /\ altered = 0 => reader.of \in Streams /\ CleanOK(writer[reader.of])

StreamInv ==
  /\ DOMAIN writer = Streams /\ DOMAIN stored = Streams /\ altered \in Nat
  /\ \A s \in Streams : WriterOK(writer[s], s) /\ FileOK(stored[s])
  /\ altered = 0 => \A s \in Streams : Untouched(s)
  /\ ReaderOK

LEMMA StreamInitOK == StreamInit => StreamInv
<1> SUFFICES ASSUME StreamInit PROVE StreamInv
  OBVIOUS
<1>1. /\ writer = [s \in Streams |-> NoWriter] /\ stored = [s \in Streams |-> NoFile]
      /\ reader = NoReader /\ altered = 0
  BY DEF StreamInit
<1>2. ASSUME NEW s \in Streams PROVE WriterOK(writer[s], s) /\ FileOK(stored[s]) /\ Untouched(s)
  <2>1. writer[s] = NoWriter /\ stored[s] = NoFile
    BY <1>1
  <2>2. WriterOK(NoWriter, s)
    BY DEF WriterOK, NoWriter
  <2>3. FileOK(NoFile)
    BY DEF FileOK, NoFile
  <2>4. Untouched(s)
    BY <2>1 DEF NoWriter, NoFile, Untouched
  <2>5. QED BY <2>1, <2>2, <2>3, <2>4
<1>3. ReaderOK
  BY <1>1 DEF ReaderOK, NoReader
<1>4. QED BY <1>1, <1>2, <1>3 DEF StreamInv

(* While a writer that has begun keeps its header, its plaintext and what  *)
(* it has sealed, so does everything that depends on it.                   *)
Continues ==
  \A s \in Streams : writer[s].pc # "idle" =>
    /\ writer'[s].pc # "idle" /\ writer'[s].header = writer[s].header
    /\ writer'[s].plain = writer[s].plain /\ writer[s].index <= writer'[s].index
    /\ writer'[s].index \in Nat
    /\ writer[s].pc = "done" => writer'[s] = writer[s]

LEMMA GenuineGrows ==
  ASSUME StreamInv, Continues
  PROVE  Genuine \subseteq Genuine'
<1> SUFFICES ASSUME NEW r \in Genuine PROVE r \in Genuine'
  OBVIOUS
<1>1. PICK p \in Streams \X Nat :
         /\ writer[p[1]].pc # "idle" /\ p[2] < writer[p[1]].index /\ r = SealedBy(writer[p[1]], p[1], p[2])
  BY DEF Genuine
<1>2. /\ writer'[p[1]].pc # "idle" /\ writer'[p[1]].header = writer[p[1]].header
      /\ writer'[p[1]].plain = writer[p[1]].plain
      /\ p[2] \in Nat /\ writer[p[1]].index \in Nat /\ writer'[p[1]].index \in Nat
      /\ writer[p[1]].index <= writer'[p[1]].index
  BY <1>1 DEF Continues, StreamInv, WriterOK
<1>3. p[2] < writer'[p[1]].index
  BY <1>1, <1>2
<1>4. r = SealedBy(writer'[p[1]], p[1], p[2])
  BY <1>1, <1>2 DEF SealedBy
<1>5. QED BY <1>2, <1>3, <1>4 DEF Genuine

LEMMA ReaderStays ==
  ASSUME StreamInv, Continues, UNCHANGED reader, altered' \in Nat, altered' = 0 => altered = 0
  PROVE  ReaderOK'
<1>1. ReaderOK
  BY DEF StreamInv
<1>2. ASSUME reader.out # <<>>
      PROVE \E s \in Streams : writer'[s].pc # "idle" /\ IsPrefix(reader.out, writer'[s].plain)
  <2>1. PICK s \in Streams : writer[s].pc # "idle" /\ IsPrefix(reader.out, writer[s].plain)
    BY <1>1, <1>2 DEF ReaderOK
  <2>2. QED BY <2>1 DEF Continues
<1>3. ASSUME reader.pc = "reading"
      PROVE  /\ reader.of \in Streams
             /\ IF reader.index = 0 THEN reader.out = <<>>
                ELSE reader.header.id \in Streams /\ ReadingOK(writer[reader.header.id])'
  BY <1>1, <1>3 DEF ReaderOK, ReadingOK, Continues
<1>4. ASSUME reader.pc = "ok"
      PROVE  /\ reader.header.id \in Streams /\ writer'[reader.header.id].pc = "done"
             /\ reader.out = writer'[reader.header.id].plain
  BY <1>1, <1>4 DEF ReaderOK, Continues
<1>5. ASSUME reader.clean, altered' = 0
      PROVE  reader.of \in Streams /\ CleanOK(writer[reader.of])'
  BY <1>1, <1>5 DEF ReaderOK, CleanOK, Continues
<1>6. QED BY <1>1, <1>2, <1>3, <1>4, <1>5 DEF ReaderOK

LEMMA EncryptOK ==
  ASSUME StreamInv, NEW s \in Streams, NEW suite \in Suites, NEW size \in ChunkSizes, NEW n \in Nat, NEW to,
         Encrypt(s, suite, size, n, to)
  PROVE  StreamInv'
<1> DEFINE h == StreamHeader(suite, size, s)
           f == [NoFile EXCEPT !.header = h, !.env = IF IsKem(suite) THEN WrapCek(h, to, s) ELSE NoKey]
           w == [pc |-> "writing", header |-> h, plain |-> Plaintext(s, n), left |-> Plaintext(s, n), index |-> 0]
<1>1. /\ writer[s].pc = "idle" /\ size \in 1..MaxChunk
      /\ stored' = [stored EXCEPT ![s] = f] /\ writer' = [writer EXCEPT ![s] = w]
      /\ UNCHANGED <<reader, altered>>
  BY DEF Encrypt, ValidChunkSize
<1>2. /\ DOMAIN writer' = Streams /\ writer'[s] = w /\ \A t \in Streams \ {s} : writer'[t] = writer[t]
      /\ DOMAIN stored' = Streams /\ stored'[s] = f /\ \A t \in Streams \ {s} : stored'[t] = stored[t]
  BY <1>1 DEF StreamInv
<1>3. /\ h.suite = suite /\ h.size = size /\ h.id = s
  BY DEF StreamHeader
<1>4. /\ DOMAIN f = {"header", "env", "records", "cut"} /\ f.header = h /\ f.records = <<>> /\ f.cut = FALSE
      /\ IsKem(suite) => f.env.cek = s
  BY DEF NoFile, WrapCek
<1>5. Continues
  BY <1>1, <1>2 DEF Continues, StreamInv, WriterOK
<1>6. WriterOK(w, s)
  <2> DEFINE p == Plaintext(s, n)
  <2>1. p \in Seq(Bytes)
    BY DEF Plaintext, Bytes
  <2>2. size \in Nat \ {0}
    BY <1>1, StreamingAssumption
  <2>3. SubSeq(p, 0 * size + 1, Len(p)) = p
    <3>1. 0 * size + 1 = 1
      BY <2>2
    <3>2. SubSeq(p, 1, Len(p)) = p
      BY <2>1, SubSeqFull
    <3>3. QED BY <3>1, <3>2
  <2> HIDE DEF p, h
  <2>4. /\ DOMAIN w = {"pc", "header", "plain", "left", "index"} /\ w.pc = "writing" /\ w.header = h
        /\ w.plain = p /\ w.left = p /\ w.index = 0
    BY DEF p
  <2> HIDE DEF w
  <2>5. QED BY <1>3, <2>1, <2>2, <2>3, <2>4 DEF WriterOK, Began
<1> HIDE DEF f
<1>7. Genuine \subseteq Genuine'
  BY <1>5, GenuineGrows
<1>8. ASSUME NEW t \in Streams PROVE WriterOK(writer'[t], t) /\ FileOK(stored[t])' 
  <2>1. WriterOK(writer'[t], t)
    BY <1>2, <1>6 DEF StreamInv
  <2>2. CASE t = s
    BY <1>2, <1>4, <2>1, <2>2, EmptySeq DEF FileOK
  <2>3. CASE t # s
    BY <1>2, <1>7, <2>1, <2>3 DEF StreamInv, FileOK
  <2>4. QED BY <2>2, <2>3
<1>9. ASSUME altered' = 0, NEW t \in Streams PROVE Untouched(t)'
  <2>1. CASE t = s
    BY <1>2, <1>3, <1>4, <2>1 DEF Untouched
  <2>2. CASE t # s
    BY <1>1, <1>2, <1>9, <2>2 DEF StreamInv, Untouched
  <2>3. QED BY <2>1, <2>2
<1>10. altered' \in Nat /\ altered' = altered
  BY <1>1 DEF StreamInv
<1>11. ReaderOK'
  BY <1>1, <1>5, <1>10, ReaderStays
<1>12. QED BY <1>2, <1>8, <1>9, <1>10, <1>11 DEF StreamInv

LEMMA WriteOK ==
  ASSUME StreamInv, NEW s \in Streams, WriteChunk(s)
  PROVE  StreamInv'
<1> DEFINE w == writer[s]
           z == w.header.size
           k == w.index
           final == FinalChunk(w.left, z)
           r == SealedBy(w, s, k)
           v == [w EXCEPT !.left = Rest(w.left, z), !.index = k + 1, !.pc = IF final THEN "done" ELSE w.pc]
           f == [stored[s] EXCEPT !.records = Append(stored[s].records, r)]
<1>1. /\ w.pc = "writing" /\ WriterOK(w, s) /\ FileOK(stored[s]) /\ k \in Nat /\ z \in Nat /\ z # 0
      /\ w.plain \in Seq(Bytes) /\ Began(w.plain, z, k)
      /\ w.left = SubSeq(w.plain, k * z + 1, Len(w.plain)) /\ w.header.id = s
  BY DEF StreamInv, WriteChunk, WriterOK
<1>2. /\ final <=> LastPiece(w.plain, z, k)
      /\ Chunk(w.left, z) = Piece(w.plain, z, k)
      /\ ~LastPiece(w.plain, z, k) => Rest(w.left, z) = SubSeq(w.plain, (k + 1) * z + 1, Len(w.plain))
  <2> DEFINE p == w.plain
  <2> HIDE DEF z, k, p
  <2>1. p \in Seq(Bytes) /\ w.left = SubSeq(p, k * z + 1, Len(p)) /\ Began(p, z, k)
    BY <1>1 DEF p
  <2>2. LET left == SubSeq(p, k * z + 1, Len(p)) IN
        /\ FinalChunk(left, z) <=> LastPiece(p, z, k)
        /\ Chunk(left, z) = Piece(p, z, k)
        /\ ~LastPiece(p, z, k) => Rest(left, z) = SubSeq(p, (k + 1) * z + 1, Len(p))
    BY <1>1, <2>1, Pieces
  <2>3. QED BY <2>1, <2>2 DEF p
<1>3. AeadSeal(w.header, CekOf(w.header.suite, s), k, final, Chunk(w.left, z)) = r
  <2>1. final = LastPiece(w.plain, z, k)
    BY <1>2 DEF FinalChunk, LastPiece
  <2>2. QED BY <1>2, <2>1 DEF SealedBy
<1>4. writer' = [writer EXCEPT ![s] = v] /\ stored' = [stored EXCEPT ![s] = f] /\ UNCHANGED <<reader, altered>>
  <2>1. /\ stored' = [stored EXCEPT ![s].records =
              Append(@, AeadSeal(w.header, CekOf(w.header.suite, s), w.index, final, Chunk(w.left, z)))]
        /\ writer' = [writer EXCEPT ![s].left = Rest(@, z), ![s].index = @ + 1,
                                    ![s].pc = IF final THEN "done" ELSE @]
        /\ UNCHANGED <<reader, altered>>
    BY DEF WriteChunk
  <2>2. stored' = [stored EXCEPT ![s] = f]
    BY <1>3, <2>1
  <2>3. writer' = [writer EXCEPT ![s] = v]
    BY <1>1, <2>1 DEF StreamInv, WriterOK
  <2>4. QED BY <2>1, <2>2, <2>3
<1>5. /\ DOMAIN writer' = Streams /\ writer'[s] = v /\ \A t \in Streams \ {s} : writer'[t] = writer[t]
      /\ DOMAIN stored' = Streams /\ stored'[s] = f /\ \A t \in Streams \ {s} : stored'[t] = stored[t]
  BY <1>4 DEF StreamInv
<1>6. /\ DOMAIN v = {"pc", "header", "plain", "left", "index"} /\ v.header = w.header /\ v.plain = w.plain
      /\ v.index = k + 1 /\ v.pc = (IF final THEN "done" ELSE "writing") /\ v.left = Rest(w.left, z)
  BY <1>1 DEF WriterOK
<1>7. /\ DOMAIN f = {"header", "env", "records", "cut"} /\ f.header = stored[s].header
      /\ f.env = stored[s].env /\ f.cut = stored[s].cut /\ f.records = Append(stored[s].records, r)
  BY <1>1 DEF FileOK
<1> HIDE DEF v, f
<1>8. WriterOK(v, s)
  <2> HIDE DEF final, k, z
  <2>1. (k + 1) * z = k * z + z /\ k * z \in Nat /\ (k + 1) - 1 = k
    BY <1>1, Multiples
  <2>2. ~final => Began(w.plain, z, k + 1)
    <3>1. Len(w.plain) \in Nat
      BY <1>1
    <3>2. (k + 1) * z \in Nat
      BY <1>1, <2>1
    <3>3. ~final => ~(Len(w.plain) <= (k + 1) * z)
      BY <1>2 DEF LastPiece
    <3>4. ~final => (k + 1) * z < Len(w.plain)
      BY <3>1, <3>2, <3>3
    <3>5. QED BY <3>4 DEF Began
  <2>3. CASE final
    BY <1>1, <1>2, <1>6, <2>1, <2>3, SMTT(30) DEF WriterOK, k, z
  <2>4. CASE ~final
    BY <1>1, <1>2, <1>6, <2>2, <2>4 DEF WriterOK, k, z
  <2>5. QED BY <2>3, <2>4
<1>9. Continues
  <2> SUFFICES ASSUME NEW t \in Streams, writer[t].pc # "idle"
               PROVE  /\ writer'[t].pc # "idle" /\ writer'[t].header = writer[t].header
                      /\ writer'[t].plain = writer[t].plain /\ writer[t].index <= writer'[t].index
                      /\ writer'[t].index \in Nat
                      /\ writer[t].pc = "done" => writer'[t] = writer[t]
    BY DEF Continues
  <2>1. CASE t = s
    BY <1>1, <1>5, <1>6, <2>1
  <2>2. CASE t # s
    BY <1>5, <2>2 DEF StreamInv, WriterOK
  <2>3. QED BY <2>1, <2>2
<1>10. Genuine \subseteq Genuine'
  BY <1>9, GenuineGrows
<1>11. r \in Genuine'
  <2>1. r = SealedBy(writer'[s], s, k)
    BY <1>5, <1>6 DEF SealedBy
  <2>2. writer'[s].pc # "idle" /\ k < writer'[s].index
    BY <1>1, <1>5, <1>6
  <2> HIDE DEF r, k
  <2>3. <<s, k>> \in Streams \X Nat /\ <<s, k>>[1] = s /\ <<s, k>>[2] = k
    BY <1>1
  <2>4. QED BY <2>1, <2>2, <2>3 DEF Genuine
<1> HIDE DEF r
<1>12. stored[s].records \in Seq(Genuine') /\ f.records \in Seq(Genuine')
       /\ Len(f.records) = Len(stored[s].records) + 1
       /\ (\A i \in 1..Len(stored[s].records) : f.records[i] = stored[s].records[i])
       /\ f.records[Len(stored[s].records) + 1] = r
  <2>1. stored[s].records \in Seq(Genuine')
    BY <1>1, <1>10 DEF FileOK
  <2>2. QED BY <1>7, <1>11, <2>1, AppendProperties
<1>13. ASSUME NEW t \in Streams PROVE WriterOK(writer'[t], t) /\ FileOK(stored[t])'
  <2>1. WriterOK(writer'[t], t)
    BY <1>5, <1>8 DEF StreamInv
  <2>2. CASE t = s
    BY <1>5, <1>7, <1>12, <2>1, <2>2 DEF FileOK
  <2>3. CASE t # s
    BY <1>5, <1>10, <2>1, <2>3 DEF StreamInv, FileOK
  <2>4. QED BY <2>2, <2>3
<1>14. ASSUME altered' = 0, NEW t \in Streams PROVE Untouched(t)'
  <2>1. Untouched(t)
    BY <1>4, <1>14 DEF StreamInv
  <2>2. CASE t # s
    BY <1>5, <2>1, <2>2 DEF Untouched
  <2>3. CASE t = s
    <3>1. Len(f.records) = v.index
      BY <1>6, <1>12, <2>1, <2>3 DEF Untouched
    <3>2. ASSUME NEW i \in 1..v.index PROVE f.records[i] = SealedBy(v, s, i - 1)
      <4>1. SealedBy(v, s, i - 1) = SealedBy(w, s, i - 1)
        BY <1>6 DEF SealedBy
      <4>2. CASE i = k + 1
        <5>1. i - 1 = k
          BY <1>1, <4>2
        <5>2. f.records[i] = r
          BY <1>12, <2>1, <2>3, <4>2 DEF Untouched
        <5>3. QED BY <4>1, <5>1, <5>2 DEF r
      <4>3. CASE i # k + 1
        <5>1. i \in 1..k
          BY <1>1, <1>6, <4>3
        <5>2. f.records[i] = stored[s].records[i]
          BY <1>12, <2>1, <2>3, <5>1 DEF Untouched
        <5>3. QED BY <2>1, <2>3, <4>1, <5>1, <5>2 DEF Untouched
      <4>4. QED BY <4>2, <4>3
    <3>3. QED BY <1>1, <1>5, <1>6, <1>7, <2>1, <2>3, <3>1, <3>2 DEF Untouched
  <2>4. QED BY <2>2, <2>3
<1>15. altered' \in Nat /\ altered' = altered
  BY <1>4 DEF StreamInv
<1>16. ReaderOK'
  BY <1>4, <1>9, <1>15, ReaderStays
<1>17. QED BY <1>5, <1>13, <1>14, <1>15, <1>16 DEF StreamInv

LEMMA StopOK ==
  ASSUME StreamInv, NEW s \in Streams, WriterStops(s)
  PROVE  StreamInv'
<1> DEFINE v == [writer[s] EXCEPT !.pc = "stopped"]
<1>1. /\ writer[s].pc = "writing" /\ WriterOK(writer[s], s) /\ UNCHANGED <<reader, altered>>
      /\ DOMAIN stored' = Streams
      /\ \A t \in Streams : /\ DOMAIN stored'[t] = DOMAIN stored[t] /\ stored'[t].records = stored[t].records
                            /\ stored'[t].header = stored[t].header /\ stored'[t].env = stored[t].env
                            /\ (t # s => stored'[t] = stored[t])
  BY DEF StreamInv, WriterStops, FileOK
<1>2. DOMAIN writer' = Streams /\ writer'[s] = v /\ \A t \in Streams \ {s} : writer'[t] = writer[t]
  BY DEF WriterStops, StreamInv
<1>3. /\ v.pc = "stopped" /\ v.header = writer[s].header /\ v.plain = writer[s].plain
      /\ v.index = writer[s].index /\ DOMAIN v = {"pc", "header", "plain", "left", "index"}
  BY <1>1 DEF WriterOK
<1> HIDE DEF v
<1>4. WriterOK(v, s)
  BY <1>1, <1>3 DEF WriterOK
<1>5. Continues
  BY <1>1, <1>2, <1>3 DEF Continues, StreamInv, WriterOK
<1>6. Genuine \subseteq Genuine'
  BY <1>5, GenuineGrows
<1>7. ASSUME NEW t \in Streams PROVE WriterOK(writer'[t], t) /\ FileOK(stored[t])'
  BY <1>1, <1>2, <1>4, <1>6 DEF StreamInv, FileOK
<1>8. ASSUME altered' = 0, NEW t \in Streams PROVE Untouched(t)'
  <2>1. Untouched(t)
    BY <1>1, <1>8 DEF StreamInv
  <2>2. CASE t # s
    BY <1>1, <1>2, <2>1, <2>2 DEF Untouched
  <2>3. CASE t = s
    BY <1>1, <1>2, <1>3, <2>1, <2>3 DEF Untouched, SealedBy
  <2>4. QED BY <2>2, <2>3
<1>9. altered' \in Nat /\ altered' = altered
  BY <1>1 DEF StreamInv
<1>10. ReaderOK'
  BY <1>1, <1>5, <1>9, ReaderStays
<1>11. QED BY <1>1, <1>2, <1>7, <1>8, <1>9, <1>10 DEF StreamInv

LEMMA OnlyReads ==
  ASSUME StreamInv, UNCHANGED <<stored, writer, altered>>, ReaderOK'
  PROVE  StreamInv'
<1>1. Genuine' = Genuine
  BY DEF Genuine
<1>2. \A s \in Streams : FileOK(stored[s])'
  BY <1>1 DEF StreamInv, FileOK
<1>3. \A s \in Streams : Untouched(s) => Untouched(s)'
  BY DEF Untouched
<1>4. QED BY <1>2, <1>3 DEF StreamInv

LEMMA DecryptOK ==
  ASSUME StreamInv, NEW s \in Streams, NEW holder, Decrypt(s, holder)
  PROVE  StreamInv'
<1>1. reader = NoReader /\ UNCHANGED <<stored, writer, altered>>
  BY DEF Decrypt, StreamInv, ReaderOK
<1>2. CASE Fails
  <2>1. reader' = [NoReader EXCEPT !.pc = "failed"]
    BY <1>1, <1>2 DEF Fails
  <2>2. ReaderOK'
    BY <2>1 DEF ReaderOK, NoReader
  <2>3. QED BY <1>1, <2>2, OnlyReads
<1>3. CASE ~Fails
  <2> DEFINE h == stored[s].header
             cek == IF IsKem(h.suite) THEN RecoverCek(h, stored[s].env, holder) ELSE 0
  <2>1. /\ cek # NoKey
        /\ reader' = [NoReader EXCEPT !.pc = "reading", !.of = s, !.header = h, !.cek = cek,
                        !.clean = (altered = 0 /\ writer[s].pc = "done")]
    BY <1>3 DEF Decrypt
  <2>2. ASSUME altered = 0, writer[s].pc = "done"
        PROVE  cek = CekOf(h.suite, s) /\ h = writer[s].header /\ 1 <= writer[s].index
    <3>1. Untouched(s) /\ WriterOK(writer[s], s)
      BY <2>2 DEF StreamInv
    <3>2. h = writer[s].header /\ 1 <= writer[s].index
      BY <2>2, <3>1 DEF Untouched, WriterOK
    <3>3. CASE IsKem(h.suite)
      BY <2>1, <2>2, <3>1, <3>2, <3>3 DEF RecoverCek, Untouched, CekOf
    <3>4. CASE ~IsKem(h.suite)
      BY <3>2, <3>4 DEF CekOf
    <3>5. QED BY <3>2, <3>3, <3>4
  <2> HIDE DEF h, cek
  <2>3. /\ DOMAIN reader' = {"pc", "of", "header", "cek", "at", "index", "out", "clean"}
        /\ reader'.pc = "reading" /\ reader'.of = s /\ reader'.header = h /\ reader'.cek = cek
        /\ reader'.at = 1 /\ reader'.index = 0 /\ reader'.out = <<>>
        /\ reader'.clean = (altered = 0 /\ writer[s].pc = "done")
    BY <2>1 DEF NoReader
  <2>4. ASSUME reader'.clean, altered' = 0 PROVE CleanOK(writer[reader.of])'
    <3>1. altered = 0 /\ writer[s].pc = "done"
      BY <1>1, <2>3, <2>4
    <3>2. cek = CekOf(h.suite, s) /\ h = writer[s].header /\ 1 <= writer[s].index
      BY <2>2, <3>1
    <3>3. writer'[reader'.of] = writer[s] /\ 1 = 0 + 1
      BY <1>1, <2>3
    <3>4. QED BY <2>3, <3>1, <3>2, <3>3 DEF CleanOK
  <2>5. ReaderOK'
    BY <1>1, <2>3, <2>4 DEF ReaderOK
  <2>6. QED BY <1>1, <2>5, OnlyReads
<1>4. QED BY <1>2, <1>3

(* A record that opens is the next chunk of the stream the header names.   *)
LEMMA OpensOnlyGenuine ==
  ASSUME StreamInv, NEW r \in Genuine, NEW h, NEW cek, NEW index \in Nat, NEW final \in BOOLEAN,
         Opened(r, h, cek, index, final)
  PROVE  /\ h.id \in Streams /\ writer[h.id].pc # "idle" /\ index < writer[h.id].index
         /\ h.size = writer[h.id].header.size
         /\ final <=> LastPiece(writer[h.id].plain, h.size, index)
         /\ r.data = Piece(writer[h.id].plain, h.size, index)
<1>1. PICK p \in Streams \X Nat :
         /\ writer[p[1]].pc # "idle" /\ p[2] < writer[p[1]].index /\ r = SealedBy(writer[p[1]], p[1], p[2])
  BY DEF Genuine
<1> DEFINE s == p[1]
           i == p[2]
           w == writer[s]
           last == LastPiece(w.plain, w.header.size, i)
           data == Piece(w.plain, w.header.size, i)
<1>2. r = [alg |-> ChunkAead(w.header.suite), key |-> MessageKey(w.header, CekOf(w.header.suite, s)), nonce |-> i,
           aad |-> <<w.header.suite, w.header.id, i, last, Len(data), w.header.size>>, data |-> data]
  BY <1>1 DEF SealedBy, AeadSeal, ChunkAad
<1>3. r = [alg |-> ChunkAead(h.suite), key |-> MessageKey(h, cek), nonce |-> index,
           aad |-> <<h.suite, h.id, index, final, Len(r.data), h.size>>, data |-> r.data]
  BY SMTT(30) DEF Opened, AeadOpen, AeadSeal, ChunkAad
<1>4. r.aad = <<w.header.suite, w.header.id, i, last, Len(data), w.header.size>> /\ r.data = data
  BY <1>2
<1>5. r.aad = <<h.suite, h.id, index, final, Len(r.data), h.size>>
  BY <1>3
<1>6. h.id = w.header.id /\ index = i /\ h.size = w.header.size /\ final = last
  BY <1>4, <1>5
<1>7. w.header.id = s
  BY <1>1 DEF StreamInv, WriterOK
<1>8. QED BY <1>1, <1>4, <1>6, <1>7

(* An unaltered stream of a writer that is done opens, record by record.   *)
LEMMA CleanOpens ==
  ASSUME StreamInv, altered = 0, NEW s \in Streams, writer[s].pc = "done", NEW at \in Nat, NEW index \in Nat,
         at = index + 1, at <= writer[s].index
  PROVE  /\ Len(stored[s].records) = writer[s].index /\ ~stored[s].cut
         /\ Opened(stored[s].records[at], writer[s].header, CekOf(writer[s].header.suite, s), index,
                   ~(at < writer[s].index))
<1> DEFINE w == writer[s]
           z == w.header.size
           p == w.plain
           last == w.index - 1
           r == stored[s].records[at]
<1>1. /\ Untouched(s) /\ WriterOK(w, s) /\ z \in Nat /\ z # 0 /\ p \in Seq(Bytes) /\ w.index \in Nat
      /\ w.index # 0 /\ LastPiece(p, z, last) /\ Began(p, z, last) /\ last \in Nat
  BY DEF StreamInv, WriterOK
<1>2. at \in 1..w.index /\ at - 1 = index
  BY <1>1
<1>3. Len(stored[s].records) = w.index /\ ~stored[s].cut /\ r = SealedBy(w, s, index)
  BY <1>1, <1>2 DEF Untouched
<1>4. Began(p, z, index) /\ (LastPiece(p, z, index) <=> ~(at < w.index))
  <2>1. CASE index = last
    BY <1>1, <2>1
  <2>2. CASE index # last
    <3> HIDE DEF z
    <3>1. index < last /\ at < w.index
      BY <1>1, <1>2, <2>2
    <3> HIDE DEF last
    <3>2. (index + 1) * z <= last * z /\ index * z <= (index + 1) * z /\ (index + 1) * z \in Nat
          /\ index * z \in Nat /\ last * z \in Nat
      BY <1>1, <3>1, Multiples
    <3>3. last * z < Len(p) /\ Len(p) \in Nat
      BY <1>1, <3>1 DEF Began
    <3>4. (index + 1) * z < Len(p) /\ index * z < Len(p)
      BY <3>2, <3>3
    <3>5. ~(Len(p) <= (index + 1) * z)
      BY <3>2, <3>3, <3>4
    <3>6. QED BY <3>1, <3>4, <3>5 DEF Began, LastPiece
  <2>3. QED BY <2>1, <2>2
<1> DEFINE data == Piece(p, z, index)
<1>5. Len(data) <= z /\ (~LastPiece(p, z, index) => Len(data) = z)
  <2> HIDE DEF z, p
  <2>1. QED BY <1>1, <1>4, Pieces
<1>6. r.data = data /\ r = AeadSeal(w.header, CekOf(w.header.suite, s), index, LastPiece(p, z, index), data)
  BY <1>3 DEF SealedBy, AeadSeal
<1>7. LastPiece(p, z, index) = ~(at < w.index)
  BY <1>4 DEF LastPiece
<1> HIDE DEF data, r
<1>8. Opened(r, w.header, CekOf(w.header.suite, s), index, ~(at < w.index))
  BY <1>5, <1>6, <1>7 DEF Opened, AeadOpen
<1>9. QED BY <1>3, <1>8 DEF r

LEMMA ReadOK ==
  ASSUME StreamInv, ReadChunk
  PROVE  StreamInv'
<1> DEFINE file == stored[reader.of]
           more == LengthFollows(file)
           r == file.records[reader.at]
           h == reader.header
           k == reader.index
<1>1. /\ reader.pc = "reading" /\ ReaderOK /\ reader.of \in Streams /\ UNCHANGED <<stored, writer, altered>>
      /\ FileOK(file) /\ reader.at \in Nat /\ reader.at # 0 /\ k \in Nat
  BY DEF ReadChunk, StreamInv, ReaderOK
<1>2. more \in BOOLEAN
  BY DEF LengthFollows
<1>3. ASSUME reader.clean, altered = 0
      PROVE  /\ RecordThere(file) /\ Opened(r, h, reader.cek, k, ~more) /\ ~file.cut
             /\ more <=> reader.at < writer[reader.of].index
  <2> DEFINE w == writer[reader.of]
  <2>1. /\ w.pc = "done" /\ h = w.header /\ reader.cek = CekOf(w.header.suite, reader.of)
        /\ reader.at = k + 1 /\ reader.at <= w.index
    BY <1>1, <1>3 DEF ReaderOK, CleanOK
  <2>2. /\ Len(file.records) = w.index /\ ~file.cut
        /\ Opened(r, w.header, CekOf(w.header.suite, reader.of), k, ~(reader.at < w.index))
    BY <1>1, <1>3, <2>1, CleanOpens
  <2>3. more = (reader.at < w.index)
    BY <2>2 DEF LengthFollows
  <2>4. QED BY <2>1, <2>2, <2>3 DEF RecordThere
<1>4. CASE Fails
  <2>1. ~(reader.clean /\ altered = 0)
    <3> SUFFICES ASSUME reader.clean, altered = 0 PROVE FALSE
      OBVIOUS
    <3>1. RecordThere(file) /\ Opened(r, h, reader.cek, k, ~more) /\ ~file.cut
      BY <1>3
    <3>2. reader' = [reader EXCEPT !.out = @ \o r.data, !.at = @ + 1, !.index = @ + 1,
                                   !.pc = IF more THEN @ ELSE "ok"]
      BY <3>1 DEF ReadChunk
    <3>3. reader'.pc # "failed"
      BY <1>1, <3>2 DEF ReaderOK
    <3>4. reader'.pc = "failed"
      BY <1>1, <1>4 DEF Fails, ReaderOK
    <3>5. QED BY <3>3, <3>4
  <2>2. /\ DOMAIN reader' = DOMAIN reader /\ reader'.pc = "failed" /\ reader'.at = reader.at
        /\ reader'.index = reader.index /\ reader'.clean = reader.clean /\ reader'.out = reader.out
    BY <1>1, <1>4 DEF Fails, ReaderOK
  <2>3. ReaderOK'
    BY <1>1, <2>1, <2>2 DEF ReaderOK
  <2>4. QED BY <1>1, <2>3, OnlyReads
<1>5. CASE ~Fails
  <2> DEFINE next == [reader EXCEPT !.out = reader.out \o r.data, !.at = reader.at + 1, !.index = k + 1,
                                    !.pc = IF more THEN reader.pc ELSE "ok"]
             w == writer[h.id]
             z == h.size
  <2>1. RecordThere(file) /\ Opened(r, h, reader.cek, k, ~more) /\ reader' = next
    BY <1>5 DEF ReadChunk
  <2>2. /\ DOMAIN reader' = DOMAIN reader /\ reader'.pc = (IF more THEN "reading" ELSE "ok")
        /\ reader'.at = reader.at + 1 /\ reader'.index = k + 1 /\ reader'.clean = reader.clean
        /\ reader'.out = reader.out \o r.data /\ reader'.header = h /\ reader'.of = reader.of
        /\ reader'.cek = reader.cek
    BY <1>1, <2>1 DEF ReaderOK
  <2>3. r \in Genuine
    <3>1. file.records \in Seq(Genuine) /\ reader.at \in 1..Len(file.records)
      BY <1>1, <2>1 DEF FileOK, RecordThere
    <3>2. QED BY <3>1, ElementOfSeq
  <2> HIDE DEF next, r, more, file
  <2>4. /\ h.id \in Streams /\ w.pc # "idle" /\ k < w.index /\ z = w.header.size
        /\ ~more <=> LastPiece(w.plain, z, k)
        /\ r.data = Piece(w.plain, z, k)
    BY <1>1, <1>2, <2>1, <2>3, OpensOnlyGenuine, ZenonT(40)
  <2>5. /\ WriterOK(w, h.id) /\ w.plain \in Seq(Bytes) /\ z \in Nat /\ z # 0 /\ Len(w.plain) \in Nat
        /\ w.index \in Nat
    <3>1. WriterOK(w, h.id)
      BY <2>4 DEF StreamInv
    <3>2. w.plain \in Seq(Bytes) /\ z \in Nat /\ z # 0 /\ w.index \in Nat
      BY <2>4, <3>1 DEF WriterOK
    <3>3. QED BY <3>1, <3>2
  <2>6. Began(w.plain, z, k) /\ reader.out = SubSeq(w.plain, 1, k * z)
    <3>1. CASE k = 0
      <4>1. reader.out = <<>>
        BY <1>1, <3>1 DEF ReaderOK
      <4>2. k * z = 0
        BY <2>5, <3>1
      <4>3. SubSeq(w.plain, 1, 0) = <<>>
        BY SubSeqEmpty
      <4>4. QED BY <3>1, <4>1, <4>2, <4>3 DEF Began
    <3>2. CASE k # 0
      BY <1>1, <2>4, <3>2, SMTT(30) DEF ReaderOK, ReadingOK, Began
    <3>3. QED BY <3>1, <3>2
  <2> DEFINE p == w.plain
             e == PieceEnd(p, z, k)
  <2>7. reader'.out = SubSeq(p, 1, e)
    <3> HIDE DEF z, p, k
    <3>1. p \in Seq(Bytes) /\ Began(p, z, k) /\ z \in Nat /\ k \in Nat
      BY <1>1, <2>5, <2>6 DEF p
    <3>2. SubSeq(p, 1, k * z) \o Piece(p, z, k) = SubSeq(p, 1, PieceEnd(p, z, k))
      BY <3>1, Pieces
    <3>3. QED BY <2>2, <2>4, <2>6, <3>2 DEF p
  <2>8. (k + 1) * z \in Nat /\ e \in Nat /\ e <= Len(p)
    <3> HIDE DEF z, k
    <3>1. (k + 1) * z \in Nat
      BY <1>1, <2>5, Multiples
    <3>2. QED BY <2>5, <3>1 DEF PieceEnd, LastPiece
  <2>9. IsPrefix(reader'.out, p)
    <3>1. SubSeq(p, 0 + 1, e) \in Seq(Bytes) /\ Len(SubSeq(p, 0 + 1, e)) = IF 0 <= e THEN e - 0 ELSE 0
      <4> HIDE DEF p, e
      <4>1. p \in Seq(Bytes)
        BY <2>5 DEF p
      <4>2. QED BY <2>8, <4>1, Sub
    <3>2. 0 + 1 = 1
      OBVIOUS
    <3> HIDE DEF e, p
    <3>3. reader'.out \in Seq(Bytes) /\ Len(reader'.out) = e
      BY <2>7, <2>8, <3>1, <3>2
    <3>4. SubSeq(reader'.out, 1, Len(reader'.out)) = reader'.out
      BY <3>3, SubSeqFull, SMTT(30)
    <3>5. QED BY <2>7, <2>8, <3>3, <3>4 DEF IsPrefix
  <2>10. ASSUME more PROVE ReadingOK(writer[reader.header.id])'
    <3>1. e = (k + 1) * z /\ ~(Len(p) <= (k + 1) * z)
      BY <2>4, <2>10 DEF PieceEnd, LastPiece
    <3>2. (k + 1) * z < Len(p)
      BY <2>5, <2>8, <3>1
    <3>3. writer'[reader'.header.id] = w
      BY <1>1, <2>2
    <3>4. QED BY <2>2, <2>4, <2>7, <3>1, <3>2, <3>3 DEF ReadingOK
  <2>11. ASSUME ~more PROVE w.pc = "done" /\ reader'.out = p
    <3>1. e = Len(p) /\ Len(p) <= (k + 1) * z
      BY <2>4, <2>11 DEF PieceEnd, LastPiece
    <3>2. SubSeq(p, 1, Len(p)) = p
      BY <2>5, SubSeqFull
    <3>3. w.pc = "done"
      <4> SUFFICES ASSUME w.pc # "done" PROVE FALSE
        BY SMTT(30)
      <4>1. Began(p, z, w.index)
        BY <2>4, <2>5 DEF WriterOK
      <4> DEFINE n == w.index
                 len == Len(p)
      <4> HIDE DEF n, k, z, len
      <4>2. n \in Nat /\ k \in Nat /\ z \in Nat /\ k < n /\ n # 0 /\ len \in Nat
        BY <1>1, <2>4, <2>5 DEF n, len
      <4>3. n * z < len /\ len <= (k + 1) * z
        BY <3>1, <4>1, <4>2 DEF Began, n, len
      <4>4. (k + 1) * z <= n * z /\ (k + 1) * z \in Nat /\ n * z \in Nat
        BY <4>2, Multiples
      <4>5. QED BY <4>2, <4>3, <4>4
    <3>4. QED BY <2>7, <3>1, <3>2, <3>3
  <2>12. ASSUME reader'.clean, altered' = 0 PROVE reader'.of \in Streams /\ CleanOK(writer[reader.of])'
    <3>1. CleanOK(writer[reader.of]) /\ (more <=> reader.at < writer[reader.of].index)
      BY <1>1, <1>3, <2>2, <2>12 DEF ReaderOK
    <3>2. writer[reader.of].index \in Nat /\ writer'[reader'.of] = writer[reader.of]
      BY <1>1, <2>2 DEF StreamInv, WriterOK
    <3>3. more => reader.at + 1 <= writer[reader.of].index
      BY <1>1, <3>1, <3>2
    <3>4. QED BY <1>1, <2>2, <3>1, <3>2, <3>3 DEF CleanOK
  <2>13. reader'.index # 0 /\ reader'.index \in Nat /\ reader'.at \in Nat \ {0} /\ reader'.clean \in BOOLEAN
    BY <1>1, <2>2, SMTT(30) DEF ReaderOK
  <2>14. ReaderOK'
    BY <1>1, <2>2, <2>4, <2>9, <2>10, <2>11, <2>12, <2>13, ZenonT(40) DEF ReaderOK
  <2>15. QED BY <1>1, <2>14, OnlyReads
<1>6. QED BY <1>4, <1>5

(* The carrier stores only records that were made. *)
LEMMA CarryOK ==
  ASSUME StreamInv, NEW s \in Streams, Carrier(s)
  PROVE  StreamInv'
<1> DEFINE q == stored[s].records
<1>1. ASSUME NEW file, DOMAIN file = {"header", "env", "records", "cut"}, file.records \in Seq(Genuine),
             Alters(s, file)
      PROVE  StreamInv'
  <2>1. /\ altered \in Nat /\ altered' = altered + 1 /\ UNCHANGED <<writer, reader>>
        /\ stored' = [stored EXCEPT ![s] = file]
    BY <1>1 DEF Alters, StreamInv
  <2>2. DOMAIN stored' = Streams /\ stored'[s] = file /\ \A t \in Streams \ {s} : stored'[t] = stored[t]
    BY <2>1 DEF StreamInv
  <2>3. Genuine' = Genuine
    BY <2>1 DEF Genuine
  <2>4. \A t \in Streams : FileOK(stored[t])'
    BY <1>1, <2>2, <2>3 DEF StreamInv, FileOK
  <2>5. Continues
    BY <2>1 DEF Continues, StreamInv, WriterOK
  <2>6. altered' # 0 /\ altered' \in Nat
    BY <2>1
  <2>7. ReaderOK'
    BY <2>1, <2>5, <2>6, ReaderStays
  <2>8. QED BY <2>1, <2>2, <2>4, <2>6, <2>7 DEF StreamInv
<1>2. DOMAIN stored[s] = {"header", "env", "records", "cut"} /\ q \in Seq(Genuine)
  BY DEF StreamInv, FileOK
<1>3. ASSUME NEW t \in Streams, NEW i \in DOMAIN stored[t].records PROVE stored[t].records[i] \in Genuine
  BY <1>3 DEF StreamInv, FileOK
<1>4. ASSUME NEW new \in Seq(Genuine), Alters(s, [stored[s] EXCEPT !.records = new]) PROVE StreamInv'
  BY <1>1, <1>2, <1>4
<1>5. ASSUME NEW i \in DOMAIN q PROVE RemoveAt(q, i) \in Seq(Genuine)
  <2>1. SubSeq(q, 1, i - 1) \in Seq(Genuine) /\ SubSeq(q, i + 1, Len(q)) \in Seq(Genuine)
    BY <1>2, <1>5
  <2>2. QED BY <2>1 DEF RemoveAt
<1>6. ASSUME NEW i \in DOMAIN q PROVE InsertAt(q, i, q[i]) \in Seq(Genuine)
  <2>1. SubSeq(q, 1, i - 1) \in Seq(Genuine) /\ SubSeq(q, i, Len(q)) \in Seq(Genuine) /\ <<q[i]>> \in Seq(Genuine)
    BY <1>2, <1>3, <1>6
  <2>2. QED BY <2>1 DEF InsertAt
<1>7. ASSUME NEW i \in DOMAIN q, NEW j \in DOMAIN q PROVE Exchanged(q, i, j) \in Seq(Genuine)
  BY <1>2, <1>3, <1>7 DEF Exchanged
<1>8. ASSUME NEW r \in Genuine PROVE Append(q, r) \in Seq(Genuine)
  BY <1>2, <1>8
<1>9. ASSUME NEW r \in Genuine, NEW j \in DOMAIN q PROVE [q EXCEPT ![j] = r] \in Seq(Genuine)
  BY <1>2, <1>9
<1>10. ASSUME NEW file, DOMAIN file = DOMAIN stored[s], file.records = q, Alters(s, file) PROVE StreamInv'
  BY <1>1, <1>2, <1>10
<1>11. CASE \E i \in DOMAIN q :
         \/ Alters(s, [stored[s] EXCEPT !.records = RemoveAt(@, i)])
         \/ Alters(s, [stored[s] EXCEPT !.records = InsertAt(@, i, q[i])])
         \/ \E j \in DOMAIN q : Alters(s, [stored[s] EXCEPT !.records = Exchanged(@, i, j)])
  BY <1>4, <1>5, <1>6, <1>7, <1>11
<1>12. CASE \E t \in Streams : \E i \in DOMAIN stored[t].records :
         \/ Alters(s, [stored[s] EXCEPT !.records = Append(@, stored[t].records[i])])
         \/ \E j \in DOMAIN q : Alters(s, [stored[s] EXCEPT !.records[j] = stored[t].records[i]])
  BY <1>3, <1>4, <1>8, <1>9, <1>12
<1>13. CASE \E t \in Streams : Alters(s, [stored[s] EXCEPT !.header = stored[t].header, !.env = stored[t].env])
  BY <1>2, <1>10, <1>13
<1>14. CASE \E suite \in Suites : Alters(s, [stored[s] EXCEPT !.header.suite = suite])
  BY <1>2, <1>10, <1>14
<1>15. CASE \E size \in ChunkSizes : Alters(s, [stored[s] EXCEPT !.header.size = size])
  BY <1>2, <1>10, <1>15
<1>16. CASE Alters(s, [stored[s] EXCEPT !.cut = ~@])
  BY <1>2, <1>10, <1>16
<1>17. QED BY <1>11, <1>12, <1>13, <1>14, <1>15, <1>16 DEF Carrier

LEMMA StreamStep == StreamInv /\ [StreamNext]_streamVars => StreamInv'
<1> SUFFICES ASSUME StreamInv, [StreamNext]_streamVars PROVE StreamInv'
  OBVIOUS
<1>1. CASE UNCHANGED streamVars
  BY <1>1, OnlyReads DEF streamVars, StreamInv, ReaderOK, ReadingOK, CleanOK
<1>2. CASE StreamNext
  BY <1>2, EncryptOK, WriteOK, StopOK, CarryOK, DecryptOK, ReadOK DEF StreamNext
<1>3. QED BY <1>1, <1>2

(* For any number of streams, of any length and chunk size, and any number *)
(* of alterations by the carrier: what a reader gives out is in order and  *)
(* from one stream, and it reports success only for the whole of it        *)
(* (stream/mod.rs write_chunks, read_chunks).                              *)
THEOREM StreamWholeHolds == StreamSpec => []StreamWhole
<1>1. StreamInv => StreamWhole
  <2> SUFFICES ASSUME StreamInv PROVE StreamWhole
    OBVIOUS
  <2>1. ReaderOK /\ altered \in Nat
    BY DEF StreamInv
  <2>2. reader.clean /\ reader.pc = "failed" => altered > 0
    BY <2>1 DEF ReaderOK, CleanOK
  <2>3. QED BY <2>1, <2>2 DEF ReaderOK, StreamWhole
<1>2. QED BY <1>1, StreamInitOK, StreamStep, PTL DEF StreamSpec

----------------------------------------------------------------------------
(* The sealed bundle. *)

(* The least and the greatest of some positions. *)
LEMMA Extremes ==
  ASSUME NEW n \in Nat, NEW K, K \subseteq 1..n, K # {}
  PROVE  Min(K) \in K /\ Max(K) \in K
<1>1. \A k \in K : k \in Nat /\ n - k \in Nat
  OBVIOUS
<1>2. ASSUME NEW T, T \subseteq Nat, T # {} PROVE \E m \in T : \A l \in T : m <= l
  <2>1. PICK m \in T : \A l \in T : ~(<<l, m>> \in OpToRel(<, Nat))
    BY <1>2, NatLessThanWellFounded, WFMin
  <2>2. \A l \in T : m <= l
    <3> TAKE l \in T
    <3>1. m \in Nat /\ l \in Nat
      BY <1>2
    <3>2. ~(l < m)
      BY <2>1, <3>1 DEF OpToRel
    <3>3. QED BY <3>1, <3>2
  <2>3. QED BY <2>2
<1>3. Min(K) \in K
  <2>1. \E m \in K : \A l \in K : m <= l
    BY <1>1, <1>2
  <2>2. QED BY <2>1 DEF Min
<1>4. Max(K) \in K
  <2> DEFINE T == {n - k : k \in K}
  <2>1. T \subseteq Nat /\ T # {}
    BY <1>1
  <2> HIDE DEF T
  <2>2. PICK m \in T : \A l \in T : m <= l
    BY <1>2, <2>1
  <2>3. PICK k \in K : m = n - k
    BY DEF T
  <2>4. \A l \in K : k >= l
    <3> TAKE l \in K
    <3>1. n - l \in T
      BY DEF T
    <3>2. n - k <= n - l /\ k \in Nat /\ l \in Nat
      BY <1>1, <2>2, <2>3, <3>1
    <3>3. QED BY <3>2
  <2>5. QED BY <2>4 DEF Max
<1>5. QED BY <1>3, <1>4

(* Lists whose elements need no type. *)
Listed(q) == \E S : q \in Seq(S)

LEMMA Lists ==
  ASSUME NEW q, Listed(q)
  PROVE  Len(q) \in Nat /\ DOMAIN q = 1..Len(q)
  BY DEF Listed

LEMMA ListAppended ==
  ASSUME NEW q, Listed(q), NEW e
  PROVE  /\ Listed(Append(q, e)) /\ Len(Append(q, e)) = Len(q) + 1
         /\ DOMAIN Append(q, e) = 1..(Len(q) + 1)
         /\ \A i \in 1..Len(q) : Append(q, e)[i] = q[i]
         /\ Append(q, e)[Len(q) + 1] = e
<1>1. PICK S : q \in Seq(S)
  BY DEF Listed
<1>2. q \in Seq(S \cup {e}) /\ e \in S \cup {e}
  BY <1>1
<1>3. Append(q, e) \in Seq(S \cup {e}) /\ Len(Append(q, e)) = Len(q) + 1
      /\ (\A i \in 1..Len(q) : Append(q, e)[i] = q[i]) /\ Append(q, e)[Len(q) + 1] = e
  BY <1>2, AppendProperties
<1>4. Listed(Append(q, e))
  BY <1>3 DEF Listed
<1>5. QED BY <1>3, <1>4, Lists

LEMMA ListMade ==
  ASSUME NEW n \in Nat, NEW q, q = [i \in 1..n |-> q[i]]
  PROVE  Listed(q) /\ Len(q) = n
<1> DEFINE S == {q[i] : i \in 1..n}
<1>1. q \in [1..n -> S]
  OBVIOUS
<1> HIDE DEF S
<1>2. q \in Seq(S)
  BY <1>1, SeqDef
<1>3. Len(q) = n
  BY <1>1, <1>2, LenProperties
<1>4. QED BY <1>2, <1>3 DEF Listed

(* A bundle whose every slot carries its key, under its own number and     *)
(* under the header of the bundle.  Slots are numbered in order: none is   *)
(* ever removed.                                                           *)
SlotUsable(b, s, i) ==
  /\ SlotOK(s) /\ s.id = i - 1 /\ s.kek = b.payload.kek /\ s.secret # None
  /\ s.aad = WrapAad(s.kind, Header(b), s.id)
Usable(b) ==
  /\ DOMAIN b = {"id", "epoch", "slots", "payload", "deposits"}
  /\ b.id \in Nat /\ b.epoch \in Nat \ {0}
  /\ Listed(b.slots) /\ b.slots # <<>> /\ \A i \in DOMAIN b.slots : SlotUsable(b, b.slots[i], i)
  /\ CredBundleOK(b.payload) /\ b.payload.kek \in Nat /\ b.payload.aad = Header(b)
  /\ Listed(b.deposits) /\ \A i \in DOMAIN b.deposits : DepositOK(b.deposits[i])

LEMMA UsableDecodes ==
  ASSUME NEW b, Usable(b)
  PROVE  Decodes(b)
<1>1. \A i \in DOMAIN b.slots : i \in Nat /\ b.slots[i].id = i - 1 /\ SlotOK(b.slots[i])
  BY Lists DEF Usable, SlotUsable
<1>2. \A i, j \in DOMAIN b.slots : b.slots[i].id = b.slots[j].id => i = j
  BY <1>1
<1>3. QED BY <1>1, <1>2 DEF Usable, Decodes

(* What opens a usable bundle at all gives its key. *)
LEMMA KeyRecovered ==
  ASSUME NEW b, Usable(b), NEW open
  PROVE  /\ Recovered(b, open) # {} => RecoverAny(b, open) = b.payload.kek
         /\ Recovered(b, open) = {} => RecoverAny(b, open) = None
<1>1. DOMAIN b.slots = 1..Len(b.slots) /\ Len(b.slots) \in Nat
  BY Lists DEF Usable
<1>2. Recovered(b, open) \subseteq 1..Len(b.slots)
  BY <1>1 DEF Recovered
<1>3. ASSUME Recovered(b, open) # {} PROVE RecoverAny(b, open) = b.payload.kek
  <2>1. Min(Recovered(b, open)) \in Recovered(b, open)
    BY <1>1, <1>2, <1>3, Extremes
  <2>2. b.slots[Min(Recovered(b, open))].kek = b.payload.kek
    BY <1>1, <1>2, <2>1 DEF Usable, SlotUsable
  <2>3. QED BY <1>3, <2>2 DEF RecoverAny
<1>4. QED BY <1>3 DEF RecoverAny

LEMMA SlotsOpen ==
  ASSUME NEW b, Usable(b), NEW i \in DOMAIN b.slots
  PROVE  OpenBundle(b, {SlotMethod(b.slots[i])})
<1> DEFINE m == SlotMethod(b.slots[i])
<1>1. SlotUsable(b, b.slots[i], i)
  BY DEF Usable
<1>2. RecoverKek(m, b.slots[i], Header(b))
  BY <1>1 DEF SlotUsable, RecoverKek, SlotMethod, Available
<1>3. i \in Recovered(b, {m})
  BY <1>2 DEF Recovered
<1> HIDE DEF m
<1>4. RecoverAny(b, {m}) = b.payload.kek
  BY <1>3, KeyRecovered
<1>5. b.payload.kek # None
  BY BundleAssumption DEF Usable
<1>6. QED BY <1>4, <1>5 DEF OpenBundle, DecryptPayload, Usable, m

(* Deposits overlay credentials with credentials. *)
LEMMA OverlayOK ==
  ASSUME NEW b, Usable(b), NEW chosen, chosen \subseteq DOMAIN b.deposits
  PROVE  /\ DOMAIN Overlay(b, chosen) = Backends
         /\ \A k \in Backends : Overlay(b, chosen)[k].kind \in CredKinds
<1>1. ASSUME NEW k \in Backends PROVE Overlay(b, chosen)[k].kind \in CredKinds
  <2> DEFINE of == {i \in chosen : b.deposits[i].to = k}
  <2>1. CASE of = {}
    BY <2>1 DEF Overlay, Usable, CredBundleOK
  <2>2. CASE of # {}
    <3>1. of \subseteq 1..Len(b.deposits) /\ Len(b.deposits) \in Nat
      BY Lists DEF Usable
    <3>2. Max(of) \in of
      BY <2>2, <3>1, Extremes
    <3>3. DepositOK(b.deposits[Max(of)])
      BY <3>2 DEF Usable
    <3>4. QED BY <2>2, <3>3 DEF Overlay, DepositOK
  <2>3. QED BY <2>1, <2>2
<1>2. QED BY <1>1 DEF Overlay

LEMMA WithoutOK ==
  ASSUME NEW b, Usable(b), NEW gone
  PROVE  /\ Listed(Without(b, gone))
         /\ \A i \in DOMAIN Without(b, gone) : DepositOK(Without(b, gone)[i])
<1> DEFINE K == DOMAIN b.deposits \ gone
           q == Without(b, gone)
<1>1. PICK S : b.deposits \in Seq(S)
  BY DEF Usable, Listed
<1>2. /\ AtPositions(b.deposits, K) \in Seq(S) /\ Len(AtPositions(b.deposits, K)) = Cardinality(K)
      /\ \A n \in 1..Cardinality(K) : \E k \in K : AtPositions(b.deposits, K)[n] = b.deposits[k]
  <2>1. K \subseteq DOMAIN b.deposits
    OBVIOUS
  <2> HIDE DEF K
  <2>2. QED BY <1>1, <2>1, Positioned
<1>3. q = AtPositions(b.deposits, K)
  BY DEF Without
<1> HIDE DEF q, K
<1>4. Listed(q) /\ DOMAIN q = 1..Cardinality(K)
  BY <1>2, <1>3 DEF Listed
<1>5. ASSUME NEW i \in DOMAIN q PROVE DepositOK(q[i])
  <2>1. PICK k \in K : q[i] = b.deposits[k]
    BY <1>2, <1>3, <1>4
  <2>2. QED BY <2>1 DEF Usable, K
<1>6. QED BY <1>4, <1>5 DEF q

(* A slot that is written: for the method, under the header and number.    *)
MethodOK(m) == m.kind \in MethodKinds /\ m.secret # None

LEMMA Wrapped ==
  ASSUME NEW m, MethodOK(m), NEW kek \in Nat, NEW hdr, NEW slot \in Nat
  PROVE  LET s == WrapKek(m, kek, hdr, slot) IN
         /\ SlotOK(s) /\ s.id = slot /\ s.kek = kek /\ s.secret # None
         /\ s.aad = WrapAad(s.kind, hdr, s.id)
  BY DEF WrapKek, MethodOK, SlotOK

LEMMA SealUsable ==
  ASSUME NEW id \in Nat, NEW n \in Nat, n # 0, NEW specs, DOMAIN specs = 1..n,
         \A i \in 1..n : MethodOK(specs[i]), NEW creds, DOMAIN creds = Backends,
         \A k \in Backends : creds[k].kind \in CredKinds, NEW ingest
  PROVE  Usable(Seal(id, specs, creds, ingest)) /\ Seal(id, specs, creds, ingest).epoch = 1
<1> DEFINE b == Seal(id, specs, creds, ingest)
           hdr == <<id, 1>>
           q == [i \in 1..n |-> WrapKek(specs[i], id, hdr, i - 1)]
<1>1. /\ DOMAIN b = {"id", "epoch", "slots", "payload", "deposits"} /\ b.id = id /\ b.epoch = 1
      /\ b.slots = q /\ b.deposits = <<>>
      /\ b.payload = [kek |-> id, aad |-> hdr, creds |-> creds, ingest |-> ingest,
                      allow |-> [c \in Contributors |-> {}]]
  BY DEF Seal
<1> HIDE DEF b
<1>2. CredBundleOK(b.payload) /\ b.payload.kek = id /\ b.payload.aad = hdr
  BY <1>1 DEF CredBundleOK
<1>3. Header(b) = hdr
  BY <1>1 DEF Header
<1>4. Listed(q) /\ Len(q) = n /\ DOMAIN q = 1..n
  <2>1. q = [i \in 1..n |-> q[i]] /\ DOMAIN q = 1..n
    OBVIOUS
  <2> HIDE DEF q
  <2>2. QED BY <2>1, ListMade
<1>5. q # <<>>
  <2> HIDE DEF q
  <2>1. Len(<<>>) = 0
    OBVIOUS
  <2>2. QED BY <1>4, <2>1
<1>6. ASSUME NEW i \in 1..n PROVE SlotUsable(b, q[i], i)
  <2>1. q[i] = WrapKek(specs[i], id, hdr, i - 1) /\ i - 1 \in Nat
    OBVIOUS
  <2> HIDE DEF q, hdr
  <2>2. QED BY <1>2, <1>3, <2>1, Wrapped DEF SlotUsable
<1>7. Listed(<<>>) /\ DOMAIN <<>> = {}
  <2>1. <<>> \in Seq({})
    OBVIOUS
  <2>2. QED BY <2>1 DEF Listed
<1> HIDE DEF q, hdr
<1>8. QED BY <1>1, <1>2, <1>3, <1>4, <1>5, <1>6, <1>7 DEF Usable, b

(* The same bundle with another payload under its key and header. *)
LEMMA ResealUsable ==
  ASSUME NEW b, Usable(b), NEW p, CredBundleOK(p)
  PROVE  Usable(ResealPayload(b, p)) /\ ResealPayload(b, p).epoch = b.epoch
<1> DEFINE e == [p EXCEPT !.kek = b.payload.kek, !.aad = Header(b)]
           c == ResealPayload(b, p)
<1>1. c = [b EXCEPT !.payload = e]
  BY DEF ResealPayload, EncryptPayload
<1>2. /\ DOMAIN c = {"id", "epoch", "slots", "payload", "deposits"} /\ c.id = b.id /\ c.epoch = b.epoch
      /\ c.slots = b.slots /\ c.deposits = b.deposits /\ c.payload = e
  BY <1>1 DEF Usable
<1>3. CredBundleOK(e) /\ e.kek = b.payload.kek /\ e.aad = Header(b)
  BY DEF CredBundleOK
<1> HIDE DEF c, e
<1>4. Header(c) = Header(b)
  BY <1>2 DEF Header
<1>5. \A i \in DOMAIN c.slots : SlotUsable(c, c.slots[i], i)
  BY <1>2, <1>3, <1>4 DEF Usable, SlotUsable
<1>6. QED BY <1>2, <1>3, <1>4, <1>5 DEF Usable, c

(* The next epoch: every slot is wrapped again under the new header. *)
LEMMA BumpUsable ==
  ASSUME NEW b, Usable(b), NEW open, NEW p, CredBundleOK(p), NEW deposits, Listed(deposits),
         \A i \in DOMAIN deposits : DepositOK(deposits[i]), BumpEpoch(b, open, p, deposits) # None
  PROVE  /\ Usable(BumpEpoch(b, open, p, deposits))
         /\ BumpEpoch(b, open, p, deposits).epoch = b.epoch + 1
<1> DEFINE kek == RecoverAny(b, open)
           hdr == <<b.id, b.epoch + 1>>
           slots == RewrapSlots(b, open, kek, hdr)
           e == [p EXCEPT !.kek = kek, !.aad = hdr]
           c == BumpEpoch(b, open, p, deposits)
           n == Len(b.slots)
           q == [i \in 1..n |-> RewrapKek(b.slots[i], kek, hdr)]
<1>1. /\ slots # None
      /\ c = [b EXCEPT !.epoch = b.epoch + 1, !.slots = slots, !.deposits = deposits, !.payload = e]
  BY DEF BumpEpoch, EncryptPayload
<1>2. DOMAIN b.slots = 1..n /\ n \in Nat
  BY Lists DEF Usable
<1>3. n # 0
  <2>1. PICK S : b.slots \in Seq(S)
    BY DEF Usable, Listed
  <2>2. QED BY <2>1 DEF Usable
<1>4. slots = q /\ Recovered(b, open) = 1..n /\ \A i \in 1..n : b.slots[i].kek = kek
  BY <1>1, <1>2 DEF RewrapSlots
<1>5. kek = b.payload.kek /\ kek \in Nat
  <2>1. 1 \in 1..n
    BY <1>2, <1>3
  <2>2. QED BY <1>4, <2>1 DEF Usable, SlotUsable
<1>6. /\ DOMAIN c = {"id", "epoch", "slots", "payload", "deposits"} /\ c.id = b.id /\ c.epoch = b.epoch + 1
      /\ c.slots = q /\ c.deposits = deposits /\ c.payload = e
  BY <1>1, <1>4 DEF Usable
<1>7. CredBundleOK(e) /\ e.kek = kek /\ e.aad = hdr
  BY DEF CredBundleOK
<1> HIDE DEF c, e, kek, slots
<1>8. Header(c) = hdr /\ c.epoch \in Nat \ {0}
  BY <1>6 DEF Header, Usable
<1>9. Listed(q) /\ Len(q) = n /\ DOMAIN q = 1..n
  <2>1. q = [i \in 1..n |-> q[i]] /\ DOMAIN q = 1..n
    OBVIOUS
  <2> HIDE DEF q
  <2>2. QED BY <1>2, <2>1, ListMade
<1>10. q # <<>>
  <2> HIDE DEF q
  <2>1. Len(<<>>) = 0
    OBVIOUS
  <2>2. QED BY <1>3, <1>9, <2>1
<1>11. ASSUME NEW i \in 1..n PROVE SlotUsable(c, q[i], i)
  <2> DEFINE s == b.slots[i]
             t == [s EXCEPT !.aad = WrapAad(s.kind, hdr, s.id), !.kek = kek]
  <2>1. SlotUsable(b, s, i)
    BY <1>2 DEF Usable
  <2>2. q[i] = t
    BY DEF RewrapKek
  <2> HIDE DEF s, q, hdr
  <2>3. /\ DOMAIN t = {"id", "kind", "secret", "aad", "kek"} /\ t.id = s.id /\ t.kind = s.kind
        /\ t.secret = s.secret /\ t.kek = kek /\ t.aad = WrapAad(s.kind, hdr, s.id)
    BY <2>1 DEF SlotUsable, SlotOK
  <2> HIDE DEF t
  <2>4. QED BY <1>5, <1>6, <1>7, <1>8, <2>1, <2>2, <2>3 DEF SlotUsable, SlotOK
<1> HIDE DEF q, hdr
<1>12. QED BY <1>5, <1>6, <1>7, <1>8, <1>9, <1>10, <1>11 DEF Usable, c

(* One slot more, with the next number. *)
LEMMA AddUsable ==
  ASSUME NEW b, Usable(b), NEW open, NEW m, MethodOK(m), AddSlot(b, open, m) # None
  PROVE  Usable(AddSlot(b, open, m)) /\ AddSlot(b, open, m).epoch = b.epoch
<1> DEFINE kek == RecoverAny(b, open)
           n == Len(b.slots)
           s == WrapKek(m, kek, Header(b), NextSlotId(b))
           q == Append(b.slots, s)
           c == AddSlot(b, open, m)
<1>1. kek # None /\ c = [b EXCEPT !.slots = q]
  BY DEF AddSlot
<1>2. kek = b.payload.kek /\ kek \in Nat
  BY <1>1, KeyRecovered DEF Usable
<1>3. DOMAIN b.slots = 1..n /\ n \in Nat /\ n # 0
  <2>1. PICK S : b.slots \in Seq(S)
    BY DEF Usable, Listed
  <2>2. QED BY <2>1 DEF Usable
<1>4. NextSlotId(b) = n
  <2> DEFINE ids == {b.slots[i].id : i \in DOMAIN b.slots}
  <2>1. \A i \in 1..n : b.slots[i].id = i - 1
    BY <1>3 DEF Usable, SlotUsable
  <2>2. n - 1 \in ids /\ \A x \in ids : x \in Int /\ n - 1 >= x
    <3>1. n \in 1..n
      BY <1>3
    <3>2. n - 1 \in ids
      BY <1>3, <2>1, <3>1
    <3>3. ASSUME NEW x \in ids PROVE x \in Int /\ n - 1 >= x
      <4>1. PICK i \in 1..n : x = i - 1
        BY <1>3, <2>1
      <4> HIDE DEF ids
      <4>2. QED BY <1>3, <4>1
    <3>4. QED BY <3>2, <3>3
  <2> HIDE DEF ids
  <2>3. Max(ids) \in ids /\ \A x \in ids : Max(ids) >= x
    <3>1. \E x \in ids : \A y \in ids : x >= y
      BY <2>2
    <3>2. QED BY <3>1 DEF Max
  <2>4. Max(ids) = n - 1
    BY <1>3, <2>2, <2>3
  <2>5. QED BY <1>3, <2>4 DEF NextSlotId, ids
<1>5. /\ SlotOK(s) /\ s.id = n /\ s.kek = kek /\ s.secret # None /\ s.aad = WrapAad(s.kind, Header(b), s.id)
  <2> HIDE DEF kek, n
  <2>1. QED BY <1>2, <1>3, <1>4, Wrapped
<1>6. /\ DOMAIN c = {"id", "epoch", "slots", "payload", "deposits"} /\ c.id = b.id /\ c.epoch = b.epoch
      /\ c.slots = q /\ c.deposits = b.deposits /\ c.payload = b.payload
  BY <1>1 DEF Usable
<1> HIDE DEF s, c, kek
<1>7. /\ Listed(q) /\ Len(q) = n + 1 /\ DOMAIN q = 1..(n + 1)
      /\ (\A i \in 1..n : q[i] = b.slots[i]) /\ q[n + 1] = s
  BY ListAppended DEF Usable
<1> HIDE DEF q
<1>8. Header(c) = Header(b)
  BY <1>6 DEF Header
<1>9. ASSUME NEW i \in 1..(n + 1) PROVE SlotUsable(c, q[i], i)
  <2>1. CASE i = n + 1
    <3>1. i - 1 = n
      BY <1>3, <2>1
    <3>2. QED BY <1>2, <1>5, <1>6, <1>7, <1>8, <2>1, <3>1 DEF SlotUsable
  <2>2. CASE i # n + 1
    <3>1. i \in 1..n
      BY <1>3, <2>2
    <3>2. QED BY <1>3, <1>6, <1>7, <1>8, <3>1 DEF Usable, SlotUsable
  <2>3. QED BY <2>1, <2>2
<1>10. q # <<>>
  <2>1. Len(<<>>) = 0
    OBVIOUS
  <2> HIDE DEF n
  <2>2. QED BY <1>3, <1>7, <2>1
<1> HIDE DEF n
<1>11. QED BY <1>6, <1>7, <1>8, <1>9, <1>10 DEF Usable, c

LEMMA DepositUsable ==
  ASSUME NEW b, Usable(b), NEW d, DepositOK(d)
  PROVE  LET c == [b EXCEPT !.deposits = Append(@, d)] IN Usable(c) /\ c.epoch = b.epoch
<1> DEFINE q == Append(b.deposits, d)
           c == [b EXCEPT !.deposits = q]
           n == Len(b.deposits)
<1>1. /\ DOMAIN c = {"id", "epoch", "slots", "payload", "deposits"} /\ c.id = b.id /\ c.epoch = b.epoch
      /\ c.slots = b.slots /\ c.deposits = q /\ c.payload = b.payload
  BY DEF Usable
<1>2. /\ Listed(q) /\ DOMAIN q = 1..(n + 1) /\ (\A i \in 1..n : q[i] = b.deposits[i]) /\ q[n + 1] = d
      /\ n \in Nat /\ DOMAIN b.deposits = 1..n
  BY ListAppended, Lists DEF Usable
<1> HIDE DEF q, c, n
<1>3. Header(c) = Header(b)
  BY <1>1 DEF Header
<1>4. \A i \in DOMAIN q : DepositOK(q[i])
  <2> TAKE i \in DOMAIN q
  <2>1. i = n + 1 \/ i \in 1..n
    BY <1>2
  <2>2. QED BY <1>2, <2>1 DEF Usable
<1>5. \A i \in DOMAIN c.slots : SlotUsable(c, c.slots[i], i)
  BY <1>1, <1>3 DEF Usable, SlotUsable
<1>6. Usable(c) /\ c.epoch = b.epoch
  BY <1>1, <1>2, <1>3, <1>4, <1>5 DEF Usable
<1>7. QED BY <1>6 DEF c, q

----------------------------------------------------------------------------
(* The bundle's file, its sidecar and who works on it. *)

(* A command carries a usable bundle, and its sidecar gets that bundle's   *)
(* epoch.                                                                  *)
JobOK(j) ==
  /\ DOMAIN j = {"cmd", "next", "epoch", "token", "about", "pc"}
  /\ j.cmd \in CommandNames /\ Usable(j.next) /\ j.pc \in {"write", "sidecar", "token"}
  /\ j.epoch \in {None, j.next.epoch} /\ (j.cmd = "create" \/ j.pc = "sidecar" => j.epoch # None)
(* Unless a backup was put back, a command raises the epoch or starts a    *)
(* new bundle, and what it has written is what it carries.                 *)
Forward ==
  restores = 0 =>
    /\ job.pc = "write" /\ job.cmd # "create" => disk.epoch <= job.next.epoch
    /\ job.pc = "sidecar" => disk.epoch = job.next.epoch

(* A start that has read the bundle and not opened it yet. *)
Reading(s) == broker[s].pc \in {"read", "advance", "checked"}

BundleInv ==
  /\ count \in Nat /\ restores \in Nat /\ orphaned \in BOOLEAN /\ seen \in Nat \cup {None} /\ pcrs \in Boots
  /\ Usable(disk) /\ \A b \in backups : Usable(b)
  /\ DOMAIN broker = Brokers
  /\ \A s \in Brokers : Reading(s) => Usable(broker[s].held) /\ broker[s].epoch = broker[s].held.epoch
  /\ \A s \in Brokers : Guarded(s) => job = NoJob
  /\ restores = 0 => \A s \in Brokers : Reading(s) => broker[s].held = disk
  /\ job = NoJob \/ JobOK(job)
  /\ Forward /\ NotLockedOut

LEMMA Methods ==
  ASSUME pcrs \in Boots, NEW m \in Secrets
  PROVE  MethodOK(Presented(m))
<1>1. MethodOK(m) /\ DOMAIN m = {"kind", "secret"} /\ pcrs # None
  BY BundleAssumption DEF MethodOK
<1>2. CASE m.kind = "tpm"
  BY <1>1, <1>2 DEF Presented, PolicyDigest, MethodOK, MethodKinds
<1>3. CASE m.kind # "tpm"
  BY <1>1, <1>3, SMTT(30) DEF Presented
<1>4. QED BY <1>2, <1>3

LEMMA SpecsOK ==
  ASSUME pcrs \in Boots, NEW ms \in Seq(Secrets), ms # <<>> \/ Specs(ms) # <<>>
  PROVE  \E n \in Nat \ {0} : DOMAIN Specs(ms) = 1..n /\ \A i \in 1..n : MethodOK(Specs(ms)[i])
<1>1. Len(ms) \in Nat /\ DOMAIN ms = 1..Len(ms) /\ \A i \in 1..Len(ms) : ms[i] \in Secrets
  OBVIOUS
<1>2. DOMAIN Specs(ms) = 1..Len(ms) /\ \A i \in 1..Len(ms) : MethodOK(Specs(ms)[i])
  BY <1>1, Methods DEF Specs
<1>3. Len(ms) # 0
  <2> SUFFICES ASSUME Len(ms) = 0 PROVE FALSE
    OBVIOUS
  <2>1. ms = <<>>
    OBVIOUS
  <2>2. Specs(ms) = <<>>
    <3>1. Specs(ms) = [i \in 1..0 |-> Presented(ms[i])]
      BY <1>1 DEF Specs
    <3>2. QED BY <3>1
  <2>3. QED BY <2>1, <2>2
<1>4. QED BY <1>1, <1>2, <1>3

LEMMA BundleInitOK == BundleInit => BundleInv
<1> SUFFICES ASSUME BundleInit PROVE BundleInv
  OBVIOUS
<1>1. PICK ms \in Seq(Secrets) \ {<<>>}, kinds \in [Backends -> CredKinds],
           allow \in [Contributors -> SUBSET Backends] :
        disk = [Seal(0, Specs(ms), [k \in Backends |-> Cred(kinds[k], "operator", 0)], 0)
                  EXCEPT !.payload.allow = allow]
  BY DEF BundleInit
<1> DEFINE creds == [k \in Backends |-> Cred(kinds[k], "operator", 0)]
           b == Seal(0, Specs(ms), creds, 0)
<1>2. pcrs \in Boots
  BY DEF BundleInit
<1>3. PICK n \in Nat \ {0} : DOMAIN Specs(ms) = 1..n /\ \A i \in 1..n : MethodOK(Specs(ms)[i])
  BY <1>2, SpecsOK
<1>4. DOMAIN creds = Backends /\ \A k \in Backends : creds[k].kind \in CredKinds
  BY DEF Cred
<1> HIDE DEF creds
<1>5. Usable(b) /\ b.epoch = 1
  BY <1>3, <1>4, SealUsable
<1>6. disk = [b EXCEPT !.payload.allow = allow]
  BY <1>1 DEF creds
<1> HIDE DEF b
<1>7. /\ DOMAIN disk = DOMAIN b /\ disk.id = b.id /\ disk.epoch = b.epoch /\ disk.slots = b.slots
      /\ disk.deposits = b.deposits /\ disk.payload = [b.payload EXCEPT !.allow = allow]
  BY <1>5, <1>6 DEF Usable
<1>8. CredBundleOK(disk.payload) /\ disk.payload.kek = b.payload.kek /\ disk.payload.aad = b.payload.aad
  BY <1>5, <1>7 DEF Usable, CredBundleOK
<1>9. Header(disk) = Header(b)
  BY <1>7 DEF Header
<1>10. Usable(disk)
  BY <1>5, <1>7, <1>8, <1>9 DEF Usable, SlotUsable
<1>11. NotLockedOut
  BY <1>5, <1>7, BundleAssumption DEF BundleInit, NotLockedOut
<1>12. job = NoJob /\ Forward
  BY DEF BundleInit, Forward, NoJob
<1>13. /\ count \in Nat /\ restores \in Nat /\ orphaned \in BOOLEAN /\ seen \in Nat \cup {None}
       /\ backups = {} /\ DOMAIN broker = Brokers /\ \A s \in Brokers : broker[s].pc = "down"
  <2>1. /\ count = 0 /\ restores = 0 /\ orphaned = FALSE /\ seen \in {None, 1}
        /\ backups = {} /\ broker = [s \in Brokers |-> Idle]
    BY DEF BundleInit
  <2>2. DOMAIN broker = Brokers /\ \A s \in Brokers : broker[s].pc = "down"
    BY <2>1 DEF Idle
  <2>3. orphaned \in BOOLEAN
    BY <2>1, Zenon
  <2>4. QED BY <2>1, <2>2, <2>3
<1>14. QED BY <1>2, <1>10, <1>11, <1>12, <1>13 DEF BundleInv, Reading, Guarded

(* A command begins. *)
LEMMA RunOK ==
  ASSUME BundleInv, NEW cmd \in CommandNames, NEW next, Usable(next), NEW epoch \in {None, next.epoch}, NEW token,
         NEW about, cmd = "create" => epoch # None, cmd # "create" => disk.epoch <= next.epoch,
         Run(cmd, next, epoch, token, about)
  PROVE  BundleInv'
<1>1. /\ count' = count + 1 /\ job = NoJob /\ \A s \in Brokers : ~Guarded(s)
      /\ job' = [cmd |-> cmd, next |-> next, epoch |-> epoch, token |-> token, about |-> about, pc |-> "write"]
      /\ UNCHANGED <<disk, seen, broker, phrase, pcrs, recipients, backups, restores, floor, orphaned>>
  BY DEF Run, LockFree
<1>2. JobOK(job') /\ job'.pc = "write" /\ job'.cmd = cmd /\ job'.next = next
  BY <1>1 DEF JobOK
<1>3. Forward'
  BY <1>1, <1>2 DEF Forward
<1>4. NotLockedOut'
  <2>1. ~Creating
    BY <1>1 DEF Creating
  <2>2. QED BY <1>1, <2>1 DEF BundleInv, NotLockedOut
<1>5. count' \in Nat
  BY <1>1 DEF BundleInv
<1>6. \A s \in Brokers : ~Reading(s)' /\ ~Guarded(s)'
  BY <1>1 DEF Reading, Guarded
<1>7. QED BY <1>1, <1>2, <1>3, <1>4, <1>5, <1>6 DEF BundleInv

LEMMA CreateOK ==
  ASSUME BundleInv, NEW ms \in Seq(Secrets), NEW kinds \in [Backends -> CredKinds], NEW ingest \in BOOLEAN,
         Create(Specs(ms), kinds, ingest)
  PROVE  BundleInv'
<1> DEFINE creds == [k \in Backends |-> Cred(kinds[k], "operator", Stamp)]
           key == IF ingest THEN Stamp ELSE None
           next == Seal(Stamp, Specs(ms), creds, key)
<1>1. PICK n \in Nat \ {0} : DOMAIN Specs(ms) = 1..n /\ \A i \in 1..n : MethodOK(Specs(ms)[i])
  BY SpecsOK DEF Create, BundleInv
<1>2. Stamp \in Nat
  BY DEF Stamp, BundleInv
<1>3. DOMAIN creds = Backends /\ \A k \in Backends : creds[k].kind \in CredKinds
  BY DEF Cred
<1>4. Run("create", next, 1, key, Backends)
  BY DEF Create
<1> HIDE DEF creds, key
<1>5. Usable(next) /\ next.epoch = 1
  BY <1>1, <1>2, <1>3, SealUsable
<1> HIDE DEF next
<1>6. "create" \in CommandNames /\ 1 # None
  BY BundleAssumption DEF CommandNames
<1>7. QED BY <1>4, <1>5, <1>6, RunOK

LEMMA CredsOK ==
  ASSUME NEW p, CredBundleOK(p), NEW creds, DOMAIN creds = Backends,
         \A k \in Backends : creds[k].kind \in CredKinds
  PROVE  CredBundleOK([p EXCEPT !.creds = creds])
  BY DEF CredBundleOK

LEMMA Chosen ==
  ASSUME NEW b, NEW ks, NEW ws
  PROVE  SelectEffective(b) \subseteq DOMAIN b.deposits /\ Selected(b, ks, ws) \subseteq DOMAIN b.deposits
  BY DEF SelectEffective, ByPair, Candidates, Selected

LEMMA OpenCommandOK ==
  ASSUME BundleInv, NEW open, OpenCommand(open)
  PROVE  BundleInv'
<1>1. /\ Usable(disk) /\ CredBundleOK(disk.payload) /\ disk.epoch \in Nat /\ disk.epoch <= disk.epoch
      /\ disk.epoch <= disk.epoch + 1
  BY DEF BundleInv, Usable
<1>2. CommandNames = {"create", "add_slot", "set_backend", "deposit", "allow", "promote", "deposit_key", "rekey"}
  BY DEF CommandNames
<1>3. ASSUME NEW m \in Secrets, AddSlotCommand(open, Presented(m)) PROVE BundleInv'
  <2> DEFINE next == AddSlot(disk, open, Presented(m))
  <2>1. next # None /\ Run("add_slot", next, disk.epoch, None, {})
    BY <1>3 DEF AddSlotCommand
  <2>2. MethodOK(Presented(m))
    BY Methods DEF BundleInv
  <2>3. Usable(next) /\ next.epoch = disk.epoch
    BY <1>1, <2>1, <2>2, AddUsable
  <2> HIDE DEF next
  <2>4. QED BY <1>1, <1>2, <2>1, <2>3, RunOK
<1>4. ASSUME NEW p, CredBundleOK(p), NEW cmd \in CommandNames \ {"create"}, NEW epoch \in {None, disk.epoch},
             NEW token, NEW about, Run(cmd, ResealPayload(disk, p), epoch, token, about)
      PROVE  BundleInv'
  <2> DEFINE next == ResealPayload(disk, p)
  <2>1. Usable(next) /\ next.epoch = disk.epoch
    BY <1>1, <1>4, ResealUsable
  <2>2. Run(cmd, next, epoch, token, about)
    BY <1>4
  <2> HIDE DEF next
  <2>3. QED BY <1>1, <1>4, <2>1, <2>2, RunOK
<1>5. ASSUME NEW k \in Backends, NEW kind \in CredKinds, SetBackend(open, k, kind) PROVE BundleInv'
  <2> DEFINE p == [disk.payload EXCEPT !.creds[k] = Cred(kind, "operator", Stamp)]
  <2>1. CredBundleOK(p)
    BY <1>1 DEF CredBundleOK, Cred
  <2>2. Run("set_backend", ResealPayload(disk, p), disk.epoch, None, {k})
    BY <1>5 DEF SetBackend
  <2> HIDE DEF p
  <2>3. QED BY <1>2, <1>4, <2>1, <2>2
<1>6. ASSUME NEW who \in Contributors, NEW ks \in SUBSET Backends, Allow(open, who, ks) PROVE BundleInv'
  <2> DEFINE p == [disk.payload EXCEPT !.allow[who] = ks, !.ingest = Ingest]
  <2>1. CredBundleOK(p)
    BY <1>1 DEF CredBundleOK
  <2>2. Run("allow", ResealPayload(disk, p), None, None, disk.payload.allow[who] \cup ks)
    BY <1>6 DEF Allow
  <2> HIDE DEF p
  <2>3. QED BY <1>2, <1>4, <2>1, <2>2
<1>7. CASE DepositKey(open)
  <2> DEFINE p == [disk.payload EXCEPT !.ingest = Ingest]
  <2>1. CredBundleOK(p)
    BY <1>1 DEF CredBundleOK
  <2>2. Run("deposit_key", ResealPayload(disk, p), None, Ingest, {})
    BY <1>7 DEF DepositKey
  <2> HIDE DEF p
  <2>3. QED BY <1>2, <1>4, <2>1, <2>2
<1>8. ASSUME NEW creds, DOMAIN creds = Backends, \A k \in Backends : creds[k].kind \in CredKinds, NEW gone,
             NEW next, next = BumpEpoch(disk, open, [disk.payload EXCEPT !.creds = creds], Without(disk, gone)),
             next # None, NEW cmd \in CommandNames \ {"create"}, NEW token, NEW about,
             Run(cmd, next, next.epoch, token, about)
      PROVE  BundleInv'
  <2>1. CredBundleOK([disk.payload EXCEPT !.creds = creds])
    BY <1>1, <1>8, CredsOK
  <2>2. Listed(Without(disk, gone)) /\ \A i \in DOMAIN Without(disk, gone) : DepositOK(Without(disk, gone)[i])
    BY <1>1, WithoutOK
  <2>3. Usable(next) /\ next.epoch = disk.epoch + 1
    BY <1>1, <1>8, <2>1, <2>2, BumpUsable
  <2>4. QED BY <1>1, <1>8, <2>3, RunOK
<1>9. ASSUME NEW ks \in SUBSET Backends, NEW ws \in SUBSET Contributors, Promote(open, ks, ws) PROVE BundleInv'
  <2> DEFINE chosen == Selected(disk, ks, ws)
             creds == Overlay(disk, chosen)
             next == PromoteDeposits(disk, open, ks, ws)
  <2>1. DOMAIN creds = Backends /\ \A k \in Backends : creds[k].kind \in CredKinds
    BY <1>1, Chosen, OverlayOK
  <2>2. next = BumpEpoch(disk, open, [disk.payload EXCEPT !.creds = creds], Without(disk, chosen))
    BY DEF PromoteDeposits
  <2> DEFINE about == LeftOut(disk, ks, ws)
  <2>3. next # None /\ Run("promote", next, next.epoch, None, about)
    BY <1>9 DEF Promote
  <2> HIDE DEF chosen, creds, next, about
  <2>4. QED BY <1>2, <1>8, <2>1, <2>2, <2>3
<1>10. ASSUME NEW k \in Backends, RekeyCommand(open, k) PROVE BundleInv'
  <2> DEFINE eff == Effective(disk)
             creds == [eff EXCEPT ![k] = Cred("dek", "rekey", Stamp)]
             gone == SelectEffective(disk) \cup {i \in DOMAIN disk.deposits : disk.deposits[i].to = k}
             next == RekeyPrepared(open, k)
  <2>1. DOMAIN eff = Backends /\ \A l \in Backends : eff[l].kind \in CredKinds
    BY <1>1, Chosen, OverlayOK DEF Effective
  <2>2. next = BumpEpoch(disk, open, [disk.payload EXCEPT !.creds = creds], Without(disk, gone))
    BY DEF RekeyPrepared
  <2>3. next # None /\ Run("rekey", next, next.epoch, None, {k})
    BY <1>10 DEF RekeyCommand
  <2> HIDE DEF eff
  <2>4. DOMAIN creds = Backends /\ \A l \in Backends : creds[l].kind \in CredKinds
    BY <2>1 DEF Cred, CredKinds
  <2> HIDE DEF creds, gone, next
  <2>5. QED BY <1>2, <1>8, <2>2, <2>3, <2>4
<1>11. QED BY <1>3, <1>5, <1>6, <1>7, <1>9, <1>10 DEF OpenCommand

LEMMA DepositStepOK ==
  ASSUME BundleInv, NEW k \in Backends, NEW who \in Contributors, NEW signer \in Contributors,
         NEW seq \in 1..MaxSeq, NEW i, Deposit(k, who, signer, seq, i)
  PROVE  BundleInv'
<1> DEFINE d == CreateSignedRecord(disk, k, who, signer, seq, i, Cred("token", signer, Stamp))
           next == [disk EXCEPT !.deposits = Append(@, d)]
<1>1. Usable(disk) /\ disk.epoch \in Nat \ {0} /\ disk.epoch <= disk.epoch
  BY DEF BundleInv, Usable
<1>2. DepositOK(d)
  BY <1>1 DEF DepositOK, CreateSignedRecord, Cred, CredKinds
<1>3. Run("deposit", next, None, None, {k})
  BY DEF Deposit
<1> HIDE DEF d
<1>4. Usable(next) /\ next.epoch = disk.epoch
  BY <1>1, <1>2, DepositUsable
<1> HIDE DEF next
<1>5. "deposit" \in CommandNames
  BY DEF CommandNames
<1>6. QED BY <1>1, <1>3, <1>4, <1>5, RunOK

(* The writes of a command. *)
LEMMA WriteBundleOK ==
  ASSUME BundleInv, WriteBundle
  PROVE  BundleInv'
<1>1. /\ JobOK(job) /\ job.pc = "write" /\ disk' = job.next /\ backups' = backups \cup {disk}
      /\ job' = Continue("write")
      /\ UNCHANGED <<seen, broker, phrase, pcrs, count, recipients, restores, floor, orphaned>>
  BY DEF WriteBundle, BundleInv
<1>2. Usable(disk') /\ \A b \in backups' : Usable(b)
  BY <1>1 DEF BundleInv, JobOK
<1>0. \A s \in Brokers : ~Reading(s) /\ ~Guarded(s) /\ ~Reading(s)' /\ ~Guarded(s)'
  <2>1. job # NoJob
    BY DEF WriteBundle
  <2>2. QED BY <1>1, <2>1 DEF BundleInv, Reading, Guarded
<1>3. CASE job.epoch # None
  <2>1. job' = [job EXCEPT !.pc = "sidecar"]
    BY <1>1, <1>3 DEF Continue
  <2>2. JobOK(job') /\ job'.pc = "sidecar" /\ job'.next = job.next /\ job'.cmd = job.cmd /\ job' # NoJob
    BY <1>1, <1>3, <2>1 DEF JobOK, NoJob
  <2>3. Forward'
    BY <1>1, <2>2 DEF Forward
  <2>4. NotLockedOut'
    <3>1. CASE job.cmd = "create"
      BY <2>2, <3>1 DEF NotLockedOut, Creating
    <3>2. CASE job.cmd # "create" /\ restores = 0
      <4>1. disk.epoch <= disk'.epoch /\ disk.epoch \in Nat /\ disk'.epoch \in Nat
        BY <1>1, <1>2, <3>2 DEF BundleInv, Forward, Usable
      <4>2. seen \in Nat => (seen > disk'.epoch => seen > disk.epoch)
        BY <4>1
      <4>3. ~Creating
        BY <1>1 DEF Creating
      <4>4. QED BY <1>1, <4>2, <4>3 DEF BundleInv, NotLockedOut
    <3>3. CASE restores # 0
      BY <1>1, <3>3 DEF BundleInv, NotLockedOut
    <3>4. QED BY <3>1, <3>2, <3>3
  <2>5. QED BY <1>0, <1>1, <1>2, <2>2, <2>3, <2>4 DEF BundleInv
<1>4. CASE job.epoch = None
  <2>1. job' \in {NoJob, [job EXCEPT !.pc = "token"]}
    BY <1>1, <1>4 DEF Continue
  <2>2. (job' = NoJob \/ JobOK(job')) /\ job'.pc \notin {"write", "sidecar"}
    BY <1>1, <1>4, <2>1 DEF JobOK, NoJob
  <2>3. Forward'
    BY <2>2 DEF Forward
  <2>4. NotLockedOut'
    <3>1. CASE restores = 0
      <4>1. job.cmd # "create"
        BY <1>1, <1>4 DEF JobOK
      <4>2. disk.epoch <= disk'.epoch /\ disk.epoch \in Nat /\ disk'.epoch \in Nat
        BY <1>1, <1>2, <3>1, <4>1 DEF BundleInv, Forward, Usable
      <4>3. seen \in Nat => (seen > disk'.epoch => seen > disk.epoch)
        BY <4>2
      <4>4. ~Creating
        BY <1>1 DEF Creating
      <4>5. QED BY <1>1, <4>3, <4>4 DEF BundleInv, NotLockedOut
    <3>2. CASE restores # 0
      BY <1>1, <3>2 DEF BundleInv, NotLockedOut
    <3>3. QED BY <3>1, <3>2
  <2>5. QED BY <1>0, <1>1, <1>2, <2>2, <2>3, <2>4 DEF BundleInv
<1>5. QED BY <1>3, <1>4

LEMMA WriteEpochOK ==
  ASSUME BundleInv, WriteEpoch
  PROVE  BundleInv'
<1>1. /\ JobOK(job) /\ job.pc = "sidecar" /\ seen' = job.epoch /\ orphaned' = (orphaned /\ job.epoch # disk.epoch)
      /\ job' = Continue("sidecar")
      /\ UNCHANGED <<disk, broker, phrase, pcrs, count, recipients, backups, restores>>
  BY DEF WriteEpoch, BundleInv
<1>2. job.epoch = job.next.epoch /\ job.epoch \in Nat
  BY <1>1 DEF JobOK, Usable
<1>3. job' \in {NoJob, [job EXCEPT !.pc = "token"]}
  BY <1>1 DEF Continue
<1>4. (job' = NoJob \/ JobOK(job')) /\ job'.pc \notin {"write", "sidecar"}
  BY <1>1, <1>3 DEF JobOK, NoJob
<1>5. Forward'
  BY <1>4 DEF Forward
<1>6. NotLockedOut'
  <2>1. CASE restores = 0
    <3>1. disk'.epoch = seen' /\ disk'.epoch \in Nat
      BY <1>1, <1>2, <2>1 DEF BundleInv, Forward
    <3>2. ~(seen' > disk'.epoch)
      BY <3>1
    <3>3. QED BY <3>2 DEF NotLockedOut
  <2>2. CASE restores # 0
    BY <1>1, <2>2 DEF BundleInv, NotLockedOut
  <2>3. QED BY <2>1, <2>2
<1>7. orphaned' \in BOOLEAN
  BY <1>1
<1>8. \A s \in Brokers : ~Reading(s)' /\ ~Guarded(s)'
  <2>1. job # NoJob
    BY DEF WriteEpoch
  <2>2. QED BY <1>1, <2>1 DEF BundleInv, Reading, Guarded
<1>9. QED BY <1>1, <1>2, <1>4, <1>5, <1>6, <1>7, <1>8 DEF BundleInv

(* The command is over, or cut short. *)
LEMMA JobGone ==
  ASSUME BundleInv, job' = NoJob, UNCHANGED <<disk, seen, count, backups, restores>>, pcrs' \in Boots,
         DOMAIN broker' = Brokers, \A s \in Brokers : broker'[s] \in {broker[s], Idle},
         orphaned' \in BOOLEAN, orphaned \/ Creating => orphaned'
  PROVE  BundleInv'
<1>1. Forward'
  BY DEF Forward, NoJob
<1>2. NotLockedOut'
  BY DEF BundleInv, NotLockedOut
<1>3. \A s \in Brokers : Reading(s)' => Reading(s) /\ broker'[s] = broker[s]
  BY DEF Reading, Idle
<1>4. QED BY <1>1, <1>2, <1>3 DEF BundleInv

LEMMA EndOK ==
  ASSUME BundleInv, WriteToken \/ Interrupt \/ \E v \in Boots : Boot(v)
  PROVE  BundleInv'
<1>1. CASE WriteToken
  <2>1. ~Creating
    BY <1>1 DEF WriteToken, Creating
  <2>2. QED BY <1>1, <2>1, JobGone DEF WriteToken, BundleInv
<1>2. CASE Interrupt
  <2>1. orphaned' \in BOOLEAN /\ (orphaned \/ Creating => orphaned')
    BY <1>2 DEF Interrupt, Creating, BundleInv
  <2>2. QED BY <1>2, <2>1, JobGone DEF Interrupt, BundleInv
<1>3. ASSUME NEW v \in Boots, Boot(v) PROVE BundleInv'
  <2>1. orphaned' \in BOOLEAN /\ (orphaned \/ Creating => orphaned')
    BY <1>3 DEF Boot, Creating, BundleInv
  <2>2. QED BY <1>3, <2>1, JobGone DEF Boot
<1>4. QED BY <1>1, <1>2, <1>3

(* A broker starts; the host moves. *)
LEMMA StartOK ==
  ASSUME BundleInv, NEW s \in Brokers, Start(s)
  PROVE  BundleInv'
<1>1. UNCHANGED <<disk, job, pcrs, count, backups, restores, orphaned>> /\ DOMAIN broker' = Brokers
  BY DEF Start, StartRead, StartCheck, StartAdvance, StartOpen, StartServe, Stop, BundleInv
<1>2. \A t \in Brokers : t # s => broker'[t] = broker[t]
  BY DEF Start, StartRead, StartCheck, StartAdvance, StartOpen, StartServe, Stop, BundleInv
<1>3. /\ Guarded(s)' => job = NoJob
      /\ Reading(s)' => \/ broker'[s].held = disk /\ broker'[s].epoch = disk.epoch
                        \/ Reading(s) /\ broker'[s].held = broker[s].held /\ broker'[s].epoch = broker[s].epoch
  <2> USE DEF BundleInv
  <2>1. CASE StartRead(s)
    BY <2>1 DEF StartRead
  <2>2. CASE StartCheck(s)
    <3>1. broker[s].pc = "read" /\ job = NoJob
      BY <2>2 DEF StartCheck, Guarded
    <3>2. PICK v : broker'[s] = IF v = "refused" THEN Idle ELSE [broker[s] EXCEPT !.pc = v]
      BY <2>2 DEF StartCheck
    <3>3. broker'[s].pc # "down" => broker'[s].held = broker[s].held /\ broker'[s].epoch = broker[s].epoch
      BY <3>2 DEF Idle
    <3>4. QED BY <3>1, <3>3 DEF Reading, Guarded
  <2>3. CASE StartAdvance(s)
    <3>1. broker[s].pc = "advance" /\ broker'[s] = [broker[s] EXCEPT !.pc = "checked"]
      BY <2>3 DEF StartAdvance
    <3>2. QED BY <3>1 DEF Reading, Guarded
  <2>4. CASE StartOpen(s)
    <3>1. broker[s].pc = "checked" /\ broker'[s].pc \in {"open", "down"}
      BY <2>4 DEF StartOpen, Idle
    <3>2. QED BY <3>1 DEF Reading, Guarded
  <2>5. CASE StartServe(s)
    <3>1. broker[s].pc = "open" /\ broker'[s] = [broker[s] EXCEPT !.pc = "serving"]
      BY <2>5 DEF StartServe
    <3>2. job = NoJob /\ broker'[s].pc \notin {"read", "advance", "checked"}
      BY <3>1 DEF Guarded
    <3>3. QED BY <3>2 DEF Reading
  <2>6. CASE Stop(s)
    BY <2>6 DEF Stop, Idle, Reading, Guarded
  <2>7. QED BY <2>1, <2>2, <2>3, <2>4, <2>5, <2>6 DEF Start
<1>4. \A t \in Brokers : Reading(t)' => Usable(broker'[t].held) /\ broker'[t].epoch = broker'[t].held.epoch
  BY <1>2, <1>3 DEF BundleInv, Reading
<1>5. \A t \in Brokers : Guarded(t)' => job' = NoJob
  BY <1>1, <1>2, <1>3 DEF BundleInv, Guarded
<1>6. restores' = 0 => \A t \in Brokers : Reading(t)' => broker'[t].held = disk'
  BY <1>1, <1>2, <1>3 DEF BundleInv, Reading
<1>7. seen' = seen \/ (Reading(s) /\ seen' = broker[s].held.epoch)
  BY DEF Start, StartRead, StartCheck, StartAdvance, StartOpen, StartServe, Stop, AdvanceEpoch, Reading, BundleInv
<1>8. NotLockedOut' /\ Forward' /\ seen' \in Nat \cup {None}
  <2>1. Forward' /\ seen' \in Nat \cup {None}
    BY <1>1, <1>7 DEF Forward, BundleInv, Usable
  <2>2. CASE seen' = seen
    BY <1>1, <2>1, <2>2 DEF NotLockedOut, Creating, BundleInv
  <2>3. CASE Reading(s) /\ seen' = broker[s].held.epoch
    <3>1. CASE restores = 0
      <4>1. seen' = disk'.epoch /\ disk'.epoch \in Nat
        BY <1>1, <2>3, <3>1 DEF BundleInv, Usable
      <4>2. ~(seen' > disk'.epoch)
        BY <4>1
      <4>3. QED BY <2>1, <4>2 DEF NotLockedOut
    <3>2. CASE restores # 0
      BY <1>1, <2>1, <3>2 DEF BundleInv, NotLockedOut
    <3>3. QED BY <3>1, <3>2
  <2>4. QED BY <1>7, <2>1, <2>2, <2>3
<1>9. QED BY <1>1, <1>4, <1>5, <1>6, <1>8 DEF BundleInv

LEMMA HostOK ==
  ASSUME BundleInv, Provision \/ \E b \in backups : Restore(b)
  PROVE  BundleInv'
<1>1. CASE Provision
  BY <1>1 DEF Provision, BundleInv, Forward, NotLockedOut, Creating, Reading, Guarded
<1>2. ASSUME NEW b \in backups, Restore(b) PROVE BundleInv'
  <2>1. /\ disk' = b /\ Usable(b) /\ restores' = restores + 1 /\ restores \in Nat
        /\ UNCHANGED <<seen, job, broker, phrase, pcrs, count, recipients, backups, floor, orphaned>>
    BY <1>2 DEF Restore, BundleInv
  <2>2. restores' > 0 /\ restores' # 0 /\ restores' \in Nat
    BY <2>1
  <2>3. Forward' /\ NotLockedOut'
    BY <2>2 DEF Forward, NotLockedOut
  <2>4. QED BY <2>1, <2>2, <2>3 DEF BundleInv, Reading, Guarded
<1>3. QED BY <1>1, <1>2

LEMMA BundleStep == BundleInv /\ [BundleNext]_bundleVars => BundleInv'
<1> SUFFICES ASSUME BundleInv, [BundleNext]_bundleVars PROVE BundleInv'
  OBVIOUS
<1>1. CASE UNCHANGED bundleVars
  BY <1>1 DEF bundleVars, BundleInv, Forward, NotLockedOut, Creating, Reading, Guarded
<1>2. CASE BundleNext
  BY <1>2, CreateOK, OpenCommandOK, DepositStepOK, WriteBundleOK, WriteEpochOK, EndOK, StartOK, HostOK
     DEF BundleNext, Proceed
<1>3. QED BY <1>1, <1>2

(* For any methods, commands, interruptions, starts and restored backups:  *)
(* the bundle decodes, each of its slots opens it, and no interrupted      *)
(* command but a create leaves a sidecar that refuses every start          *)
(* (bundle_cli.rs, seal/mod.rs).                                           *)
THEOREM SlotsUsableHolds == BundleSpec => []SlotsUsable
<1>1. BundleInv => SlotsUsable
  <2> SUFFICES ASSUME BundleInv PROVE SlotsUsable
    OBVIOUS
  <2>1. BundleTypeOK
    BY UsableDecodes DEF BundleInv, JobOK, BundleTypeOK, Reading
  <2>2. EverySlotOpens
    BY SlotsOpen DEF BundleInv, EverySlotOpens
  <2>3. QED BY <2>1, <2>2 DEF BundleInv, SlotsUsable
<1>2. QED BY <1>1, BundleInitOK, BundleStep, PTL DEF BundleSpec

----------------------------------------------------------------------------
(* The history of a bundle. *)

(* Deposits carry an epoch their bundle has had, and are sealed to an      *)
(* ingest key that some command has made by then.                          *)
KeyMade(i, n) == i = None \/ i \in 0..n
Dated(b, n) ==
  /\ KeyMade(b.payload.ingest, n)
  /\ \A i \in DOMAIN b.deposits : b.deposits[i].epoch <= b.epoch /\ b.deposits[i].ingest \in 0..n
DatedInv ==
  /\ Dated(disk, count) /\ \A b \in backups : Dated(b, count)
  /\ job # NoJob => /\ Dated(job.next, count) /\ KeyMade(job.token, count)
                    /\ job.pc = "token" => job.token # None
  /\ recipients \subseteq 0..count

(* As long as one broker starts at a time, what one has opened since is in *)
(* the sidecar, and the sidecar is what its check made of it.              *)
SeenInv ==
  /\ floor \in Nat /\ crowded \in BOOLEAN
  /\ ~crowded =>
       /\ (seen = None => floor = 0) /\ (seen # None => floor <= seen)
       /\ \A s, t \in Brokers : Guarded(s) /\ Guarded(t) => s = t
       /\ \A s \in Brokers : broker[s].pc = "checked" => seen = broker[s].epoch
       /\ \A s \in Brokers : broker[s].pc = "advance" => (seen # None => seen <= broker[s].epoch)

LEMMA ResealFields ==
  ASSUME NEW b, Usable(b), NEW p, CredBundleOK(p)
  PROVE  LET c == ResealPayload(b, p) IN
         /\ c.epoch = b.epoch /\ c.deposits = b.deposits /\ Header(c) = Header(b)
         /\ c.payload.creds = p.creds /\ c.payload.ingest = p.ingest /\ c.payload.allow = p.allow
<1> DEFINE e == [p EXCEPT !.kek = b.payload.kek, !.aad = Header(b)]
           c == ResealPayload(b, p)
<1>1. c = [b EXCEPT !.payload = e]
  BY DEF ResealPayload, EncryptPayload
<1>2. c.id = b.id /\ c.epoch = b.epoch /\ c.deposits = b.deposits /\ c.payload = e
  BY <1>1 DEF Usable
<1>3. e.creds = p.creds /\ e.ingest = p.ingest /\ e.allow = p.allow
  BY DEF CredBundleOK
<1> HIDE DEF c, e
<1>4. QED BY <1>2, <1>3 DEF Header, c

LEMMA BumpFields ==
  ASSUME NEW b, Usable(b), NEW open, NEW p, CredBundleOK(p), NEW deposits, BumpEpoch(b, open, p, deposits) # None
  PROVE  LET c == BumpEpoch(b, open, p, deposits) IN
         /\ c.epoch = b.epoch + 1 /\ c.deposits = deposits
         /\ c.payload.creds = p.creds /\ c.payload.ingest = p.ingest /\ c.payload.allow = p.allow
<1> DEFINE kek == RecoverAny(b, open)
           hdr == <<b.id, b.epoch + 1>>
           slots == RewrapSlots(b, open, kek, hdr)
           e == [p EXCEPT !.kek = kek, !.aad = hdr]
           c == BumpEpoch(b, open, p, deposits)
<1>1. c = [b EXCEPT !.epoch = b.epoch + 1, !.slots = slots, !.deposits = deposits, !.payload = e]
  BY DEF BumpEpoch, EncryptPayload
<1> HIDE DEF slots
<1>2. c.epoch = b.epoch + 1 /\ c.deposits = deposits /\ c.payload = e
  BY <1>1 DEF Usable
<1>3. e.creds = p.creds /\ e.ingest = p.ingest /\ e.allow = p.allow
  BY DEF CredBundleOK
<1> HIDE DEF c, e
<1>4. QED BY <1>2, <1>3 DEF c

LEMMA AddFields ==
  ASSUME NEW b, Usable(b), NEW open, NEW m, AddSlot(b, open, m) # None
  PROVE  LET c == AddSlot(b, open, m) IN
         c.epoch = b.epoch /\ c.deposits = b.deposits /\ c.payload = b.payload /\ Header(c) = Header(b)
  BY DEF AddSlot, Usable, Header

LEMMA WithoutFrom ==
  ASSUME NEW b, Usable(b), NEW gone, NEW i \in DOMAIN Without(b, gone)
  PROVE  \E k \in DOMAIN b.deposits \ gone : Without(b, gone)[i] = b.deposits[k]
<1> DEFINE K == DOMAIN b.deposits \ gone
<1>1. PICK S : b.deposits \in Seq(S)
  BY DEF Usable, Listed
<1>2. K \subseteq DOMAIN b.deposits /\ Without(b, gone) = AtPositions(b.deposits, K)
  BY DEF Without
<1> HIDE DEF K
<1>3. /\ AtPositions(b.deposits, K) \in Seq(S) /\ Len(AtPositions(b.deposits, K)) = Cardinality(K)
      /\ \A n \in 1..Cardinality(K) : \E k \in K : AtPositions(b.deposits, K)[n] = b.deposits[k]
  BY <1>1, <1>2, Positioned
<1>4. i \in 1..Cardinality(K)
  BY <1>2, <1>3
<1>5. QED BY <1>2, <1>3, <1>4 DEF K

(* The greatest of finitely many numbers.  A smallest set without one      *)
(* would lose an element and have one.                                     *)
LEMMA FiniteMax ==
  ASSUME NEW T, T \subseteq Nat, IsFiniteSet(T), T # {}
  PROVE  Max(T) \in T /\ \A x \in T : Max(T) >= x
<1> DEFINE Top(U) == \E x \in U : \A y \in U : x >= y
           Bad == {U \in SUBSET T : U # {} /\ ~Top(U)}
           Sizes == {Cardinality(U) : U \in Bad}
<1>1. \A U \in SUBSET T : IsFiniteSet(U) /\ Cardinality(U) \in Nat
  BY FS_Subset, FS_CardinalityType
<1>2. Bad = {}
  <2> SUFFICES ASSUME Bad # {} PROVE FALSE
    OBVIOUS
  <2>1. Sizes \subseteq Nat /\ Sizes # {}
    BY <1>1
  <2>2. PICK n \in Sizes : \A m \in Sizes : ~(<<m, n>> \in OpToRel(<, Nat))
    <3> HIDE DEF Sizes
    <3>1. QED BY <2>1, NatLessThanWellFounded, WFMin
  <2>3. PICK U \in Bad : n = Cardinality(U)
    OBVIOUS
  <2>4. PICK x \in U : TRUE
    OBVIOUS
  <2> DEFINE V == U \ {x}
  <2>5. IsFiniteSet(U) /\ IsFiniteSet(V) /\ Cardinality(V) = n - 1 /\ n \in Nat /\ Cardinality(V) \in Nat
    BY <1>1, <2>3, <2>4, FS_RemoveElement
  <2>6. V \notin Bad
    <3> SUFFICES ASSUME V \in Bad PROVE FALSE
      OBVIOUS
    <3>1. Cardinality(V) \in Sizes
      OBVIOUS
    <3>2. Cardinality(V) < n
      BY <2>5
    <3>3. QED BY <2>2, <2>5, <3>1, <3>2 DEF OpToRel
  <2>7. CASE V = {}
    <3>1. U = {x} /\ x \in Nat
      BY <2>3, <2>4, <2>7
    <3>2. Top(U)
      BY <3>1
    <3>3. QED BY <2>3, <3>2
  <2>8. CASE V # {}
    <3>1. PICK y \in V : \A z \in V : y >= z
      BY <2>3, <2>6, <2>8
    <3>2. x \in Nat /\ U \subseteq Nat /\ y \in U
      BY <2>3, <2>4
    <3>3. CASE y >= x
      <4>1. \A z \in U : y >= z
        BY <3>1, <3>3
      <4>2. QED BY <2>3, <3>2, <4>1
    <3>4. CASE x >= y
      <4>1. \A z \in U : x >= z
        <5> TAKE z \in U
        <5>1. CASE z = x
          BY <3>2, <5>1
        <5>2. CASE z # x
          <6>1. y >= z /\ z \in Nat /\ y \in Nat
            BY <3>1, <3>2, <5>2
          <6>2. QED BY <3>2, <3>4, <6>1
        <5>3. QED BY <5>1, <5>2
      <4>2. QED BY <2>3, <2>4, <4>1
    <3>5. QED BY <3>2, <3>3, <3>4
  <2>9. QED BY <2>7, <2>8
<1>3. Top(T)
  BY <1>2
<1>4. QED BY <1>3 DEF Max

(* The records that may count are those the review passes. *)
LEMMA PassesReview ==
  ASSUME NEW b, Usable(b), NEW k \in Backends
  PROVE  /\ \A i \in Valid(b, k) : i \in Candidates(b) /\ b.deposits[i].to = k
         /\ \A i \in Candidates(b) : b.deposits[i].to = k => i \in Valid(b, k)
<1>1. \A i \in DOMAIN b.deposits : i \in Nat /\ b.deposits[i].who \in Contributors /\ b.deposits[i].to \in Backends
  BY Lists DEF Usable, DepositOK
<1>2. ASSUME NEW i \in DOMAIN b.deposits PROVE i \in Valid(b, k) <=> i \in Candidates(b) /\ b.deposits[i].to = k
  <2>1. i <= MaxDeposits <=> ~(i > MaxDeposits)
    BY <1>1, <1>2, BundleAssumption
  <2>2. QED BY <1>1, <1>2, <2>1 DEF Valid, Candidates, ReviewOne
<1>3. QED BY <1>2 DEF Valid, Candidates

(* Places, numbers and key ids are comparable. *)
LEMMA Comparable ==
  ASSUME NEW b, Usable(b), NEW k \in Backends, NEW i \in Valid(b, k)
  PROVE  /\ i \in 1..Len(b.deposits) /\ i \in Nat
         /\ b.deposits[i].seq \in Nat /\ b.deposits[i].who \in Nat
<1> DEFINE n == Len(b.deposits)
<1>1. n \in Nat /\ i \in 1..n /\ DepositOK(b.deposits[i])
  BY Lists DEF Valid, Usable
<1> HIDE DEF n
<1>2. i \in Nat
  BY <1>1
<1>3. b.deposits[i].seq \in 1..MaxSeq /\ b.deposits[i].who \in Contributors
  BY <1>1 DEF DepositOK
<1>4. 1..MaxSeq \subseteq Nat /\ Contributors \subseteq Nat
  BY BundleAssumption
<1>5. QED BY <1>1, <1>2, <1>3, <1>4 DEF n

(* Of them one stands above all others. *)
LEMMA Stands ==
  ASSUME NEW b, Usable(b), NEW k \in Backends, Valid(b, k) # {}
  PROVE  LET p == Standing(b, k) IN
         /\ p \in Valid(b, k)
         /\ \A i \in Valid(b, k) :
              LET d == b.deposits[i] e == b.deposits[p] IN
              d.seq < e.seq \/ (d.seq = e.seq /\ (d.who < e.who \/ (d.who = e.who /\ i <= p)))
<1> DEFINE V == Valid(b, k)
           n == Len(b.deposits)
           seqs == {b.deposits[i].seq : i \in V}
           seq == Max(seqs)
           last == {i \in V : b.deposits[i].seq = seq}
           whos == {b.deposits[i].who : i \in last}
           who == Max(whos)
           places == {i \in last : b.deposits[i].who = who}
           p == Max(places)
<1>1. n \in Nat /\ V \subseteq 1..n /\ V # {}
  BY Lists DEF Valid, Usable
<1>2. \A i \in V : i \in Nat /\ b.deposits[i].seq \in Nat /\ b.deposits[i].who \in Nat
  BY Comparable
<1>3. IsFiniteSet(V)
  <2> HIDE DEF V, n
  <2>1. IsFiniteSet(1..n)
    BY <1>1, FS_Interval
  <2>2. QED BY <1>1, <2>1, FS_Subset
<1> HIDE DEF V, n
<1>4. seq \in seqs /\ \A x \in seqs : seq >= x
  <2>0. IsFiniteSet(seqs)
    <3> DEFINE F == [i \in V |-> b.deposits[i].seq]
    <3>1. F \in Surjection(V, seqs)
      BY DEF Surjection
    <3> HIDE DEF F, seqs
    <3>2. QED BY <1>3, <3>1, FS_Surjection
  <2>1. seqs \subseteq Nat /\ seqs # {} /\ IsFiniteSet(seqs)
    BY <1>1, <1>2, <2>0
  <2> HIDE DEF seqs
  <2>2. QED BY <2>1, FiniteMax
<1>5. last # {} /\ last \subseteq V /\ seq \in Nat /\ \A i \in V : seq >= b.deposits[i].seq
  BY <1>2, <1>4
<1> HIDE DEF seqs, seq
<1>6. \A i \in V : i \in last <=> b.deposits[i].seq = seq
  OBVIOUS
<1>7. IsFiniteSet(last)
  BY <1>3, <1>5, FS_Subset
<1> HIDE DEF last
<1>8. who \in whos /\ \A x \in whos : who >= x
  <2>0. IsFiniteSet(whos)
    <3> DEFINE F == [i \in last |-> b.deposits[i].who]
    <3>1. F \in Surjection(last, whos)
      BY DEF Surjection
    <3> HIDE DEF F, whos
    <3>2. QED BY <1>7, <3>1, FS_Surjection
  <2>1. whos \subseteq Nat /\ whos # {} /\ IsFiniteSet(whos)
    BY <1>2, <1>5, <2>0
  <2> HIDE DEF whos
  <2>2. QED BY <2>1, FiniteMax
<1>9. places # {} /\ places \subseteq last /\ who \in Nat /\ \A i \in last : who >= b.deposits[i].who
  BY <1>2, <1>5, <1>8
<1> HIDE DEF whos, who
<1>10. \A i \in last : i \in places <=> b.deposits[i].who = who
  OBVIOUS
<1>11. IsFiniteSet(places) /\ places \subseteq Nat
  BY <1>2, <1>5, <1>7, <1>9, FS_Subset
<1> HIDE DEF places
<1>12. p \in places /\ \A i \in places : p >= i
  BY <1>9, <1>11, FiniteMax
<1>13. p = Standing(b, k)
  BY DEF Standing, V, seqs, seq, last, whos, who, places
<1> HIDE DEF p
<1>14. p \in V /\ b.deposits[p].seq = seq /\ b.deposits[p].who = who /\ p \in Nat
  BY <1>2, <1>5, <1>6, <1>9, <1>10, <1>12
<1>15. ASSUME NEW i \in V
       PROVE  \/ b.deposits[i].seq < b.deposits[p].seq
              \/ /\ b.deposits[i].seq = b.deposits[p].seq
                 /\ \/ b.deposits[i].who < b.deposits[p].who
                    \/ b.deposits[i].who = b.deposits[p].who /\ i <= p
  <2>1. CASE i \notin last
    BY <1>2, <1>5, <1>6, <1>14, <2>1
  <2>2. CASE i \in last /\ i \notin places
    BY <1>2, <1>6, <1>9, <1>10, <1>14, <2>2
  <2>3. CASE i \in places
    BY <1>2, <1>6, <1>9, <1>10, <1>12, <1>14, <2>3
  <2>4. QED BY <2>1, <2>2, <2>3
<1>16. QED BY <1>13, <1>14, <1>15 DEF V

(* The two passes of select_effective find exactly the standing record. *)
LEMMA Chooses ==
  ASSUME NEW b, Usable(b), NEW k \in Backends
  PROVE  {i \in SelectEffective(b) : b.deposits[i].to = k} =
           IF Valid(b, k) = {} THEN {} ELSE {Standing(b, k)}
<1> DEFINE of == {i \in SelectEffective(b) : b.deposits[i].to = k}
           p == Standing(b, k)
<1>1. /\ \A i \in Valid(b, k) : i \in Candidates(b) /\ b.deposits[i].to = k
      /\ \A i \in Candidates(b) : b.deposits[i].to = k => i \in Valid(b, k)
  BY PassesReview
<1>2. CASE Valid(b, k) = {}
  BY <1>1, <1>2 DEF SelectEffective, ByPair
<1>3. CASE Valid(b, k) # {}
  <2>1. /\ p \in Valid(b, k)
        /\ \A i \in Valid(b, k) :
             \/ b.deposits[i].seq < b.deposits[p].seq
             \/ /\ b.deposits[i].seq = b.deposits[p].seq
                /\ \/ b.deposits[i].who < b.deposits[p].who
                   \/ b.deposits[i].who = b.deposits[p].who /\ i <= p
    BY <1>3, Stands
  <2> HIDE DEF p
  <2>2. \A i \in Valid(b, k) : i \in Nat /\ b.deposits[i].seq \in Nat /\ b.deposits[i].who \in Nat
    BY Comparable
  <2>3. p \in Candidates(b) /\ b.deposits[p].to = k
    BY <1>1, <2>1
  <2>4. p \in ByPair(b)
    <3> SUFFICES ASSUME NEW j \in Candidates(b), b.deposits[p].to = b.deposits[j].to,
                        b.deposits[p].who = b.deposits[j].who, p # j
                 PROVE  \/ b.deposits[p].seq > b.deposits[j].seq
                        \/ b.deposits[p].seq = b.deposits[j].seq /\ p > j
      BY <2>3 DEF ByPair
    <3>1. j \in Valid(b, k)
      BY <1>1, <2>3
    <3>2. QED BY <2>1, <2>2, <3>1
  <2>5. ASSUME NEW j \in ByPair(b), b.deposits[j].to = k, j # p
        PROVE  \/ b.deposits[p].seq > b.deposits[j].seq
               \/ b.deposits[p].seq = b.deposits[j].seq /\ b.deposits[p].who > b.deposits[j].who
    <3>1. j \in Valid(b, k)
      BY <1>1, <2>5 DEF ByPair
    <3>2. b.deposits[j].who = b.deposits[p].who =>
            b.deposits[j].seq > b.deposits[p].seq \/ (b.deposits[j].seq = b.deposits[p].seq /\ j > p)
      BY <2>3, <2>5 DEF ByPair
    <3>3. QED BY <2>1, <2>2, <3>1, <3>2
  <2>6. p \in of
    BY <2>3, <2>4, <2>5 DEF SelectEffective
  <2>7. ASSUME NEW i \in of, i # p PROVE FALSE
    <3>1. i \in ByPair(b) /\ b.deposits[i].to = k /\ i \in Valid(b, k)
      BY <1>1 DEF SelectEffective, ByPair
    <3>2. \/ b.deposits[i].seq > b.deposits[p].seq
          \/ b.deposits[i].seq = b.deposits[p].seq /\ b.deposits[i].who > b.deposits[p].who
      BY <2>3, <2>4, <2>7, <3>1 DEF SelectEffective
    <3>3. QED BY <2>1, <2>2, <2>5, <2>7, <3>1, <3>2
  <2>8. of = {p}
    BY <2>6, <2>7
  <2>9. QED BY <1>3, <2>8 DEF p
<1>4. QED BY <1>2, <1>3

LEMMA OverlayServes ==
  ASSUME NEW b, Usable(b), NEW chosen, NEW k \in Backends
  PROVE  /\ {i \in chosen : b.deposits[i].to = k} = {} => Overlay(b, chosen)[k] = b.payload.creds[k]
         /\ \A p \in Nat : {i \in chosen : b.deposits[i].to = k} = {p} => Overlay(b, chosen)[k] = b.deposits[p].cred
<1>1. \A p \in Nat : Max({p}) = p
  BY DEF Max
<1>2. QED BY <1>1 DEF Overlay

LEMMA EffectiveServed ==
  ASSUME NEW b, Usable(b), NEW k \in Backends
  PROVE  Effective(b)[k] = Served(b, k)
<1>1. CASE Valid(b, k) = {}
  BY <1>1, Chooses, OverlayServes DEF Effective, Served
<1>2. CASE Valid(b, k) # {}
  <2>1. Standing(b, k) \in Valid(b, k)
    BY <1>2, Stands
  <2>2. Standing(b, k) \in Nat
    BY <2>1, Lists DEF Valid, Usable
  <2>3. QED BY <1>2, <2>2, Chooses, OverlayServes DEF Effective, Served
<1>3. QED BY <1>1, <1>2

(* What a broker would serve with depends on the log, the epoch, the key   *)
(* and the allow-list, and on nothing else.                                *)
Alike(b, c) ==
  /\ c.deposits = b.deposits /\ c.epoch = b.epoch /\ Header(c) = Header(b)
  /\ c.payload.ingest = b.payload.ingest /\ c.payload.allow = b.payload.allow

LEMMA AlikeServes ==
  ASSUME NEW b, NEW c, Alike(b, c), NEW k \in Backends, c.payload.creds[k] = b.payload.creds[k]
  PROVE  Served(c, k) = Served(b, k)
<1>1. Valid(c, k) = Valid(b, k)
  BY DEF Alike, Valid
<1>2. Standing(c, k) = Standing(b, k)
  BY <1>1 DEF Alike, Standing
<1>3. QED BY <1>1, <1>2 DEF Alike, Served

(* A log without a record that counts serves the payload's credentials. *)
LEMMA NoneServes ==
  ASSUME NEW c, Usable(c), NEW k \in Backends, Candidates(c) = {}
  PROVE  Served(c, k) = c.payload.creds[k]
<1>1. Valid(c, k) = {}
  BY PassesReview
<1>2. QED BY <1>1 DEF Served

(* A record for another backend changes nothing for this one. *)
LEMMA DepositKeeps ==
  ASSUME Usable(disk), NEW d, DepositOK(d), NEW k \in Backends, k # d.to
  PROVE  LET c == [disk EXCEPT !.deposits = Append(@, d)] IN Served(c, k) = Served(disk, k)
<1> DEFINE q == Append(disk.deposits, d)
           c == [disk EXCEPT !.deposits = q]
           n == Len(disk.deposits)
<1>1. /\ c.deposits = q /\ c.epoch = disk.epoch /\ c.payload = disk.payload /\ Header(c) = Header(disk)
      /\ Usable(c)
  BY DepositUsable DEF Usable, Header
<1>2. /\ n \in Nat /\ DOMAIN disk.deposits = 1..n /\ DOMAIN q = 1..(n + 1)
      /\ (\A i \in 1..n : q[i] = disk.deposits[i]) /\ q[n + 1] = d
  BY ListAppended, Lists DEF Usable
<1> HIDE DEF q, c, n
<1>3. \A i \in 1..(n + 1) : i \in 1..n \/ i = n + 1
  BY <1>2
<1>4. \A i \in 1..n : i \in 1..(n + 1)
  BY <1>2
<1>5. Valid(c, k) = Valid(disk, k)
  BY <1>1, <1>2, <1>3, <1>4 DEF Valid
<1>6. \A i \in Valid(disk, k) :
        /\ i \in Nat /\ c.deposits[i] = disk.deposits[i]
        /\ disk.deposits[i].seq \in Nat /\ disk.deposits[i].who \in Nat
  BY <1>1, <1>2, Comparable DEF n
<1>7. CASE Valid(disk, k) = {}
  BY <1>1, <1>5, <1>7 DEF Served, c, q
<1>8. CASE Valid(disk, k) # {}
  <2> DEFINE p == Standing(disk, k)
             r == Standing(c, k)
  <2>1. /\ p \in Valid(disk, k) /\ r \in Valid(disk, k)
        /\ \/ disk.deposits[r].seq < disk.deposits[p].seq
           \/ /\ disk.deposits[r].seq = disk.deposits[p].seq
              /\ \/ disk.deposits[r].who < disk.deposits[p].who
                 \/ disk.deposits[r].who = disk.deposits[p].who /\ r <= p
    BY <1>1, <1>5, <1>8, Stands
  <2>2. \/ c.deposits[p].seq < c.deposits[r].seq
        \/ /\ c.deposits[p].seq = c.deposits[r].seq
           /\ \/ c.deposits[p].who < c.deposits[r].who
              \/ c.deposits[p].who = c.deposits[r].who /\ p <= r
    BY <1>1, <1>5, <1>8, <2>1, Stands
  <2> HIDE DEF p, r
  <2>3. p = r /\ c.deposits[r] = disk.deposits[p]
    BY <1>6, <2>1, <2>2
  <2>4. Served(c, k) = Served(disk, k)
    BY <1>5, <1>8, <2>3 DEF Served, p, r
  <2>5. QED BY <2>4 DEF c, q
<1>9. QED BY <1>7, <1>8

(* The commands that keep what they are not about. *)
KeepsServing(cmd, next, about) ==
  \A k \in Backends :
    /\ k \notin about => Served(next, k) = Served(disk, k)
    /\ k \in about /\ cmd = "promote" => Served(next, k) = disk.payload.creds[k]
    /\ cmd \notin {"rekey", "create"} /\ disk.payload.creds[k].kind = "dek" =>
         next.payload.creds[k] = disk.payload.creds[k]

CredentialStep ==
  (job = NoJob /\ job' # NoJob) =>
    \A k \in Backends :
      /\ k \notin job'.about => Served(job'.next, k) = Served(disk, k)
      /\ (k \in job'.about /\ job'.cmd = "promote") => Served(job'.next, k) = disk.payload.creds[k]
      /\ (job'.cmd \notin {"rekey", "create"} /\ disk.payload.creds[k].kind = "dek") =>
            job'.next.payload.creds[k] = disk.payload.creds[k]

LEMMA Later ==
  ASSUME count \in Nat
  PROVE  /\ Stamp \in Nat /\ Stamp \notin 0..count /\ Stamp # None /\ None \notin 0..Stamp
         /\ 0..count \subseteq 0..Stamp /\ Stamp \in 0..Stamp
         /\ \A i : KeyMade(i, count) => KeyMade(i, Stamp)
         /\ \A b : Dated(b, count) => Dated(b, Stamp)
<1>1. Stamp \in Nat /\ Stamp \notin 0..count /\ 0..count \subseteq 0..Stamp /\ Stamp \in 0..Stamp
  BY DEF Stamp
<1>2. Stamp # None /\ None \notin 0..Stamp
  BY <1>1, BundleAssumption
<1>3. \A i : KeyMade(i, count) => KeyMade(i, Stamp)
  BY <1>1 DEF KeyMade
<1>4. \A b : Dated(b, count) => Dated(b, Stamp)
  BY <1>1, <1>3 DEF Dated
<1>5. QED BY <1>1, <1>2, <1>3, <1>4

LEMMA RunHistory ==
  ASSUME BundleInv, DatedInv, NEW cmd, NEW next, NEW epoch, NEW token, NEW about,
         Run(cmd, next, epoch, token, about),
         Dated(next, Stamp), KeyMade(token, Stamp), KeepsServing(cmd, next, about)
  PROVE  DatedInv' /\ CredentialStep
<1>1. /\ count' = Stamp /\ count \in Nat
      /\ job' = [cmd |-> cmd, next |-> next, epoch |-> epoch, token |-> token, about |-> about, pc |-> "write"]
      /\ UNCHANGED <<disk, recipients, backups>>
  BY DEF Run, Stamp, BundleInv
<1>2. job'.cmd = cmd /\ job'.next = next /\ job'.token = token /\ job'.about = about /\ job'.pc = "write"
  BY <1>1
<1>3. DatedInv'
  BY <1>1, <1>2, Later DEF DatedInv
<1>4. CredentialStep
  BY <1>1, <1>2 DEF CredentialStep, KeepsServing
<1>5. QED BY <1>3, <1>4

(* A re-seal that leaves the ingest key and the allow-list alone. *)
LEMMA ResealHistory ==
  ASSUME BundleInv, DatedInv, NEW p, CredBundleOK(p), p.allow = disk.payload.allow,
         p.ingest = disk.payload.ingest, NEW cmd, NEW about, NEW token, KeyMade(token, Stamp),
         NEW epoch, Run(cmd, ResealPayload(disk, p), epoch, token, about),
         cmd # "promote", \A k \in Backends \ about : p.creds[k] = disk.payload.creds[k],
         \A k \in Backends : disk.payload.creds[k].kind = "dek" => p.creds[k] = disk.payload.creds[k]
  PROVE  DatedInv' /\ CredentialStep
<1> DEFINE next == ResealPayload(disk, p)
<1>1. Usable(disk) /\ count \in Nat
  BY DEF BundleInv
<1>2. /\ next.epoch = disk.epoch /\ next.deposits = disk.deposits /\ Header(next) = Header(disk)
      /\ next.payload.creds = p.creds /\ next.payload.ingest = p.ingest /\ next.payload.allow = p.allow
  BY <1>1, ResealFields
<1>3. Run(cmd, next, epoch, token, about)
  OBVIOUS
<1> HIDE DEF next
<1>4. Alike(disk, next)
  BY <1>2 DEF Alike
<1>5. Dated(next, Stamp)
  BY <1>1, <1>2, Later DEF DatedInv, Dated
<1>6. KeepsServing(cmd, next, about)
  BY <1>2, <1>4, AlikeServes DEF KeepsServing
<1>7. QED BY <1>3, <1>5, <1>6, RunHistory

(* An ingest key just made opens none of the deposits that are there. *)
LEMMA KeyHistory ==
  ASSUME BundleInv, DatedInv, NEW open, DepositKey(open)
  PROVE  DatedInv' /\ CredentialStep
<1> DEFINE p == [disk.payload EXCEPT !.ingest = Ingest]
<1>1. Usable(disk) /\ CredBundleOK(disk.payload) /\ count \in Nat
  BY DEF BundleInv, Usable
<1>2. /\ CredBundleOK(p) /\ p.allow = disk.payload.allow /\ p.creds = disk.payload.creds
      /\ p.ingest = Ingest
  BY <1>1 DEF CredBundleOK
<1>3. Run("deposit_key", ResealPayload(disk, p), None, Ingest, {})
  BY DEF DepositKey
<1> HIDE DEF p
<1>4. KeyMade(Ingest, Stamp)
  BY <1>1, Later DEF Ingest, DatedInv, Dated, KeyMade
<1>5. CASE disk.payload.ingest # None
  <2>1. Ingest = disk.payload.ingest
    BY <1>5 DEF Ingest
  <2>2. QED BY <1>2, <1>3, <1>4, <2>1, ResealHistory
<1>6. CASE disk.payload.ingest = None
  <2> DEFINE next == ResealPayload(disk, p)
  <2>1. Ingest = Stamp
    BY <1>6 DEF Ingest
  <2>2. /\ next.epoch = disk.epoch /\ next.deposits = disk.deposits /\ next.payload.creds = disk.payload.creds
        /\ next.payload.ingest = Stamp
    BY <1>1, <1>2, <2>1, ResealFields
  <2>3. Run("deposit_key", next, None, Ingest, {})
    BY <1>3
  <2> HIDE DEF next
  <2>4. Candidates(disk) = {}
    BY <1>6 DEF Candidates, ReviewOne
  <2>5. Candidates(next) = {}
    <3>1. \A i \in DOMAIN next.deposits : next.deposits[i].ingest # next.payload.ingest
      BY <1>1, <2>2, Later DEF DatedInv, Dated
    <3>2. QED BY <3>1 DEF Candidates, ReviewOne
  <2>9. Usable(next)
    BY <1>1, <1>2, ResealUsable DEF next
  <2>6. KeepsServing("deposit_key", next, {})
    BY <1>1, <2>2, <2>4, <2>5, <2>9, NoneServes DEF KeepsServing
  <2>7. Dated(next, Stamp)
    <3>1. KeyMade(next.payload.ingest, Stamp)
      BY <1>1, <2>2, Later DEF KeyMade
    <3>2. QED BY <1>1, <2>2, <3>1, Later DEF DatedInv, Dated
  <2>8. QED BY <1>4, <2>3, <2>6, <2>7, RunHistory
<1>7. QED BY <1>5, <1>6

(* A record of the log is in no later epoch than the bundle. *)
LEMMA BumpHistory ==
  ASSUME BundleInv, DatedInv, NEW open, NEW creds, DOMAIN creds = Backends,
         \A k \in Backends : creds[k].kind \in CredKinds, NEW gone, NEW next,
         next = BumpEpoch(disk, open, [disk.payload EXCEPT !.creds = creds], Without(disk, gone)),
         next # None
  PROVE  /\ Usable(next) /\ Candidates(next) = {} /\ Dated(next, Stamp)
         /\ next.payload.creds = creds /\ \A k \in Backends : Served(next, k) = creds[k]
<1> DEFINE p == [disk.payload EXCEPT !.creds = creds]
<1>1. Usable(disk) /\ CredBundleOK(disk.payload) /\ disk.epoch \in Nat /\ count \in Nat
  BY DEF BundleInv, Usable
<1>2. CredBundleOK(p)
  BY <1>1, CredsOK
<1>3. p.creds = creds /\ p.ingest = disk.payload.ingest
  BY <1>1 DEF CredBundleOK
<1>4. next = BumpEpoch(disk, open, p, Without(disk, gone))
  OBVIOUS
<1> HIDE DEF p
<1>5. /\ next.epoch = disk.epoch + 1 /\ next.deposits = Without(disk, gone)
      /\ next.payload.creds = creds /\ next.payload.ingest = disk.payload.ingest
  BY <1>1, <1>2, <1>3, <1>4, BumpFields
<1>6. \A i \in DOMAIN next.deposits : \E k \in DOMAIN disk.deposits : next.deposits[i] = disk.deposits[k]
  BY <1>1, <1>5, WithoutFrom
<1>7. \A k \in DOMAIN disk.deposits :
        /\ disk.deposits[k].epoch \in Nat /\ disk.deposits[k].epoch <= disk.epoch
        /\ disk.deposits[k].ingest \in 0..count
  BY <1>1 DEF DatedInv, Dated, Usable, DepositOK
<1>8. \A i \in DOMAIN next.deposits :
        /\ next.deposits[i].epoch # next.epoch /\ next.deposits[i].epoch <= next.epoch
        /\ next.deposits[i].ingest \in 0..count
  <2> TAKE i \in DOMAIN next.deposits
  <2>1. PICK k \in DOMAIN disk.deposits : next.deposits[i] = disk.deposits[k]
    BY <1>6, SMTT(30)
  <2>2. QED BY <1>1, <1>5, <1>7, <2>1
<1>9. Candidates(next) = {}
  BY <1>8 DEF Candidates, ReviewOne
<1>10. Dated(next, Stamp)
  <2>1. Dated(next, count)
    BY <1>5, <1>8 DEF Dated, DatedInv
  <2>2. QED BY <1>1, <2>1, Later
<1>11. Usable(next)
  <2>1. Listed(Without(disk, gone)) /\ \A i \in DOMAIN Without(disk, gone) : DepositOK(Without(disk, gone)[i])
    BY <1>1, WithoutOK
  <2>2. QED BY <1>1, <1>2, <1>4, <2>1, BumpUsable
<1>12. \A k \in Backends : Served(next, k) = creds[k]
  BY <1>5, <1>9, <1>11, NoneServes
<1>13. QED BY <1>5, <1>9, <1>10, <1>11, <1>12

LEMMA PromoteHistory ==
  ASSUME BundleInv, DatedInv, NEW open, NEW ks \in SUBSET Backends, NEW ws \in SUBSET Contributors,
         Promote(open, ks, ws)
  PROVE  DatedInv' /\ CredentialStep
<1> DEFINE chosen == Selected(disk, ks, ws)
           creds == Overlay(disk, chosen)
           next == PromoteDeposits(disk, open, ks, ws)
           about == LeftOut(disk, ks, ws)
           of(k) == {i \in chosen : disk.deposits[i].to = k}
<1>1. Usable(disk)
  BY DEF BundleInv
<1>2. DOMAIN creds = Backends /\ \A k \in Backends : creds[k].kind \in CredKinds
  BY <1>1, Chosen, OverlayOK
<1>3. next = BumpEpoch(disk, open, [disk.payload EXCEPT !.creds = creds], Without(disk, chosen))
  BY DEF PromoteDeposits
<1>4. next # None /\ Run("promote", next, next.epoch, None, about)
  BY DEF Promote
<1>5. \A k \in Backends : disk.payload.creds[k].kind = "dek" => creds[k] = disk.payload.creds[k]
  <2> TAKE k \in Backends
  <2>1. disk.payload.creds[k].kind = "dek" => of(k) = {}
    BY DEF Promote, PromoteTargets
  <2>2. QED BY <2>1 DEF Overlay
<1>6. ASSUME NEW k \in Backends
      PROVE  creds[k] = IF k \in about THEN disk.payload.creds[k] ELSE Served(disk, k)
  <2>1. {i \in SelectEffective(disk) : disk.deposits[i].to = k} =
          IF Valid(disk, k) = {} THEN {} ELSE {Standing(disk, k)}
    BY <1>1, Chooses
  <2>2. CASE Valid(disk, k) = {}
    <3>1. of(k) = {} /\ k \notin about
      BY <2>1, <2>2 DEF Selected, LeftOut
    <3>2. QED BY <1>1, <2>2, <3>1, OverlayServes DEF Served
  <2>3. CASE Valid(disk, k) # {}
    <3> DEFINE p == Standing(disk, k)
    <3>1. p \in Valid(disk, k) /\ p \in Nat
      BY <1>1, <2>3, Stands, Lists DEF Valid, Usable
    <3>2. disk.deposits[p].to = k
      BY <3>1 DEF Valid
    <3> HIDE DEF p
    <3>3. \A i \in SelectEffective(disk) : disk.deposits[i].to = k <=> i = p
      BY <2>1, <2>3, <3>2 DEF p
    <3>4. p \in SelectEffective(disk)
      BY <2>1, <2>3 DEF p
    <3>5. CASE k \in about
      <4>1. of(k) = {}
        BY <3>2, <3>3, <3>5 DEF Selected, LeftOut, p
      <4>2. QED BY <1>1, <3>5, <4>1, OverlayServes
    <3>6. CASE k \notin about
      <4>1. of(k) = {p}
        BY <2>3, <3>2, <3>3, <3>4, <3>6 DEF Selected, LeftOut, p
      <4>2. QED BY <1>1, <2>3, <3>1, <3>6, <4>1, OverlayServes DEF Served, p
    <3>7. QED BY <3>5, <3>6
  <2>4. QED BY <2>2, <2>3
<1> HIDE DEF chosen, creds, next, about
<1>7. /\ Usable(next) /\ Dated(next, Stamp) /\ next.payload.creds = creds
      /\ \A k \in Backends : Served(next, k) = creds[k]
  BY <1>2, <1>3, <1>4, BumpHistory
<1>8. KeepsServing("promote", next, about)
  BY <1>5, <1>6, <1>7 DEF KeepsServing
<1>9. QED BY <1>4, <1>7, <1>8, RunHistory DEF KeyMade

LEMMA RekeyHistory ==
  ASSUME BundleInv, DatedInv, NEW open, NEW k \in Backends, RekeyCommand(open, k)
  PROVE  DatedInv' /\ CredentialStep
<1> DEFINE eff == Effective(disk)
           creds == [eff EXCEPT ![k] = Cred("dek", "rekey", Stamp)]
           gone == SelectEffective(disk) \cup {i \in DOMAIN disk.deposits : disk.deposits[i].to = k}
           next == RekeyPrepared(open, k)
<1>1. Usable(disk)
  BY DEF BundleInv
<1>2. DOMAIN eff = Backends /\ \A l \in Backends : eff[l].kind \in CredKinds
  BY <1>1, Chosen, OverlayOK DEF Effective
<1>3. next = BumpEpoch(disk, open, [disk.payload EXCEPT !.creds = creds], Without(disk, gone))
  BY DEF RekeyPrepared
<1>4. next # None /\ Run("rekey", next, next.epoch, None, {k})
  BY DEF RekeyCommand
<1> HIDE DEF eff
<1>5. /\ DOMAIN creds = Backends /\ \A l \in Backends : creds[l].kind \in CredKinds
      /\ \A l \in Backends \ {k} : creds[l] = eff[l]
  BY <1>2 DEF Cred, CredKinds
<1> HIDE DEF creds, gone, next
<1>6. Usable(next) /\ Dated(next, Stamp) /\ \A l \in Backends : Served(next, l) = creds[l]
  BY <1>3, <1>4, <1>5, BumpHistory
<1>7. KeepsServing("rekey", next, {k})
  BY <1>1, <1>5, <1>6, EffectiveServed DEF KeepsServing, eff
<1>8. QED BY <1>4, <1>6, <1>7, RunHistory DEF KeyMade

LEMMA OpenCommandHistory ==
  ASSUME BundleInv, DatedInv, NEW open, OpenCommand(open)
  PROVE  DatedInv' /\ CredentialStep
<1>1. Usable(disk) /\ CredBundleOK(disk.payload) /\ count \in Nat
  BY DEF BundleInv, Usable
<1>2. ASSUME NEW m \in Secrets, AddSlotCommand(open, Presented(m)) PROVE DatedInv' /\ CredentialStep
  <2> DEFINE next == AddSlot(disk, open, Presented(m))
  <2>1. next # None /\ Run("add_slot", next, disk.epoch, None, {})
    BY <1>2 DEF AddSlotCommand
  <2>2. /\ next.epoch = disk.epoch /\ next.deposits = disk.deposits /\ next.payload = disk.payload
        /\ Header(next) = Header(disk)
    BY <1>1, <2>1, AddFields
  <2> HIDE DEF next
  <2>3. Alike(disk, next) /\ Dated(next, count)
    BY <2>2 DEF Alike, Dated, DatedInv
  <2>4. Dated(next, Stamp)
    BY <1>1, <2>3, Later
  <2>5. KeepsServing("add_slot", next, {})
    BY <2>2, <2>3, AlikeServes DEF KeepsServing
  <2>6. QED BY <2>1, <2>4, <2>5, RunHistory DEF KeyMade
<1>3. ASSUME NEW k \in Backends, NEW kind \in CredKinds, SetBackend(open, k, kind)
      PROVE  DatedInv' /\ CredentialStep
  <2> DEFINE p == [disk.payload EXCEPT !.creds[k] = Cred(kind, "operator", Stamp)]
  <2>1. CredBundleOK(p) /\ p.allow = disk.payload.allow /\ p.ingest = disk.payload.ingest
    BY <1>1 DEF CredBundleOK, Cred
  <2>2. \A l \in Backends \ {k} : p.creds[l] = disk.payload.creds[l]
    BY <1>1 DEF CredBundleOK
  <2>3. disk.payload.creds[k].kind # "dek" /\ Run("set_backend", ResealPayload(disk, p), disk.epoch, None, {k})
    BY <1>3 DEF SetBackend
  <2> HIDE DEF p
  <2>4. KeyMade(None, Stamp) /\ \A l \in Backends : disk.payload.creds[l].kind = "dek" => p.creds[l] = disk.payload.creds[l]
    BY <2>2, <2>3 DEF KeyMade
  <2>5. QED BY <2>1, <2>2, <2>3, <2>4, ResealHistory
<1>4. ASSUME NEW who \in Contributors, NEW ks \in SUBSET Backends, Allow(open, who, ks)
      PROVE  DatedInv' /\ CredentialStep
  <2> DEFINE p == [disk.payload EXCEPT !.allow[who] = ks, !.ingest = Ingest]
             next == ResealPayload(disk, p)
  <2>1. /\ CredBundleOK(p) /\ p.creds = disk.payload.creds /\ p.ingest = Ingest
        /\ \A c \in Contributors : c # who => p.allow[c] = disk.payload.allow[c]
        /\ p.allow[who] = ks
    BY <1>1 DEF CredBundleOK
  <2>2. Run("allow", next, None, None, disk.payload.allow[who] \cup ks)
    BY <1>4 DEF Allow
  <2> HIDE DEF p
  <2>3. /\ next.epoch = disk.epoch /\ next.deposits = disk.deposits /\ Header(next) = Header(disk)
        /\ next.payload.creds = disk.payload.creds /\ next.payload.ingest = Ingest
        /\ next.payload.allow = p.allow /\ Usable(next)
    BY <1>1, <2>1, ResealFields, ResealUsable
  <2> HIDE DEF next
  <2>4. KeyMade(Ingest, Stamp)
    BY <1>1, Later DEF Ingest, DatedInv, Dated, KeyMade
  <2>5. Dated(next, Stamp)
    BY <1>1, <2>3, <2>4, Later DEF Dated, DatedInv
  <2>6. ASSUME NEW k \in Backends \ (disk.payload.allow[who] \cup ks) PROVE Served(next, k) = Served(disk, k)
    <3>1. \A i \in DOMAIN disk.deposits : disk.deposits[i].signer \in Contributors
      BY <1>1 DEF Usable, DepositOK
    <3>2. \A c \in Contributors : k \in next.payload.allow[c] <=> k \in disk.payload.allow[c]
      BY <2>1, <2>3, <2>6
    <3>3. CASE disk.payload.ingest = None
      <4>1. Ingest = Stamp
        BY <3>3 DEF Ingest
      <4>2. Valid(disk, k) = {} /\ Valid(next, k) = {}
        BY <1>1, <2>3, <3>3, <4>1, Later DEF Valid, DatedInv, Dated
      <4>3. QED BY <2>3, <4>2 DEF Served
    <3>4. CASE disk.payload.ingest # None
      <4>1. Ingest = disk.payload.ingest
        BY <3>4 DEF Ingest
      <4>2. Valid(next, k) = Valid(disk, k)
        BY <2>3, <3>1, <3>2, <4>1 DEF Valid
      <4>3. Standing(next, k) = Standing(disk, k)
        BY <2>3, <4>2 DEF Standing
      <4>4. QED BY <2>3, <4>2, <4>3 DEF Served
    <3>5. QED BY <3>3, <3>4
  <2>7. KeepsServing("allow", next, disk.payload.allow[who] \cup ks)
    BY <2>3, <2>6 DEF KeepsServing
  <2>8. QED BY <2>2, <2>3, <2>5, <2>7, RunHistory DEF KeyMade
<1>5. QED BY <1>2, <1>3, <1>4, KeyHistory, PromoteHistory, RekeyHistory DEF OpenCommand

LEMMA CreateHistory ==
  ASSUME BundleInv, DatedInv, NEW specs, NEW kinds, NEW ingest \in BOOLEAN, Create(specs, kinds, ingest)
  PROVE  DatedInv' /\ CredentialStep
<1> DEFINE creds == [k \in Backends |-> Cred(kinds[k], "operator", Stamp)]
           key == IF ingest THEN Stamp ELSE None
           next == Seal(Stamp, specs, creds, key)
<1>1. Run("create", next, 1, key, Backends)
  BY DEF Create
<1>2. KeyMade(key, Stamp)
  BY Later DEF KeyMade, BundleInv
<1> HIDE DEF creds, key
<1>3. next.payload.ingest = key /\ next.deposits = <<>>
  BY DEF Seal
<1> HIDE DEF next
<1>4. Dated(next, Stamp)
  BY <1>2, <1>3 DEF Dated
<1>5. KeepsServing("create", next, Backends)
  BY DEF KeepsServing
<1>6. QED BY <1>1, <1>2, <1>4, <1>5, RunHistory

LEMMA DepositHistory ==
  ASSUME BundleInv, DatedInv, NEW k \in Backends, NEW who \in Contributors, NEW signer \in Contributors,
         NEW seq \in 1..MaxSeq, NEW i \in recipients, Deposit(k, who, signer, seq, i)
  PROVE  DatedInv' /\ CredentialStep
<1> DEFINE d == CreateSignedRecord(disk, k, who, signer, seq, i, Cred("token", signer, Stamp))
           next == [disk EXCEPT !.deposits = Append(@, d)]
<1>1. Usable(disk) /\ count \in Nat /\ disk.epoch \in Nat
  BY DEF BundleInv, Usable
<1>2. d.to = k /\ d.epoch = disk.epoch /\ d.ingest = i /\ DepositOK(d)
  <2>1. disk.epoch \in Nat \ {0}
    BY <1>1 DEF Usable
  <2>2. QED BY <2>1 DEF CreateSignedRecord, DepositOK, Cred, CredKinds
<1>3. Run("deposit", next, None, None, {k})
  BY DEF Deposit
<1> HIDE DEF d
<1>4. next.payload = disk.payload /\ next.epoch = disk.epoch /\ next.deposits = Append(disk.deposits, d)
  BY <1>1 DEF Usable
<1>5. \A l \in Backends \ {k} : Served(next, l) = Served(disk, l)
  BY <1>1, <1>2, DepositKeeps
<1> HIDE DEF next
<1>6. KeepsServing("deposit", next, {k})
  BY <1>4, <1>5 DEF KeepsServing
<1>7. Dated(next, count)
  <2> DEFINE n == Len(disk.deposits)
  <2>1. /\ n \in Nat /\ DOMAIN disk.deposits = 1..n /\ DOMAIN next.deposits = 1..(n + 1)
        /\ (\A j \in 1..n : next.deposits[j] = disk.deposits[j]) /\ next.deposits[n + 1] = d
    BY <1>1, <1>4, ListAppended, Lists DEF Usable
  <2> HIDE DEF n
  <2>2. \A j \in 1..(n + 1) : j \in 1..n \/ j = n + 1
    BY <2>1
  <2>3. d.epoch <= disk.epoch /\ d.ingest \in 0..count
    BY <1>1, <1>2 DEF DatedInv
  <2>4. ASSUME NEW j \in DOMAIN next.deposits
        PROVE  next.deposits[j].epoch <= disk.epoch /\ next.deposits[j].ingest \in 0..count
    <3>1. CASE j \in 1..n
      BY <2>1, <3>1 DEF Dated, DatedInv
    <3>2. CASE j = n + 1
      BY <2>1, <2>3, <3>2
    <3>3. QED BY <2>1, <2>2, <3>1, <3>2
  <2>5. QED BY <1>4, <2>4 DEF Dated, DatedInv
<1>8. Dated(next, Stamp)
  BY <1>1, <1>7, Later
<1>9. QED BY <1>3, <1>6, <1>8, RunHistory DEF KeyMade

LEMMA DatedInit == BundleInit => DatedInv /\ SeenInv
<1> SUFFICES ASSUME BundleInit PROVE DatedInv /\ SeenInv
  OBVIOUS
<1>1. PICK ms \in Seq(Secrets) \ {<<>>}, kinds \in [Backends -> CredKinds], allow \in [Contributors -> SUBSET Backends] :
        disk = [Seal(0, Specs(ms), [k \in Backends |-> Cred(kinds[k], "operator", 0)], 0)
                  EXCEPT !.payload.allow = allow]
  BY DEF BundleInit
<1>2. disk.deposits = <<>> /\ disk.payload.ingest = 0
  BY <1>1 DEF Seal
<1>3. DatedInv
  BY <1>2 DEF BundleInit, DatedInv, Dated, KeyMade
<1>4. SeenInv
  <2>1. floor = 0 /\ seen \in {None, 1} /\ \A s \in Brokers : broker[s].pc = "down"
    BY DEF BundleInit, Idle
  <2>2. crowded \in BOOLEAN
    BY Zenon DEF BundleInit
  <2>3. QED BY <2>1, <2>2, BundleAssumption DEF SeenInv, Guarded
<1>5. QED BY <1>3, <1>4

LEMMA DatedStep == BundleInv /\ DatedInv /\ [BundleNext]_bundleVars => DatedInv' /\ CredentialStep
<1> SUFFICES ASSUME BundleInv, DatedInv, [BundleNext]_bundleVars PROVE DatedInv' /\ CredentialStep
  OBVIOUS
<1>1. CASE UNCHANGED bundleVars
  BY <1>1 DEF bundleVars, DatedInv, CredentialStep
<1>2. CASE WriteBundle
  <2>1. /\ \/ job' \in {NoJob, [job EXCEPT !.pc = "sidecar"]}
           \/ job' = [job EXCEPT !.pc = "token"] /\ job.token # None
        /\ JobOK(job)
    BY <1>2 DEF WriteBundle, Continue, BundleInv
  <2>2. job' # NoJob => job'.next = job.next /\ job'.token = job.token /\ (job'.pc = "token" => job.token # None)
    BY <2>1 DEF JobOK
  <2>3. QED BY <1>2, <2>2 DEF WriteBundle, DatedInv, CredentialStep
<1>3. CASE WriteEpoch
  <2>1. (job' = NoJob \/ (job' = [job EXCEPT !.pc = "token"] /\ job.token # None)) /\ JobOK(job)
    BY <1>3 DEF WriteEpoch, Continue, BundleInv
  <2>2. job' # NoJob => job'.next = job.next /\ job'.token = job.token /\ (job'.pc = "token" => job.token # None)
    BY <2>1 DEF JobOK
  <2>3. QED BY <1>3, <2>2 DEF WriteEpoch, DatedInv, CredentialStep
<1>4. CASE WriteToken
  <2>1. job.token # None /\ KeyMade(job.token, count)
    BY <1>4 DEF WriteToken, DatedInv, BundleInv, JobOK
  <2>2. QED BY <1>4, <2>1 DEF WriteToken, Publishes, KeyMade, DatedInv, CredentialStep
<1>5. CASE Interrupt
  BY <1>5 DEF Interrupt, DatedInv, CredentialStep
<1>6. ASSUME NEW s \in Brokers, Start(s) PROVE DatedInv' /\ CredentialStep
  <2>1. UNCHANGED <<disk, job, count, backups, recipients>>
    BY <1>6 DEF Start, StartRead, StartCheck, StartAdvance, StartOpen, StartServe, Stop
  <2>2. QED BY <2>1 DEF DatedInv, CredentialStep
<1>7. CASE Provision
  BY <1>7 DEF Provision, DatedInv, CredentialStep
<1>8. ASSUME NEW v \in Boots, Boot(v) PROVE DatedInv' /\ CredentialStep
  BY <1>8 DEF Boot, DatedInv, CredentialStep
<1>9. ASSUME NEW b \in backups, Restore(b) PROVE DatedInv' /\ CredentialStep
  BY <1>9 DEF Restore, DatedInv, CredentialStep
<1>10. QED BY <1>1, <1>2, <1>3, <1>4, <1>5, <1>6, <1>7, <1>8, <1>9,
              CreateHistory, OpenCommandHistory, DepositHistory DEF BundleNext, Proceed

(* For any methods, contributors and log: after a command a start serves   *)
(* the standing deposit of a backend or else its sealed credential; the    *)
(* command changes that only for the backends it is about, a filtered      *)
(* promotion giving those it passes over their sealed credential back; and *)
(* only a rekey or a create replaces a local store's key (deposit.rs       *)
(* select_effective, promote_deposits, bundle_cli.rs set_backend, allow,   *)
(* deposit_key, prepare_db_keystore_rekey).                                *)
THEOREM CredentialsKeptHolds == BundleSpec => CredentialsKept
<1> DEFINE Step ==
      (job = NoJob /\ job' # NoJob) =>
        \A k \in Backends :
          /\ Effective(job'.next)[k] = Served(job'.next, k)
          /\ k \notin job'.about => Served(job'.next, k) = Served(disk, k)
          /\ (k \in job'.about /\ job'.cmd = "promote") => Served(job'.next, k) = disk.payload.creds[k]
          /\ (job'.cmd \notin {"rekey", "create"} /\ disk.payload.creds[k].kind = "dek") =>
                job'.next.payload.creds[k] = disk.payload.creds[k]
<1>1. ASSUME BundleInv, DatedInv, [BundleNext]_bundleVars PROVE [Step]_bundleVars
  <2>1. BundleInv' /\ CredentialStep
    BY <1>1, BundleStep, DatedStep
  <2>2. job' # NoJob => Usable(job'.next)
    BY <2>1 DEF BundleInv, JobOK
  <2>3. job' # NoJob => \A k \in Backends : Effective(job'.next)[k] = Served(job'.next, k)
    <3> SUFFICES ASSUME job' # NoJob, NEW k \in Backends PROVE Effective(job'.next)[k] = Served(job'.next, k)
      OBVIOUS
    <3>1. PICK b : b = job'.next
      OBVIOUS
    <3>2. Usable(b)
      BY <2>2, <3>1
    <3>3. Effective(b)[k] = Served(b, k)
      BY <3>2, EffectiveServed
    <3>4. QED BY <3>1, <3>3
  <2>4. QED BY <2>1, <2>3 DEF CredentialStep
<1>2. BundleInv /\ DatedInv /\ [BundleNext]_bundleVars => [Step]_bundleVars
  BY <1>1
<1>3. QED BY <1>2, BundleInitOK, BundleStep, DatedInit, DatedStep, PTL
          DEF BundleSpec, CredentialsKept

RollbackStep ==
  ~crowded => \A s \in Brokers : (broker[s].pc = "checked" /\ broker'[s].pc = "open") => broker'[s].epoch >= floor

LEMMA CommandSeen ==
  ASSUME SeenInv, NEW cmd, NEW next, NEW epoch, NEW token, NEW about, Run(cmd, next, epoch, token, about)
  PROVE  SeenInv' /\ RollbackStep
<1>1. /\ \A s \in Brokers : ~Guarded(s)
      /\ UNCHANGED <<seen, broker, floor, crowded>>
  BY DEF Run, LockFree
<1>2. \A s \in Brokers : broker[s].pc # "checked"
  BY <1>1 DEF Guarded
<1>3. QED BY <1>1, <1>2 DEF SeenInv, RollbackStep, Guarded

(* A start alone finds the sidecar as it left it. *)
LEMMA StartSeen ==
  ASSUME BundleInv, SeenInv, NEW s \in Brokers, Start(s)
  PROVE  SeenInv' /\ RollbackStep
<1>1. DOMAIN broker = Brokers /\ seen \in Nat \cup {None} /\ floor \in Nat /\ None \notin Nat
  BY BundleAssumption DEF BundleInv, SeenInv
<1>2. \A t \in Brokers : t # s => broker'[t] = broker[t]
  BY <1>1 DEF Start, StartRead, StartCheck, StartAdvance, StartOpen, StartServe, Stop
<1>3. Reading(s) => broker[s].epoch \in Nat
  BY DEF BundleInv, Usable
<1>4. crowded => crowded' /\ crowded' \in BOOLEAN /\ floor' \in Nat
  <2>1. CASE StartOpen(s)
    BY <1>1, <1>3, <2>1 DEF StartOpen, Reading, SeenInv, BundleInv
  <2>2. CASE ~StartOpen(s)
    BY <1>1, <2>2 DEF Start, StartRead, StartCheck, StartAdvance, StartServe, Stop, SeenInv
  <2>3. QED BY <2>1, <2>2
<1>5. CASE crowded
  BY <1>4, <1>5 DEF SeenInv, RollbackStep
<1>6. ASSUME ~crowded, Guarded(s), UNCHANGED <<crowded, floor>>, seen' = seen \/ seen' = broker[s].epoch,
             Guarded(s)' => broker'[s].epoch = broker[s].epoch,
             broker'[s].pc # "open" \/ broker[s].pc # "checked",
             broker'[s].pc = "checked" => seen' = broker'[s].epoch,
             broker'[s].pc = "advance" => (seen' # None => seen' <= broker'[s].epoch),
             seen' # None => floor <= seen', seen' = None => seen = None
      PROVE  SeenInv' /\ RollbackStep
  <2>1. \A t \in Brokers : t # s => ~Guarded(t) /\ ~Guarded(t)' /\ broker'[t] = broker[t]
    BY <1>2, <1>6 DEF SeenInv, Guarded
  <2>2. \A t \in Brokers : t # s => broker[t].pc \notin {"checked", "advance"} /\ broker'[t].pc \notin {"checked", "advance"}
    BY <2>1 DEF Guarded
  <2>3. SeenInv'
    BY <1>6, <2>1, <2>2 DEF SeenInv
  <2>4. RollbackStep
    BY <1>6, <2>2 DEF RollbackStep
  <2>5. QED BY <2>3, <2>4
<1>7. CASE ~crowded /\ StartRead(s)
  <2>1. /\ broker[s].pc = "down" /\ broker'[s] = [pc |-> "read", held |-> disk, epoch |-> disk.epoch]
        /\ UNCHANGED <<seen, floor>> /\ crowded' = \E t \in Brokers : Guarded(t)
    BY <1>1, <1>7 DEF StartRead
  <2>2. crowded' \in BOOLEAN /\ (~crowded' => \A t \in Brokers : ~Guarded(t))
    BY <2>1
  <2>3. RollbackStep
    BY <1>2, <2>1 DEF RollbackStep
  <2>4. \A t \in Brokers : t # s => (Guarded(t)' <=> Guarded(t))
    BY <1>2 DEF Guarded
  <2>5. broker'[s].pc = "read"
    BY <2>1
  <2>6. SeenInv'
    BY <1>2, <1>7, <2>1, <2>2, <2>4, <2>5 DEF SeenInv
  <2>7. QED BY <2>3, <2>6
<1>8. CASE ~crowded /\ StartCheck(s)
  <2>1. broker[s].pc = "read" /\ UNCHANGED <<seen, floor, crowded>>
    BY <1>8 DEF StartCheck
  <2>2. Guarded(s) /\ broker[s].epoch \in Nat
    BY <1>3, <2>1 DEF Guarded, Reading
  <2> DEFINE v == VerifyEpoch(broker[s].epoch)
  <2>3. broker'[s] = IF v = "refused" THEN Idle ELSE [broker[s] EXCEPT !.pc = v]
    BY <1>1, <1>8 DEF StartCheck
  <2>4. /\ v \in {"refused", "checked", "advance"} /\ (v = "checked" => seen = broker[s].epoch)
        /\ (v = "advance" => seen = None \/ seen <= broker[s].epoch)
    BY <1>1, <2>2 DEF VerifyEpoch
  <2> HIDE DEF v
  <2>5. CASE v = "refused"
    <3>1. broker'[s].pc = "down"
      BY <2>3, <2>5 DEF Idle
    <3>2. ~Guarded(s)'
      BY <3>1 DEF Guarded
    <3>3. QED BY <1>6, <1>8, <2>1, <2>2, <3>1, <3>2 DEF SeenInv
  <2>6. CASE v # "refused"
    <3>1. broker'[s].epoch = broker[s].epoch /\ broker'[s].pc \in {v, "read"} /\ broker'[s].pc # "open"
      BY <2>1, <2>3, <2>4, <2>6
    <3>2. (broker'[s].pc = "checked" => v = "checked") /\ (broker'[s].pc = "advance" => v = "advance")
      BY <3>1
    <3>3. QED BY <1>6, <1>8, <2>1, <2>2, <2>4, <3>1, <3>2 DEF SeenInv
  <2>7. QED BY <2>5, <2>6
<1>9. CASE ~crowded /\ StartAdvance(s)
  <2>1. /\ broker[s].pc = "advance" /\ UNCHANGED <<floor, crowded>> /\ seen' = broker[s].epoch
        /\ broker'[s] = [broker[s] EXCEPT !.pc = "checked"]
    BY <1>1, <1>9 DEF StartAdvance, AdvanceEpoch
  <2>2. Guarded(s) /\ broker[s].epoch \in Nat
    BY <1>3, <2>1 DEF Guarded, Reading
  <2>3. broker'[s].epoch = broker[s].epoch /\ broker'[s].pc \notin {"open", "advance"}
    BY <2>1
  <2>4. floor <= seen'
    <3>1. CASE seen = None
      BY <1>1, <1>9, <2>1, <2>2, <3>1 DEF SeenInv
    <3>2. CASE seen # None
      <4>1. seen \in Nat /\ floor <= seen /\ seen <= broker[s].epoch
        BY <1>1, <1>9, <2>1, <3>2 DEF SeenInv
      <4>2. QED BY <1>1, <2>1, <2>2, <4>1
    <3>3. QED BY <3>1, <3>2
  <2>5. seen' # None
    BY <1>1, <2>1, <2>2
  <2>6. QED BY <1>6, <1>9, <2>1, <2>2, <2>3, <2>4, <2>5
<1>10. CASE ~crowded /\ StartOpen(s)
  <2> DEFINE b == broker[s].held
  <2>1. broker[s].pc = "checked" /\ UNCHANGED <<seen, crowded>>
    BY <1>10 DEF StartOpen
  <2>2. Reading(s) /\ Guarded(s)
    BY <2>1 DEF Guarded, Reading
  <2>3. b.epoch = broker[s].epoch /\ seen = b.epoch /\ seen \in Nat /\ floor <= seen
    BY <1>1, <1>3, <1>10, <2>1, <2>2 DEF SeenInv, BundleInv
  <2>4. \/ broker'[s] = [pc |-> "open", held |-> Effective(b), epoch |-> b.epoch]
           /\ floor' = (IF b.epoch > floor THEN b.epoch ELSE floor)
        \/ (broker'[s] = Idle /\ floor' = floor)
    BY <1>1, <1>10 DEF StartOpen
  <2> HIDE DEF b
  <2>5. floor' \in Nat /\ floor' <= seen /\ broker'[s].pc \in {"open", "down"}
    BY <1>1, <2>3, <2>4 DEF Idle
  <2>6. broker'[s].pc = "open" => broker'[s].epoch >= floor
    BY <1>1, <2>3, <2>4 DEF Idle
  <2>7. \A t \in Brokers : t # s => ~Guarded(t) /\ ~Guarded(t)' /\ broker'[t] = broker[t]
    BY <1>2, <1>10, <2>2 DEF SeenInv, Guarded
  <2>8. \A t \in Brokers : t # s => broker[t].pc \notin {"checked", "advance"} /\ broker'[t].pc \notin {"checked", "advance"}
    BY <2>7 DEF Guarded
  <2>9. SeenInv'
    BY <1>1, <1>10, <2>1, <2>3, <2>5, <2>7, <2>8 DEF SeenInv
  <2>10. RollbackStep
    BY <2>6, <2>8 DEF RollbackStep
  <2>11. QED BY <2>9, <2>10
<1>11. CASE ~crowded /\ (StartServe(s) \/ Stop(s))
  <2>1. UNCHANGED <<seen, floor, crowded>> /\ broker'[s].pc \in {"serving", "down"}
    <3>1. CASE StartServe(s)
      <4>1. broker'[s].pc = "serving"
        BY <1>1, <3>1 DEF StartServe
      <4>2. QED BY <3>1, <4>1 DEF StartServe
    <3>2. CASE Stop(s)
      BY <1>1, <3>2 DEF Stop, Idle
    <3>3. QED BY <1>11, <3>1, <3>2
  <2>2. ~Guarded(s)' /\ broker'[s].pc \notin {"checked", "advance", "open"}
    BY <2>1 DEF Guarded
  <2>3. \A t \in Brokers : Guarded(t)' => t # s /\ Guarded(t)
    BY <1>2, <2>2 DEF Guarded
  <2>4. SeenInv'
    BY <1>2, <1>11, <2>1, <2>2, <2>3 DEF SeenInv
  <2>5. RollbackStep
    BY <1>2, <2>2 DEF RollbackStep
  <2>6. QED BY <2>4, <2>5
<1>12. crowded \in BOOLEAN
  BY DEF SeenInv
<1>13. QED BY <1>5, <1>7, <1>8, <1>9, <1>10, <1>11, <1>12 DEF Start

LEMMA SeenStep == BundleInv /\ SeenInv /\ [BundleNext]_bundleVars => SeenInv' /\ RollbackStep
<1> SUFFICES ASSUME BundleInv, SeenInv, [BundleNext]_bundleVars PROVE SeenInv' /\ RollbackStep
  OBVIOUS
<1>1. ASSUME UNCHANGED <<seen, broker, floor, crowded>> PROVE SeenInv' /\ RollbackStep
  BY <1>1 DEF SeenInv, RollbackStep, Guarded
<1>2. CASE UNCHANGED bundleVars
  BY <1>1, <1>2 DEF bundleVars
<1>3. CASE WriteBundle \/ WriteToken \/ Interrupt \/ Provision \/ \E b \in backups : Restore(b)
  BY <1>1, <1>3 DEF WriteBundle, WriteToken, Interrupt, Provision, Restore
<1>4. CASE WriteEpoch
  <2>1. /\ JobOK(job) /\ job.pc = "sidecar" /\ seen' = job.epoch /\ job # NoJob
        /\ floor' = (IF job.epoch < floor THEN job.epoch ELSE floor) /\ UNCHANGED <<broker, crowded>>
    BY <1>4 DEF WriteEpoch, BundleInv
  <2>2. job.epoch \in Nat /\ seen' # None /\ floor \in Nat
    BY <2>1, BundleAssumption DEF JobOK, Usable, SeenInv
  <2>3. floor' \in Nat /\ floor' <= seen'
    BY <2>1, <2>2
  <2>4. \A s \in Brokers : ~Guarded(s)
    BY <2>1 DEF BundleInv
  <2>5. \A s \in Brokers : broker[s].pc \notin {"checked", "advance"}
    BY <2>4 DEF Guarded
  <2>6. QED BY <2>1, <2>2, <2>3, <2>4, <2>5 DEF SeenInv, RollbackStep, Guarded
<1>5. ASSUME NEW v \in Boots, Boot(v) PROVE SeenInv' /\ RollbackStep
  <2>1. UNCHANGED <<seen, floor, crowded>> /\ \A s \in Brokers : broker'[s].pc = "down"
    BY <1>5 DEF Boot, Idle
  <2>2. QED BY <2>1 DEF SeenInv, RollbackStep, Guarded
<1>6. ASSUME \E cmd, next, epoch, token, about : Run(cmd, next, epoch, token, about) PROVE SeenInv' /\ RollbackStep
  BY <1>6, CommandSeen
<1>7. ASSUME NEW open, OpenCommand(open) PROVE SeenInv' /\ RollbackStep
  BY <1>6, <1>7 DEF OpenCommand, AddSlotCommand, RekeyCommand, SetBackend, Allow, Promote, DepositKey
<1>8. ASSUME NEW specs, NEW kinds, NEW ingest, Create(specs, kinds, ingest) PROVE SeenInv' /\ RollbackStep
  BY <1>6, <1>8 DEF Create
<1>9. ASSUME NEW k, NEW who, NEW signer, NEW seq, NEW i, Deposit(k, who, signer, seq, i)
      PROVE  SeenInv' /\ RollbackStep
  BY <1>6, <1>9 DEF Deposit
<1>10. QED BY <1>2, <1>3, <1>4, <1>5, <1>7, <1>8, <1>9, StartSeen DEF BundleNext, Proceed

(* For any number of brokers: as long as no two of them were starting at   *)
(* once, no start opens an epoch older than one opened before, unless a    *)
(* command adopted the older bundle in between; and no command changes a   *)
(* credential it is not about (bundle_cli.rs verify_and_advance_epoch).    *)
THEOREM HistoryKeptHolds == BundleSpec => HistoryKept
<1>1. BundleInv /\ SeenInv /\ [BundleNext]_bundleVars => SeenInv' /\ [RollbackStep]_bundleVars
  BY SeenStep
<1>2. BundleSpec => RollbackNoticed
  BY <1>1, BundleInitOK, BundleStep, DatedInit, PTL DEF BundleSpec, RollbackNoticed, RollbackStep
<1>3. QED BY <1>2, CredentialsKeptHolds DEF HistoryKept
=============================================================================
