------------------------ MODULE SlidingWindowProofs ------------------------
(***************************************************************************)
(* Admitting only below the limit keeps every stretch of a window's length *)
(* within the limit, those that are over included.                         *)
(***************************************************************************)
EXTENDS SlidingWindow, FiniteSetTheorems, TLAPS

WTypes ==
    /\ at \in [Request -> Nat \cup {Never}]
    /\ now \in Nat
    /\ \A r \in Request : at[r] <= now

WInv == WTypes /\ WithinLimit

\* The parameters as a gateway has them.
Parameters ==
    IsFiniteSet(Request) /\ Limit \in Nat /\ Window \in Nat

\* A set of requests has a size, and a part of it no larger one.
LEMMA Sizes ==
    ASSUME Parameters, NEW S \in SUBSET Request, NEW T \in SUBSET S
    PROVE  /\ Cardinality(S) \in Nat /\ Cardinality(T) \in Nat
           /\ Cardinality(T) <= Cardinality(S)
<1>1. IsFiniteSet(S)
  BY FS_Subset DEF Parameters
<1> QED BY <1>1, FS_Subset, FS_CardinalityType

\* One more request makes a set larger by at most one.
LEMMA OneMore ==
    ASSUME Parameters, NEW S \in SUBSET Request, NEW r \in Request
    PROVE  Cardinality(S \cup {r}) <= Cardinality(S) + 1
<1>1. IsFiniteSet(S) /\ Cardinality(S) \in Nat
  BY FS_Subset, FS_CardinalityType DEF Parameters
<1>2. Cardinality(S \cup {r}) = IF r \in S THEN Cardinality(S) ELSE Cardinality(S) + 1
  BY <1>1, FS_AddElement
<1> QED BY <1>1, <1>2

\* Before anything is admitted no window holds anything.
LEMMA InitWInv == ASSUME Parameters, WInit PROVE WInv
<1>1. WTypes
  BY DEF WInit, WTypes, Never
<1>2. ASSUME NEW k, NEW t \in 0..now PROVE Cardinality(Recent(k, t)) <= Limit
  <2>1. Recent(k, t) = {}
    BY DEF WInit, Recent
  <2> QED BY <2>1, FS_EmptySet DEF Parameters
<1> QED BY <1>1, <1>2 DEF WInv, WithinLimit

\* An admission: windows that are over do not see it, the current one had room.
LEMMA AdmitKeeps ==
    ASSUME Parameters, WInv, NEW r \in Request, Admit(r) PROVE WInv'
<1> USE DEF Never
<1>1. /\ at' = [at EXCEPT ![r] = now] /\ now' = now /\ at[r] = Never
      /\ Cardinality(Recent(KeyOf[r], now)) < Limit
  BY DEF Admit
<1>2. WTypes'
  BY <1>1 DEF WInv, WTypes
<1>3. ASSUME NEW k \in {KeyOf[s] : s \in Request}, NEW t \in 0..now
      PROVE  Cardinality(Recent(k, t)') <= Limit
  <2>1. CASE k = KeyOf[r] /\ t = now
    <3>1. Recent(k, t)' \subseteq Recent(k, t) \cup {r}
      BY <1>1, <2>1 DEF Recent, WInv, WTypes
    <3>2. Recent(k, t) \in SUBSET Request /\ Recent(k, t) \cup {r} \in SUBSET Request
      BY DEF Recent
    <3>3. Cardinality(Recent(k, t) \cup {r}) <= Cardinality(Recent(k, t)) + 1
      BY <3>2, OneMore
    <3>4. /\ Cardinality(Recent(k, t)') <= Cardinality(Recent(k, t) \cup {r})
          /\ Cardinality(Recent(k, t)') \in Nat
          /\ Cardinality(Recent(k, t) \cup {r}) \in Nat
      BY <3>1, <3>2, Sizes
    <3>5. Cardinality(Recent(k, t)) \in Nat
      BY <3>2, Sizes
    <3> QED BY <1>1, <2>1, <3>3, <3>4, <3>5 DEF Parameters
  <2>2. CASE ~(k = KeyOf[r] /\ t = now)
    <3>1. Recent(k, t)' = Recent(k, t)
      BY <1>1, <2>2 DEF Recent, WInv, WTypes
    <3> QED BY <3>1 DEF WInv, WithinLimit
  <2> QED BY <2>1, <2>2
<1> QED BY <1>1, <1>2, <1>3 DEF WInv, WithinLimit

\* Time passes: the windows ending later see at most what the last one saw.
LEMMA AdvanceKeeps ==
    ASSUME Parameters, WInv, Advance PROVE WInv'
<1> USE DEF Never
<1>0. PICK n \in Nat : n = now' /\ n > now
  BY DEF Advance
<1>1. at' = at /\ now \in Nat
  BY DEF Advance, WInv, WTypes
<1>2. WTypes'
  BY <1>0, <1>1 DEF WInv, WTypes
<1>3. ASSUME NEW k \in {KeyOf[s] : s \in Request}, NEW t \in 0..n
      PROVE  Cardinality(Recent(k, t)') <= Limit
  <2>1. Recent(k, t)' = Recent(k, t)
    BY <1>1 DEF Recent
  <2>2. CASE t <= now
    BY <1>1, <2>1, <2>2 DEF WInv, WithinLimit
  <2>3. CASE t > now
    <3>1. Recent(k, t) \subseteq Recent(k, now)
      BY <1>1, <2>3 DEF Recent, WInv, WTypes, Parameters
    <3>2. Cardinality(Recent(k, now)) <= Limit
      BY <1>1 DEF WInv, WithinLimit
    <3>3. Recent(k, now) \in SUBSET Request
      BY DEF Recent
    <3>4. /\ Cardinality(Recent(k, t)) <= Cardinality(Recent(k, now))
          /\ Cardinality(Recent(k, t)) \in Nat /\ Cardinality(Recent(k, now)) \in Nat
      BY <3>1, <3>3, Sizes
    <3> QED BY <2>1, <3>2, <3>4 DEF Parameters
  <2> QED BY <1>1, <2>2, <2>3
<1> QED BY <1>0, <1>2, <1>3 DEF WInv, WithinLimit

\* A restarted limiter has admitted nothing yet.
LEMMA ForgetKeeps ==
    ASSUME Parameters, WInv, Forget PROVE WInv'
<1>1. WTypes' /\ now' = now
  BY DEF Forget, WInv, WTypes, Never
<1>2. ASSUME NEW k, NEW t \in 0..now PROVE Cardinality(Recent(k, t)') <= Limit
  <2>1. Recent(k, t)' = {}
    BY DEF Forget, Recent
  <2> QED BY <2>1, FS_EmptySet DEF Parameters
<1> QED BY <1>1, <1>2 DEF WInv, WithinLimit

\* No stretch of time as long as the window sees more than Limit admitted
\* requests of one key, for every set of requests, limit and window.
THEOREM WindowBound == ASSUME Parameters PROVE WSpec => []WithinLimit
<1>1. WInit => WInv
  BY InitWInv
<1>2. WInv /\ [WNext]_window => WInv'
  <2> SUFFICES ASSUME WInv, [WNext]_window PROVE WInv'
    OBVIOUS
  <2>1. CASE UNCHANGED window
    BY <2>1 DEF window, WInv, WTypes, WithinLimit, Recent
  <2>2. CASE WNext
    BY <2>2, AdmitKeeps, AdvanceKeeps, ForgetKeeps DEF WNext
  <2> QED BY <2>1, <2>2
<1>3. WInv => WithinLimit
  BY DEF WInv
<1> QED BY <1>1, <1>2, <1>3, PTL DEF WSpec
=============================================================================
