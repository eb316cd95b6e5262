-------------------------- MODULE StagedSaveProofs --------------------------
(***************************************************************************)
(* Proofs about StagedSave, for every set of drafts and entities and every *)
(* bound.                                                                  *)
(***************************************************************************)
EXTENDS StagedSave, FiniteSetTheorems, SequenceTheorems, TLAPS

-----------------------------------------------------------------------------
(* Filtered sequences                                                      *)

Increasing(f) == \A i, j \in DOMAIN f : i < j => f[i] < f[j]

\* A set of places can be listed in order: the k-th is the one with k of the set up to it.
LEMMA InOrderFacts ==
  ASSUME NEW n \in Nat, NEW S \in SUBSET (1 .. n)
  PROVE  /\ IsFiniteSet(S) /\ Cardinality(S) \in Nat
         /\ InOrder(S) \in [1 .. Cardinality(S) -> S] /\ Increasing(InOrder(S))
         /\ \A i \in S : \E k \in 1 .. Cardinality(S) : InOrder(S)[k] = i
<1> DEFINE c == Cardinality(S)
           Below(i) == {j \in S : j <= i}
           R == [i \in S |-> Cardinality(Below(i))]
           g == [k \in 1 .. c |-> CHOOSE i \in S : R[i] = k]
<1>1. IsFiniteSet(S) /\ c \in Nat
  <2>1. IsFiniteSet(1 .. n)
    BY FS_Interval
  <2> QED
    BY <2>1, FS_Subset, FS_CardinalityType
<1>2. ASSUME NEW i \in S PROVE R[i] \in 1 .. c /\ IsFiniteSet(Below(i))
  <2>1. Below(i) \in SUBSET S /\ i \in Below(i)
    OBVIOUS
  <2>2. IsFiniteSet(Below(i)) /\ Cardinality(Below(i)) <= c
    BY <2>1, <1>1, FS_Subset
  <2>3. Cardinality(Below(i)) \in Nat /\ Cardinality(Below(i)) # 0
    BY <2>1, <2>2, FS_CardinalityType, FS_EmptySet
  <2>4. R[i] = Cardinality(Below(i))
    OBVIOUS
  <2> HIDE DEF Below, R
  <2> QED
    BY <1>1, <2>2, <2>3, <2>4
<1>3. ASSUME NEW i \in S, NEW j \in S, i < j PROVE R[i] < R[j]
  <2>1. Below(i) \in SUBSET Below(j) /\ j \in Below(j) /\ j \notin Below(i)
    <3>1. i \in 1 .. n /\ j \in 1 .. n /\ \A x \in S : x \in 1 .. n
      OBVIOUS
    <3>2. ASSUME NEW x \in Below(i) PROVE x \in Below(j)
      BY <1>3, <3>1
    <3>3. j \in Below(j)
      BY <3>1
    <3>4. j \notin Below(i)
      BY <1>3, <3>1
    <3> QED
      BY <3>2, <3>3, <3>4
  <2>2. IsFiniteSet(Below(j))
    BY <1>2
  <2>3. /\ Cardinality(Below(i)) <= Cardinality(Below(j))
        /\ Cardinality(Below(j)) = Cardinality(Below(i)) => Below(j) = Below(i)
    BY <2>1, <2>2, FS_Subset
  <2>4. R[i] = Cardinality(Below(i)) /\ R[j] = Cardinality(Below(j)) /\ R[i] \in 1 .. c
        /\ R[j] \in 1 .. c
    BY <1>2
  <2> HIDE DEF Below, R
  <2> QED
    BY <1>1, <2>1, <2>3, <2>4
<1>4. R \in Injection(S, 1 .. c)
  <2>1. R \in [S -> 1 .. c]
    <3>1. \A i \in S : R[i] \in 1 .. c
      BY <1>2
    <3> QED
      BY <3>1
  <2>2. ASSUME NEW i \in S, NEW j \in S, R[i] = R[j] PROVE i = j
    <3>1. i \in 1 .. n /\ j \in 1 .. n /\ R[i] \in 1 .. c /\ R[j] \in 1 .. c
      BY <1>2
    <3>2. i < j \/ j < i \/ i = j
      BY <3>1
    <3>3. ~ (R[i] < R[j]) /\ ~ (R[j] < R[i])
      BY <2>2, <3>1, <1>1
    <3> QED
      BY <1>3, <3>2, <3>3
  <2> HIDE DEF R
  <2> QED
    BY <2>1, <2>2 DEF Injection, IsInjective
<1>5. R \in Surjection(S, 1 .. c)
  <2>1. IsFiniteSet(1 .. c) /\ Cardinality(1 .. c) = c
    BY <1>1, FS_Interval
  <2> HIDE DEF R
  <2> QED
    BY <1>1, <1>4, <2>1, FS_Injection
<1>6. ASSUME NEW k \in 1 .. c PROVE g[k] \in S /\ R[g[k]] = k
  <2>1. \E i \in S : R[i] = k
    <3> HIDE DEF R
    <3> QED
      BY <1>5 DEF Surjection
  <2> HIDE DEF R
  <2> QED
    BY <2>1
<1>7. g \in [1 .. c -> S]
  <2>1. \A k \in 1 .. c : g[k] \in S
    BY <1>6
  <2> HIDE DEF R
  <2> QED
    BY <2>1
<1>8. Increasing(g)
  <2>1. ASSUME NEW a \in 1 .. c, NEW b \in 1 .. c, a < b PROVE g[a] < g[b]
    <3>1. g[a] \in S /\ g[b] \in S /\ R[g[a]] = a /\ R[g[b]] = b
      BY <1>6
    <3> HIDE DEF g, R
    <3>2. g[a] \in 1 .. n /\ g[b] \in 1 .. n
      BY <3>1
    <3>3. g[b] < g[a] => b < a
      BY <3>1, <1>3
    <3>4. g[b] = g[a] => b = a
      BY <3>1
    <3> QED
      BY <2>1, <3>2, <3>3, <3>4, <1>1
  <2> HIDE DEF R
  <2> QED
    BY <2>1, <1>7 DEF Increasing
<1> HIDE DEF R, g, c, Below
<1>9. InOrder(S) \in [1 .. c -> S] /\ Increasing(InOrder(S))
  BY <1>7, <1>8 DEF InOrder, Increasing, c
<1>10. InOrder(S) \in Injection(1 .. c, S)
  <2> DEFINE f == InOrder(S)
  <2> HIDE DEF f
  <2>1. ASSUME NEW a \in 1 .. c, NEW b \in 1 .. c, f[a] = f[b] PROVE a = b
    <3>1. f[a] \in 1 .. n /\ f[b] \in 1 .. n
      BY <1>9 DEF f
    <3>2. a < b => f[a] < f[b]
      BY <1>9 DEF f, Increasing
    <3>3. b < a => f[b] < f[a]
      BY <1>9 DEF f, Increasing
    <3> QED
      BY <2>1, <3>1, <3>2, <3>3, <1>1
  <2> QED
    BY <2>1, <1>9 DEF f, Injection, IsInjective
<1>11. InOrder(S) \in Surjection(1 .. c, S)
  <2>1. IsFiniteSet(1 .. c) /\ Cardinality(1 .. c) = c
    BY <1>1, FS_Interval
  <2> QED
    BY <2>1, <1>1, <1>10, FS_Injection DEF c
<1> QED
  BY <1>1, <1>9, <1>11 DEF c, Surjection

\* What Array.filter keeps, ks: the members of cs at the places S, all of them, in their order.
Keeps(ks, cs, S) ==
  /\ \A k \in DOMAIN ks : \E i \in S : ks[k] = cs[i]
  /\ \A i \in S : \E k \in DOMAIN ks : ks[k] = cs[i]
  /\ \A k, l \in DOMAIN ks : k < l => \E i, j \in S : i < j /\ ks[k] = cs[i] /\ ks[l] = cs[j]
LEMMA KeptFacts ==
  ASSUME NEW T, NEW cs \in Seq(T), NEW S \in SUBSET (DOMAIN cs)
  PROVE  Kept(cs, S) \in Seq(T) /\ Keeps(Kept(cs, S), cs, S)
<1>1. Len(cs) \in Nat /\ DOMAIN cs = 1 .. Len(cs) /\ cs \in [1 .. Len(cs) -> T]
  BY LenProperties
<1> DEFINE f == InOrder(S)
           c == Cardinality(S)
<1>2. /\ c \in Nat /\ f \in [1 .. c -> S] /\ Increasing(f)
      /\ \A i \in S : \E k \in 1 .. c : f[k] = i
  BY <1>1, InOrderFacts
<1>3. Kept(cs, S) = [k \in 1 .. c |-> cs[f[k]]]
  BY <1>2 DEF Kept
<1> HIDE DEF f, c
<1>4. Kept(cs, S) \in [1 .. c -> T]
  <2>1. ASSUME NEW k \in 1 .. c PROVE cs[f[k]] \in T
    BY <1>1, <1>2
  <2> QED
    BY <1>3, <2>1
<1>5. Kept(cs, S) \in Seq(T)
  BY <1>2, <1>4
<1>6. \A k \in 1 .. c : f[k] \in S /\ Kept(cs, S)[k] = cs[f[k]]
  BY <1>2, <1>3
<1>7. \A k \in 1 .. c : \E i \in S : Kept(cs, S)[k] = cs[i]
  BY <1>6
<1>8. ASSUME NEW i \in S PROVE \E k \in 1 .. c : Kept(cs, S)[k] = cs[i]
  <2>1. PICK k \in 1 .. c : f[k] = i
    BY <1>2
  <2> QED
    BY <2>1, <1>6
<1>9. DOMAIN Kept(cs, S) = 1 .. c
  BY <1>3
<1>10. \A k, l \in 1 .. c : k < l => f[k] < f[l]
  BY <1>2 DEF Increasing
<1> DEFINE K == Kept(cs, S)
<1> HIDE DEF K
<1>11. ASSUME NEW k \in 1 .. c, NEW l \in 1 .. c, k < l
       PROVE  \E i, j \in S : i < j /\ K[k] = cs[i] /\ K[l] = cs[j]
  BY <1>6, <1>10, <1>11 DEF K
<1>12. /\ DOMAIN K = 1 .. c /\ \A k \in 1 .. c : \E i \in S : K[k] = cs[i]
       /\ \A i \in S : \E k \in 1 .. c : K[k] = cs[i]
  BY <1>7, <1>8, <1>9 DEF K
<1>13. \A k \in DOMAIN K : \E i \in S : K[k] = cs[i]
  BY <1>12
<1>14. ASSUME NEW i \in S PROVE \E k \in DOMAIN K : K[k] = cs[i]
  <2>1. PICK k \in 1 .. c : K[k] = cs[i]
    BY <1>12
  <2>2. k \in DOMAIN K
    BY <1>12
  <2> QED
    BY <2>1, <2>2
<1>15. ASSUME NEW k \in DOMAIN K, NEW l \in DOMAIN K, k < l
       PROVE  \E i, j \in S : i < j /\ K[k] = cs[i] /\ K[l] = cs[j]
  <2>1. k \in 1 .. c /\ l \in 1 .. c
    BY <1>12
  <2> QED
    BY <2>1, <1>11, <1>15
<1>16. Keeps(K, cs, S)
  BY <1>13, <1>14, <1>15, Zenon DEF Keeps
<1> QED
  BY <1>5, <1>16 DEF K

LEMMA SansFacts ==
  ASSUME NEW T, NEW cs \in Seq(T), NEW ids
  PROVE  /\ Sans(cs, ids) \in Seq(T)
         /\ \A k \in DOMAIN Sans(cs, ids) : \E i \in DOMAIN cs :
              cs[i].id \notin ids /\ Sans(cs, ids)[k] = cs[i]
         /\ \A i \in DOMAIN cs : cs[i].id \notin ids =>
              \E k \in DOMAIN Sans(cs, ids) : Sans(cs, ids)[k] = cs[i]
<1> DEFINE S == {i \in DOMAIN cs : cs[i].id \notin ids}
<1>1. S \in SUBSET (DOMAIN cs)
  OBVIOUS
<1>2. Sans(cs, ids) = Kept(cs, S)
  BY DEF Sans
<1>3. Kept(cs, S) \in Seq(T) /\ Keeps(Kept(cs, S), cs, S)
  BY <1>1, KeptFacts
<1> DEFINE K == Kept(cs, S)
<1> HIDE DEF K
<1>4. Sans(cs, ids) = K /\ K \in Seq(T) /\ Keeps(K, cs, S)
  BY <1>2, <1>3 DEF K
<1>5. \A k \in DOMAIN K : \E i \in DOMAIN cs : cs[i].id \notin ids /\ K[k] = cs[i]
  BY <1>4 DEF Keeps
<1>6. \A i \in DOMAIN cs : cs[i].id \notin ids => \E k \in DOMAIN K : K[k] = cs[i]
  BY <1>4 DEF Keeps
<1> QED
  BY <1>4, <1>5, <1>6

\* stagedChangesToOps: one op of each change that is not a layer move.
OpOf(c) == [target |-> c.target, kind |-> c.kind, under |-> c.under, after |-> c.after,
            base |-> c.base]
LEMMA OpsFacts ==
  ASSUME NEW cs \in Seq(Change)
  PROVE  /\ Ops(cs) \in Seq(Op)
         /\ \A k \in DOMAIN Ops(cs) : \E i \in DOMAIN cs :
              cs[i].target \notin LayoutOnly /\ Ops(cs)[k] = OpOf(cs[i])
         /\ \A i \in DOMAIN cs : cs[i].target \notin LayoutOnly =>
              \E k \in DOMAIN Ops(cs) : Ops(cs)[k] = OpOf(cs[i])
<1> DEFINE S == {i \in DOMAIN cs : cs[i].target \notin LayoutOnly}
           K == Kept(cs, S)
<1>1. S \in SUBSET (DOMAIN cs)
  OBVIOUS
<1>2. K \in Seq(Change) /\ Keeps(K, cs, S)
  BY <1>1, KeptFacts
<1>3. /\ \A k \in DOMAIN K : \E i \in S : K[k] = cs[i]
      /\ \A i \in S : \E k \in DOMAIN K : K[k] = cs[i]
  BY <1>2 DEF Keeps
<1>4. Ops(cs) = [k \in DOMAIN K |-> OpOf(K[k])]
  BY DEF Ops, Map, OpOf
<1>5. Len(K) \in Nat /\ DOMAIN K = 1 .. Len(K) /\ \A k \in DOMAIN K : K[k] \in Change
  BY <1>2, LenProperties
<1> HIDE DEF K
<1>6. Ops(cs) \in Seq(Op)
  <2>1. \A k \in 1 .. Len(K) : OpOf(K[k]) \in Op
    BY <1>5 DEF OpOf, Change, Op
  <2>2. Ops(cs) \in [1 .. Len(K) -> Op]
    BY <1>4, <1>5, <2>1
  <2> QED
    BY <1>5, <2>2
<1> QED
  BY <1>3, <1>4, <1>5, <1>6

LEMMA SeqParts ==
  ASSUME NEW T, NEW cs \in Seq(T)
  PROVE  /\ Len(cs) \in Nat /\ DOMAIN cs = 1 .. Len(cs) /\ cs \in [1 .. Len(cs) -> T]
         /\ \A i \in DOMAIN cs : cs[i] \in T
         /\ cs = <<>> <=> DOMAIN cs = {}
         /\ cs # <<>> => Len(cs) \in DOMAIN cs
BY LenProperties, EmptySeq

LEMMA MapType ==
  ASSUME NEW cs \in Seq(Change), NEW es, DOMAIN es = DOMAIN cs, es = [i \in DOMAIN cs |-> es[i]],
         \A i \in DOMAIN cs : es[i] \in Change
  PROVE  es \in Seq(Change) /\ Len(es) = Len(cs)
<1>1. Len(cs) \in Nat /\ DOMAIN cs = 1 .. Len(cs)
  BY SeqParts
<1>2. es \in [1 .. Len(cs) -> Change]
  BY <1>1
<1> QED
  BY <1>1, <1>2

-----------------------------------------------------------------------------
(* Types                                                                   *)

Slice == [changes : Seq(Change), redo : Seq(Change)]
SnapRec == [changes : Seq(Change), save : PendingSave]
Settled == [carried : SUBSET Nat, edited : SUBSET Nat, versions : [Targets -> Nat]]
AnswerRec == [is : {"none", "ok", "refused", "conflict", "lost"}, versions : [Targets -> Nat]]
CallRec == [phase : {"none", "settle", "send"}, scope : Scopes, batch : Seq(Change),
            save : PendingSave, settled : Settled, answer : AnswerRec]
RequestRec == [key : Nat, draft : Drafts, ops : Seq(Op), live : BOOLEAN]
Commit == [key : Nat, ops : Seq(Op)]
Entity == [ver : Nat, mine : Nat]

\* A save runs for a draft; what the server remembers is finite, so that a key is left to take.
TypeInv ==
  /\ TypeOK
  /\ call.phase # "none" => call.scope \in Drafts
  /\ IsFiniteSet(net) /\ IsFiniteSet(refusals) /\ \A d \in Drafts : IsFiniteSet(commits[d])

LEMMA BaseTypes ==
  /\ NoSave \in PendingSave /\ NoSnap \in SnapRec /\ EmptySlice \in Slice /\ NoAnswer \in AnswerRec
  /\ NotSettled \in Settled /\ NoCall \in CallRec /\ {Absent, Stored} \subseteq Entity
  /\ \A T : <<>> \in Seq(T)
<1>1. \A T : <<>> \in Seq(T)
  BY EmptySeq
<1>2. NoSave \in PendingSave
  BY <1>1 DEF NoSave, PendingSave, Body
<1>3. NoSnap \in SnapRec /\ EmptySlice \in Slice /\ NoAnswer \in AnswerRec /\ NotSettled \in Settled
  BY <1>1, <1>2 DEF NoSnap, SnapRec, EmptySlice, Slice, NoAnswer, AnswerRec, NotSettled, Settled
<1>4. NoCall \in CallRec
  BY <1>1, <1>2, <1>3 DEF NoCall, CallRec, Scopes
<1>5. {Absent, Stored} \subseteq Entity
  BY DEF Absent, Stored, Entity
<1> QED
  BY <1>1, <1>2, <1>3, <1>4, <1>5

LEMMA ImageFinite ==
  ASSUME NEW S, IsFiniteSet(S), NEW f
  PROVE  IsFiniteSet({f[x] : x \in S})
<1> DEFINE I == {f[x] : x \in S}
           g == [x \in S |-> f[x]]
<1>1. g \in Surjection(S, I)
  BY DEF Surjection
<1> QED
  BY <1>1, FS_Surjection

\* A key nobody holds can be found.
LEMMA KeyFree ==
  ASSUME TypeInv
  PROVE  NewRequestId \in Nat \ {0} /\ NewRequestId \notin KeysHeld
<1> DEFINE N == {m.key : m \in net}
           C(d) == {r.key : r \in commits[d]} \cup {snap[d].save.key}
           P == {pending[s].key : s \in Scopes}
<1>1. IsFiniteSet(N)
  <2> DEFINE f == [m \in net |-> m.key]
  <2>1. IsFiniteSet({f[m] : m \in net})
    BY ImageFinite DEF TypeInv
  <2>2. {f[m] : m \in net} = N
    OBVIOUS
  <2> QED
    BY <2>1, <2>2
<1>2. ASSUME NEW d \in Drafts PROVE IsFiniteSet(C(d))
  <2> DEFINE f == [r \in commits[d] |-> r.key]
  <2>1. IsFiniteSet({f[r] : r \in commits[d]})
    BY ImageFinite DEF TypeInv
  <2>2. {f[r] : r \in commits[d]} = {r.key : r \in commits[d]}
    OBVIOUS
  <2> QED
    BY <2>1, <2>2, FS_AddElement
<1>3. IsFiniteSet(UNION {C(d) : d \in Drafts})
  <2> DEFINE f == [d \in Drafts |-> C(d)]
  <2>1. IsFiniteSet({f[d] : d \in Drafts})
    <3> HIDE DEF f
    <3>1. IsFiniteSet(Drafts)
      BY StagedSaveAssumption
    <3> QED
      BY <3>1, ImageFinite
  <2>2. {f[d] : d \in Drafts} = {C(d) : d \in Drafts}
    OBVIOUS
  <2>3. \A T \in {C(d) : d \in Drafts} : IsFiniteSet(T)
    BY <1>2
  <2> HIDE DEF C, f
  <2> QED
    BY <2>1, <2>2, <2>3, FS_UNION
<1>4. IsFiniteSet(P)
  <2> DEFINE f == [s \in Scopes |-> pending[s].key]
  <2>1. IsFiniteSet(Scopes)
    BY StagedSaveAssumption, FS_AddElement DEF Scopes
  <2>2. IsFiniteSet({f[s] : s \in Scopes})
    BY <2>1, ImageFinite
  <2>3. {f[s] : s \in Scopes} = P
    OBVIOUS
  <2> QED
    BY <2>2, <2>3
<1>5. IsFiniteSet(KeysHeld)
  <2>1. KeysHeld = (((N \cup refusals) \cup {call.save.key}) \cup P) \cup UNION {C(d) : d \in Drafts}
    BY DEF KeysHeld
  <2>2. IsFiniteSet(refusals)
    BY DEF TypeInv
  <2> HIDE DEF N, P, C
  <2>3. IsFiniteSet((N \cup refusals) \cup {call.save.key})
    BY <1>1, <2>2, FS_Union, FS_AddElement
  <2>4. IsFiniteSet(((N \cup refusals) \cup {call.save.key}) \cup P)
    BY <2>3, <1>4, FS_Union
  <2> QED
    BY <2>1, <2>4, <1>3, FS_Union
<1> DEFINE n == Cardinality(KeysHeld)
<1>6. n \in Nat
  BY <1>5, FS_CardinalityType
<1>7. ~ (1 .. n + 1 \subseteq KeysHeld)
  <2>1. Cardinality(1 .. n + 1) = n + 1
    BY <1>6, FS_Interval
  <2>2. 1 .. n + 1 \subseteq KeysHeld => Cardinality(1 .. n + 1) <= n
    BY <1>5, FS_Subset
  <2> QED
    BY <1>6, <2>1, <2>2
<1>8. NewRequestId \in 1 .. n + 1 /\ NewRequestId \notin KeysHeld
  BY <1>7 DEF NewRequestId
<1> QED
  BY <1>6, <1>8

LEMMA TypeParts ==
  TypeOK <=>
    /\ scope \in Scopes /\ restoredFor \in Drafts \cup {NoDraft}
    /\ changes \in Seq(Change) /\ redo \in Seq(Change) /\ parked \in [Scopes -> Slice]
    /\ applying \in BOOLEAN /\ due \in BOOLEAN /\ token \in [Targets -> Nat]
    /\ pending \in [Scopes -> PendingSave] /\ snap \in [Drafts -> SnapRec]
    /\ call \in CallRec /\ net \subseteq RequestRec /\ open \subseteq Drafts
    /\ doc \in [Drafts -> [Targets -> Entity]] /\ commits \in [Drafts -> SUBSET Commit]
    /\ refusals \subseteq Nat /\ edits \in Nat /\ minted \subseteq Targets
    /\ spent \in [{"faults", "others", "refused", "redos"} -> Nat]
    /\ wanted \in [Drafts -> [Targets -> Nat]]
    /\ madeOn \in [1 .. MaxEdits -> [draft : Drafts \cup {NoDraft}, target : Targets \cup {NoTarget}]]
  BY DEF TypeOK, Slice, SnapRec, Settled, AnswerRec, CallRec, RequestRec, Commit, Entity

LEMMA TypePartsNext ==
  TypeOK' <=>
    /\ scope' \in Scopes /\ restoredFor' \in Drafts \cup {NoDraft}
    /\ changes' \in Seq(Change) /\ redo' \in Seq(Change) /\ parked' \in [Scopes -> Slice]
    /\ applying' \in BOOLEAN /\ due' \in BOOLEAN /\ token' \in [Targets -> Nat]
    /\ pending' \in [Scopes -> PendingSave] /\ snap' \in [Drafts -> SnapRec]
    /\ call' \in CallRec /\ net' \subseteq RequestRec /\ open' \subseteq Drafts
    /\ doc' \in [Drafts -> [Targets -> Entity]] /\ commits' \in [Drafts -> SUBSET Commit]
    /\ refusals' \subseteq Nat /\ edits' \in Nat /\ minted' \subseteq Targets
    /\ spent' \in [{"faults", "others", "refused", "redos"} -> Nat]
    /\ wanted' \in [Drafts -> [Targets -> Nat]]
    /\ madeOn' \in [1 .. MaxEdits -> [draft : Drafts \cup {NoDraft}, target : Targets \cup {NoTarget}]]
  BY DEF TypeOK, Slice, SnapRec, Settled, AnswerRec, CallRec, RequestRec, Commit, Entity

Saves == [Scopes -> PendingSave]
Snaps == [Drafts -> SnapRec]

LEMMA NotifyType ==
  ASSUME TypeInv, NEW cs, NEW saves \in Saves, NEW snaps \in Snaps, Notify(cs, saves, snaps)
  PROVE  pending' \in Saves /\ snap' \in Snaps /\ due' \in BOOLEAN
<1>1. due \in BOOLEAN /\ scope \in Scopes
  BY TypeParts DEF TypeInv
<1>2. scope \in Drafts => [saves EXCEPT ![scope] = NoSave] \in Saves
  BY <1>1, BaseTypes DEF Saves
<1>3. scope \in Drafts => [snaps EXCEPT ![scope] = NoSnap] \in Snaps
  BY <1>1, BaseTypes DEF Snaps
<1> QED
  BY <1>1, <1>2, <1>3 DEF Notify

LEMMA RequestType ==
  ASSUME NEW save \in PendingSave, NEW d \in Drafts
  PROVE  Request(save, d) \in RequestRec
BY DEF Request, RequestRec, PendingSave, Body

LEMMA SendType ==
  ASSUME TypeInv, NEW rest \in Seq(Change), NEW batch \in Seq(Change), NEW d \in Drafts,
         NEW saves \in Saves, NEW settled \in Settled, Send(rest, batch, d, saves, settled)
  PROVE  /\ pending' \in Saves /\ snap' \in Snaps /\ net' \subseteq RequestRec /\ IsFiniteSet(net')
         /\ call' \in CallRec /\ call'.scope \in Drafts
<1> DEFINE body == BodyOf(rest, batch)
           save == [key |-> KeyFor(body, saves[d]), body |-> body, sent |-> rest]
<1>1. body \in Body
  <2>1. Ops(rest) \in Seq(Op)
    BY OpsFacts
  <2>2. Len(batch) \in Nat
    BY SeqParts
  <2> QED
    BY <2>1, <2>2 DEF BodyOf, Body
<1>2. KeyFor(body, saves[d]) \in Nat
  <2>1. saves[d] \in PendingSave
    BY DEF Saves, Scopes
  <2>2. saves[d].key \in Nat
    BY <2>1 DEF PendingSave
  <2> QED
    BY <2>2, KeyFree DEF KeyFor
<1>3. save \in PendingSave
  BY <1>1, <1>2 DEF PendingSave
<1> HIDE DEF body, save
<1>4. /\ pending' = [saves EXCEPT ![d] = save]
      /\ snap' = IF snap[d] = NoSnap THEN snap ELSE [snap EXCEPT ![d].save = save]
      /\ net' = net \cup {Request(save, d)}
      /\ call' = [phase |-> "send", scope |-> d, batch |-> batch, save |-> save,
                  settled |-> settled, answer |-> NoAnswer]
  BY DEF Send, save, body
<1>5. pending' \in Saves
  BY <1>3, <1>4 DEF Saves, Scopes
<1>6. snap \in Snaps /\ net \subseteq RequestRec /\ IsFiniteSet(net)
  BY TypeParts DEF TypeInv, Snaps
<1>7. snap' \in Snaps
  <2>1. [snap[d] EXCEPT !.save = save] \in SnapRec
    BY <1>3, <1>6 DEF Snaps, SnapRec
  <2> QED
    BY <1>4, <1>6, <2>1 DEF Snaps
<1>8. net' \subseteq RequestRec /\ IsFiniteSet(net')
  BY <1>3, <1>4, <1>6, RequestType, FS_AddElement
<1>9. call' \in CallRec /\ call'.scope \in Drafts
  BY <1>3, <1>4, BaseTypes DEF CallRec, Scopes
<1> QED
  BY <1>5, <1>7, <1>8, <1>9

LEMMA DoneType ==
  ASSUME TypeInv, NEW cs \in Seq(Change), NEW saves \in Saves, NEW snaps \in Snaps,
         Done(cs, saves, snaps)
  PROVE  /\ pending' \in Saves /\ snap' \in Snaps /\ due' \in BOOLEAN /\ changes' \in Seq(Change)
         /\ applying' \in BOOLEAN /\ call' \in CallRec /\ call'.phase = "none" /\ net' = net
<1>1. due \in BOOLEAN
  BY TypeParts DEF TypeInv
<1>2. /\ changes' = cs /\ applying' = FALSE /\ call' = NoCall /\ net' = net
      /\ Notify(cs, saves, snaps) \/ (pending' = saves /\ snap' = snaps /\ due' = due)
  BY DEF Done
<1>3. pending' \in Saves /\ snap' \in Snaps /\ due' \in BOOLEAN
  BY <1>1, <1>2, NotifyType
<1> QED
  BY <1>2, <1>3, BaseTypes DEF NoCall

LEMMA ReconcileType ==
  ASSUME TypeInv, NEW d, NEW cs, NEW versions \in [Targets -> Nat], Reconcile(d, cs, versions)
  PROVE  token' \in [Targets -> Nat]
BY TypeParts DEF TypeInv, Reconcile

LEMMA CallParts ==
  ASSUME TypeInv
  PROVE  /\ call \in CallRec /\ call.batch \in Seq(Change) /\ call.save \in PendingSave
         /\ call.settled \in Settled /\ call.answer \in AnswerRec
         /\ call.answer.versions \in [Targets -> Nat] /\ call.save.sent \in Seq(Change)
         /\ call.settled.carried \subseteq Nat /\ call.settled.edited \subseteq Nat
         /\ call.settled.versions \in [Targets -> Nat]
         /\ call.phase # "none" => call.scope \in Drafts
BY TypeParts DEF TypeInv, CallRec, Settled, AnswerRec, PendingSave

-----------------------------------------------------------------------------
(* Types: editing                                                          *)

LEMMA ActiveType ==
  ASSUME TypeInv
  PROVE  /\ changes \in Seq(Change) /\ redo \in Seq(Change)
         /\ DOMAIN changes = 1 .. Len(changes) /\ Len(changes) \in Nat
         /\ \A i \in DOMAIN changes : changes[i] \in Change
         /\ pending \in Saves /\ snap \in Snaps
         /\ \A ids : Sans(changes, ids) \in Seq(Change)
<1>1. changes \in Seq(Change) /\ redo \in Seq(Change) /\ pending \in Saves /\ snap \in Snaps
  BY TypeParts DEF TypeInv, Saves, Snaps
<1>2. \A ids : Sans(changes, ids) \in Seq(Change)
  BY <1>1, SansFacts
<1> QED
  BY <1>1, <1>2, SeqParts

LEMMA GivenUpType ==
  ASSUME TypeInv, scope \in Drafts, NEW ts
  PROVE  GivenUp(ts) \in [Drafts -> [Targets -> Nat]]
<1>1. wanted \in [Drafts -> [Targets -> Nat]]
  BY TypeParts DEF TypeInv
<1>2. [t \in Targets |-> IF t \in ts THEN 0 ELSE wanted[scope][t]] \in [Targets -> Nat]
  BY <1>1
<1> QED
  BY <1>1, <1>2 DEF GivenUp

LEMMA PushedType ==
  ASSUME TypeInv, NEW c \in Change
  PROVE  Pushed(c) \in Seq(Change)
BY ActiveType, AppendProperties, EmptySeq DEF Pushed

\* The steps that edit the active list and touch nothing else but the page's own.
LEMMA EditingType ==
  ASSUME TypeInv, scope \in Drafts,
         changes' \in Seq(Change), redo' \in Seq(Change), wanted' \in [Drafts -> [Targets -> Nat]],
         token' \in [Targets -> Nat], edits' \in Nat, minted' \subseteq Targets,
         spent' \in [{"faults", "others", "refused", "redos"} -> Nat],
         madeOn' \in [1 .. MaxEdits -> [draft : Drafts \cup {NoDraft}, target : Targets \cup {NoTarget}]],
         NEW cs, Notify(cs, pending, snap),
         UNCHANGED <<scope, parked, applying, restoredFor, call, net, server>>
  PROVE  TypeInv'
<1>1. pending' \in Saves /\ snap' \in Snaps /\ due' \in BOOLEAN
  BY NotifyType, ActiveType
<1>2. /\ scope' = scope /\ parked' = parked /\ applying' = applying /\ restoredFor' = restoredFor
      /\ call' = call /\ net' = net /\ open' = open /\ doc' = doc /\ commits' = commits
      /\ refusals' = refusals
  BY DEF server
<1>3. TypeOK'
  BY <1>1, <1>2, TypeParts, TypePartsNext DEF TypeInv, Saves, Snaps
<1> QED
  BY <1>2, <1>3 DEF TypeInv

LEMMA EditType ==
  ASSUME TypeInv, NEW t \in Targets, Edit(t)
  PROVE  TypeInv'
<1> DEFINE e == edits + 1
           at == Staging(changes, t)
<1>1. /\ scope \in Drafts /\ edits < MaxEdits /\ Notify(changes', pending, snap) /\ edits' = e
      /\ wanted' = [wanted EXCEPT ![scope][t] = IF t \in LayoutOnly THEN 0 ELSE e]
      /\ madeOn' = [madeOn EXCEPT ![e] = [draft |-> scope, target |-> t]]
      /\ UNCHANGED <<scope, parked, applying, token, restoredFor, call, net, server, spent>>
      /\ \/ /\ at # {} /\ changes' = Replaced(CHOOSE i \in at : TRUE, e) /\ UNCHANGED <<redo, minted>>
         \/ /\ \E u \in Naming : changes' = Append(changes, NewChange(t, u, e))
            /\ redo' = <<>>
            /\ minted' = IF token[t] = 0 THEN minted \cup {t} ELSE minted
  BY DEF Edit, Editable
<1>2. edits \in Nat /\ e \in Nat /\ wanted \in [Drafts -> [Targets -> Nat]] /\ minted \subseteq Targets
      /\ token \in [Targets -> Nat] /\ spent \in [{"faults", "others", "refused", "redos"} -> Nat]
      /\ madeOn \in [1 .. MaxEdits -> [draft : Drafts \cup {NoDraft}, target : Targets \cup {NoTarget}]]
  BY TypeParts DEF TypeInv
<1>3. changes' \in Seq(Change) /\ redo' \in Seq(Change) /\ minted' \subseteq Targets
  <2>1. CASE at # {} /\ changes' = Replaced(CHOOSE i \in at : TRUE, e) /\ UNCHANGED <<redo, minted>>
    <3>1. PICK i \in DOMAIN changes : changes' = Replaced(i, e)
      BY <2>1 DEF Staging
    <3>2. changes[i] \in Change /\ [changes[i] EXCEPT !.after = e] \in Change
      BY <1>2, ActiveType DEF Change
    <3>3. changes' = [changes EXCEPT ![i] = [changes[i] EXCEPT !.after = e]]
      BY <3>1 DEF Replaced
    <3>4. changes' \in Seq(Change)
      BY <3>2, <3>3, ActiveType, ExceptSeq
    <3> QED
      BY <2>1, <3>4, <1>2, ActiveType
  <2>2. CASE /\ \E u \in Naming : changes' = Append(changes, NewChange(t, u, e))
             /\ redo' = <<>> /\ minted' = IF token[t] = 0 THEN minted \cup {t} ELSE minted
    <3>1. PICK u \in Naming : changes' = Append(changes, NewChange(t, u, e))
      BY <2>2
    <3>2. NewChange(t, u, e) \in Change
      BY <1>2 DEF NewChange, Change
    <3> QED
      BY <2>2, <3>1, <3>2, <1>2, ActiveType, AppendProperties, EmptySeq
  <2> QED
    BY <1>1, <2>1, <2>2
<1>4. wanted' \in [Drafts -> [Targets -> Nat]]
  BY <1>1, <1>2
<1>5. madeOn' \in [1 .. MaxEdits -> [draft : Drafts \cup {NoDraft}, target : Targets \cup {NoTarget}]]
  BY <1>1, <1>2
<1> QED
  BY <1>1, <1>2, <1>3, <1>4, <1>5, EditingType

LEMMA DiscardType ==
  ASSUME TypeInv, NEW i \in DOMAIN changes, Discard(i)
  PROVE  TypeInv'
<1>1. /\ scope \in Drafts /\ Notify(changes', pending, snap)
      /\ \E ids : changes' = Sans(changes, ids)
      /\ \E ts : wanted' = GivenUp(ts)
      /\ redo' = redo \/ redo' = Pushed(changes[i])
      /\ UNCHANGED <<scope, parked, applying, token, restoredFor, call, net, server, spent,
                     edits, minted, madeOn>>
  BY DEF Discard, Editable
<1>2. changes' \in Seq(Change) /\ redo' \in Seq(Change)
  BY <1>1, ActiveType, PushedType
<1>3. wanted' \in [Drafts -> [Targets -> Nat]]
  BY <1>1, GivenUpType
<1> QED
  BY <1>1, <1>2, <1>3, EditingType, TypeParts DEF TypeInv

LEMMA DiscardAllType ==
  ASSUME TypeInv, DiscardAll
  PROVE  TypeInv'
<1>1. /\ scope \in Drafts /\ Notify(<<>>, pending, snap) /\ changes' = <<>> /\ redo' = <<>>
      /\ \E ts : wanted' = GivenUp(ts)
      /\ UNCHANGED <<scope, parked, applying, token, restoredFor, call, net, server, spent,
                     edits, minted, madeOn>>
  BY DEF DiscardAll, Editable
<1>2. wanted' \in [Drafts -> [Targets -> Nat]]
  BY <1>1, GivenUpType
<1> QED
  BY <1>1, <1>2, EditingType, TypeParts, EmptySeq DEF TypeInv

LEMMA Shorter ==
  ASSUME NEW cs \in Seq(Change), cs # <<>>
  PROVE  /\ Len(cs) \in DOMAIN cs /\ cs[Len(cs)] \in Change
         /\ SubSeq(cs, 1, Len(cs) - 1) \in Seq(Change)
         /\ Len(SubSeq(cs, 1, Len(cs) - 1)) = Len(cs) - 1
         /\ \A i \in 1 .. Len(cs) - 1 : SubSeq(cs, 1, Len(cs) - 1)[i] = cs[i]
<1>1. Len(cs) \in Nat /\ Len(cs) # 0 /\ DOMAIN cs = 1 .. Len(cs) /\ \A i \in DOMAIN cs : cs[i] \in Change
  BY SeqParts, EmptySeq
<1> QED
  BY <1>1, SubSeqProperties

LEMMA UndoType ==
  ASSUME TypeInv, Undo
  PROVE  TypeInv'
<1>1. /\ scope \in Drafts /\ Notify(changes', pending, snap) /\ changes # <<>>
      /\ changes' = SubSeq(changes, 1, Len(changes) - 1) /\ redo' = Pushed(changes[Len(changes)])
      /\ \E ts : wanted' = GivenUp(ts)
      /\ UNCHANGED <<scope, parked, applying, token, restoredFor, call, net, server, spent,
                     edits, minted, madeOn>>
  BY DEF Undo, Editable
<1>2. wanted' \in [Drafts -> [Targets -> Nat]]
  BY <1>1, GivenUpType
<1>3. changes' \in Seq(Change) /\ redo' \in Seq(Change)
  BY <1>1, ActiveType, Shorter, PushedType
<1> QED
  BY <1>1, <1>2, <1>3, EditingType, TypeParts DEF TypeInv

LEMMA RedoType ==
  ASSUME TypeInv, Redo
  PROVE  TypeInv'
<1> DEFINE last == redo[Len(redo)]
<1>1. /\ scope \in Drafts /\ Notify(changes', pending, snap) /\ redo # <<>>
      /\ changes' = Append(changes, last) /\ redo' = SubSeq(redo, 1, Len(redo) - 1)
      /\ wanted' = [wanted EXCEPT ![scope][last.target] =
                        IF last.target \in LayoutOnly THEN 0 ELSE last.after]
      /\ spent' = [spent EXCEPT !.redos = @ + 1]
      /\ UNCHANGED <<scope, parked, applying, token, restoredFor, call, net, server,
                     edits, minted, madeOn>>
  BY DEF Redo, Editable
<1>2. last \in Change /\ redo' \in Seq(Change)
  BY <1>1, ActiveType, Shorter
<1>3. changes' \in Seq(Change)
  BY <1>1, <1>2, ActiveType, AppendProperties
<1>4. wanted \in [Drafts -> [Targets -> Nat]]
      /\ spent \in [{"faults", "others", "refused", "redos"} -> Nat]
  BY TypeParts DEF TypeInv
<1>5. wanted' \in [Drafts -> [Targets -> Nat]]
  <2>1. last.target \in Targets /\ last.after \in Nat
    BY <1>2 DEF Change
  <2> QED
    BY <1>1, <1>4, <2>1
<1>6. spent' \in [{"faults", "others", "refused", "redos"} -> Nat]
  <2>1. spent' = [spent EXCEPT !["redos"] = spent["redos"] + 1]
    BY <1>1
  <2>2. spent["redos"] + 1 \in Nat
    BY <1>4
  <2> QED
    BY <1>4, <2>1, <2>2
<1> QED
  BY <1>1, <1>2, <1>3, <1>5, <1>6, EditingType, TypeParts DEF TypeInv

LEMMA ResolveType ==
  ASSUME TypeInv, NEW i \in DOMAIN changes, NEW mine \in BOOLEAN, ResolveConflict(i, mine)
  PROVE  TypeInv'
<1>1. /\ scope \in Drafts /\ Notify(changes', pending, snap)
      /\ changes' = [changes EXCEPT ![i] = KeepMine(changes[i])] \/ \E ids : changes' = Sans(changes, ids)
      /\ wanted' = wanted \/ \E ts : wanted' = GivenUp(ts)
      /\ token' = [token EXCEPT ![changes[i].target] = changes[i].conflict]
      /\ UNCHANGED <<scope, redo, parked, applying, restoredFor, call, net, server, spent,
                     edits, minted, madeOn>>
  BY DEF ResolveConflict, Editable
<1>2. changes[i] \in Change
  BY ActiveType
<1>3. KeepMine(changes[i]) \in Change
  BY <1>2 DEF KeepMine, Change
<1>4. changes' \in Seq(Change)
  <2>1. [changes EXCEPT ![i] = KeepMine(changes[i])] \in Seq(Change)
    BY <1>3, ActiveType, ExceptSeq
  <2> QED
    BY <1>1, <2>1, ActiveType
<1>5. wanted' \in [Drafts -> [Targets -> Nat]]
  BY <1>1, GivenUpType, TypeParts DEF TypeInv
<1>6. token' \in [Targets -> Nat]
  <2>1. token \in [Targets -> Nat] /\ changes[i].target \in Targets /\ changes[i].conflict \in Nat
    BY <1>2, TypeParts DEF TypeInv, Change
  <2> QED
    BY <1>1, <2>1
<1> QED
  BY <1>1, <1>4, <1>5, <1>6, EditingType, TypeParts DEF TypeInv

-----------------------------------------------------------------------------
(* Types: snapshots, drafts, the page                                      *)

LEMMA SpentMore ==
  ASSUME TypeInv, NEW k \in {"faults", "others", "refused", "redos"},
         spent' = [spent EXCEPT ![k] = spent[k] + 1]
  PROVE  spent' \in [{"faults", "others", "refused", "redos"} -> Nat]
<1>1. spent \in [{"faults", "others", "refused", "redos"} -> Nat]
  BY TypeParts DEF TypeInv
<1>2. spent[k] + 1 \in Nat
  BY <1>1
<1> QED
  BY <1>1, <1>2

LEMMA SnapshotType ==
  ASSUME TypeInv, scope \in Drafts
  PROVE  Snapshot \in SnapRec /\ [snap EXCEPT ![scope] = Snapshot] \in Snaps
<1>1. changes \in Seq(Change) /\ pending[scope] \in PendingSave /\ snap \in Snaps
  BY ActiveType DEF Saves, Scopes
<1>2. Snapshot \in SnapRec
  BY <1>1 DEF Snapshot, SnapRec
<1> QED
  BY <1>1, <1>2 DEF Snaps

LEMMA WriteSnapshotType ==
  ASSUME TypeInv, WriteSnapshot
  PROVE  TypeInv'
<1>1. snap' \in Snaps /\ due' \in BOOLEAN
  BY SnapshotType DEF WriteSnapshot
<1>2. UNCHANGED <<scope, changes, redo, parked, applying, token, pending, restoredFor, call, net,
                  open, doc, commits, refusals, spent, edits, minted, wanted, madeOn>>
  BY DEF WriteSnapshot, server, history
<1>3. TypeOK'
  BY <1>1, <1>2, TypeParts, TypePartsNext DEF TypeInv, Snaps
<1> QED
  BY <1>2, <1>3 DEF TypeInv

LEMMA LoadedType ==
  ASSUME TypeInv, NEW s \in Scopes
  PROVE  Parked \in [Scopes -> Slice] /\ Loaded(s) \in Slice
<1>1. parked \in [Scopes -> Slice] /\ changes \in Seq(Change) /\ redo \in Seq(Change) /\ snap \in Snaps
  BY TypeParts DEF TypeInv, Snaps
<1>2. Parked \in [Scopes -> Slice]
  <2>1. [changes |-> changes, redo |-> redo] \in Slice
    BY <1>1 DEF Slice
  <2> QED
    BY <1>1, <2>1 DEF Parked
<1>3. Restores(s) => [changes |-> snap[s].changes, redo |-> <<>>] \in Slice
  <2>1. Restores(s) => snap[s].changes \in Seq(Change)
    BY <1>1 DEF Restores, Snaps, SnapRec
  <2> QED
    BY <2>1, EmptySeq DEF Slice
<1> QED
  BY <1>2, <1>3 DEF Loaded

LEMMA ActivateType ==
  ASSUME TypeInv, NEW s \in Scopes, Activate(s)
  PROVE  TypeInv'
<1>1. UNCHANGED <<snap, call, net, open, doc, commits, refusals, spent, edits, minted, wanted, madeOn>>
  BY DEF Activate, server, history
<1>2. scope' \in Scopes /\ applying' \in BOOLEAN /\ due' \in BOOLEAN
  BY DEF Activate
<1>3. changes' \in Seq(Change) /\ redo' \in Seq(Change)
  <2>1. changes' = Loaded(s).changes /\ redo' = Loaded(s).redo
    BY DEF Activate
  <2> QED
    BY <2>1, LoadedType DEF Slice
<1>4. parked' \in [Scopes -> Slice]
  <2>1. parked' = [Parked EXCEPT ![s] = EmptySlice]
    BY DEF Activate
  <2> QED
    BY <2>1, LoadedType, BaseTypes
<1>5. pending' \in Saves
  <2>1. pending \in Saves /\ snap \in Snaps
    BY ActiveType
  <2>2. Restores(s) => snap[s].save \in PendingSave
    BY <2>1 DEF Restores, Snaps, SnapRec
  <2> QED
    BY <2>1, <2>2 DEF Activate, Saves
<1>6. restoredFor' \in Drafts \cup {NoDraft}
  BY TypeParts DEF TypeInv, Activate, RestoredFor
<1>7. token' \in [Targets -> Nat]
  <2>1. doc \in [Drafts -> [Targets -> Entity]]
    BY TypeParts DEF TypeInv
  <2>2. \A d \in Drafts, t \in Targets : doc[d][t].ver \in Nat
    BY <2>1 DEF Entity
  <2> QED
    BY <2>2 DEF Activate
<1>8. TypeOK'
  BY <1>1, <1>2, <1>3, <1>4, <1>5, <1>6, <1>7, TypeParts, TypePartsNext DEF TypeInv, Saves
<1> QED
  BY <1>1, <1>8 DEF TypeInv

LEMMA ReloadType ==
  ASSUME TypeInv, Reload
  PROVE  TypeInv'
<1>1. UNCHANGED <<open, doc, commits, refusals, edits, minted, wanted, madeOn>>
  BY DEF Reload, server, history
<1>2. /\ scope' \in Scopes /\ applying' \in BOOLEAN /\ due' \in BOOLEAN /\ changes' \in Seq(Change)
      /\ redo' \in Seq(Change) /\ restoredFor' \in Drafts \cup {NoDraft}
      /\ token' \in [Targets -> Nat]
  BY EmptySeq DEF Reload, Scopes
<1>3. parked' \in [Scopes -> Slice] /\ pending' \in Saves
  BY BaseTypes DEF Reload, Saves
<1>4. snap' \in Snaps
  BY SnapshotType, ActiveType DEF Reload
<1>5. call' \in CallRec /\ call'.phase = "none"
  BY BaseTypes DEF Reload, NoCall
<1>6. spent' \in [{"faults", "others", "refused", "redos"} -> Nat]
  <2>1. spent' = [spent EXCEPT !["faults"] = spent["faults"] + 1]
    BY DEF Reload
  <2> QED
    BY <2>1, SpentMore
<1>7. net' \subseteq RequestRec /\ IsFiniteSet(net')
  <2> DEFINE f == [m \in net |-> [m EXCEPT !.live = FALSE]]
  <2>1. net \subseteq RequestRec /\ IsFiniteSet(net)
    BY TypeParts DEF TypeInv
  <2>2. net' = {f[m] : m \in net}
    BY DEF Reload
  <2>3. \A m \in net : f[m] \in RequestRec
    BY <2>1 DEF RequestRec
  <2> HIDE DEF f
  <2> QED
    BY <2>1, <2>2, <2>3, ImageFinite
<1>8. TypeOK'
  BY <1>1, <1>2, <1>3, <1>4, <1>5, <1>6, <1>7, TypeParts, TypePartsNext DEF TypeInv, Saves, Snaps
<1> QED
  BY <1>1, <1>5, <1>7, <1>8 DEF TypeInv

-----------------------------------------------------------------------------
(* Types: the save                                                         *)

\* What a settled save carried, which of it was edited since, the batch on top of it, and what of
\* the batch is left to send.
CarriedIn == Ids(call.save.sent)
EditedIn == EditedSince(call.batch, call.save.sent)
OnTop(c) == IF c.id \in EditedIn THEN Rebase(c, call.answer.versions) ELSE c
RebasedSeq(cs) == [i \in DOMAIN cs |-> OnTop(cs[i])]
Outgoing(c) == Resolve(OnTop(c), Created(call.save.body.ops))
OutgoingSeq(cs) == [i \in DOMAIN cs |-> Outgoing(cs[i])]
LeftIn == {i \in DOMAIN call.batch : call.batch[i].id \in EditedIn \/ call.batch[i].id \notin CarriedIn}
Rest == Kept(OutgoingSeq(call.batch), LeftIn)

\* What a failed save leaves, and the conflict put on it.
SettledOnly == call.settled.carried \ call.settled.edited
ConflictOn(c) ==
  IF /\ call.answer.is = "conflict" /\ c.kind = "update"
     /\ c.target \notin LayoutOnly /\ c.id \in Ids(call.save.sent)
     /\ c.base # call.answer.versions[c.target]
  THEN [c EXCEPT !.conflict = call.answer.versions[c.target]] ELSE c
MarkedSeq(cs) == [i \in DOMAIN cs |-> ConflictOn(cs[i])]

LEMMA SettleAppliedEffect ==
  ASSUME SettleApplied
  PROVE  LET d == call.scope
             saves == [pending EXCEPT ![d] = NoSave]
         IN  /\ call.phase = "settle" /\ call.answer.is = "ok"
             /\ UNCHANGED <<scope, parked, restoredFor, server, spent, history>>
             /\ \/ /\ Ops(Rest) = <<>>
                   /\ Done(Cleared(Ids(call.batch)), saves, snap) /\ redo' = <<>>
                   /\ Reconcile(d, call.batch, call.answer.versions)
                \/ /\ Ops(Rest) # <<>>
                   /\ changes' = RebasedSeq(changes)
                   /\ due' = (due \/ (changes' # changes /\ scope \in Drafts))
                   /\ Send(Rest, call.batch, d, saves,
                           [carried |-> CarriedIn, edited |-> EditedIn,
                            versions |-> call.answer.versions])
                   /\ UNCHANGED <<redo, token, applying>>
BY DEF SettleApplied, Answered, Rest, RebasedSeq, OutgoingSeq, Outgoing, OnTop, LeftIn,
       EditedIn, CarriedIn, Map

LEMMA SendFailedEffect ==
  ASSUME SendFailed
  PROVE  LET saves == IF call.answer.is = "lost" THEN pending
                      ELSE [pending EXCEPT ![call.scope] = NoSave]
         IN  /\ call.phase = "send" /\ call.answer.is \in {"refused", "conflict", "lost"}
             /\ UNCHANGED <<scope, parked, restoredFor, server, spent, history>>
             /\ Done(MarkedSeq(Cleared(SettledOnly)), saves, snap)
             /\ \/ call.settled = NotSettled /\ UNCHANGED <<redo, token>>
                \/ /\ call.settled # NotSettled /\ redo' = <<>>
                   /\ Reconcile(call.scope,
                                Kept(call.batch,
                                     {i \in DOMAIN call.batch : call.batch[i].id \in SettledOnly}),
                                call.settled.versions)
BY DEF SendFailed, Answered, MarkedSeq, ConflictOn, SettledOnly, Map

LEMMA RebasedType ==
  ASSUME TypeInv, NEW cs \in Seq(Change)
  PROVE  /\ RebasedSeq(cs) \in Seq(Change) /\ DOMAIN RebasedSeq(cs) = DOMAIN cs
         /\ OutgoingSeq(cs) \in Seq(Change) /\ DOMAIN OutgoingSeq(cs) = DOMAIN cs
<1>1. call.answer.versions \in [Targets -> Nat]
  BY CallParts
<1>2. DOMAIN cs = 1 .. Len(cs) /\ Len(cs) \in Nat /\ \A i \in DOMAIN cs : cs[i] \in Change
  BY SeqParts
<1>3. ASSUME NEW c \in Change PROVE OnTop(c) \in Change /\ Outgoing(c) \in Change
  <2>1. OnTop(c) \in Change
    BY <1>1 DEF OnTop, Rebase, Change, Naming
  <2>2. ASSUME NEW x \in Change, NEW ts PROVE Resolve(x, ts) \in Change
    BY DEF Resolve, Change, Naming
  <2> QED
    BY <2>1, <2>2 DEF Outgoing
<1>4. \A i \in 1 .. Len(cs) : OnTop(cs[i]) \in Change /\ Outgoing(cs[i]) \in Change
  BY <1>2, <1>3
<1>5. RebasedSeq(cs) \in [1 .. Len(cs) -> Change] /\ OutgoingSeq(cs) \in [1 .. Len(cs) -> Change]
  BY <1>2, <1>4 DEF RebasedSeq, OutgoingSeq
<1> QED
  BY <1>2, <1>5

LEMMA MarkedType ==
  ASSUME TypeInv, NEW cs \in Seq(Change)
  PROVE  MarkedSeq(cs) \in Seq(Change) /\ DOMAIN MarkedSeq(cs) = DOMAIN cs
<1>1. call.answer.versions \in [Targets -> Nat]
  BY CallParts
<1>2. DOMAIN cs = 1 .. Len(cs) /\ Len(cs) \in Nat /\ \A i \in DOMAIN cs : cs[i] \in Change
  BY SeqParts
<1>3. ASSUME NEW c \in Change PROVE ConflictOn(c) \in Change
  BY <1>1 DEF ConflictOn, Change
<1>4. \A i \in 1 .. Len(cs) : ConflictOn(cs[i]) \in Change
  BY <1>2, <1>3
<1>5. MarkedSeq(cs) \in [1 .. Len(cs) -> Change]
  BY <1>2, <1>4 DEF MarkedSeq
<1> QED
  BY <1>2, <1>5

LEMMA RestType ==
  ASSUME TypeInv
  PROVE  Rest \in Seq(Change) /\ Keeps(Rest, OutgoingSeq(call.batch), LeftIn)
         /\ LeftIn \in SUBSET (DOMAIN call.batch) /\ DOMAIN OutgoingSeq(call.batch) = DOMAIN call.batch
<1>1. call.batch \in Seq(Change)
  BY CallParts
<1>2. OutgoingSeq(call.batch) \in Seq(Change) /\ DOMAIN OutgoingSeq(call.batch) = DOMAIN call.batch
  BY <1>1, RebasedType
<1>3. LeftIn \in SUBSET (DOMAIN call.batch)
  BY DEF LeftIn
<1>4. LeftIn \in SUBSET (DOMAIN OutgoingSeq(call.batch))
  BY <1>2, <1>3
<1> QED
  BY <1>2, <1>3, <1>4, KeptFacts DEF Rest

LEMMA IdsType ==
  ASSUME NEW cs \in Seq(Change)
  PROVE  Ids(cs) \subseteq Nat
<1>1. \A i \in DOMAIN cs : cs[i] \in Change
  BY SeqParts
<1>2. \A i \in DOMAIN cs : cs[i].id \in Nat
  BY <1>1 DEF Change
<1> QED
  BY <1>2 DEF Ids

\* A save's steps: what is left to show is what they do to the page and the network.
LEMMA SavingType ==
  ASSUME TypeInv, changes' \in Seq(Change), redo' \in Seq(Change), token' \in [Targets -> Nat],
         pending' \in Saves, snap' \in Snaps, due' \in BOOLEAN, applying' \in BOOLEAN,
         call' \in CallRec, call'.phase # "none" => call'.scope \in Drafts,
         net' \subseteq RequestRec, IsFiniteSet(net'),
         UNCHANGED <<scope, parked, restoredFor, server, spent, history>>
  PROVE  TypeInv'
<1>1. UNCHANGED <<scope, parked, restoredFor, open, doc, commits, refusals, spent, edits, minted,
                  wanted, madeOn>>
  BY DEF server, history
<1>2. TypeOK'
  BY <1>1, TypeParts, TypePartsNext DEF TypeInv, Saves, Snaps
<1> QED
  BY <1>1, <1>2 DEF TypeInv

LEMMA SaveType ==
  ASSUME TypeInv, Save
  PROVE  TypeInv'
<1>1. /\ scope \in Drafts /\ UNCHANGED <<scope, parked, token, restoredFor, server, spent, history>>
  BY DEF Save, Editable
<1>2. /\ changes \in Seq(Change) /\ redo \in Seq(Change) /\ pending \in Saves /\ snap \in Snaps
      /\ due \in BOOLEAN /\ net \subseteq RequestRec /\ IsFiniteSet(net) /\ token \in [Targets -> Nat]
      /\ applying \in BOOLEAN /\ call \in CallRec /\ (call.phase # "none" => call.scope \in Drafts)
  BY TypeParts DEF TypeInv, Saves, Snaps
<1>3. CASE Ops(changes) = <<>>
  <2>1. /\ changes' = <<>> /\ redo' = <<>> /\ Notify(<<>>, pending, snap)
        /\ UNCHANGED <<applying, net, call>>
    BY <1>3 DEF Save
  <2>2. pending' \in Saves /\ snap' \in Snaps /\ due' \in BOOLEAN
    BY <2>1, <1>2, NotifyType
  <2> QED
    BY <1>1, <1>2, <2>1, <2>2, EmptySeq, SavingType
<1>4. CASE Ops(changes) # <<>> /\ MustSettle(pending[scope], changes)
  <2>1. /\ applying' = TRUE /\ net' = net \cup {Request(pending[scope], scope)}
        /\ call' = [NoCall EXCEPT !.phase = "settle", !.scope = scope, !.batch = changes,
                                           !.save = pending[scope]]
        /\ UNCHANGED <<pending, snap, changes, redo, due>>
    BY <1>4 DEF Save
  <2>2. pending[scope] \in PendingSave
    BY <1>1, <1>2 DEF Saves, Scopes
  <2>3. net' \subseteq RequestRec /\ IsFiniteSet(net')
    BY <1>1, <1>2, <2>1, <2>2, RequestType, FS_AddElement
  <2>4. call' \in CallRec /\ call'.scope \in Drafts
    BY <1>1, <1>2, <2>1, <2>2, BaseTypes DEF CallRec, NoCall, Scopes
  <2>5. pending' = pending /\ snap' = snap /\ changes' = changes /\ redo' = redo /\ due' = due
        /\ applying' \in BOOLEAN /\ token' = token
    BY <1>1, <2>1
  <2> QED
    BY <1>1, <1>2, <2>3, <2>4, <2>5, SavingType
<1>5. CASE Ops(changes) # <<>> /\ ~MustSettle(pending[scope], changes)
  <2>1. applying' = TRUE /\ Send(changes, changes, scope, pending, NotSettled)
        /\ UNCHANGED <<changes, redo, due>>
    BY <1>5 DEF Save
  <2>2. /\ pending' \in Saves /\ snap' \in Snaps /\ net' \subseteq RequestRec /\ IsFiniteSet(net')
        /\ call' \in CallRec /\ call'.scope \in Drafts
    BY <1>1, <1>2, <2>1, SendType, BaseTypes
  <2> QED
    BY <1>1, <1>2, <2>1, <2>2, SavingType
<1> QED
  BY <1>3, <1>4, <1>5

LEMMA WithoutPending ==
  ASSUME TypeInv
  PROVE  [pending EXCEPT ![call.scope] = NoSave] \in Saves
<1>1. pending \in Saves /\ NoSave \in PendingSave
  BY ActiveType, BaseTypes
<1> QED
  BY <1>1 DEF Saves

LEMMA ContinueType ==
  ASSUME TypeInv, Continue
  PROVE  TypeInv'
<1>1. /\ changes \in Seq(Change) /\ redo \in Seq(Change) /\ pending \in Saves /\ snap \in Snaps
      /\ due \in BOOLEAN /\ net \subseteq RequestRec /\ IsFiniteSet(net) /\ token \in [Targets -> Nat]
      /\ applying \in BOOLEAN /\ \A ids : Sans(changes, ids) \in Seq(Change)
      /\ [pending EXCEPT ![call.scope] = NoSave] \in Saves
  BY TypeParts, ActiveType, WithoutPending DEF TypeInv
<1>2. CASE SettleLost
  <2>1. /\ Done(changes, pending, snap)
        /\ UNCHANGED <<scope, redo, parked, token, restoredFor, server, spent, history>>
    BY <1>2 DEF SettleLost
  <2> QED
    BY <1>1, <2>1, DoneType, SavingType
<1>3. CASE SettleRefused
  <2>1. /\ Send(call.batch, call.batch, call.scope, [pending EXCEPT ![call.scope] = NoSave], NotSettled)
        /\ UNCHANGED <<scope, changes, redo, parked, applying, token, due, restoredFor, server, spent,
                       history>>
        /\ call.phase = "settle"
    BY <1>3 DEF SettleRefused, Answered
  <2>2. call.batch \in Seq(Change) /\ call.scope \in Drafts
    BY <2>1, CallParts
  <2>3. /\ pending' \in Saves /\ snap' \in Snaps /\ net' \subseteq RequestRec /\ IsFiniteSet(net')
        /\ call' \in CallRec /\ call'.scope \in Drafts
    BY <1>1, <2>1, <2>2, SendType, BaseTypes
  <2> QED
    BY <1>1, <2>1, <2>3, SavingType
<1>4. CASE SettleApplied
  <2> DEFINE saves == [pending EXCEPT ![call.scope] = NoSave]
             settled == [carried |-> CarriedIn, edited |-> EditedIn, versions |-> call.answer.versions]
  <2>1. /\ call.phase = "settle" /\ UNCHANGED <<scope, parked, restoredFor, server, spent, history>>
        /\ \/ /\ Done(Cleared(Ids(call.batch)), saves, snap) /\ redo' = <<>>
              /\ Reconcile(call.scope, call.batch, call.answer.versions)
           \/ /\ changes' = RebasedSeq(changes)
              /\ due' = (due \/ (changes' # changes /\ scope \in Drafts))
              /\ Send(Rest, call.batch, call.scope, saves, settled)
              /\ UNCHANGED <<redo, token, applying>>
    BY <1>4, SettleAppliedEffect
  <2>2. CASE /\ Done(Cleared(Ids(call.batch)), saves, snap) /\ redo' = <<>>
             /\ Reconcile(call.scope, call.batch, call.answer.versions)
    <3>1. Cleared(Ids(call.batch)) \in Seq(Change)
      BY <1>1 DEF Cleared
    <3>2. token' \in [Targets -> Nat]
      BY <2>2, CallParts, ReconcileType
    <3> HIDE DEF saves
    <3>3. saves \in Saves
      BY <1>1 DEF saves
    <3> QED
      BY <1>1, <2>1, <2>2, <3>1, <3>2, <3>3, DoneType, SavingType, EmptySeq
  <2>3. CASE /\ changes' = RebasedSeq(changes)
             /\ due' = (due \/ (changes' # changes /\ scope \in Drafts))
             /\ Send(Rest, call.batch, call.scope, saves, settled)
             /\ UNCHANGED <<redo, token, applying>>
    <3>1. settled \in Settled
      <4>1. CarriedIn \subseteq Nat
        BY CallParts, IdsType DEF CarriedIn
      <4>2. EditedIn \subseteq Nat
        <5>1. EditedIn \subseteq Ids(call.batch)
          BY DEF EditedIn, EditedSince, Ids
        <5> QED
          BY <5>1, CallParts, IdsType
      <4> QED
        BY <4>1, <4>2, CallParts DEF Settled
    <3>2. Rest \in Seq(Change) /\ call.batch \in Seq(Change) /\ call.scope \in Drafts
      BY <2>1, RestType, CallParts
    <3>3. changes' \in Seq(Change) /\ due' \in BOOLEAN
      BY <1>1, <2>3, RebasedType
    <3> HIDE DEF saves, settled
    <3>4. saves \in Saves
      BY <1>1 DEF saves
    <3>5. /\ pending' \in Saves /\ snap' \in Snaps /\ net' \subseteq RequestRec /\ IsFiniteSet(net')
          /\ call' \in CallRec /\ call'.scope \in Drafts
      BY <2>3, <3>1, <3>2, <3>4, SendType
    <3> QED
      BY <1>1, <2>1, <2>3, <3>3, <3>5, SavingType
  <2> QED
    BY <2>1, <2>2, <2>3
<1>5. CASE SendApplied
  <2>1. /\ Done(Cleared(Ids(call.batch)), [pending EXCEPT ![call.scope] = NoSave], snap) /\ redo' = <<>>
        /\ Reconcile(call.scope, call.batch, call.answer.versions)
        /\ UNCHANGED <<scope, parked, restoredFor, server, spent, history>>
    BY <1>5 DEF SendApplied
  <2>2. Cleared(Ids(call.batch)) \in Seq(Change)
    BY <1>1 DEF Cleared
  <2>3. token' \in [Targets -> Nat]
    BY <2>1, CallParts, ReconcileType
  <2> QED
    BY <1>1, <2>1, <2>2, <2>3, DoneType, SavingType, EmptySeq
<1>6. CASE SendFailed
  <2> DEFINE saves == IF call.answer.is = "lost" THEN pending ELSE [pending EXCEPT ![call.scope] = NoSave]
  <2>1. /\ UNCHANGED <<scope, parked, restoredFor, server, spent, history>>
        /\ Done(MarkedSeq(Cleared(SettledOnly)), saves, snap)
        /\ \/ UNCHANGED <<redo, token>>
           \/ redo' = <<>> /\ \E cs : Reconcile(call.scope, cs, call.settled.versions)
    BY <1>6, SendFailedEffect
  <2>2. MarkedSeq(Cleared(SettledOnly)) \in Seq(Change)
    BY <1>1, MarkedType DEF Cleared
  <2>3. token' \in [Targets -> Nat] /\ redo' \in Seq(Change)
    BY <1>1, <2>1, CallParts, ReconcileType, EmptySeq
  <2>4. saves \in Saves
    BY <1>1
  <2> HIDE DEF saves
  <2> QED
    BY <1>1, <2>1, <2>2, <2>3, <2>4, DoneType, SavingType
<1> QED
  BY <1>2, <1>3, <1>4, <1>5, <1>6 DEF Continue

-----------------------------------------------------------------------------
(* Types: the server                                                       *)

\* What a request leaves on the server: the entities its ops write.
LEMMA AfterType ==
  ASSUME TypeInv, NEW d \in Drafts, NEW ops \in Seq(Op)
  PROVE  After(d, ops) \in [Targets -> Entity]
<1>1. \A i \in DOMAIN ops : ops[i] \in Op
  BY SeqParts
<1>2. ASSUME NEW t \in Targets, t \in Written(ops)
      PROVE  Written1(doc[d][t], ops[CHOOSE i \in DOMAIN ops : ops[i].target = t]) \in Entity
  <2> DEFINE j == CHOOSE i \in DOMAIN ops : ops[i].target = t
  <2>1. j \in DOMAIN ops
    BY <1>2 DEF Written
  <2>2. ops[j] \in Op
    BY <1>1, <2>1
  <2> HIDE DEF j
  <2>3. doc[d][t] \in Entity
    BY TypeParts DEF TypeInv
  <2>4. ops[j].after \in Nat
    BY <2>2 DEF Op
  <2>5. Written1(doc[d][t], ops[j]) \in Entity
    BY <2>3, <2>4 DEF Written1, Entity
  <2> QED
    BY <2>5 DEF j
<1>3. \A t \in Targets : doc[d][t] \in Entity
  BY TypeParts DEF TypeInv
<1> QED
  BY <1>2, <1>3 DEF After

LEMMA LessNet ==
  ASSUME TypeInv, NEW m
  PROVE  net \ {m} \subseteq RequestRec /\ IsFiniteSet(net \ {m})
BY TypeParts, FS_RemoveElement DEF TypeInv

LEMMA CallAnswered ==
  ASSUME call \in CallRec, NEW a \in AnswerRec, call' = [call EXCEPT !.answer = a]
  PROVE  call' \in CallRec /\ call'.phase = call.phase /\ call'.scope = call.scope
BY DEF CallRec

LEMMA AnswerType ==
  ASSUME TypeInv, NEW m \in net, NEW is \in {"ok", "refused", "conflict"},
         NEW entities \in [Targets -> Entity], Answer(m, is, entities)
  PROVE  /\ net' \subseteq RequestRec /\ IsFiniteSet(net') /\ call' \in CallRec
         /\ call'.phase = call.phase /\ call'.scope = call.scope
         /\ spent' \in [{"faults", "others", "refused", "redos"} -> Nat]
<1>1. /\ call \in CallRec /\ spent \in [{"faults", "others", "refused", "redos"} -> Nat]
      /\ NoAnswer \in AnswerRec
  BY TypeParts, BaseTypes DEF TypeInv
<1>2. net' = net \ {m}
  BY DEF Answer
<1> DEFINE given == [is |-> is, versions |-> [t \in Targets |-> entities[t].ver]]
<1>3. given \in AnswerRec
  <2>1. \A t \in Targets : entities[t].ver \in Nat
    BY DEF Entity
  <2> QED
    BY <2>1 DEF AnswerRec
<1>4. [NoAnswer EXCEPT !.is = "lost"] \in AnswerRec
  BY <1>1 DEF AnswerRec
<1>6. \/ call' = call /\ spent' = spent
      \/ call' = [call EXCEPT !.answer = given] /\ spent' = spent
      \/ /\ call' = [call EXCEPT !.answer = [NoAnswer EXCEPT !.is = "lost"]]
         /\ spent' = [spent EXCEPT !["faults"] = spent["faults"] + 1]
  BY DEF Answer
<1> HIDE DEF given
<1>7. call' \in CallRec /\ call'.phase = call.phase /\ call'.scope = call.scope
  <2>1. CASE call' = call
    BY <2>1, <1>1
  <2>2. CASE call' = [call EXCEPT !.answer = given]
    BY <2>2, <1>1, <1>3, CallAnswered
  <2>3. CASE call' = [call EXCEPT !.answer = [NoAnswer EXCEPT !.is = "lost"]]
    BY <2>3, <1>1, <1>4, CallAnswered
  <2> QED
    BY <1>6, <2>1, <2>2, <2>3
<1>8. spent' \in [{"faults", "others", "refused", "redos"} -> Nat]
  BY <1>1, <1>6, SpentMore
<1> QED
  BY <1>2, <1>7, <1>8, LessNet

\* The server's steps: what is left to show is what they do to the call and the server's state.
LEMMA ServingType ==
  ASSUME TypeInv, net' \subseteq RequestRec, IsFiniteSet(net'), call' \in CallRec,
         call'.phase # "none" => call'.scope \in Drafts,
         spent' \in [{"faults", "others", "refused", "redos"} -> Nat],
         open' \subseteq Drafts, doc' \in [Drafts -> [Targets -> Entity]],
         commits' \in [Drafts -> SUBSET Commit], refusals' \subseteq Nat,
         IsFiniteSet(refusals'), \A d \in Drafts : IsFiniteSet(commits'[d]),
         UNCHANGED <<scope, changes, redo, parked, applying, token, pending, due,
                               restoredFor, snap, history>>
  PROVE  TypeInv'
<1>1. UNCHANGED <<scope, changes, redo, parked, applying, token, pending, due, restoredFor, snap,
                  edits, minted, wanted, madeOn>>
  BY DEF history
<1>2. TypeOK'
  BY <1>1, TypeParts, TypePartsNext DEF TypeInv
<1> QED
  BY <1>1, <1>2 DEF TypeInv

LEMMA RespondType ==
  ASSUME TypeInv, NEW m \in net, Respond(m)
  PROVE  TypeInv'
<1>1. /\ m \in RequestRec /\ m.draft \in Drafts /\ m.ops \in Seq(Op) /\ m.key \in Nat
      /\ call \in CallRec /\ (call.phase # "none" => call.scope \in Drafts)
      /\ spent \in [{"faults", "others", "refused", "redos"} -> Nat]
      /\ open \subseteq Drafts /\ doc \in [Drafts -> [Targets -> Entity]]
      /\ commits \in [Drafts -> SUBSET Commit] /\ refusals \subseteq Nat
      /\ IsFiniteSet(refusals) /\ \A d \in Drafts : IsFiniteSet(commits[d])
  BY TypeParts DEF TypeInv, RequestRec
<1>2. UNCHANGED <<scope, changes, redo, parked, applying, token, pending, due,
                               restoredFor, snap, history>>
  BY DEF Respond, Replay, Apply, Refuse, Violate, Drop, ServerUnchanged
<1>3. doc[m.draft] \in [Targets -> Entity]
  BY <1>1
<1>4. ASSUME NEW is \in {"lost", "refused"},
             call' = call \/ call' = [call EXCEPT !.answer = [NoAnswer EXCEPT !.is = is]]
      PROVE  call' \in CallRec /\ (call'.phase # "none" => call'.scope \in Drafts)
  <2>1. [NoAnswer EXCEPT !.is = is] \in AnswerRec
    BY BaseTypes DEF AnswerRec
  <2>2. CASE call' = call
    BY <1>1, <2>2
  <2>3. CASE call' = [call EXCEPT !.answer = [NoAnswer EXCEPT !.is = is]]
    <3>1. call' \in CallRec /\ call'.phase = call.phase /\ call'.scope = call.scope
      BY <1>1, <2>1, <2>3, CallAnswered
    <3> QED
      BY <1>1, <3>1
  <2> QED
    BY <1>4, <2>2, <2>3
<1>5. CASE Replay(m) \/ Refuse(m)
  <2>1. /\ \E is \in {"ok", "refused", "conflict"} : Answer(m, is, doc[m.draft])
        /\ UNCHANGED <<open, doc, commits, refusals>>
    BY <1>5 DEF Replay, Refuse, server
  <2>2. PICK is \in {"ok", "refused", "conflict"} : Answer(m, is, doc[m.draft])
    BY <2>1
  <2>3. /\ net' \subseteq RequestRec /\ IsFiniteSet(net') /\ call' \in CallRec
        /\ call'.phase = call.phase /\ call'.scope = call.scope
        /\ spent' \in [{"faults", "others", "refused", "redos"} -> Nat]
    BY <1>3, <2>2, AnswerType
  <2>4. call'.phase # "none" => call'.scope \in Drafts
    BY <1>1, <2>3
  <2>5. open' = open /\ doc' = doc /\ commits' = commits /\ refusals' = refusals
    BY <2>1
  <2> QED
    BY <1>1, <1>2, <2>3, <2>4, <2>5, ServingType
<1>6. CASE Apply(m)
  <2>1. /\ doc' = [doc EXCEPT ![m.draft] = After(m.draft, m.ops)]
        /\ commits' = [commits EXCEPT ![m.draft] = commits[m.draft] \cup {[key |-> m.key, ops |-> m.ops]}]
        /\ Answer(m, "ok", After(m.draft, m.ops)) /\ UNCHANGED <<open, refusals>>
    BY <1>6 DEF Apply
  <2>2. After(m.draft, m.ops) \in [Targets -> Entity]
    BY <1>1, AfterType
  <2>3. /\ net' \subseteq RequestRec /\ IsFiniteSet(net') /\ call' \in CallRec
        /\ call'.phase = call.phase /\ call'.scope = call.scope
        /\ spent' \in [{"faults", "others", "refused", "redos"} -> Nat]
    BY <2>1, <2>2, AnswerType
  <2>4. doc' \in [Drafts -> [Targets -> Entity]]
    BY <1>1, <2>1, <2>2
  <2> DEFINE C == commits[m.draft] \cup {[key |-> m.key, ops |-> m.ops]}
  <2>5. C \in SUBSET Commit /\ IsFiniteSet(C)
    <3>1. [key |-> m.key, ops |-> m.ops] \in Commit
      BY <1>1 DEF Commit
    <3>2. IsFiniteSet(commits[m.draft]) /\ commits[m.draft] \in SUBSET Commit
      BY <1>1
    <3>3. IsFiniteSet(C)
      <4> DEFINE K == commits[m.draft]
      <4> HIDE DEF K
      <4>1. IsFiniteSet(K)
        BY <3>2 DEF K
      <4>2. IsFiniteSet(K \cup {[key |-> m.key, ops |-> m.ops]})
        BY <4>1, FS_AddElement
      <4> QED
        BY <4>2 DEF K
    <3> QED
      BY <3>1, <3>2, <3>3
  <2> HIDE DEF C
  <2>6. commits' = [commits EXCEPT ![m.draft] = C]
    BY <2>1 DEF C
  <2>7. commits' \in [Drafts -> SUBSET Commit] /\ \A d \in Drafts : IsFiniteSet(commits'[d])
    BY <1>1, <2>5, <2>6
  <2>8. call'.phase # "none" => call'.scope \in Drafts
    BY <1>1, <2>3
  <2>9. open' = open /\ refusals' = refusals
    BY <2>1
  <2> QED
    BY <1>1, <1>2, <2>3, <2>4, <2>7, <2>8, <2>9, ServingType
<1>7. CASE Violate(m)
  <2>1. /\ refusals' = refusals \cup {m.key} /\ net' = net \ {m} /\ UNCHANGED <<open, doc, commits>>
        /\ spent' = [spent EXCEPT !["refused"] = spent["refused"] + 1]
        /\ call' = call \/ call' = [call EXCEPT !.answer = [NoAnswer EXCEPT !.is = "refused"]]
    BY <1>7 DEF Violate
  <2>2. refusals' \subseteq Nat /\ IsFiniteSet(refusals')
    BY <1>1, <2>1, FS_AddElement
  <2>3. call' \in CallRec /\ (call'.phase # "none" => call'.scope \in Drafts)
    BY <1>4, <2>1
  <2>4. /\ net' \subseteq RequestRec /\ IsFiniteSet(net')
        /\ spent' \in [{"faults", "others", "refused", "redos"} -> Nat]
    BY <2>1, LessNet, SpentMore
  <2>5. open' = open /\ doc' = doc /\ commits' = commits
    BY <2>1
  <2> QED
    BY <1>1, <1>2, <2>2, <2>3, <2>4, <2>5, ServingType
<1>8. CASE Drop(m)
  <2>1. /\ net' = net \ {m} /\ UNCHANGED <<open, doc, commits, refusals>>
        /\ spent' = [spent EXCEPT !["faults"] = spent["faults"] + 1]
        /\ call' = call \/ call' = [call EXCEPT !.answer = [NoAnswer EXCEPT !.is = "lost"]]
    BY <1>8 DEF Drop, server
  <2>2. call' \in CallRec /\ (call'.phase # "none" => call'.scope \in Drafts)
    BY <1>4, <2>1
  <2>3. /\ net' \subseteq RequestRec /\ IsFiniteSet(net')
        /\ spent' \in [{"faults", "others", "refused", "redos"} -> Nat]
    BY <2>1, LessNet, SpentMore
  <2>4. open' = open /\ doc' = doc /\ commits' = commits /\ refusals' = refusals
    BY <2>1
  <2> QED
    BY <1>1, <1>2, <2>2, <2>3, <2>4, ServingType
<1> QED
  BY <1>5, <1>6, <1>7, <1>8 DEF Respond

LEMMA OthersType ==
  ASSUME TypeInv, NEW d \in Drafts, CloseDraft(d) \/ \E t \in Targets : OtherEdit(d, t)
  PROVE  TypeInv'
<1>1. UNCHANGED <<scope, changes, redo, parked, applying, token, pending, due, restoredFor, snap,
                  history, net, call, commits, refusals>>
  BY DEF CloseDraft, OtherEdit, page
<1>2. /\ net \subseteq RequestRec /\ IsFiniteSet(net) /\ call \in CallRec
      /\ call.phase # "none" => call.scope \in Drafts
      /\ open \subseteq Drafts /\ doc \in [Drafts -> [Targets -> Entity]]
      /\ commits \in [Drafts -> SUBSET Commit] /\ refusals \subseteq Nat
      /\ IsFiniteSet(refusals) /\ \A x \in Drafts : IsFiniteSet(commits[x])
  BY TypeParts DEF TypeInv
<1>3. spent' \in [{"faults", "others", "refused", "redos"} -> Nat]
  <2>1. spent' = [spent EXCEPT !["others"] = spent["others"] + 1]
    BY DEF CloseDraft, OtherEdit
  <2> QED
    BY <2>1, SpentMore
<1>4. open' \subseteq Drafts
  BY <1>2 DEF CloseDraft, OtherEdit
<1>5. doc' \in [Drafts -> [Targets -> Entity]]
  <2>1. CASE CloseDraft(d)
    BY <1>2, <2>1 DEF CloseDraft
  <2>2. ASSUME NEW t \in Targets, OtherEdit(d, t) PROVE doc' \in [Drafts -> [Targets -> Entity]]
    <3>1. doc' = [doc EXCEPT ![d][t].ver = @ + 1]
      BY <2>2 DEF OtherEdit
    <3>2. doc[d][t] \in Entity
      BY <1>2
    <3>3. [doc[d][t] EXCEPT !.ver = @ + 1] \in Entity
      BY <3>2 DEF Entity
    <3>4. doc' = [doc EXCEPT ![d] = [doc[d] EXCEPT ![t] = [doc[d][t] EXCEPT !.ver = @ + 1]]]
      BY <3>1
    <3>5. [doc[d] EXCEPT ![t] = [doc[d][t] EXCEPT !.ver = @ + 1]] \in [Targets -> Entity]
      BY <1>2, <3>3
    <3> QED
      BY <1>2, <3>4, <3>5
  <2> QED
    BY <2>1, <2>2
<1> QED
  BY <1>1, <1>2, <1>3, <1>4, <1>5, ServingType

LEMMA TypeInit == Init => TypeInv
<1> SUFFICES ASSUME Init PROVE TypeInv
  OBVIOUS
<1>1. /\ scope \in Scopes /\ restoredFor \in Drafts \cup {NoDraft}
      /\ changes \in Seq(Change) /\ redo \in Seq(Change)
      /\ applying \in BOOLEAN /\ due \in BOOLEAN /\ token \in [Targets -> Nat] /\ net \subseteq RequestRec
      /\ open \subseteq Drafts /\ commits \in [Drafts -> SUBSET Commit]
      /\ refusals \subseteq Nat /\ edits \in Nat /\ minted \subseteq Targets
      /\ wanted \in [Drafts -> [Targets -> Nat]]
  BY EmptySeq DEF Init, Scopes
<1>2. parked \in [Scopes -> Slice] /\ pending \in Saves /\ snap \in Snaps /\ call \in CallRec
  BY BaseTypes DEF Init, Saves, Snaps
<1>3. doc \in [Drafts -> [Targets -> Entity]]
  BY BaseTypes DEF Init
<1>4. spent \in [{"faults", "others", "refused", "redos"} -> Nat]
  BY DEF Init
<1>5. madeOn \in [1 .. MaxEdits -> [draft : Drafts \cup {NoDraft}, target : Targets \cup {NoTarget}]]
  BY DEF Init
<1>6. TypeOK
  BY <1>1, <1>2, <1>3, <1>4, <1>5, TypeParts DEF Saves, Snaps
<1>7. call.phase = "none" /\ net = {} /\ refusals = {} /\ \A d \in Drafts : commits[d] = {}
  BY DEF Init, NoCall
<1> QED
  BY <1>6, <1>7, FS_EmptySet DEF TypeInv

LEMMA TypeUnchanged ==
  ASSUME TypeInv, UNCHANGED vars
  PROVE  TypeInv'
<1>1. UNCHANGED <<scope, changes, redo, parked, applying, token, pending, due, restoredFor, call,
                  snap, net, open, doc, commits, refusals, spent, edits, minted, wanted, madeOn>>
  BY DEF vars, page, server, history
<1>2. TypeOK'
  BY <1>1, TypeParts, TypePartsNext DEF TypeInv
<1> QED
  BY <1>1, <1>2 DEF TypeInv

LEMMA TypeStep == TypeInv /\ [Next]_vars => TypeInv'
<1> SUFFICES ASSUME TypeInv, [Next]_vars PROVE TypeInv'
  OBVIOUS
<1>1. ASSUME NEW t \in Targets, Edit(t) PROVE TypeInv'
  BY <1>1, EditType
<1>2. ASSUME NEW i \in DOMAIN changes, Discard(i) \/ \E mine \in BOOLEAN : ResolveConflict(i, mine)
      PROVE  TypeInv'
  BY <1>2, DiscardType, ResolveType
<1>3. ASSUME DiscardAll \/ Undo \/ Redo PROVE TypeInv'
  BY <1>3, DiscardAllType, UndoType, RedoType
<1>4. ASSUME WriteSnapshot \/ Reload PROVE TypeInv'
  BY <1>4, WriteSnapshotType, ReloadType
<1>5. ASSUME Evict \/ \E s \in Scopes : SwitchTo(s) PROVE TypeInv'
  BY <1>5, ActivateType DEF Evict, SwitchTo, Scopes
<1>6. ASSUME Save \/ Continue PROVE TypeInv'
  BY <1>6, SaveType, ContinueType
<1>7. ASSUME NEW m \in net, Respond(m) PROVE TypeInv'
  BY <1>7, RespondType
<1>8. ASSUME NEW d \in Drafts, CloseDraft(d) \/ \E t \in Targets : OtherEdit(d, t) PROVE TypeInv'
  BY <1>8, OthersType
<1>9. CASE UNCHANGED vars
  BY <1>9, TypeUnchanged
<1> QED
  BY <1>1, <1>2, <1>3, <1>4, <1>5, <1>6, <1>7, <1>8, <1>9 DEF Next

\* Every variable keeps its type, on any number of drafts and entities, with any faults: the lists of
\* changes, the pending saves and the requests stay lists of changes, of ops and keys, through every
\* filter, merge, rebase and restore the page and the server apply to them.
THEOREM TypeCorrect == Spec => []TypeOK
<1>1. TypeInv => TypeOK
  BY DEF TypeInv
<1> QED
  BY <1>1, TypeInit, TypeStep, PTL DEF Spec

-----------------------------------------------------------------------------
(* Isolation. Wherever an edit goes - the active list, a parked slice, a   *)
(* snapshot, a pending save, the call, a request, the draft - it is with   *)
(* the draft and the entity it was made on.                                *)

\* Each of cs, changes or ops, carries one of the first n edits, made on d and on its target.
MadeBy(n, made, d, cs) ==
  \A i \in DOMAIN cs : cs[i].after \in 1 .. n /\ made[cs[i].after] = On(d, cs[i].target)
Made(d, cs) == MadeBy(edits, madeOn, d, cs)

LEMMA MadeKept ==
  ASSUME NEW n, NEW made, NEW d, NEW cs \in Seq(Change), NEW S \in SUBSET (DOMAIN cs),
         MadeBy(n, made, d, cs)
  PROVE  MadeBy(n, made, d, Kept(cs, S))
<1>1. Keeps(Kept(cs, S), cs, S)
  BY KeptFacts
<1> QED
  BY <1>1 DEF Keeps, MadeBy

LEMMA MadeSans ==
  ASSUME NEW n, NEW made, NEW d, NEW cs \in Seq(Change), NEW ids, MadeBy(n, made, d, cs)
  PROVE  MadeBy(n, made, d, Sans(cs, ids))
BY MadeKept DEF Sans

LEMMA MadeOps ==
  ASSUME NEW n, NEW made, NEW d, NEW cs \in Seq(Change), MadeBy(n, made, d, cs)
  PROVE  MadeBy(n, made, d, Ops(cs))
<1> DEFINE os == Ops(cs)
<1>1. \A k \in DOMAIN os : \E i \in DOMAIN cs : os[k] = OpOf(cs[i])
  BY OpsFacts
<1> HIDE DEF os
<1>2. ASSUME NEW k \in DOMAIN os
      PROVE  os[k].after \in 1 .. n /\ made[os[k].after] = On(d, os[k].target)
  <2>1. PICK i \in DOMAIN cs : os[k] = OpOf(cs[i])
    BY <1>1
  <2> QED
    BY <2>1 DEF OpOf, MadeBy
<1>3. MadeBy(n, made, d, os)
  BY <1>2 DEF MadeBy
<1> QED
  BY <1>3 DEF os

\* Same places, same entities, same edits.
LEMMA MadeAlike ==
  ASSUME NEW n, NEW made, NEW d, NEW cs, NEW es, MadeBy(n, made, d, cs), DOMAIN es = DOMAIN cs,
         \A i \in DOMAIN cs : es[i].target = cs[i].target /\ es[i].after = cs[i].after
  PROVE  MadeBy(n, made, d, es)
BY DEF MadeBy

LEMMA MadeEmpty ==
  ASSUME NEW n, NEW made, NEW d
  PROVE  MadeBy(n, made, d, <<>>)
BY DEF MadeBy

IsolationInv ==
  /\ edits <= MaxEdits
  /\ Made(scope, changes) /\ Made(scope, redo)
  /\ \A s \in Scopes : /\ Made(s, parked[s].changes) /\ Made(s, parked[s].redo)
                       /\ Made(s, pending[s].body.ops)
  /\ \A d \in Drafts : Made(d, snap[d].changes) /\ Made(d, snap[d].save.body.ops)
  /\ Made(call.scope, call.batch) /\ Made(call.scope, call.save.body.ops)
  /\ \A m \in net : Made(m.draft, m.ops)
  /\ \A d \in Drafts, t \in Targets : doc[d][t].mine # 0 =>
       doc[d][t].mine \in 1 .. edits /\ madeOn[doc[d][t].mine] = On(d, t)

\* The same, of a step that makes no edit.
IsolationKept ==
  LET MadeN(d, cs) == MadeBy(edits, madeOn, d, cs) IN
  /\ MadeN(scope', changes') /\ MadeN(scope', redo')
  /\ \A s \in Scopes : /\ MadeN(s, parked'[s].changes) /\ MadeN(s, parked'[s].redo)
                       /\ MadeN(s, pending'[s].body.ops)
  /\ \A d \in Drafts : MadeN(d, snap'[d].changes) /\ MadeN(d, snap'[d].save.body.ops)
  /\ MadeN(call'.scope, call'.batch) /\ MadeN(call'.scope, call'.save.body.ops)
  /\ \A m \in net' : MadeN(m.draft, m.ops)
  /\ \A d \in Drafts, t \in Targets : doc'[d][t].mine # 0 =>
       doc'[d][t].mine \in 1 .. edits /\ madeOn[doc'[d][t].mine] = On(d, t)

LEMMA IsolationSame ==
  ASSUME IsolationInv, IsolationKept, UNCHANGED <<edits, madeOn>>
  PROVE  IsolationInv'
BY DEF IsolationInv, IsolationKept, Made

LEMMA IsolationInit == Init => IsolationInv
<1> SUFFICES ASSUME Init PROVE IsolationInv
  OBVIOUS
<1>1. \A s : Made(s, <<>>)
  BY MadeEmpty DEF Made
<1>2. edits <= MaxEdits
  BY StagedSaveAssumption DEF Init
<1>3. \A d \in Drafts, t \in Targets : doc[d][t].mine = 0
  BY DEF Init, Stored, Absent
<1> QED
  BY <1>1, <1>2, <1>3
  DEF Init, IsolationInv, EmptySlice, NoSave, NoSnap, NoCall

LEMMA NotifyIsolation ==
  ASSUME TypeInv, NEW cs, NEW saves \in Saves, NEW snaps \in Snaps, Notify(cs, saves, snaps),
         \A s \in Scopes : Made(s, saves[s].body.ops),
         \A d \in Drafts : Made(d, snaps[d].changes) /\ Made(d, snaps[d].save.body.ops)
  PROVE  /\ \A s \in Scopes : MadeBy(edits, madeOn, s, pending'[s].body.ops)
         /\ \A d \in Drafts : /\ MadeBy(edits, madeOn, d, snap'[d].changes)
                              /\ MadeBy(edits, madeOn, d, snap'[d].save.body.ops)
<1>1. \A s : MadeBy(edits, madeOn, s, NoSave.body.ops) /\ MadeBy(edits, madeOn, s, NoSnap.changes)
             /\ MadeBy(edits, madeOn, s, NoSnap.save.body.ops)
  BY MadeEmpty DEF NoSave, NoSnap
<1>2. /\ pending' = saves \/ pending' = [saves EXCEPT ![scope] = NoSave]
      /\ snap' = snaps \/ snap' = [snaps EXCEPT ![scope] = NoSnap]
  BY DEF Notify
<1>3. ASSUME NEW s \in Scopes PROVE pending'[s] \in {saves[s], NoSave}
  BY <1>2 DEF Saves
<1>4. ASSUME NEW d \in Drafts PROVE snap'[d] \in {snaps[d], NoSnap}
  BY <1>2 DEF Snaps
<1> QED
  BY <1>1, <1>3, <1>4 DEF Made

LEMMA EditingIsolation ==
  ASSUME TypeInv, IsolationInv, MadeBy(edits, madeOn, scope, changes'),
         MadeBy(edits, madeOn, scope, redo'), NEW cs, Notify(cs, pending, snap),
         UNCHANGED <<scope, parked, call, net, server, edits, madeOn>>
  PROVE  IsolationInv'
<1>1. /\ \A s \in Scopes : MadeBy(edits, madeOn, s, pending'[s].body.ops)
      /\ \A d \in Drafts : /\ MadeBy(edits, madeOn, d, snap'[d].changes)
                           /\ MadeBy(edits, madeOn, d, snap'[d].save.body.ops)
  BY NotifyIsolation, ActiveType DEF IsolationInv
<1>2. scope' = scope /\ parked' = parked /\ call' = call /\ net' = net /\ doc' = doc
  BY DEF server
<1>3. IsolationKept
  BY <1>1, <1>2 DEF IsolationInv, IsolationKept, Made
<1> QED
  BY <1>3, IsolationSame

LEMMA PushedIsolation ==
  ASSUME TypeInv, IsolationInv, NEW i \in DOMAIN changes
  PROVE  MadeBy(edits, madeOn, scope, Pushed(changes[i]))
<1>1. redo \in Seq(Change) /\ changes[i] \in Change
  BY ActiveType
<1>2. /\ Len(Append(redo, changes[i])) = Len(redo) + 1 /\ Append(redo, changes[i]) \in Seq(Change)
      /\ \A k \in 1 .. Len(redo) : Append(redo, changes[i])[k] = redo[k]
      /\ Append(redo, changes[i])[Len(redo) + 1] = changes[i]
  BY <1>1, AppendProperties
<1>3. DOMAIN redo = 1 .. Len(redo) /\ Len(redo) \in Nat
      /\ DOMAIN Append(redo, changes[i]) = 1 .. Len(redo) + 1
  BY <1>1, <1>2, SeqParts
<1> DEFINE A == Append(redo, changes[i])
<1> HIDE DEF A
<1>4. ASSUME NEW k \in DOMAIN A PROVE A[k] = changes[i] \/ (k \in DOMAIN redo /\ A[k] = redo[k])
  BY <1>2, <1>3 DEF A
<1>5. MadeBy(edits, madeOn, scope, A)
  BY <1>4 DEF MadeBy, IsolationInv, Made
<1> QED
  BY <1>5, MadeEmpty DEF Pushed, A

LEMMA ListsIsolation ==
  ASSUME TypeInv, IsolationInv, UNCHANGED <<edits, madeOn>>,
         \/ \E i \in DOMAIN changes : Discard(i) \/ \E mine \in BOOLEAN : ResolveConflict(i, mine)
         \/ DiscardAll \/ Undo \/ Redo
  PROVE  IsolationInv'
<1> DEFINE M(cs) == MadeBy(edits, madeOn, scope, cs)
<1>1. M(changes) /\ M(redo) /\ M(<<>>) /\ \A ids : M(Sans(changes, ids))
  BY ActiveType, MadeEmpty, MadeSans DEF IsolationInv, Made
<1>2. ASSUME NEW i \in DOMAIN changes, Discard(i) PROVE IsolationInv'
  <2>1. /\ M(changes') /\ M(redo') /\ Notify(changes', pending, snap)
        /\ UNCHANGED <<scope, parked, call, net, server>>
    BY <1>1, <1>2, PushedIsolation DEF Discard
  <2> QED
    BY <2>1, EditingIsolation
<1>3. ASSUME NEW i \in DOMAIN changes, NEW mine \in BOOLEAN, ResolveConflict(i, mine) PROVE IsolationInv'
  <2>1. M([changes EXCEPT ![i] = KeepMine(@)])
    BY <1>1, ActiveType DEF MadeBy, KeepMine, Change
  <2>2. /\ M(changes') /\ M(redo') /\ Notify(changes', pending, snap)
        /\ UNCHANGED <<scope, parked, call, net, server>>
    BY <1>1, <1>3, <2>1 DEF ResolveConflict
  <2> QED
    BY <2>2, EditingIsolation
<1>4. CASE DiscardAll
  <2>1. /\ M(changes') /\ M(redo') /\ Notify(<<>>, pending, snap)
        /\ UNCHANGED <<scope, parked, call, net, server>>
    BY <1>1, <1>4 DEF DiscardAll
  <2> QED
    BY <2>1, EditingIsolation
<1>5. ASSUME NEW cs \in Seq(Change), cs # <<>>, M(cs) PROVE M(SubSeq(cs, 1, Len(cs) - 1))
  <2> DEFINE sub == SubSeq(cs, 1, Len(cs) - 1)
  <2>1. /\ Len(cs) \in DOMAIN cs /\ sub \in Seq(Change) /\ Len(sub) = Len(cs) - 1
        /\ \A k \in 1 .. Len(cs) - 1 : sub[k] = cs[k]
    BY <1>5, Shorter
  <2>2. DOMAIN cs = 1 .. Len(cs) /\ DOMAIN sub = 1 .. Len(cs) - 1 /\ Len(cs) \in Nat
    BY <2>1, SeqParts
  <2> HIDE DEF sub
  <2>3. \A k \in DOMAIN sub : k \in DOMAIN cs /\ sub[k] = cs[k]
    BY <2>1, <2>2
  <2>4. M(sub)
    BY <1>5, <2>3 DEF MadeBy
  <2> QED
    BY <2>4 DEF sub
<1>6. CASE Undo
  <2>1. Len(changes) \in DOMAIN changes /\ changes # <<>>
    BY <1>6, ActiveType, Shorter DEF Undo
  <2>2. /\ M(changes') /\ M(redo') /\ Notify(changes', pending, snap)
        /\ UNCHANGED <<scope, parked, call, net, server>>
    BY <1>1, <1>5, <1>6, <2>1, ActiveType, PushedIsolation DEF Undo
  <2> QED
    BY <2>2, EditingIsolation
<1>7. CASE Redo
  <2> DEFINE last == redo[Len(redo)]
             A == Append(changes, last)
  <2>1. redo # <<>> /\ changes' = A /\ redo' = SubSeq(redo, 1, Len(redo) - 1)
        /\ Notify(changes', pending, snap) /\ UNCHANGED <<scope, parked, call, net, server>>
    BY <1>7 DEF Redo
  <2>2. Len(redo) \in DOMAIN redo /\ last \in Change
    BY <2>1, ActiveType, Shorter
  <2>3. /\ A \in Seq(Change) /\ Len(A) = Len(changes) + 1 /\ A[Len(changes) + 1] = last
        /\ \A k \in 1 .. Len(changes) : A[k] = changes[k]
    BY <2>2, ActiveType, AppendProperties
  <2>4. DOMAIN A = 1 .. Len(changes) + 1 /\ DOMAIN changes = 1 .. Len(changes) /\ Len(changes) \in Nat
    BY <2>3, SeqParts, ActiveType
  <2> HIDE DEF A
  <2>5. \A k \in DOMAIN A : A[k] = redo[Len(redo)] \/ (k \in DOMAIN changes /\ A[k] = changes[k])
    BY <2>3, <2>4
  <2>6. M(A)
    BY <1>1, <2>2, <2>5 DEF MadeBy
  <2>7. M(redo')
    BY <1>1, <1>5, <2>1, ActiveType
  <2> QED
    BY <2>1, <2>6, <2>7, EditingIsolation
<1> QED
  BY <1>2, <1>3, <1>4, <1>6, <1>7

\* An edit is made on the draft on the canvas, and put in its list.
LEMMA EditIsolation ==
  ASSUME TypeInv, IsolationInv, NEW t \in Targets, Edit(t)
  PROVE  IsolationInv'
<1> DEFINE e == edits + 1
           at == Staging(changes, t)
<1>1. /\ scope \in Drafts /\ edits < MaxEdits /\ Notify(changes', pending, snap) /\ edits' = e
      /\ madeOn' = [madeOn EXCEPT ![e] = On(scope, t)]
      /\ UNCHANGED <<scope, parked, call, net, server>>
      /\ \/ /\ at # {} /\ changes' = Replaced(CHOOSE i \in at : TRUE, e) /\ UNCHANGED redo
         \/ (\E u \in Naming : changes' = Append(changes, NewChange(t, u, e))) /\ redo' = <<>>
  BY DEF Edit, Editable, On
<1>2. edits \in Nat /\ e \in 1 .. MaxEdits /\ DOMAIN madeOn = 1 .. MaxEdits
  <2>1. edits \in Nat /\ DOMAIN madeOn = 1 .. MaxEdits
    BY TypeParts DEF TypeInv
  <2> QED
    BY <2>1, <1>1, StagedSaveAssumption
<1>3. madeOn'[e] = On(scope, t) /\ \A x \in 1 .. edits : madeOn'[x] = madeOn[x] /\ x \in 1 .. e
  BY <1>1, <1>2
<1>4. ASSUME NEW d, NEW cs, Made(d, cs) PROVE MadeBy(e, madeOn', d, cs)
  BY <1>3, <1>4 DEF Made, MadeBy
<1> DEFINE N(d, cs) == MadeBy(e, madeOn', d, cs)
<1>5. N(scope, changes')
  <2>1. CASE at # {} /\ changes' = Replaced(CHOOSE i \in at : TRUE, e)
    <3>1. PICK i \in DOMAIN changes : changes[i].target = t /\ changes' = Replaced(i, e)
      BY <2>1 DEF Staging
    <3>2. changes[i] \in Change /\ DOMAIN changes' = DOMAIN changes
      BY <3>1, ActiveType DEF Replaced
    <3>3. changes' = [changes EXCEPT ![i] = [changes[i] EXCEPT !.after = e]]
      BY <3>1 DEF Replaced
    <3>4. changes'[i].after = e /\ changes'[i].target = t
      BY <3>1, <3>2, <3>3 DEF Change
    <3>5. \A j \in DOMAIN changes : j # i => changes'[j] = changes[j]
      BY <3>3
    <3>6. N(scope, changes)
      BY <1>4 DEF IsolationInv
    <3>7. ASSUME NEW j \in DOMAIN changes'
          PROVE  changes'[j].after \in 1 .. e /\ madeOn'[changes'[j].after] = On(scope, changes'[j].target)
      <4>1. CASE j = i
        BY <1>2, <1>3, <3>4, <4>1
      <4>2. CASE j # i
        BY <3>2, <3>5, <3>6, <4>2 DEF MadeBy
      <4> QED
        BY <4>1, <4>2
    <3> QED
      BY <3>7 DEF MadeBy
  <2>2. CASE \E u \in Naming : changes' = Append(changes, NewChange(t, u, e))
    <3>0. PICK u \in Naming : changes' = Append(changes, NewChange(t, u, e))
      BY <2>2
    <3> DEFINE c == NewChange(t, u, e)
    <3>1. c \in Change /\ c.after = e /\ c.target = t
      BY <1>2, TypeParts DEF TypeInv, NewChange, Change
    <3>2. /\ changes' \in Seq(Change) /\ Len(changes') = Len(changes) + 1
          /\ changes'[Len(changes) + 1] = c /\ \A k \in 1 .. Len(changes) : changes'[k] = changes[k]
      BY <3>0, <3>1, ActiveType, AppendProperties
    <3>3. /\ DOMAIN changes' = 1 .. Len(changes) + 1 /\ DOMAIN changes = 1 .. Len(changes)
          /\ Len(changes) \in Nat
      BY <3>2, SeqParts, ActiveType
    <3>4. \A j \in DOMAIN changes' : changes'[j] = c \/ (j \in DOMAIN changes /\ changes'[j] = changes[j])
      BY <3>2, <3>3
    <3>5. N(scope, changes)
      BY <1>4 DEF IsolationInv
    <3> HIDE DEF c
    <3>6. ASSUME NEW j \in DOMAIN changes'
          PROVE  changes'[j].after \in 1 .. e /\ madeOn'[changes'[j].after] = On(scope, changes'[j].target)
      <4>1. CASE changes'[j] = c
        BY <1>2, <1>3, <3>1, <4>1
      <4>2. CASE j \in DOMAIN changes /\ changes'[j] = changes[j]
        BY <3>5, <4>2 DEF MadeBy
      <4> QED
        BY <3>4, <4>1, <4>2
    <3> QED
      BY <3>6 DEF MadeBy
  <2> QED
    BY <1>1, <2>1, <2>2
<1>6. N(scope, redo')
  BY <1>1, <1>4, MadeEmpty DEF IsolationInv
<1>7. /\ \A s \in Scopes : MadeBy(edits, madeOn, s, pending'[s].body.ops)
      /\ \A d \in Drafts : /\ MadeBy(edits, madeOn, d, snap'[d].changes)
                           /\ MadeBy(edits, madeOn, d, snap'[d].save.body.ops)
  BY <1>1, NotifyIsolation, ActiveType DEF IsolationInv
<1>8. /\ \A s \in Scopes : N(s, pending'[s].body.ops)
      /\ \A d \in Drafts : N(d, snap'[d].changes) /\ N(d, snap'[d].save.body.ops)
  BY <1>4, <1>7 DEF Made
<1>9. /\ \A s \in Scopes : N(s, parked[s].changes) /\ N(s, parked[s].redo)
      /\ N(call.scope, call.batch) /\ N(call.scope, call.save.body.ops)
      /\ \A m \in net : N(m.draft, m.ops)
  BY <1>4 DEF IsolationInv
<1>10. \A d \in Drafts, x \in Targets : doc[d][x].mine # 0 =>
         doc[d][x].mine \in 1 .. e /\ madeOn'[doc[d][x].mine] = On(d, x)
  BY <1>3 DEF IsolationInv
<1>11. scope' = scope /\ parked' = parked /\ call' = call /\ net' = net /\ doc' = doc
  BY <1>1 DEF server
<1>12. e <= MaxEdits
  BY <1>2
<1> QED
  BY <1>1, <1>5, <1>6, <1>8, <1>9, <1>10, <1>11, <1>12 DEF IsolationInv, Made

\* What the steps that make no edit have in common.
LEMMA PartsIsolation ==
  ASSUME IsolationInv
  PROVE  LET M(d, cs) == MadeBy(edits, madeOn, d, cs) IN
         /\ M(scope, changes) /\ M(scope, redo)
         /\ \A s \in Scopes : /\ M(s, parked[s].changes) /\ M(s, parked[s].redo)
                              /\ M(s, pending[s].body.ops)
         /\ \A d \in Drafts : M(d, snap[d].changes) /\ M(d, snap[d].save.body.ops)
         /\ M(call.scope, call.batch) /\ M(call.scope, call.save.body.ops)
         /\ \A m \in net : M(m.draft, m.ops)
         /\ \A d \in Drafts, t \in Targets : doc[d][t].mine # 0 =>
              doc[d][t].mine \in 1 .. edits /\ madeOn[doc[d][t].mine] = On(d, t)
BY DEF IsolationInv, Made

\* The draft's snapshot is written from its own list and its own pending save.
LEMMA SnapshotIsolation ==
  ASSUME TypeInv, IsolationInv, scope \in Drafts, snap' = [snap EXCEPT ![scope] = Snapshot],
         NEW d \in Drafts
  PROVE  MadeBy(edits, madeOn, d, snap'[d].changes) /\ MadeBy(edits, madeOn, d, snap'[d].save.body.ops)
<1>1. snap \in Snaps
  BY ActiveType
<1>2. CASE d = scope
  <2>1. snap'[d].changes = changes /\ snap'[d].save = pending[scope]
    BY <1>1, <1>2 DEF Snapshot, Snaps
  <2> QED
    BY <1>2, <2>1, PartsIsolation DEF Scopes
<1>3. CASE d # scope
  <2>1. snap'[d] = snap[d]
    BY <1>1, <1>3 DEF Snaps
  <2> QED
    BY <2>1, PartsIsolation
<1> QED
  BY <1>2, <1>3

\* Switching drafts: each list is parked under its own draft, and what is loaded was parked under,
\* or written for, the draft it is loaded on.
LEMMA ActivateIsolation ==
  ASSUME TypeInv, IsolationInv, NEW s \in Scopes, Activate(s)
  PROVE  IsolationInv'
<1> DEFINE M(d, cs) == MadeBy(edits, madeOn, d, cs)
<1>1. /\ scope' = s /\ changes' = Loaded(s).changes /\ redo' = Loaded(s).redo
      /\ parked' = [Parked EXCEPT ![s] = EmptySlice]
      /\ pending' = IF Restores(s) /\ snap[s].save # NoSave
                    THEN [pending EXCEPT ![s] = snap[s].save] ELSE pending
      /\ snap' = snap /\ call' = call /\ net' = net /\ doc' = doc /\ edits' = edits /\ madeOn' = madeOn
  BY DEF Activate, server, history
<1>2. parked \in [Scopes -> Slice] /\ pending \in Saves /\ Parked \in [Scopes -> Slice] /\ scope \in Scopes
  BY TypeParts, ActiveType, LoadedType DEF TypeInv
<1>3. ASSUME NEW x \in Scopes PROVE M(x, Parked[x].changes) /\ M(x, Parked[x].redo)
  <2>1. CASE x = scope
    <3>1. Parked[x] = [changes |-> changes, redo |-> redo]
      BY <1>2, <2>1 DEF Parked
    <3> QED
      BY <2>1, <3>1, PartsIsolation
  <2>2. CASE x # scope
    <3>1. Parked[x] = parked[x]
      BY <1>2, <2>2 DEF Parked
    <3> QED
      BY <3>1, PartsIsolation
  <2> QED
    BY <2>1, <2>2
<1>4. M(s, Loaded(s).changes) /\ M(s, Loaded(s).redo)
  <2>1. CASE Restores(s)
    <3>1. Loaded(s) = [changes |-> snap[s].changes, redo |-> <<>>] /\ s \in Drafts
      BY <2>1 DEF Loaded, Restores
    <3> QED
      BY <3>1, PartsIsolation, MadeEmpty
  <2>2. CASE ~Restores(s)
    <3>1. Loaded(s) = Parked[s]
      BY <2>2 DEF Loaded
    <3> QED
      BY <1>3, <3>1
  <2> QED
    BY <2>1, <2>2
<1>5. ASSUME NEW x \in Scopes PROVE M(x, parked'[x].changes) /\ M(x, parked'[x].redo)
  <2>1. parked'[x] = Parked[x] \/ parked'[x] = EmptySlice
    BY <1>1, <1>2
  <2> QED
    BY <2>1, <1>3, MadeEmpty DEF EmptySlice
<1>6. ASSUME NEW x \in Scopes PROVE M(x, pending'[x].body.ops)
  <2>1. pending'[x] = pending[x] \/ (x \in Drafts /\ pending'[x] = snap[x].save)
    BY <1>1, <1>2 DEF Restores, Saves
  <2> QED
    BY <2>1, PartsIsolation
<1>7. IsolationKept
  BY <1>1, <1>4, <1>5, <1>6, PartsIsolation DEF IsolationKept
<1> QED
  BY <1>1, <1>7, IsolationSame

LEMMA PageIsolation ==
  ASSUME TypeInv, IsolationInv, WriteSnapshot \/ Reload
  PROVE  IsolationInv'
<1>1. CASE WriteSnapshot
  <2>1. /\ scope \in Drafts /\ snap' = [snap EXCEPT ![scope] = Snapshot]
        /\ UNCHANGED <<scope, changes, redo, parked, pending, call, net, doc, edits, madeOn>>
    BY <1>1 DEF WriteSnapshot, server, history
  <2>2. \A d \in Drafts : /\ MadeBy(edits, madeOn, d, snap'[d].changes)
                          /\ MadeBy(edits, madeOn, d, snap'[d].save.body.ops)
    BY <2>1, SnapshotIsolation
  <2>3. IsolationKept
    BY <2>1, <2>2, PartsIsolation DEF IsolationKept
  <2> QED
    BY <2>1, <2>3, IsolationSame
<1>2. CASE Reload
  <2>1. /\ snap' = snap \/ (scope \in Drafts /\ snap' = [snap EXCEPT ![scope] = Snapshot])
        /\ scope' = Published /\ changes' = <<>> /\ redo' = <<>> /\ call' = NoCall
        /\ parked' = [s \in Scopes |-> EmptySlice] /\ pending' = [s \in Scopes |-> NoSave]
        /\ net' = {[m EXCEPT !.live = FALSE] : m \in net}
        /\ UNCHANGED <<doc, edits, madeOn>>
    BY <1>2 DEF Reload, server, history
  <2>2. \A d \in Drafts : /\ MadeBy(edits, madeOn, d, snap'[d].changes)
                          /\ MadeBy(edits, madeOn, d, snap'[d].save.body.ops)
    BY <2>1, SnapshotIsolation, PartsIsolation
  <2>3. ASSUME NEW x \in net' PROVE MadeBy(edits, madeOn, x.draft, x.ops)
    <3>1. PICK m \in net : x = [m EXCEPT !.live = FALSE]
      BY <2>1
    <3>2. m \in RequestRec
      BY TypeParts DEF TypeInv
    <3>3. x.draft = m.draft /\ x.ops = m.ops
      BY <3>1, <3>2 DEF RequestRec
    <3> QED
      BY <3>3, PartsIsolation
  <2>4. \A s \in Scopes : /\ parked'[s].changes = <<>> /\ parked'[s].redo = <<>>
                          /\ pending'[s].body.ops = <<>>
    BY <2>1 DEF EmptySlice, NoSave
  <2>5. call'.batch = <<>> /\ call'.save.body.ops = <<>>
    BY <2>1 DEF NoCall, NoSave
  <2>6. IsolationKept
    BY <2>1, <2>2, <2>3, <2>4, <2>5, PartsIsolation, MadeEmpty DEF IsolationKept
  <2> QED
    BY <2>1, <2>6, IsolationSame
<1> QED
  BY <1>1, <1>2

LEMMA SendIsolation ==
  ASSUME TypeInv, IsolationInv, NEW rest \in Seq(Change), NEW batch, NEW d \in Drafts,
         NEW saves \in Saves, NEW settled, Send(rest, batch, d, saves, settled),
         MadeBy(edits, madeOn, d, rest), MadeBy(edits, madeOn, d, batch),
         \A s \in Scopes : MadeBy(edits, madeOn, s, saves[s].body.ops)
  PROVE  LET M(x, cs) == MadeBy(edits, madeOn, x, cs) IN
         /\ \A s \in Scopes : M(s, pending'[s].body.ops)
         /\ \A x \in Drafts : M(x, snap'[x].changes) /\ M(x, snap'[x].save.body.ops)
         /\ M(call'.scope, call'.batch) /\ M(call'.scope, call'.save.body.ops)
         /\ \A m \in net' : M(m.draft, m.ops)
<1> DEFINE M(x, cs) == MadeBy(edits, madeOn, x, cs)
           body == BodyOf(rest, batch)
           save == [key |-> KeyFor(body, saves[d]), body |-> body, sent |-> rest]
<1>1. M(d, save.body.ops)
  BY MadeOps DEF BodyOf
<1> HIDE DEF save
<1>2. /\ pending' = [saves EXCEPT ![d] = save]
      /\ snap' = IF snap[d] = NoSnap THEN snap ELSE [snap EXCEPT ![d].save = save]
      /\ net' = net \cup {Request(save, d)}
      /\ call' = [phase |-> "send", scope |-> d, batch |-> batch, save |-> save,
                  settled |-> settled, answer |-> NoAnswer]
  BY DEF Send, save
<1> HIDE DEF body
<1>3. ASSUME NEW s \in Scopes PROVE M(s, pending'[s].body.ops)
  <2>1. pending'[s] = saves[s] \/ (s = d /\ pending'[s] = save)
    BY <1>2 DEF Saves
  <2> QED
    BY <1>1, <2>1
<1>4. ASSUME NEW x \in Drafts PROVE M(x, snap'[x].changes) /\ M(x, snap'[x].save.body.ops)
  <2>1. snap[x] \in SnapRec /\ snap \in Snaps
    BY ActiveType DEF Snaps
  <2>2. snap'[x] = snap[x] \/ (x = d /\ snap'[x] = [snap[x] EXCEPT !.save = save])
    BY <1>2, <2>1 DEF Snaps
  <2>3. snap'[x].changes = snap[x].changes
        /\ (snap'[x].save = snap[x].save \/ (x = d /\ snap'[x].save = save))
    BY <2>1, <2>2 DEF SnapRec
  <2> QED
    BY <1>1, <2>3, PartsIsolation
<1>5. M(call'.scope, call'.batch) /\ M(call'.scope, call'.save.body.ops)
  BY <1>1, <1>2
<1>6. Request(save, d).draft = d /\ Request(save, d).ops = save.body.ops
  BY DEF Request
<1>7. \A m \in net' : M(m.draft, m.ops)
  BY <1>1, <1>2, <1>6, PartsIsolation
<1> QED
  BY <1>3, <1>4, <1>5, <1>7

LEMMA DoneIsolation ==
  ASSUME TypeInv, IsolationInv, NEW cs, NEW saves \in Saves, Done(cs, saves, snap),
         MadeBy(edits, madeOn, scope, cs), MadeBy(edits, madeOn, scope, redo'),
         \A s \in Scopes : MadeBy(edits, madeOn, s, saves[s].body.ops),
         UNCHANGED <<scope, parked, server, history>>
  PROVE  IsolationInv'
<1>1. /\ changes' = cs /\ call' = NoCall /\ net' = net
      /\ Notify(cs, saves, snap) \/ (pending' = saves /\ snap' = snap)
  BY DEF Done
<1>2. /\ \A s \in Scopes : MadeBy(edits, madeOn, s, pending'[s].body.ops)
      /\ \A d \in Drafts : /\ MadeBy(edits, madeOn, d, snap'[d].changes)
                           /\ MadeBy(edits, madeOn, d, snap'[d].save.body.ops)
  <2>1. CASE Notify(cs, saves, snap)
    BY <2>1, NotifyIsolation, ActiveType, PartsIsolation DEF Made
  <2>2. CASE pending' = saves /\ snap' = snap
    BY <2>2, PartsIsolation
  <2> QED
    BY <1>1, <2>1, <2>2
<1>3. call'.batch = <<>> /\ call'.save.body.ops = <<>>
  BY <1>1 DEF NoCall, NoSave
<1>4. scope' = scope /\ parked' = parked /\ doc' = doc /\ edits' = edits /\ madeOn' = madeOn
  BY DEF server, history
<1>5. IsolationKept
  BY <1>1, <1>2, <1>3, <1>4, PartsIsolation, MadeEmpty DEF IsolationKept
<1> QED
  BY <1>4, <1>5, IsolationSame

\* The saving steps that leave the page's lists, or rebase them, and send.
LEMMA SendingIsolation ==
  ASSUME TypeInv, IsolationInv, NEW rest \in Seq(Change), NEW batch, NEW d \in Drafts,
         NEW saves \in Saves, NEW settled, Send(rest, batch, d, saves, settled),
         MadeBy(edits, madeOn, d, rest), MadeBy(edits, madeOn, d, batch),
         \A s \in Scopes : MadeBy(edits, madeOn, s, saves[s].body.ops),
         MadeBy(edits, madeOn, scope, changes'), MadeBy(edits, madeOn, scope, redo'),
         UNCHANGED <<scope, parked, server, history>>
  PROVE  IsolationInv'
<1>1. scope' = scope /\ parked' = parked /\ doc' = doc /\ edits' = edits /\ madeOn' = madeOn
  BY DEF server, history
<1>2. IsolationKept
  BY <1>1, SendIsolation, PartsIsolation DEF IsolationKept
<1> QED
  BY <1>1, <1>2, IsolationSame

LEMMA SaveIsolation ==
  ASSUME TypeInv, IsolationInv, Save
  PROVE  IsolationInv'
<1>1. /\ scope \in Drafts /\ pending \in Saves /\ changes \in Seq(Change)
      /\ UNCHANGED <<scope, parked, server, history>>
  BY ActiveType DEF Save, Editable
<1>2. CASE Ops(changes) = <<>>
  <2>1. /\ changes' = <<>> /\ redo' = <<>> /\ Notify(<<>>, pending, snap)
        /\ UNCHANGED <<applying, net, call>>
    BY <1>2 DEF Save
  <2>2. edits' = edits /\ madeOn' = madeOn
    BY <1>1 DEF history
  <2> QED
    BY <1>1, <2>1, <2>2, EditingIsolation, MadeEmpty
<1>3. CASE Ops(changes) # <<>> /\ MustSettle(pending[scope], changes)
  <2> DEFINE r == Request(pending[scope], scope)
  <2>1. /\ net' = net \cup {r}
        /\ call' = [NoCall EXCEPT !.phase = "settle", !.scope = scope, !.batch = changes,
                                           !.save = pending[scope]]
        /\ UNCHANGED <<pending, snap, changes, redo>>
    BY <1>3 DEF Save
  <2>2. scope' = scope /\ parked' = parked /\ doc' = doc /\ edits' = edits /\ madeOn' = madeOn
    BY <1>1 DEF server, history
  <2>3. call'.scope = scope /\ call'.batch = changes /\ call'.save = pending[scope]
    BY <2>1 DEF NoCall
  <2>4. r.draft = scope /\ r.ops = pending[scope].body.ops
    BY DEF Request
  <2>5. scope \in Scopes
    BY <1>1 DEF Scopes
  <2> HIDE DEF r
  <2>6. IsolationKept
    BY <2>1, <2>2, <2>3, <2>4, <2>5, PartsIsolation DEF IsolationKept
  <2> QED
    BY <2>2, <2>6, IsolationSame
<1>4. CASE Ops(changes) # <<>> /\ ~MustSettle(pending[scope], changes)
  <2>1. Send(changes, changes, scope, pending, NotSettled) /\ UNCHANGED <<changes, redo>>
    BY <1>4 DEF Save
  <2> QED
    BY <1>1, <2>1, SendingIsolation, PartsIsolation
<1> QED
  BY <1>2, <1>3, <1>4

LEMMA MadeRebased ==
  ASSUME TypeInv, NEW d, NEW cs \in Seq(Change), MadeBy(edits, madeOn, d, cs)
  PROVE  /\ MadeBy(edits, madeOn, d, RebasedSeq(cs)) /\ MadeBy(edits, madeOn, d, MarkedSeq(cs))
         /\ MadeBy(edits, madeOn, d, OutgoingSeq(cs))
<1>1. \A i \in DOMAIN cs : cs[i] \in Change
  BY SeqParts
<1>2. ASSUME NEW c \in Change
      PROVE  /\ OnTop(c).target = c.target /\ OnTop(c).after = c.after
             /\ ConflictOn(c).target = c.target /\ ConflictOn(c).after = c.after
             /\ Outgoing(c).target = c.target /\ Outgoing(c).after = c.after
  <2>1. /\ OnTop(c).target = c.target /\ OnTop(c).after = c.after /\ DOMAIN OnTop(c) = DOMAIN c
        /\ ConflictOn(c).target = c.target /\ ConflictOn(c).after = c.after
    BY DEF OnTop, Rebase, ConflictOn, Change
  <2>2. Outgoing(c).target = OnTop(c).target /\ Outgoing(c).after = OnTop(c).after
    BY <2>1 DEF Outgoing, Resolve, Change
  <2> QED
    BY <2>1, <2>2
<1>3. \A i \in DOMAIN cs :
        /\ RebasedSeq(cs)[i].target = cs[i].target /\ RebasedSeq(cs)[i].after = cs[i].after
        /\ MarkedSeq(cs)[i].target = cs[i].target /\ MarkedSeq(cs)[i].after = cs[i].after
        /\ OutgoingSeq(cs)[i].target = cs[i].target /\ OutgoingSeq(cs)[i].after = cs[i].after
  BY <1>1, <1>2 DEF RebasedSeq, MarkedSeq, OutgoingSeq
<1>4. /\ DOMAIN RebasedSeq(cs) = DOMAIN cs /\ DOMAIN MarkedSeq(cs) = DOMAIN cs
      /\ DOMAIN OutgoingSeq(cs) = DOMAIN cs
  BY DEF RebasedSeq, MarkedSeq, OutgoingSeq
<1> QED
  BY <1>3, <1>4, MadeAlike

LEMMA ContinueIsolation ==
  ASSUME TypeInv, IsolationInv, Continue
  PROVE  IsolationInv'
<1> DEFINE M(d, cs) == MadeBy(edits, madeOn, d, cs)
           saves == [pending EXCEPT ![call.scope] = NoSave]
<1>1. changes \in Seq(Change) /\ pending \in Saves /\ saves \in Saves /\ call.batch \in Seq(Change)
  BY ActiveType, WithoutPending, CallParts
<1>2. ASSUME NEW s \in Scopes PROVE M(s, saves[s].body.ops)
  <2>1. saves[s] = pending[s] \/ saves[s] = NoSave
    BY <1>1 DEF Saves
  <2> QED
    BY <2>1, PartsIsolation, MadeEmpty DEF NoSave
<1> HIDE DEF saves
<1>3. M(scope, changes) /\ M(scope, redo) /\ M(call.scope, call.batch) /\ M(scope, <<>>)
      /\ (\A ids : M(scope, Cleared(ids))) /\ (\A s \in Scopes : M(s, pending[s].body.ops))
  BY <1>1, PartsIsolation, MadeEmpty, MadeSans DEF Cleared
<1>4. CASE SettleLost
  BY <1>1, <1>3, <1>4, DoneIsolation DEF SettleLost
<1>5. CASE SettleRefused
  <2>1. /\ Send(call.batch, call.batch, call.scope, saves, NotSettled) /\ call.scope \in Drafts
        /\ UNCHANGED <<scope, changes, redo, parked, server, history>>
    BY <1>5, CallParts DEF SettleRefused, Answered, saves
  <2> QED
    BY <1>1, <1>2, <1>3, <2>1, SendingIsolation
<1>6. CASE SettleApplied
  <2>1. /\ call.phase = "settle" /\ UNCHANGED <<scope, parked, server, history>>
        /\ \/ Done(Cleared(Ids(call.batch)), saves, snap) /\ redo' = <<>>
           \/ /\ changes' = RebasedSeq(changes) /\ UNCHANGED redo
              /\ \E settled : Send(Rest, call.batch, call.scope, saves, settled)
    BY <1>6, SettleAppliedEffect DEF saves
  <2>2. CASE Done(Cleared(Ids(call.batch)), saves, snap) /\ redo' = <<>>
    BY <1>1, <1>2, <1>3, <2>1, <2>2, DoneIsolation
  <2>3. CASE /\ changes' = RebasedSeq(changes) /\ UNCHANGED redo
             /\ \E settled : Send(Rest, call.batch, call.scope, saves, settled)
    <3>1. M(scope, changes')
      BY <1>1, <1>3, <2>3, MadeRebased
    <3>2. M(call.scope, Rest) /\ Rest \in Seq(Change)
      <4>1. M(call.scope, OutgoingSeq(call.batch)) /\ OutgoingSeq(call.batch) \in Seq(Change)
        BY <1>1, <1>3, MadeRebased, RebasedType
      <4>2. LeftIn \in SUBSET (DOMAIN OutgoingSeq(call.batch))
        BY RestType
      <4> QED
        BY <4>1, <4>2, MadeKept, RestType DEF Rest
    <3>3. call.scope \in Drafts
      BY <2>1, CallParts
    <3> QED
      BY <1>1, <1>2, <1>3, <2>1, <2>3, <3>1, <3>2, <3>3, SendingIsolation
  <2> QED
    BY <2>1, <2>2, <2>3
<1>7. CASE SendApplied
  <2>1. /\ Done(Cleared(Ids(call.batch)), saves, snap) /\ redo' = <<>>
        /\ UNCHANGED <<scope, parked, server, history>>
    BY <1>7 DEF SendApplied, saves
  <2> QED
    BY <1>1, <1>2, <1>3, <2>1, DoneIsolation
<1>8. CASE SendFailed
  <2>1. /\ UNCHANGED <<scope, parked, server, history>> /\ (redo' = redo \/ redo' = <<>>)
        /\ \/ Done(MarkedSeq(Cleared(SettledOnly)), pending, snap)
           \/ Done(MarkedSeq(Cleared(SettledOnly)), saves, snap)
    BY <1>8, SendFailedEffect DEF saves
  <2>2. Cleared(SettledOnly) \in Seq(Change)
    BY ActiveType DEF Cleared
  <2>3. M(scope, MarkedSeq(Cleared(SettledOnly))) /\ M(scope, redo')
    BY <1>3, <2>1, <2>2, MadeRebased
  <2> QED
    BY <1>1, <1>2, <1>3, <2>1, <2>3, DoneIsolation
<1> QED
  BY <1>4, <1>5, <1>6, <1>7, <1>8 DEF Continue

\* What an applied batch leaves of mine on an entity: an edit of one of its ops, or what was there.
LEMMA AppliedEdit ==
  ASSUME TypeInv, NEW d \in Drafts, NEW ops \in Seq(Op), NEW t \in Targets
  PROVE  \/ t \notin Written(ops) /\ After(d, ops)[t] = doc[d][t]
         \/ \E i \in DOMAIN ops : /\ ops[i].target = t
                                  /\ After(d, ops)[t] = Written1(doc[d][t], ops[i])
<1>1. CASE t \in Written(ops)
  <2> DEFINE j == CHOOSE i \in DOMAIN ops : ops[i].target = t
  <2>1. j \in DOMAIN ops /\ ops[j].target = t
    BY <1>1 DEF Written
  <2>2. After(d, ops)[t] = Written1(doc[d][t], ops[j])
    BY <1>1 DEF After
  <2> QED
    BY <2>1, <2>2
<1>2. CASE t \notin Written(ops)
  BY <1>2 DEF After
<1> QED
  BY <1>1, <1>2

LEMMA RespondIsolation ==
  ASSUME TypeInv, IsolationInv, NEW m \in net, Respond(m)
  PROVE  IsolationInv'
<1>1. /\ UNCHANGED <<scope, changes, redo, parked, pending, snap, edits, madeOn>> /\ net' = net \ {m}
      /\ m.draft \in Drafts /\ m.ops \in Seq(Op) /\ doc \in [Drafts -> [Targets -> Entity]]
  BY TypeParts DEF Respond, Replay, Apply, Refuse, Violate, Drop, ServerUnchanged, Answer, history,
                   TypeInv, RequestRec
<1>2. call'.scope = call.scope /\ call'.batch = call.batch /\ call'.save = call.save
  <2>1. call' = call \/ \E a : call' = [call EXCEPT !.answer = a]
    BY DEF Respond, Replay, Apply, Refuse, Violate, Drop, Answer
  <2>2. call \in CallRec
    BY CallParts
  <2> QED
    BY <2>1, <2>2 DEF CallRec
<1>3. ASSUME NEW d \in Drafts, NEW t \in Targets, doc'[d][t].mine # 0
      PROVE  doc'[d][t].mine \in 1 .. edits /\ madeOn[doc'[d][t].mine] = On(d, t)
  <2>1. CASE doc'[d][t] = doc[d][t]
    BY <1>3, <2>1, PartsIsolation
  <2>2. CASE doc'[d][t] # doc[d][t]
    <3>1. Apply(m)
      BY <2>2 DEF Respond, Replay, Refuse, Violate, Drop, server
    <3>2. doc' = [doc EXCEPT ![m.draft] = After(m.draft, m.ops)]
      BY <3>1 DEF Apply
    <3>3. d = m.draft /\ doc'[d] = After(m.draft, m.ops)
      BY <1>1, <2>2, <3>2
    <3>4. PICK i \in DOMAIN m.ops : m.ops[i].target = t
                                    /\ After(d, m.ops)[t] = Written1(doc[d][t], m.ops[i])
      BY <1>1, <2>2, <3>3, AppliedEdit
    <3>5. doc'[d][t].mine = m.ops[i].after
      BY <3>3, <3>4 DEF Written1
    <3>6. MadeBy(edits, madeOn, d, m.ops)
      BY <3>3, PartsIsolation
    <3> QED
      BY <3>4, <3>5, <3>6 DEF MadeBy
  <2> QED
    BY <2>1, <2>2
<1>4. IsolationKept
  BY <1>1, <1>2, <1>3, PartsIsolation DEF IsolationKept
<1> QED
  BY <1>1, <1>4, IsolationSame

LEMMA OthersIsolation ==
  ASSUME TypeInv, IsolationInv, NEW d \in Drafts, CloseDraft(d) \/ \E t \in Targets : OtherEdit(d, t)
  PROVE  IsolationInv'
<1>1. UNCHANGED <<scope, changes, redo, parked, pending, snap, edits, madeOn, net, call>>
  BY DEF CloseDraft, OtherEdit, page, history
<1>2. ASSUME NEW x \in Drafts, NEW t \in Targets PROVE doc'[x][t].mine = doc[x][t].mine
  <2>1. doc \in [Drafts -> [Targets -> Entity]]
    BY TypeParts DEF TypeInv
  <2>2. CASE doc' = doc
    BY <2>2
  <2>3. ASSUME NEW u \in Targets, doc' = [doc EXCEPT ![d][u].ver = @ + 1]
        PROVE  doc'[x][t].mine = doc[x][t].mine
    BY <2>1, <2>3 DEF Entity
  <2> QED
    BY <2>2, <2>3 DEF CloseDraft, OtherEdit
<1>3. IsolationKept
  BY <1>1, <1>2, PartsIsolation DEF IsolationKept
<1> QED
  BY <1>1, <1>3, IsolationSame

LEMMA IsolationStep == TypeInv /\ IsolationInv /\ [Next]_vars => IsolationInv'
<1> SUFFICES ASSUME TypeInv, IsolationInv, [Next]_vars PROVE IsolationInv'
  OBVIOUS
<1>1. ASSUME NEW t \in Targets, Edit(t) PROVE IsolationInv'
  BY <1>1, EditIsolation
<1>2. ASSUME NEW i \in DOMAIN changes, Discard(i) \/ \E mine \in BOOLEAN : ResolveConflict(i, mine)
      PROVE  IsolationInv'
  <2>1. UNCHANGED <<edits, madeOn>>
    BY <1>2 DEF Discard, ResolveConflict
  <2> QED
    BY <1>2, <2>1, ListsIsolation
<1>3. ASSUME DiscardAll \/ Undo \/ Redo PROVE IsolationInv'
  <2>1. UNCHANGED <<edits, madeOn>>
    BY <1>3 DEF DiscardAll, Undo, Redo
  <2> QED
    BY <1>3, <2>1, ListsIsolation
<1>4. ASSUME WriteSnapshot \/ Reload PROVE IsolationInv'
  BY <1>4, PageIsolation
<1>5. ASSUME Evict \/ \E s \in Scopes : SwitchTo(s) PROVE IsolationInv'
  BY <1>5, ActivateIsolation DEF Evict, SwitchTo, Scopes
<1>6. ASSUME Save \/ Continue PROVE IsolationInv'
  BY <1>6, SaveIsolation, ContinueIsolation
<1>7. ASSUME NEW m \in net, Respond(m) PROVE IsolationInv'
  BY <1>7, RespondIsolation
<1>8. ASSUME NEW d \in Drafts, CloseDraft(d) \/ \E t \in Targets : OtherEdit(d, t) PROVE IsolationInv'
  BY <1>8, OthersIsolation
<1>9. CASE UNCHANGED vars
  <2>1. UNCHANGED <<scope, changes, redo, parked, pending, call, snap, net, doc, edits, madeOn>>
    BY <1>9 DEF vars, page, server, history
  <2>2. IsolationKept
    BY <2>1, PartsIsolation DEF IsolationKept
  <2> QED
    BY <2>1, <2>2, IsolationSame
<1> QED
  BY <1>1, <1>2, <1>3, <1>4, <1>5, <1>6, <1>7, <1>8, <1>9 DEF Next

\* An edit made on one draft never reaches another, nor another entity: not by a switch with the
\* snapshot's write due or a save in flight, not by a restored snapshot, a carried pending save, a
\* reload, or a request that arrives after its page is gone.
THEOREM DraftsIsolated == Spec => []DraftIsolated
<1>1. TypeInv /\ IsolationInv => DraftIsolated
  BY DEF DraftIsolated, IsolationInv, Made, MadeBy
<1> QED
  BY <1>1, TypeInit, TypeStep, IsolationInit, IsolationStep, PTL DEF Spec

=============================================================================
