------------------------- MODULE StagedSlicesProofs -------------------------
(***************************************************************************)
(* What an attended draft's slice, its save and its snapshot hold, for a   *)
(* tab that is not left with a save in flight or a snapshot write due:     *)
(* through any number of lost requests and answers, reloads and refusals   *)
(* no edit is lost, and, where nothing is redone, a staged create never    *)
(* loses its parent except by a settled save that then failed.             *)
(***************************************************************************)
EXTENDS StagedSaveProofs, WellFoundedInduction

-----------------------------------------------------------------------------
(* The slice of a draft, wherever it is kept                               *)

\* A draft the user can still come back to, or is on.
Attended(d) == d \in open \/ d = scope

\* What a switch to d, or a reload, finds of its redo stack and its pending save.
Restorable(d) == restoredFor # d /\ snap[d] # NoSnap
HeldRedo(d) == IF scope = d THEN redo ELSE IF Restorable(d) THEN <<>> ELSE parked[d].redo
HeldSave(d) ==
  IF scope = d THEN pending[d]
  ELSE IF Restorable(d) /\ snap[d].save # NoSave THEN snap[d].save ELSE pending[d]

Running == call.phase # "none"

\* What is on its way to d.
LetterOf(m) == [key |-> m.key, ops |-> m.ops]
Letters(d) == {LetterOf(m) : m \in {x \in net : x.draft = d}}

\* The parts of the invariant of one draft d: H, R and S are its changes, redo stack and save, E its
\* entities, C its commits, N the letters on their way to it, made what madeOn says.
Uniq(cs) == \A i, j \in DOMAIN cs : cs[i].target = cs[j].target => i = j
Apart(cs, es) == \A i \in DOMAIN cs, j \in DOMAIN es : cs[i].target # es[j].target
SourcedIn(d, cs, made) ==
  \A i \in DOMAIN cs : cs[i].id \in DOMAIN made /\ made[cs[i].id] = On(d, cs[i].target)
BasedIn(c, E) ==
  /\ c.base <= E[c.target].ver /\ c.conflict <= E[c.target].ver
  /\ c.kind = "update" /\ c.target \notin LayoutOnly => c.base > 0
Listed(d, cs, E, made) ==
  Uniq(cs) /\ SourcedIn(d, cs, made) /\ \A i \in DOMAIN cs : BasedIn(cs[i], E)
Writable(ops, E) ==
  /\ Uniq(ops)
  /\ \A i \in DOMAIN ops : ops[i].kind = "update" =>
       0 < ops[i].base /\ ops[i].base <= E[ops[i].target].ver
EntitiesOk(E) ==
  \A t \in Targets : t \in Existing => E[t].ver > 0
SaveOk(d, S, E, made) ==
  /\ SourcedIn(d, S.sent, made) /\ S.body.ops = Ops(S.sent) /\ Writable(S.body.ops, E)
  /\ S # NoSave => S.key # 0
LettersOk(S, E, C, N) ==
  /\ \A m \in N : m.key # 0 /\ Writable(m.ops, E) /\ (m.key = S.key => m.ops = S.body.ops)
  /\ \A r \in C : /\ r.key # 0 /\ (r.key = S.key => r.ops = S.body.ops)
                  /\ \A i \in DOMAIN r.ops : E[r.ops[i].target].ver > 0
DraftOk(d, H, R, S, E, C, N, made) ==
  /\ Listed(d, H, E, made) /\ Listed(d, R, E, made) /\ Apart(H, R)
  /\ SaveOk(d, S, E, made) /\ LettersOk(S, E, C, N) /\ EntitiesOk(E)

\* Every attended draft is in order.
SliceInv(d) ==
  DraftOk(d, Held(d), HeldRedo(d), HeldSave(d), doc[d], commits[d], Letters(d), madeOn)
SlicesInv == \A d \in Drafts : Attended(d) => SliceInv(d)

\* The page and its snapshots agree, unless a write is due; a save runs for the draft on the canvas
\* or for one that was closed under it.
Synced(d) == Held(d) = snap[d].changes /\ HeldSave(d) = snap[d].save
PageInv ==
  /\ scope \in Drafts => restoredFor = scope
  /\ due => scope \in Drafts /\ changes # <<>>
  /\ applying => scope \in Drafts /\ Running /\ call.scope = scope
  /\ Running /\ ~applying => ~Attended(call.scope)
  /\ \A d \in Drafts : Attended(d) /\ (d # scope \/ ~due) => Synced(d)

\* Edits to come are nobody's; the canvas is never ahead of the draft.
CanvasInv ==
  /\ \A e \in 1 .. MaxEdits : e > edits => madeOn[e].draft = NoDraft
  /\ scope \in Drafts => \A t \in Targets : token[t] <= doc[scope][t].ver

MadeIn(d, ids, made) == \A k \in ids : k \in DOMAIN made /\ made[k].draft = d
AnsweredBy(d, versions) == \A t \in Targets : versions[t] <= doc[d][t].ver

\* A request the page waits for is that of the running save.
LiveInv ==
  \A m \in net : m.live =>
    Running /\ m = Request(call.save, call.scope) /\ call.answer.is = "none"

\* What the running save is about was made on its draft.
CallMade ==
  Running => /\ MadeIn(call.scope, Ids(call.batch), madeOn)
             /\ MadeIn(call.scope, Ids(call.save.sent), madeOn)
             /\ MadeIn(call.scope, call.settled.carried, madeOn)

\* While the panel shows it, the staged list and the pending save are the ones it works on, and what
\* it has been answered is true.
PanelInv ==
  applying =>
    /\ call.save = pending[scope] /\ changes # <<>>
    /\ call.phase = "settle" => changes = call.batch
    /\ call.phase = "send" => Ids(changes) \subseteq Ids(call.batch)
    /\ AnsweredBy(scope, call.answer.versions) /\ AnsweredBy(scope, call.settled.versions)
    /\ call.answer.is = "ok" =>
         /\ call.save.key \in Applied(scope)
         /\ \A i \in DOMAIN call.save.body.ops :
              call.answer.versions[call.save.body.ops[i].target] > 0
    /\ call.phase = "send" => \A i \in DOMAIN changes :
         changes[i].id \in SettledOnly => doc[scope][changes[i].target].ver > 0

SavingInv == PageInv /\ SlicesInv /\ CanvasInv /\ LiveInv /\ CallMade /\ PanelInv

-----------------------------------------------------------------------------
(* Lists                                                                   *)

\* Filtering with nothing to leave out gives the list itself.
LEMMA InOrderAll ==
  ASSUME NEW n \in Nat
  PROVE  InOrder(1 .. n) = [k \in 1 .. n |-> k]
<1> DEFINE f == InOrder(1 .. n)
           T == {k \in 1 .. n : f[k] # k}
<1>1. Cardinality(1 .. n) = n
  BY FS_Interval
<1>2. f \in [1 .. n -> 1 .. n] /\ Increasing(f) /\ \A i \in 1 .. n : \E k \in 1 .. n : f[k] = i
  BY <1>1, InOrderFacts
<1> HIDE DEF f
<1>3. \A a, b \in 1 .. n : a < b => f[a] < f[b]
  BY <1>2 DEF Increasing
<1>4. T = {}
  <2> SUFFICES ASSUME T # {} PROVE FALSE
    OBVIOUS
  <2>1. PICK m \in T : \A y \in T : ~ (<<y, m>> \in OpToRel(<, Nat))
    <3>1. T \in SUBSET Nat
      OBVIOUS
    <3>2. IsWellFoundedOn(OpToRel(<, Nat), Nat)
      BY NatLessThanWellFounded
    <3> HIDE DEF T
    <3> QED
      BY <3>1, <3>2, WFMin
  <2>2. m \in 1 .. n /\ f[m] # m /\ f[m] \in 1 .. n
    BY <1>2
  <2>3. ASSUME NEW k \in 1 .. n, k < m PROVE f[k] = k
    <3> SUFFICES ASSUME f[k] # k PROVE FALSE
      OBVIOUS
    <3>1. k \in T /\ k \in Nat /\ m \in Nat
      BY <2>2
    <3>2. <<k, m>> \in OpToRel(<, Nat)
      BY <2>3, <3>1 DEF OpToRel
    <3> QED
      BY <2>1, <3>1, <3>2
  <2>4. ~ (f[m] < m)
    <3> SUFFICES ASSUME f[m] < m PROVE FALSE
      OBVIOUS
    <3>1. f[f[m]] = f[m]
      BY <2>2, <2>3
    <3>2. f[f[m]] < f[m]
      BY <2>2, <1>3
    <3> QED
      BY <2>2, <3>1, <3>2
  <2>5. PICK k \in 1 .. n : f[k] = m
    BY <1>2, <2>2
  <2>6. k = m \/ k < m \/ m < k
    BY <2>2
  <2>7. m < k => f[m] < f[k]
    BY <1>3, <2>2
  <2> QED
    BY <2>2, <2>3, <2>4, <2>5, <2>6, <2>7
<1>5. \A k \in 1 .. n : f[k] = k
  BY <1>4
<1> QED
  BY <1>2, <1>5 DEF f

LEMMA SansNone ==
  ASSUME NEW T, NEW cs \in Seq(T), NEW ids, \A i \in DOMAIN cs : cs[i].id \notin ids
  PROVE  Sans(cs, ids) = cs
<1>1. Len(cs) \in Nat /\ DOMAIN cs = 1 .. Len(cs) /\ cs \in [1 .. Len(cs) -> T]
  BY SeqParts
<1>2. {i \in DOMAIN cs : cs[i].id \notin ids} = 1 .. Len(cs)
  BY <1>1
<1>3. Sans(cs, ids) = Kept(cs, 1 .. Len(cs))
  BY <1>2 DEF Sans
<1>4. InOrder(1 .. Len(cs)) = [k \in 1 .. Len(cs) |-> k]
  BY <1>1, InOrderAll
<1>5. Kept(cs, 1 .. Len(cs)) = [k \in 1 .. Len(cs) |-> cs[k]]
  BY <1>4 DEF Kept
<1> QED
  BY <1>1, <1>3, <1>5

LEMMA SansAll ==
  ASSUME NEW T, NEW cs \in Seq(T), NEW ids, \A i \in DOMAIN cs : cs[i].id \in ids
  PROVE  Sans(cs, ids) = <<>>
<1>1. Sans(cs, ids) \in Seq(T) /\ DOMAIN Sans(cs, ids) = {}
  BY SansFacts
<1> QED
  BY <1>1, SeqParts

\* A list cut short: a filter, or what is left without the last one.
Cut(ks, cs) ==
  /\ \A k \in DOMAIN ks : \E i \in DOMAIN cs : ks[k] = cs[i]
  /\ \A k, l \in DOMAIN ks : k < l => \E i, j \in DOMAIN cs : i < j /\ ks[k] = cs[i] /\ ks[l] = cs[j]

LEMMA SansCut ==
  ASSUME NEW T, NEW cs \in Seq(T), NEW ids
  PROVE  Sans(cs, ids) \in Seq(T) /\ Cut(Sans(cs, ids), cs)
<1> DEFINE S == {i \in DOMAIN cs : cs[i].id \notin ids}
<1>1. Kept(cs, S) \in Seq(T) /\ Keeps(Kept(cs, S), cs, S)
  BY KeptFacts
<1>2. Sans(cs, ids) = Kept(cs, S) /\ S \subseteq DOMAIN cs
  BY DEF Sans
<1> HIDE DEF S
<1> QED
  BY <1>1, <1>2 DEF Keeps, Cut

LEMMA FrontCut ==
  ASSUME NEW T, NEW cs \in Seq(T), cs # <<>>
  PROVE  LET ks == SubSeq(cs, 1, Len(cs) - 1)
         IN  /\ ks \in Seq(T) /\ Cut(ks, cs) /\ DOMAIN ks = 1 .. (Len(cs) - 1)
             /\ \A k \in DOMAIN ks : ks[k] = cs[k] /\ k \in DOMAIN cs /\ k # Len(cs)
<1>1. Len(cs) \in Nat /\ DOMAIN cs = 1 .. Len(cs) /\ Len(cs) > 0
  BY SeqParts
<1> DEFINE ks == SubSeq(cs, 1, Len(cs) - 1)
<1>2. ks \in Seq(T) /\ Len(ks) = Len(cs) - 1 /\ \A k \in 1 .. (Len(cs) - 1) : ks[k] = cs[k]
  BY <1>1, SubSeqProperties
<1>3. DOMAIN ks = 1 .. (Len(cs) - 1)
  BY <1>2, SeqParts
<1> HIDE DEF ks
<1>4. Cut(ks, cs)
  BY <1>1, <1>2, <1>3 DEF Cut
<1>5. \A k \in DOMAIN ks : ks[k] = cs[k] /\ k \in DOMAIN cs /\ k # Len(cs)
  BY <1>1, <1>2, <1>3
<1> QED
  BY <1>2, <1>3, <1>4, <1>5 DEF ks

LEMMA UniqCut ==
  ASSUME NEW T, NEW cs \in Seq(T), NEW ks \in Seq(T), Cut(ks, cs), Uniq(cs)
  PROVE  Uniq(ks)
<1>1. Len(ks) \in Nat /\ DOMAIN ks = 1 .. Len(ks) /\ Len(cs) \in Nat /\ DOMAIN cs = 1 .. Len(cs)
  BY SeqParts
<1>2. ASSUME NEW k \in DOMAIN ks, NEW l \in DOMAIN ks, k < l PROVE ks[k].target # ks[l].target
  <2>1. PICK i \in DOMAIN cs, j \in DOMAIN cs : i < j /\ ks[k] = cs[i] /\ ks[l] = cs[j]
    BY <1>2 DEF Cut
  <2>2. i # j
    BY <1>1, <2>1
  <2> QED
    BY <2>1, <2>2 DEF Uniq
<1>3. \A k, l \in DOMAIN ks : k = l \/ k < l \/ l < k
  BY <1>1
<1> QED
  BY <1>2, <1>3 DEF Uniq

LEMMA ListedCut ==
  ASSUME NEW cs \in Seq(Change), NEW ks \in Seq(Change), Cut(ks, cs), NEW d, NEW E, NEW made,
         Listed(d, cs, E, made)
  PROVE  Listed(d, ks, E, made)
<1>1. Uniq(ks)
  BY UniqCut DEF Listed
<1>2. \A k \in DOMAIN ks : \E i \in DOMAIN cs : ks[k] = cs[i]
  BY DEF Cut
<1> QED
  BY <1>1, <1>2 DEF Listed, SourcedIn

LEMMA ListedAlike ==
  ASSUME NEW cs, NEW es, DOMAIN es = DOMAIN cs, NEW d, NEW E, NEW made, Listed(d, cs, E, made),
         \A i \in DOMAIN cs : es[i].target = cs[i].target /\ es[i].id = cs[i].id /\ BasedIn(es[i], E)
  PROVE  Listed(d, es, E, made)
BY DEF Listed, Uniq, SourcedIn

LEMMA ListedAppend ==
  ASSUME NEW cs \in Seq(Change), NEW c \in Change, NEW d, NEW E, NEW made, Listed(d, cs, E, made),
         c.id \in DOMAIN made /\ made[c.id] = On(d, c.target), BasedIn(c, E),
         \A i \in DOMAIN cs : cs[i].target # c.target
  PROVE  Listed(d, Append(cs, c), E, made)
<1> DEFINE es == Append(cs, c)
<1>1. Len(cs) \in Nat /\ DOMAIN cs = 1 .. Len(cs)
  BY SeqParts
<1>2. /\ es \in Seq(Change) /\ Len(es) = Len(cs) + 1 /\ es[Len(cs) + 1] = c
      /\ \A i \in 1 .. Len(cs) : es[i] = cs[i]
  BY AppendProperties
<1>3. DOMAIN es = 1 .. Len(cs) + 1
  BY <1>2, SeqParts
<1> HIDE DEF es
<1>4. \A i \in DOMAIN es : (i \in DOMAIN cs /\ es[i] = cs[i]) \/ (i = Len(cs) + 1 /\ es[i] = c)
  BY <1>1, <1>2, <1>3
<1>5. Uniq(es)
  BY <1>4 DEF Listed, Uniq
<1> QED
  BY <1>4, <1>5 DEF Listed, SourcedIn, es

\* Entities only gain versions.
Grown(E, F) == \A t \in Targets : E[t].ver <= F[t].ver
IsMap(E) == E \in [Targets -> Entity]

LEMMA ListedGrown ==
  ASSUME NEW cs \in Seq(Change), NEW d, NEW E, NEW F, NEW made, IsMap(E), IsMap(F), Grown(E, F),
         Listed(d, cs, E, made)
  PROVE  Listed(d, cs, F, made)
<1>1. \A i \in DOMAIN cs : cs[i] \in Change
  BY SeqParts
<1>2. ASSUME NEW i \in DOMAIN cs PROVE BasedIn(cs[i], F)
  <2>1. cs[i].target \in Targets /\ cs[i].base \in Nat /\ cs[i].conflict \in Nat
    BY <1>1 DEF Change
  <2>2. /\ E[cs[i].target].ver \in Nat /\ F[cs[i].target].ver \in Nat
        /\ E[cs[i].target].ver <= F[cs[i].target].ver
    BY <2>1 DEF IsMap, Entity, Grown
  <2> QED
    BY <2>1, <2>2 DEF Listed, BasedIn
<1> QED
  BY <1>2 DEF Listed

LEMMA WritableGrown ==
  ASSUME NEW ops \in Seq(Op), NEW E, NEW F, IsMap(E), IsMap(F), Grown(E, F), Writable(ops, E)
  PROVE  Writable(ops, F)
<1>1. \A i \in DOMAIN ops : ops[i] \in Op
  BY SeqParts
<1>2. ASSUME NEW i \in DOMAIN ops, ops[i].kind = "update" PROVE ops[i].base <= F[ops[i].target].ver
  <2>1. ops[i].target \in Targets /\ ops[i].base \in Nat
    BY <1>1 DEF Op
  <2>2. /\ E[ops[i].target].ver \in Nat /\ F[ops[i].target].ver \in Nat
        /\ E[ops[i].target].ver <= F[ops[i].target].ver
    BY <2>1 DEF IsMap, Entity, Grown
  <2> QED
    BY <2>1, <2>2, <1>2 DEF Writable
<1> QED
  BY <1>2 DEF Writable

\* What was made on d stays so.
Remade(d, made, made2) ==
  \A k \in DOMAIN made : made[k].draft = d => k \in DOMAIN made2 /\ made2[k] = made[k]

LEMMA ListedRemade ==
  ASSUME NEW cs, NEW d, NEW E, NEW made, NEW made2, Remade(d, made, made2)
  PROVE  /\ SourcedIn(d, cs, made) => SourcedIn(d, cs, made2)
         /\ Listed(d, cs, E, made) => Listed(d, cs, E, made2)
<1>1. SourcedIn(d, cs, made) => SourcedIn(d, cs, made2)
  <2> SUFFICES ASSUME SourcedIn(d, cs, made), NEW i \in DOMAIN cs
               PROVE  cs[i].id \in DOMAIN made2 /\ made2[cs[i].id] = On(d, cs[i].target)
    BY DEF SourcedIn
  <2>1. cs[i].id \in DOMAIN made /\ made[cs[i].id] = On(d, cs[i].target)
    BY DEF SourcedIn
  <2>2. made[cs[i].id].draft = d
    BY <2>1 DEF On
  <2> QED
    BY <2>1, <2>2 DEF Remade
<1> QED
  BY <1>1 DEF Listed

\* The ops of a list that is in order can be written.
LEMMA OpsWritable ==
  ASSUME NEW cs \in Seq(Change), NEW d, NEW E, NEW made, Listed(d, cs, E, made)
  PROVE  Writable(Ops(cs), E)
<1> DEFINE S == {i \in DOMAIN cs : cs[i].target \notin LayoutOnly}
           K == Kept(cs, S)
<1>1. K \in Seq(Change) /\ Keeps(K, cs, S) /\ S \subseteq DOMAIN cs
  BY KeptFacts
<1>2. Ops(cs) = [k \in DOMAIN K |-> OpOf(K[k])]
  BY DEF Ops, Map, OpOf
<1>3. Cut(K, cs)
  <2> HIDE DEF S, K
  <2> QED
    BY <1>1 DEF Keeps, Cut
<1>4. \A k \in DOMAIN K : K[k].target \notin LayoutOnly
  BY <1>1 DEF Keeps
<1> HIDE DEF K
<1>5. Listed(d, K, E, made)
  BY <1>1, <1>3, ListedCut
<1>6. Uniq(Ops(cs))
  BY <1>2, <1>5 DEF Listed, Uniq, OpOf
<1>7. \A k \in DOMAIN K : K[k] \in Change
  BY <1>1, SeqParts
<1>8. ASSUME NEW k \in DOMAIN K, K[k].kind = "update"
      PROVE  0 < K[k].base /\ K[k].base <= E[K[k].target].ver
  BY <1>4, <1>5, <1>8 DEF Listed, BasedIn
<1> QED
  BY <1>2, <1>6, <1>8 DEF Writable, OpOf

LEMMA NoOps == Ops(<<>>) = <<>>
<1>1. <<>> \in Seq(Change) /\ DOMAIN <<>> = {}
  BY EmptySeq
<1>2. Ops(<<>>) \in Seq(Op) /\ DOMAIN Ops(<<>>) = {}
  BY <1>1, OpsFacts
<1> QED
  BY <1>2, SeqParts

LEMMA EmptyOk ==
  ASSUME NEW d, NEW E, NEW made
  PROVE  /\ Listed(d, <<>>, E, made) /\ SaveOk(d, NoSave, E, made)
         /\ \A cs : Apart(cs, <<>>) /\ Apart(<<>>, cs)
<1>1. DOMAIN <<>> = {}
  BY EmptySeq
<1> QED
  BY <1>1, NoOps DEF Listed, Uniq, SourcedIn, Apart, SaveOk, Writable, NoSave

-----------------------------------------------------------------------------
(* One draft's part, step by step                                          *)

LEMMA DraftKept ==
  ASSUME NEW d, NEW H, NEW R, NEW S, NEW E, NEW C, NEW N, NEW made,
         DraftOk(d, H, R, S, E, C, N, made),
         NEW R2 \in {R, <<>>}, NEW N2 \in SUBSET N, NEW made2, Remade(d, made, made2)
  PROVE  DraftOk(d, H, R2, S, E, C, N2, made2)
<1>1. Listed(d, H, E, made2) /\ Listed(d, R2, E, made2) /\ SourcedIn(d, S.sent, made2)
  BY ListedRemade, EmptyOk DEF DraftOk, SaveOk
<1>2. Apart(H, R2)
  BY EmptyOk DEF DraftOk
<1> QED
  BY <1>1, <1>2 DEF DraftOk, SaveOk, LettersOk

LEMMA DraftEdited ==
  ASSUME NEW d, NEW H, NEW R, NEW S, NEW E, NEW C, NEW N, NEW made,
         DraftOk(d, H, R, S, E, C, N, made),
         NEW H2, NEW R2, Listed(d, H2, E, made), Listed(d, R2, E, made), Apart(H2, R2),
         NEW S2 \in {S, NoSave}
  PROVE  DraftOk(d, H2, R2, S2, E, C, N, made)
<1>1. SaveOk(d, S2, E, made)
  BY EmptyOk DEF DraftOk
<1>2. LettersOk(S2, E, C, N)
  BY DEF DraftOk, LettersOk, NoSave
<1> QED
  BY <1>1, <1>2 DEF DraftOk

\* The server wrote: a letter that arrived is now a commit.
LEMMA DraftWritten ==
  ASSUME NEW d, NEW H \in Seq(Change), NEW R \in Seq(Change), NEW S \in PendingSave, NEW E, NEW F,
         NEW C, NEW N \in SUBSET Commit, NEW made, DraftOk(d, H, R, S, E, C, N, made),
         C \subseteq Commit, IsMap(E), IsMap(F), Grown(E, F), EntitiesOk(F), NEW N2 \in SUBSET N,
         NEW C2 \in SUBSET Commit,
         \A r \in C2 : r \in C \/ (r \in N /\ \A i \in DOMAIN r.ops : F[r.ops[i].target].ver > 0)
  PROVE  DraftOk(d, H, R, S, F, C2, N2, made)
<1>1. Listed(d, H, F, made) /\ Listed(d, R, F, made)
  BY ListedGrown DEF DraftOk
<1>2. S.body.ops \in Seq(Op) /\ \A m \in Commit : m.ops \in Seq(Op)
  BY DEF PendingSave, Body, Commit
<1>3. SaveOk(d, S, F, made)
  BY <1>2, WritableGrown DEF DraftOk, SaveOk
<1>4. ASSUME NEW m \in N2
      PROVE  m.key # 0 /\ Writable(m.ops, F) /\ (m.key = S.key => m.ops = S.body.ops)
  BY <1>2, WritableGrown DEF DraftOk, LettersOk
<1>5. ASSUME NEW r \in C2
      PROVE  /\ r.key # 0 /\ (r.key = S.key => r.ops = S.body.ops)
             /\ \A i \in DOMAIN r.ops : F[r.ops[i].target].ver > 0
  <2>1. CASE r \in C
    <3>1. /\ r.key # 0 /\ (r.key = S.key => r.ops = S.body.ops)
          /\ \A i \in DOMAIN r.ops : E[r.ops[i].target].ver > 0
      BY <2>1 DEF DraftOk, LettersOk
    <3>2. ASSUME NEW i \in DOMAIN r.ops PROVE F[r.ops[i].target].ver > 0
      <4>1. r.ops[i] \in Op
        BY <1>2, SeqParts
      <4>2. r.ops[i].target \in Targets
        BY <4>1 DEF Op
      <4>3. E[r.ops[i].target].ver > 0
        BY <3>1
      <4> QED
        BY <4>2, <4>3 DEF IsMap, Entity, Grown
    <3> QED
      BY <3>1, <3>2
  <2>2. CASE r \in N /\ \A i \in DOMAIN r.ops : F[r.ops[i].target].ver > 0
    BY <2>2 DEF DraftOk, LettersOk
  <2> QED
    BY <2>1, <2>2
<1> QED
  BY <1>1, <1>3, <1>4, <1>5 DEF DraftOk, LettersOk

\* A save is sent: under a key of its own, or the pending one again.
LEMMA DraftSent ==
  ASSUME NEW d, NEW H, NEW R, NEW S, NEW E, NEW C, NEW N, NEW made,
         DraftOk(d, H, R, S, E, C, N, made),
         NEW H2, Listed(d, H2, E, made), Apart(H2, R),
         NEW S2, SaveOk(d, S2, E, made), S2.key # 0,
         \/ S2.key = S.key /\ S2.body = S.body
         \/ (\A m \in N : m.key # S2.key) /\ (\A r \in C : r.key # S2.key),
         NEW N2, \A m \in N2 : m \in N \/ (m.key = S2.key /\ m.ops = S2.body.ops)
  PROVE  DraftOk(d, H2, R, S2, E, C, N2, made)
<1>1. LettersOk(S2, E, C, N2)
  BY DEF DraftOk, SaveOk, LettersOk
<1> QED
  BY <1>1 DEF DraftOk

-----------------------------------------------------------------------------
(* Steps that leave a draft's slice where it is                            *)

LEMMA HeldTypes ==
  ASSUME TypeInv, NEW d \in Drafts
  PROVE  /\ Held(d) \in Seq(Change) /\ HeldRedo(d) \in Seq(Change) /\ HeldSave(d) \in PendingSave
         /\ Letters(d) \subseteq Commit /\ commits[d] \subseteq Commit /\ IsMap(doc[d])
         /\ wanted[d] \in [Targets -> Nat] /\ DOMAIN madeOn = 1 .. MaxEdits /\ d \in Scopes
<1>1. TypeOK /\ <<>> \in Seq(Change) /\ d \in Scopes
  BY BaseTypes DEF TypeInv, Scopes
<1>2. Held(d) \in Seq(Change) /\ HeldRedo(d) \in Seq(Change)
  BY <1>1, TypeParts DEF Held, HeldRedo, Slice, SnapRec
<1>3. HeldSave(d) \in PendingSave
  BY <1>1, TypeParts DEF HeldSave, SnapRec
<1>4. \A m \in net : LetterOf(m) \in Commit
  BY <1>1, TypeParts DEF LetterOf, RequestRec, Commit
<1>5. Letters(d) \subseteq Commit
  BY <1>4 DEF Letters
<1> QED
  BY <1>1, <1>2, <1>3, <1>5, TypeParts DEF IsMap

\* A step moves neither the slice of d nor what the server has of it.
Quiet(d) ==
  /\ Held(d)' = Held(d) /\ HeldSave(d)' = HeldSave(d) /\ HeldRedo(d)' \in {HeldRedo(d), <<>>}
Unmoved(d) ==
  /\ Quiet(d) /\ Letters(d)' \subseteq Letters(d)
  /\ doc'[d] = doc[d] /\ commits'[d] = commits[d] /\ wanted'[d] = wanted[d]

LEMMA UnmovedSlice ==
  ASSUME NEW d \in Drafts, SliceInv(d), Unmoved(d), Remade(d, madeOn, madeOn')
  PROVE  SliceInv(d)'
<1>1. SliceInv(d)' <=>
        DraftOk(d, Held(d)', HeldRedo(d)', HeldSave(d)', doc'[d], commits'[d], Letters(d)', madeOn')
  BY DEF SliceInv
<1>2. DraftOk(d, Held(d), HeldRedo(d), HeldSave(d), doc[d], commits[d], Letters(d), madeOn)
  BY DEF SliceInv
<1>3. /\ Held(d)' = Held(d) /\ HeldSave(d)' = HeldSave(d) /\ HeldRedo(d)' \in {HeldRedo(d), <<>>}
      /\ Letters(d)' \in SUBSET Letters(d) /\ doc'[d] = doc[d] /\ commits'[d] = commits[d]
  BY DEF Unmoved, Quiet
<1>4. DraftOk(d, Held(d), HeldRedo(d)', HeldSave(d), doc[d], commits[d], Letters(d)', madeOn')
  BY <1>2, <1>3, DraftKept
<1> QED
  BY <1>1, <1>3, <1>4

LEMMA SameMade ==
  ASSUME madeOn' = madeOn
  PROVE  \A d : Remade(d, madeOn, madeOn')
BY DEF Remade

LEMMA SameLetters ==
  ASSUME net' = net
  PROVE  \A d : Letters(d)' = Letters(d)
BY DEF Letters, LetterOf

\* A switch, or an eviction: the slice parked, restored or loaded is the one that was held.
LEMMA ActivateMoves ==
  ASSUME TypeInv, PageInv, NEW s \in Scopes, Activate(s), s # scope, s \in Drafts => s \in open,
         (~due /\ ~applying) \/ (s = Published /\ scope \notin open)
  PROVE  PageInv' /\ \A d \in Drafts : Attended(d)' => Attended(d) /\ Unmoved(d)
<1>1. /\ scope' = s /\ changes' = Loaded(s).changes /\ redo' = Loaded(s).redo
      /\ parked' = [Parked EXCEPT ![s] = EmptySlice] /\ restoredFor' = RestoredFor(s)
      /\ pending' = IF Restores(s) /\ snap[s].save # NoSave
                    THEN [pending EXCEPT ![s] = snap[s].save] ELSE pending
      /\ applying' = FALSE /\ due' = FALSE
      /\ UNCHANGED <<snap, call, net, open, doc, commits, wanted>>
  BY DEF Activate, server, history
<1>2. /\ parked \in [Scopes -> Slice] /\ pending \in Saves /\ scope \in Scopes
      /\ Published \notin Drafts /\ open \subseteq Drafts /\ Drafts \subseteq Scopes
  BY TypeParts, StagedSaveAssumption DEF TypeInv, Saves, Scopes
<1>3. ASSUME NEW d \in Drafts, Attended(d)' PROVE d \in open /\ Attended(d) /\ Synced(d)
  <2>1. d \in open
    BY <1>1, <1>2, <1>3 DEF Attended
  <2>2. d = scope => ~due
    BY <1>2, <2>1
  <2> QED
    BY <2>1, <2>2 DEF PageInv, Attended
<1>4. ASSUME NEW d \in Drafts, d \in open, Synced(d) PROVE Quiet(d)
  <2>1. d \in Scopes /\ parked[d] \in Slice /\ pending[d] \in PendingSave
    BY <1>2 DEF Saves
  <2>2. CASE d = s
    <3>1. Parked[d] = parked[d]
      BY <1>2, <2>2 DEF Parked
    <3>2. Held(d)' = changes' /\ HeldRedo(d)' = redo' /\ HeldSave(d)' = pending'[d]
      BY <1>1, <2>2 DEF Held, HeldRedo, HeldSave
    <3>3. Restores(d) <=> Restorable(d)
      BY DEF Restores, Restorable
    <3>4. pending'[d] = IF Restorable(d) /\ snap[d].save # NoSave THEN snap[d].save ELSE pending[d]
      BY <1>1, <1>2, <2>1, <2>2, <3>3 DEF Saves
    <3>5. HeldSave(d) = pending'[d]
      BY <3>4, <2>2 DEF HeldSave
    <3>6. changes' = Held(d) /\ redo' = HeldRedo(d)
      BY <1>1, <2>2, <3>1, <3>3 DEF Held, HeldRedo, Loaded, Restorable
    <3> QED
      BY <3>2, <3>5, <3>6 DEF Quiet
  <2>3. CASE d # s
    <3>1. /\ parked'[d] = Parked[d] /\ pending'[d] = pending[d] /\ scope' # d
          /\ snap' = snap /\ restoredFor' \in {restoredFor, s}
      BY <1>1, <1>2, <2>1, <2>3 DEF Parked, Saves, RestoredFor
    <3>2. CASE d = scope
      <4>1. Parked[d] = [changes |-> changes, redo |-> redo]
        BY <1>2, <3>2 DEF Parked
      <4>2. Held(d) = changes /\ HeldRedo(d) = redo /\ HeldSave(d) = pending[d]
        BY <3>2 DEF Held, HeldRedo, HeldSave
      <4>3. snap[d].changes = changes /\ snap[d].save = pending[d]
        BY <4>2, <1>4 DEF Synced
      <4> QED
        BY <3>1, <4>1, <4>2, <4>3, <2>3, <3>2 DEF Quiet, Held, HeldRedo, HeldSave, Restorable
    <3>3. CASE d # scope
      <4>1. Parked[d] = parked[d]
        BY <1>2, <3>3 DEF Parked
      <4> QED
        BY <3>1, <3>3, <4>1, <1>4, <2>3
        DEF Quiet, Held, HeldRedo, HeldSave, Restorable, Synced
    <3> QED
      BY <3>2, <3>3
  <2> QED
    BY <2>2, <2>3
<1>5. ASSUME NEW d \in Drafts, Attended(d)' PROVE Attended(d) /\ Unmoved(d) /\ Synced(d)'
  <2>1. d \in open /\ Attended(d) /\ Synced(d)
    BY <1>3, <1>5
  <2>2. Quiet(d)
    BY <1>4, <2>1
  <2>3. Letters(d)' = Letters(d)
    BY <1>1, SameLetters
  <2>4. Synced(d)' <=> Held(d)' = snap'[d].changes /\ HeldSave(d)' = snap'[d].save
    BY DEF Synced
  <2> QED
    BY <1>1, <2>1, <2>2, <2>3, <2>4 DEF Unmoved, Quiet, Synced
<1>6. ASSUME Running' PROVE ~Attended(call.scope)'
  <2>1. Running /\ call.scope \in Drafts
    BY <1>1, <1>6 DEF Running, TypeInv
  <2>2. CASE applying
    BY <1>1, <1>2, <2>1, <2>2 DEF PageInv, Attended
  <2>3. CASE ~applying
    BY <1>1, <2>1, <2>3 DEF PageInv, Attended
  <2> QED
    BY <1>1, <2>2, <2>3
<1>7. scope' \in Drafts => restoredFor' = scope'
  BY <1>1 DEF RestoredFor
<1>8. PageInv'
  BY <1>1, <1>5, <1>6, <1>7 DEF PageInv
<1> QED
  BY <1>5, <1>8

LEMMA WriteSnapshotMoves ==
  ASSUME TypeInv, PageInv, WriteSnapshot
  PROVE  PageInv' /\ \A d \in Drafts : Attended(d)' => Attended(d) /\ Unmoved(d)
<1>1. /\ due /\ scope \in Drafts /\ snap' = [snap EXCEPT ![scope] = Snapshot] /\ due' = FALSE
      /\ UNCHANGED <<scope, changes, redo, parked, applying, pending, restoredFor, call, net,
                     open, doc, commits, wanted>>
  BY DEF WriteSnapshot, server, history
<1>2. snap \in Snaps
  BY TypeParts DEF TypeInv, Snaps
<1>3. ASSUME NEW d \in Drafts PROVE (Attended(d)' <=> Attended(d)) /\ Unmoved(d)
  <2>1. d # scope => snap'[d] = snap[d]
    BY <1>1, <1>2 DEF Snaps
  <2>2. Quiet(d)
    BY <1>1, <2>1 DEF Quiet, Held, HeldRedo, HeldSave, Restorable
  <2>3. Letters(d)' = Letters(d)
    BY <1>1, SameLetters
  <2> QED
    BY <1>1, <2>2, <2>3 DEF Attended, Unmoved
<1>4. ASSUME NEW d \in Drafts, Attended(d)' PROVE Synced(d)'
  <2>1. Synced(d)' <=> Held(d)' = snap'[d].changes /\ HeldSave(d)' = snap'[d].save
    BY DEF Synced
  <2>2. CASE d = scope
    <3>1. snap'[d] = Snapshot
      BY <1>1, <1>2, <2>2 DEF Snaps
    <3> QED
      BY <1>1, <2>1, <2>2, <3>1 DEF Held, HeldSave, Snapshot
  <2>3. CASE d # scope
    <3>1. snap'[d] = snap[d] /\ Synced(d) /\ Quiet(d)
      BY <1>1, <1>2, <1>3, <1>4, <2>3 DEF Snaps, PageInv, Unmoved
    <3> QED
      BY <2>1, <3>1 DEF Synced, Quiet
  <2> QED
    BY <2>2, <2>3
<1>5. (Running' <=> Running) /\ (Attended(call.scope)' <=> Attended(call.scope))
  BY <1>1 DEF Running, Attended
<1>6. PageInv'
  BY <1>1, <1>4, <1>5 DEF PageInv
<1> QED
  BY <1>3, <1>6

LEMMA ReloadMoves ==
  ASSUME TypeInv, PageInv, Reload
  PROVE  PageInv' /\ \A d \in Drafts : Attended(d)' => Attended(d) /\ Unmoved(d)
<1>1. /\ snap' = IF scope \in Drafts /\ changes # <<>>
                 THEN [snap EXCEPT ![scope] = Snapshot] ELSE snap
      /\ scope' = Published /\ changes' = <<>> /\ redo' = <<>>
      /\ parked' = [x \in Scopes |-> EmptySlice] /\ applying' = FALSE /\ due' = FALSE
      /\ restoredFor' = NoDraft /\ call' = NoCall /\ pending' = [x \in Scopes |-> NoSave]
      /\ net' = {[m EXCEPT !.live = FALSE] : m \in net} /\ UNCHANGED <<open, doc, commits, wanted>>
  BY DEF Reload, server, history
<1>2. /\ snap \in Snaps /\ net \subseteq RequestRec /\ open \subseteq Drafts
      /\ Published \notin Drafts /\ NoDraft \notin Drafts /\ Drafts \subseteq Scopes
  BY TypeParts, StagedSaveAssumption DEF TypeInv, Snaps, Scopes
<1>3. ASSUME NEW d \in Drafts, Attended(d)' PROVE Attended(d) /\ Quiet(d) /\ Synced(d)'
  <2>1. d \in open /\ Attended(d)
    BY <1>1, <1>2, <1>3 DEF Attended
  <2>2. /\ Held(d)' = IF snap'[d] # NoSnap THEN snap'[d].changes ELSE <<>>
        /\ HeldSave(d)' = IF snap'[d] # NoSnap /\ snap'[d].save # NoSave THEN snap'[d].save
                          ELSE NoSave
        /\ HeldRedo(d)' = <<>>
    BY <1>1, <1>2 DEF Held, HeldSave, HeldRedo, Restorable, EmptySlice
  <2>3. Held(d)' = snap'[d].changes /\ HeldSave(d)' = snap'[d].save
    BY <2>2 DEF NoSnap
  <2>4. Held(d) = snap'[d].changes /\ HeldSave(d) = snap'[d].save
    <3>1. CASE d = scope /\ changes # <<>>
      <4>1. snap'[d] = [changes |-> changes, save |-> pending[d]]
        BY <1>1, <1>2, <3>1 DEF Snaps, Snapshot
      <4> QED
        BY <3>1, <4>1 DEF Held, HeldSave
    <3>2. CASE ~ (d = scope /\ changes # <<>>)
      <4>1. snap'[d] = snap[d]
        BY <1>1, <1>2, <3>2 DEF Snaps
      <4>2. Synced(d)
        BY <2>1, <3>2 DEF PageInv
      <4> QED
        BY <4>1, <4>2 DEF Synced
    <3> QED
      BY <3>1, <3>2
  <2> QED
    BY <2>1, <2>2, <2>3, <2>4 DEF Quiet, Synced
<1>4. ASSUME NEW d \in Drafts PROVE Letters(d)' \subseteq Letters(d)
  <2> SUFFICES ASSUME NEW m \in net', m.draft = d PROVE LetterOf(m) \in Letters(d)
    BY DEF Letters
  <2>1. PICK n \in net : m = [n EXCEPT !.live = FALSE]
    BY <1>1
  <2>2. n \in RequestRec
    BY <1>2
  <2>3. m.key = n.key /\ m.ops = n.ops /\ m.draft = n.draft
    BY <2>1, <2>2 DEF RequestRec
  <2> QED
    BY <2>3 DEF Letters, LetterOf
<1>5. ASSUME NEW d \in Drafts, Attended(d)' PROVE Attended(d) /\ Unmoved(d)
  BY <1>1, <1>3, <1>4, <1>5 DEF Unmoved
<1>6. ~Running' /\ scope' \notin Drafts
  BY <1>1, <1>2 DEF Running, NoCall
<1>7. PageInv'
  BY <1>1, <1>3, <1>6 DEF PageInv
<1> QED
  BY <1>5, <1>7

\* Navigation, the snapshot and the page's life: nothing held is touched.
LEMMA MovesOnly ==
  ASSUME TypeInv, PageInv, ~Hasty,
         WriteSnapshot \/ Reload \/ Evict \/ \E s \in Scopes : SwitchTo(s)
  PROVE  PageInv' /\ \A d \in Drafts : Attended(d)' => Attended(d) /\ Unmoved(d)
<1>1. CASE Evict
  <2>1. Published \in Scopes /\ Published # scope /\ Published \notin Drafts /\ scope \notin open
        /\ Activate(Published)
    BY <1>1, StagedSaveAssumption DEF Evict, Scopes
  <2> QED
    BY <2>1, ActivateMoves
<1>2. ASSUME NEW s \in Scopes, SwitchTo(s)
      PROVE  PageInv' /\ \A d \in Drafts : Attended(d)' => Attended(d) /\ Unmoved(d)
  BY <1>2, ActivateMoves DEF SwitchTo
<1> QED
  BY <1>1, <1>2, WriteSnapshotMoves, ReloadMoves

-----------------------------------------------------------------------------
(* Steps on the list on the canvas                                         *)

LEMMA NotifyEffect ==
  ASSUME scope \in Drafts, NEW cs, NEW saves \in Saves, NEW snaps \in Snaps, Notify(cs, saves, snaps)
  PROVE  /\ due' <=> cs # <<>>
         /\ pending'[scope] = IF cs = <<>> THEN NoSave ELSE saves[scope]
         /\ \A d \in Drafts : d # scope => pending'[d] = saves[d] /\ snap'[d] = snaps[d]
         /\ cs = <<>> => snap'[scope] = NoSnap
<1>1. scope \in Scopes /\ Drafts \subseteq Scopes
  BY DEF Scopes
<1> QED
  BY <1>1 DEF Notify, Saves, Snaps

\* A list edit, and the end of a save: the subscriber hears of it, the other drafts do not.
LEMMA ListMoves ==
  ASSUME TypeInv, PageInv, scope \in Drafts,
         NEW saves \in Saves, \A d \in Drafts : d # scope => saves[d] = pending[d],
         Notify(changes', saves, snap), UNCHANGED <<scope, parked, restoredFor, net, server>>,
         applying' = FALSE, (call' = call /\ ~applying) \/ call' = NoCall,
         \A d \in Drafts : d # scope => wanted'[d] = wanted[d]
  PROVE  /\ PageInv'
         /\ \A d \in Drafts : Attended(d)' =>
              /\ Attended(d) /\ (d # scope => Unmoved(d))
              /\ Letters(d)' = Letters(d) /\ doc'[d] = doc[d] /\ commits'[d] = commits[d]
         /\ Held(scope)' = changes' /\ HeldRedo(scope)' = redo'
         /\ HeldSave(scope)' = IF changes' = <<>> THEN NoSave ELSE saves[scope]
<1>1. UNCHANGED <<scope, parked, restoredFor, net, open, doc, commits>>
  BY DEF server
<1>2. snap \in Snaps
  BY TypeParts DEF TypeInv, Snaps
<1>3. /\ due' <=> changes' # <<>>
      /\ pending'[scope] = IF changes' = <<>> THEN NoSave ELSE saves[scope]
      /\ \A d \in Drafts : d # scope => pending'[d] = saves[d] /\ snap'[d] = snap[d]
      /\ changes' = <<>> => snap'[scope] = NoSnap
  BY <1>2, NotifyEffect
<1>4. Held(scope)' = changes' /\ HeldRedo(scope)' = redo' /\ HeldSave(scope)' = pending'[scope]
  BY <1>1 DEF Held, HeldRedo, HeldSave
<1>5. ASSUME NEW d \in Drafts
      PROVE  /\ Attended(d)' => Attended(d) /\ (d # scope => Unmoved(d))
             /\ Letters(d)' = Letters(d) /\ doc'[d] = doc[d] /\ commits'[d] = commits[d]
  <2>1. d # scope => pending'[d] = pending[d] /\ snap'[d] = snap[d]
    BY <1>3
  <2>2. d # scope => Quiet(d)
    BY <1>1, <2>1 DEF Quiet, Held, HeldRedo, HeldSave, Restorable
  <2> QED
    BY <1>1, <2>2, SameLetters DEF Attended, Unmoved
<1>6. ASSUME NEW d \in Drafts, Attended(d)', d # scope' \/ ~due' PROVE Synced(d)'
  <2>1. Synced(d)' <=> Held(d)' = snap'[d].changes /\ HeldSave(d)' = snap'[d].save
    BY DEF Synced
  <2>2. CASE d = scope
    <3>1. changes' = <<>> /\ snap'[d] = NoSnap /\ pending'[d] = NoSave
      BY <1>1, <1>3, <1>6, <2>2
    <3> QED
      BY <1>4, <2>1, <2>2, <3>1 DEF NoSnap
  <2>3. CASE d # scope
    <3>1. Quiet(d) /\ Synced(d) /\ snap'[d] = snap[d]
      BY <1>3, <1>5, <1>6, <2>3 DEF PageInv, Unmoved
    <3> QED
      BY <2>1, <3>1 DEF Quiet, Synced
  <2> QED
    BY <2>2, <2>3
<1>7. Running' /\ ~applying' => ~Attended(call.scope)'
  <2>1. Running' => call' = call /\ ~applying /\ Running
    BY DEF Running, NoCall
  <2> QED
    BY <1>1, <2>1 DEF PageInv, Attended
<1>8. PageInv'
  BY <1>1, <1>3, <1>6, <1>7 DEF PageInv
<1> QED
  BY <1>1, <1>3, <1>4, <1>5, <1>8

LEMMA MoreLetters ==
  ASSUME NEW save, NEW e, net' = net \cup {Request(save, e)}, NEW d
  PROVE  Letters(d)' = IF d = e THEN Letters(d) \cup {LetterOf(Request(save, e))} ELSE Letters(d)
<1> DEFINE q == Request(save, e)
<1>1. q.draft = e
  BY DEF Request
<1> HIDE DEF q
<1>2. net' = net \cup {q}
  BY DEF q
<1>3. Letters(d)' = {LetterOf(m) : m \in {x \in net' : x.draft = d}}
  BY DEF Letters, LetterOf
<1>4. {x \in net' : x.draft = d} = {x \in net : x.draft = d} \cup (IF d = e THEN {q} ELSE {})
  BY <1>1, <1>2
<1>5. Letters(d)' = IF d = e THEN Letters(d) \cup {LetterOf(q)} ELSE Letters(d)
  BY <1>3, <1>4 DEF Letters
<1> QED
  BY <1>5 DEF q

\* A save is sent for the draft on the canvas.
SaveOf(rest, batch, prior) ==
  [key |-> KeyFor(BodyOf(rest, batch), prior), body |-> BodyOf(rest, batch), sent |-> rest]

LEMMA SendMoves ==
  ASSUME TypeInv, PageInv, scope \in Drafts, changes # <<>>,
         NEW saves \in Saves, \A d \in Drafts : d # scope => saves[d] = pending[d],
         NEW rest, NEW batch, NEW settled, Send(rest, batch, scope, saves, settled),
         UNCHANGED <<scope, parked, restoredFor, server, wanted>>, applying' = TRUE,
         due' \in BOOLEAN, ~due' => ~due /\ changes' = changes, changes' # <<>>
  PROVE  /\ PageInv'
         /\ \A d \in Drafts : Attended(d)' =>
              /\ Attended(d) /\ (d # scope => Unmoved(d))
              /\ doc'[d] = doc[d] /\ commits'[d] = commits[d]
         /\ Held(scope)' = changes' /\ HeldRedo(scope)' = redo'
         /\ HeldSave(scope)' = SaveOf(rest, batch, saves[scope])
         /\ Letters(scope)' =
              Letters(scope) \cup {LetterOf(Request(SaveOf(rest, batch, saves[scope]), scope))}
<1> DEFINE save == SaveOf(rest, batch, saves[scope])
<1>1. /\ pending' = [saves EXCEPT ![scope] = save]
      /\ snap' = IF snap[scope] = NoSnap THEN snap ELSE [snap EXCEPT ![scope].save = save]
      /\ net' = net \cup {Request(save, scope)}
      /\ call'.phase = "send" /\ call'.scope = scope
      /\ UNCHANGED <<scope, parked, restoredFor, open, doc, commits, wanted>>
  BY DEF Send, SaveOf, server
<1> HIDE DEF save
<1>2. snap \in Snaps /\ Drafts \subseteq Scopes
  BY TypeParts DEF TypeInv, Snaps, Scopes
<1>3. /\ pending'[scope] = save
      /\ \A d \in Drafts : d # scope => pending'[d] = pending[d] /\ snap'[d] = snap[d]
  BY <1>1, <1>2 DEF Saves, Snaps
<1>4. Held(scope)' = changes' /\ HeldRedo(scope)' = redo' /\ HeldSave(scope)' = save
  BY <1>1, <1>3 DEF Held, HeldRedo, HeldSave
<1>5. ASSUME NEW d \in Drafts
      PROVE  Letters(d)' = IF d = scope THEN Letters(d) \cup {LetterOf(Request(save, scope))}
                           ELSE Letters(d)
  BY <1>1, MoreLetters
<1>6. ASSUME NEW d \in Drafts
      PROVE  /\ Attended(d)' => Attended(d) /\ (d # scope => Unmoved(d))
             /\ doc'[d] = doc[d] /\ commits'[d] = commits[d]
  <2>1. d # scope => Quiet(d)
    BY <1>1, <1>3 DEF Quiet, Held, HeldRedo, HeldSave, Restorable
  <2> QED
    BY <1>1, <1>5, <2>1 DEF Attended, Unmoved
<1>7. ASSUME NEW d \in Drafts, Attended(d)', d # scope' \/ ~due' PROVE Synced(d)'
  <2>1. Synced(d)' <=> Held(d)' = snap'[d].changes /\ HeldSave(d)' = snap'[d].save
    BY DEF Synced
  <2>2. CASE d = scope
    <3>1. ~due /\ changes' = changes
      BY <1>1, <1>7, <2>2
    <3>2. snap[d].changes = changes
      BY <2>2, <3>1 DEF PageInv, Synced, Attended, Held
    <3>3. snap[d] # NoSnap
      BY <3>2 DEF NoSnap
    <3>4. snap'[d].changes = changes /\ snap'[d].save = save
      BY <1>1, <1>2, <2>2, <3>2, <3>3 DEF Snaps, SnapRec
    <3> QED
      BY <1>4, <2>1, <2>2, <3>1, <3>4
  <2>3. CASE d # scope
    <3>1. Quiet(d) /\ Synced(d) /\ snap'[d] = snap[d]
      BY <1>1, <1>3, <1>6, <1>7, <2>3 DEF PageInv, Unmoved
    <3> QED
      BY <2>1, <3>1 DEF Quiet, Synced
  <2> QED
    BY <2>2, <2>3
<1>8. Running' /\ call.scope' = scope'
  BY <1>1 DEF Running
<1>9. PageInv'
  BY <1>1, <1>7, <1>8 DEF PageInv
<1> QED
  BY <1>4, <1>5, <1>6, <1>9 DEF save

\* The pending save is sent again, to learn what became of it.
SettleStart ==
  /\ Editable /\ changes # <<>> /\ call = NoCall /\ Ops(changes) # <<>>
  /\ MustSettle(pending[scope], changes)
  /\ net' = net \cup {Request(pending[scope], scope)}
  /\ call' = [NoCall EXCEPT !.phase = "settle", !.scope = scope, !.batch = changes,
                            !.save = pending[scope]]
  /\ applying' = TRUE
  /\ UNCHANGED <<pending, snap, changes, redo, due, scope, parked, token, restoredFor, server, spent,
                 history>>

LEMMA SettleStartMoves ==
  ASSUME TypeInv, PageInv, SettleStart
  PROVE  /\ PageInv' /\ scope \in Drafts
         /\ \A d \in Drafts : Attended(d)' =>
              /\ Attended(d) /\ Quiet(d) /\ (d # scope => Unmoved(d))
              /\ doc'[d] = doc[d] /\ commits'[d] = commits[d]
         /\ Letters(scope)' = Letters(scope) \cup {LetterOf(Request(pending[scope], scope))}
<1>1. /\ net' = net \cup {Request(pending[scope], scope)} /\ call'.phase = "settle"
      /\ call'.scope = scope /\ applying' = TRUE /\ scope \in Drafts
      /\ UNCHANGED <<pending, snap, changes, redo, due, scope, parked, restoredFor,
                     open, doc, commits, wanted>>
  BY DEF SettleStart, server, history, Editable, NoCall
<1>2. ASSUME NEW d \in Drafts
      PROVE  Letters(d)' = IF d = scope
                           THEN Letters(d) \cup {LetterOf(Request(pending[scope], scope))}
                           ELSE Letters(d)
  BY <1>1, MoreLetters
<1>3. ASSUME NEW d \in Drafts PROVE Quiet(d) /\ (Attended(d)' <=> Attended(d))
  BY <1>1 DEF Quiet, Held, HeldRedo, HeldSave, Restorable, Attended
<1>4. ASSUME NEW d \in Drafts, Attended(d)', d # scope' \/ ~due' PROVE Synced(d)'
  <2>1. Synced(d)' <=> Held(d)' = snap'[d].changes /\ HeldSave(d)' = snap'[d].save
    BY DEF Synced
  <2> QED
    BY <1>1, <1>3, <1>4, <2>1 DEF PageInv, Synced, Quiet
<1>5. Running' /\ call.scope' = scope'
  BY <1>1 DEF Running
<1>6. PageInv'
  BY <1>1, <1>4, <1>5 DEF PageInv
<1> QED
  BY <1>1, <1>2, <1>3, <1>6 DEF Unmoved

\* The server's steps leave the page alone, but for the answer.
ServerStep ==
  \/ \E m \in net : Respond(m)
  \/ \E d \in Drafts : CloseDraft(d) \/ \E t \in Targets : OtherEdit(d, t)

LEMMA ServerMoves ==
  ASSUME TypeInv, PageInv, ServerStep
  PROVE  /\ PageInv'
         /\ \A d \in Drafts : Attended(d)' =>
              /\ Attended(d) /\ Quiet(d) /\ Letters(d)' \subseteq Letters(d) /\ wanted'[d] = wanted[d]
         /\ UNCHANGED <<scope, changes, redo, applying, pending, due, token, edits, madeOn, minted>>
         /\ call' = call \/ \E a : call' = [call EXCEPT !.answer = a]
<1>1. /\ UNCHANGED <<scope, changes, redo, parked, applying, token, pending, due, restoredFor, snap,
                     edits, minted, wanted, madeOn>>
      /\ open' \subseteq open /\ net' \subseteq net
      /\ call' = call \/ \E a : call' = [call EXCEPT !.answer = a]
  BY DEF ServerStep, Respond, Replay, Apply, Refuse, Violate, Drop, Answer, ServerUnchanged, CloseDraft,
         OtherEdit, page, server, history
<1>2. call \in CallRec
  BY CallParts
<1>3. (Running' <=> Running) /\ call.scope' = call.scope
  BY <1>1, <1>2 DEF Running, CallRec
<1>4. ASSUME NEW d \in Drafts
      PROVE  Quiet(d) /\ Letters(d)' \subseteq Letters(d) /\ (Attended(d)' => Attended(d))
  BY <1>1 DEF Quiet, Held, HeldRedo, HeldSave, Restorable, Attended, Letters, LetterOf
<1>5. ASSUME NEW d \in Drafts, Attended(d)', d # scope' \/ ~due' PROVE Synced(d)'
  <2>1. Synced(d)' <=> Held(d)' = snap'[d].changes /\ HeldSave(d)' = snap'[d].save
    BY DEF Synced
  <2> QED
    BY <1>1, <1>4, <1>5, <2>1 DEF PageInv, Synced, Quiet
<1>6. ~Attended(call.scope) => ~Attended(call.scope)'
  BY <1>1, <1>3 DEF Attended
<1>7. PageInv'
  BY <1>1, <1>3, <1>5, <1>6 DEF PageInv
<1> QED
  BY <1>1, <1>4, <1>7

-----------------------------------------------------------------------------
(* A save whose draft was closed under it                                  *)

\* Nothing of it is staged on the draft on the canvas now.
LEMMA ForeignIds ==
  ASSUME TypeInv, SlicesInv, CallMade, Running, scope \in Drafts, call.scope # scope
  PROVE  /\ \A ids : ids \subseteq Ids(call.batch) \/ ids \subseteq call.settled.carried
                     => Cleared(ids) = changes
         /\ RebasedSeq(changes) = changes /\ MarkedSeq(changes) = changes
<1>1. changes \in Seq(Change)
  BY TypeParts DEF TypeInv
<1>2. SourcedIn(scope, changes, madeOn)
  BY DEF SlicesInv, Attended, SliceInv, DraftOk, Listed, Held
<1>3. ASSUME NEW i \in DOMAIN changes
      PROVE  /\ changes[i].id \notin Ids(call.batch) /\ changes[i].id \notin Ids(call.save.sent)
             /\ changes[i].id \notin call.settled.carried
  <2>1. madeOn[changes[i].id] = On(scope, changes[i].target)
    BY <1>2 DEF SourcedIn
  <2>2. madeOn[changes[i].id].draft = scope
    BY <2>1 DEF On
  <2> QED
    BY <2>2 DEF CallMade, MadeIn
<1>4. ASSUME NEW ids, ids \subseteq Ids(call.batch) \/ ids \subseteq call.settled.carried
      PROVE  Cleared(ids) = changes
  <2>1. \A i \in DOMAIN changes : changes[i].id \notin ids
    BY <1>3, <1>4
  <2> QED
    BY <1>1, <2>1, SansNone DEF Cleared
<1>5. EditedIn \subseteq Ids(call.batch)
  BY DEF EditedIn, EditedSince, Ids
<1>6. \A i \in DOMAIN changes : OnTop(changes[i]) = changes[i] /\ ConflictOn(changes[i]) = changes[i]
  BY <1>3, <1>5 DEF OnTop, ConflictOn
<1>7. changes = [i \in DOMAIN changes |-> changes[i]]
  BY <1>1, SeqParts
<1>8. RebasedSeq(changes) = changes /\ MarkedSeq(changes) = changes
  BY <1>6, <1>7 DEF RebasedSeq, MarkedSeq
<1> QED
  BY <1>4, <1>8

LEMMA ForeignMoves ==
  ASSUME TypeInv, PageInv, SlicesInv, CallMade, Continue, ~applying
  PROVE  /\ PageInv' /\ (\A d \in Drafts : Attended(d)' => Attended(d) /\ Unmoved(d))
         /\ applying' = FALSE /\ UNCHANGED <<scope, token, madeOn, edits, doc, wanted>>
         /\ scope \in Drafts => changes' = changes
<1> DEFINE e == call.scope
           saves == [pending EXCEPT ![e] = NoSave]
<1>1. Running /\ e \in Drafts /\ ~Attended(e) /\ e # scope
  <2>1. Running
    BY DEF Continue, SettleLost, SettleRefused, SettleApplied, SendApplied, SendFailed, Answered, Running
  <2> QED
    BY <2>1 DEF Running, TypeInv, PageInv, Attended
<1>2. pending \in Saves /\ saves \in Saves /\ snap \in Snaps /\ Drafts \subseteq Scopes
  BY TypeParts, WithoutPending, BaseTypes DEF TypeInv, Saves, Snaps, Scopes
<1>3. \A d \in Drafts : d # e => saves[d] = pending[d]
  BY <1>2 DEF Saves
<1> HIDE DEF saves
\* What each continuation comes to.
<1>4. ASSUME NEW cs, NEW svs \in Saves, \A d \in Drafts : d # e => svs[d] = pending[d],
             Done(cs, svs, snap), scope \in Drafts => cs = changes
      PROVE  /\ (scope \in Drafts => changes' = changes) /\ due' = due /\ applying' = FALSE
             /\ net' = net /\ call' = NoCall
             /\ \A d \in Drafts : d # e => pending'[d] = pending[d] /\ snap'[d] = snap[d]
  <2>1. /\ changes' = cs /\ applying' = FALSE /\ call' = NoCall /\ net' = net
        /\ pending' = svs /\ snap' = snap /\ due' = due
    BY <1>4 DEF Done, Notify
  <2> QED
    BY <1>4, <2>1
<1>5. ASSUME NEW svs \in Saves, \A d \in Drafts : d # e => svs[d] = pending[d],
             NEW rest, NEW settled, Send(rest, call.batch, e, svs, settled)
      PROVE  /\ \A d \in Drafts : d # e => pending'[d] = pending[d] /\ snap'[d] = snap[d]
             /\ call'.phase = "send" /\ call'.scope = e
             /\ \E save : net' = net \cup {Request(save, e)}
  BY <1>2, <1>5 DEF Send, Saves, Snaps
<1>6. /\ UNCHANGED <<scope, parked, restoredFor, token, madeOn, edits, open, doc, commits, wanted>>
      /\ redo' \in {redo, <<>>} /\ due' = due /\ applying' = FALSE
      /\ scope \in Drafts => changes' = changes
      /\ \A d \in Drafts : d # e => pending'[d] = pending[d] /\ snap'[d] = snap[d]
      /\ call' = NoCall \/ (call'.phase = "send" /\ call'.scope = e)
      /\ net' = net \/ \E save : net' = net \cup {Request(save, e)}
  <2>1. CASE SettleLost
    <3>1. /\ Done(changes, pending, snap)
          /\ UNCHANGED <<scope, redo, parked, token, restoredFor, server, spent, history>>
      BY <2>1 DEF SettleLost
    <3> QED
      BY <1>2, <1>4, <3>1 DEF server, history
  <2>2. CASE SettleRefused
    <3>1. /\ Send(call.batch, call.batch, e, saves, NotSettled)
          /\ UNCHANGED <<scope, changes, redo, parked, applying, token, due, restoredFor, server, spent,
                         history>>
      BY <2>2 DEF SettleRefused, saves
    <3> QED
      BY <1>2, <1>3, <1>5, <3>1 DEF server, history
  <2>3. CASE SettleApplied
    <3>1. /\ UNCHANGED <<scope, parked, restoredFor, server, spent, history>>
          /\ \/ /\ Done(Cleared(Ids(call.batch)), saves, snap) /\ redo' = <<>>
                /\ Reconcile(e, call.batch, call.answer.versions)
             \/ /\ changes' = RebasedSeq(changes)
                /\ due' = (due \/ (changes' # changes /\ scope \in Drafts))
                /\ \E settled : Send(Rest, call.batch, e, saves, settled)
                /\ UNCHANGED <<redo, token, applying>>
      BY <2>3, SettleAppliedEffect DEF saves
    <3>2. CASE /\ Done(Cleared(Ids(call.batch)), saves, snap) /\ redo' = <<>>
               /\ Reconcile(e, call.batch, call.answer.versions)
      <4>1. scope \in Drafts => Cleared(Ids(call.batch)) = changes
        BY <1>1, ForeignIds
      <4>2. token' = token
        BY <1>1, <3>2 DEF Reconcile
      <4> QED
        BY <1>2, <1>3, <1>4, <3>1, <3>2, <4>1, <4>2 DEF server, history
    <3>3. CASE /\ changes' = RebasedSeq(changes)
               /\ due' = (due \/ (changes' # changes /\ scope \in Drafts))
               /\ \E settled : Send(Rest, call.batch, e, saves, settled)
               /\ UNCHANGED <<redo, token, applying>>
      <4>1. (scope \in Drafts => changes' = changes) /\ due' = due
        <5>1. due \in BOOLEAN
          BY TypeParts DEF TypeInv
        <5> QED
          BY <1>1, <3>3, <5>1, ForeignIds
      <4> QED
        BY <1>2, <1>3, <1>5, <3>1, <3>3, <4>1 DEF server, history
    <3> QED
      BY <3>1, <3>2, <3>3
  <2>4. CASE SendApplied
    <3>1. /\ Done(Cleared(Ids(call.batch)), saves, snap) /\ redo' = <<>>
          /\ Reconcile(e, call.batch, call.answer.versions)
          /\ UNCHANGED <<scope, parked, restoredFor, server, spent, history>>
      BY <2>4 DEF SendApplied, saves
    <3>2. (scope \in Drafts => Cleared(Ids(call.batch)) = changes) /\ token' = token
      BY <1>1, <3>1, ForeignIds DEF Reconcile
    <3> QED
      BY <1>2, <1>3, <1>4, <3>1, <3>2 DEF server, history
  <2>5. CASE SendFailed
    <3>1. /\ UNCHANGED <<scope, parked, restoredFor, server, spent, history>>
          /\ \/ Done(MarkedSeq(Cleared(SettledOnly)), pending, snap)
             \/ Done(MarkedSeq(Cleared(SettledOnly)), saves, snap)
          /\ redo' \in {redo, <<>>}
      BY <2>5, SendFailedEffect DEF saves
    <3>2. scope \in Drafts => MarkedSeq(Cleared(SettledOnly)) = changes
      <4>1. SettledOnly \subseteq call.settled.carried
        BY DEF SettledOnly
      <4> QED
        BY <1>1, <4>1, ForeignIds
    <3>3. token' = token
      BY <1>1, <2>5, SendFailedEffect DEF Reconcile
    <3> QED
      BY <1>2, <1>3, <1>4, <3>1, <3>2, <3>3 DEF server, history
  <2> QED
    BY <2>1, <2>2, <2>3, <2>4, <2>5 DEF Continue
<1> HIDE DEF e
<1>7. ASSUME NEW d \in Drafts, Attended(d)' PROVE Attended(d) /\ d # e /\ Unmoved(d)
  <2>1. Attended(d)
    BY <1>6, <1>7 DEF Attended
  <2>2. d # e
    BY <1>1, <2>1 DEF e
  <2>3. Quiet(d)
    <3>1. pending'[d] = pending[d] /\ snap'[d] = snap[d] /\ (scope = d => changes' = changes)
      BY <1>6, <2>2
    <3> QED
      BY <1>6, <3>1 DEF Quiet, Held, HeldRedo, HeldSave, Restorable
  <2>4. Letters(d)' = Letters(d)
    BY <1>6, <2>2, SameLetters, MoreLetters
  <2> QED
    BY <1>6, <2>1, <2>2, <2>3, <2>4 DEF Unmoved
<1>8. ASSUME NEW d \in Drafts, Attended(d)', d # scope' \/ ~due' PROVE Synced(d)'
  <2>1. Synced(d)' <=> Held(d)' = snap'[d].changes /\ HeldSave(d)' = snap'[d].save
    BY DEF Synced
  <2>2. Synced(d) /\ Quiet(d) /\ snap'[d] = snap[d]
    BY <1>6, <1>7, <1>8 DEF PageInv, Unmoved
  <2> QED
    BY <2>1, <2>2 DEF Synced, Quiet
<1>9. Running' => ~Attended(call.scope)'
  <2>1. Running' => call'.scope = e
    BY <1>6 DEF Running, NoCall
  <2> QED
    BY <1>1, <1>6, <2>1 DEF Attended, e
<1>10. PageInv'
  BY <1>6, <1>8, <1>9 DEF PageInv
<1> QED
  BY <1>6, <1>7, <1>10

-----------------------------------------------------------------------------
(* The staged list edited                                                  *)

LEMMA Canvas ==
  ASSUME TypeInv, SlicesInv, scope \in Drafts
  PROVE  /\ Attended(scope) /\ Held(scope) = changes /\ HeldRedo(scope) = redo
         /\ HeldSave(scope) = pending[scope]
         /\ DraftOk(scope, changes, redo, pending[scope], doc[scope], commits[scope],
                    Letters(scope), madeOn)
         /\ changes \in Seq(Change) /\ redo \in Seq(Change) /\ pending[scope] \in PendingSave
BY HeldTypes DEF SlicesInv, SliceInv, Attended, Held, HeldRedo, HeldSave

\* The other drafts are left alone; this one gets a list and a redo stack in order.
LEMMA ListSlices ==
  ASSUME TypeInv, SlicesInv, scope \in Drafts, scope' = scope,
         \A d \in Drafts : Attended(d)' =>
           /\ Attended(d) /\ (d # scope => Unmoved(d))
           /\ Letters(d)' = Letters(d) /\ doc'[d] = doc[d] /\ commits'[d] = commits[d],
         Held(scope)' = changes', HeldRedo(scope)' = redo',
         HeldSave(scope)' \in {pending[scope], NoSave},
         \A d \in Drafts : Remade(d, madeOn, madeOn'),
         Listed(scope, changes', doc[scope], madeOn'), Listed(scope, redo', doc[scope], madeOn'),
         Apart(changes', redo')
  PROVE  SlicesInv'
<1>1. ASSUME NEW d \in Drafts, Attended(d)' PROVE SliceInv(d)'
  <2>1. CASE d # scope
    BY <1>1, <2>1, UnmovedSlice DEF SlicesInv
  <2>2. CASE d = scope
    <3>1. DraftOk(d, changes, redo, pending[d], doc[d], commits[d], Letters(d), madeOn)
      BY <2>2, Canvas
    <3>2. DraftOk(d, changes, redo, pending[d], doc[d], commits[d], Letters(d), madeOn')
      BY <3>1, DraftKept
    <3>3. DraftOk(d, changes', redo', HeldSave(d)', doc[d], commits[d], Letters(d), madeOn')
      <4> DEFINE m2 == madeOn'
                 H2 == changes'
                 R2 == redo'
                 S2 == HeldSave(scope)'
      <4>1. /\ DraftOk(d, changes, redo, pending[d], doc[d], commits[d], Letters(d), m2)
            /\ Listed(d, H2, doc[d], m2) /\ Listed(d, R2, doc[d], m2) /\ Apart(H2, R2)
            /\ S2 \in {pending[d], NoSave} /\ S2 = HeldSave(d)'
        BY <3>2, <2>2
      <4> HIDE DEF m2, H2, R2, S2
      <4>2. DraftOk(d, H2, R2, S2, doc[d], commits[d], Letters(d), m2)
        BY <4>1, DraftEdited
      <4> QED
        BY <4>1, <4>2 DEF m2, H2, R2
    <3>4. SliceInv(d)' <=>
            DraftOk(d, Held(d)', HeldRedo(d)', HeldSave(d)', doc'[d], commits'[d], Letters(d)', madeOn')
      BY DEF SliceInv
    <3> QED
      BY <1>1, <2>2, <3>3, <3>4
  <2> QED
    BY <2>1, <2>2
<1> QED
  BY <1>1 DEF SlicesInv

\* An edit of the list on the canvas.
EditStep ==
  /\ Editable /\ Notify(changes', pending, snap)
  /\ UNCHANGED <<scope, parked, applying, restoredFor, call, net, server>>
  /\ \A d \in Drafts : d # scope => wanted'[d] = wanted[d]

LEMMA EditStepMoves ==
  ASSUME TypeInv, PageInv, EditStep
  PROVE  /\ PageInv' /\ scope' = scope /\ scope \in Drafts /\ applying' = FALSE
         /\ \A d \in Drafts : Attended(d)' =>
              /\ Attended(d) /\ (d # scope => Unmoved(d))
              /\ Letters(d)' = Letters(d) /\ doc'[d] = doc[d] /\ commits'[d] = commits[d]
         /\ Held(scope)' = changes' /\ HeldRedo(scope)' = redo'
         /\ HeldSave(scope)' = IF changes' = <<>> THEN NoSave ELSE pending[scope]
<1>1. pending \in Saves
  BY TypeParts DEF TypeInv, Saves
<1>2. scope \in Drafts /\ ~applying /\ applying' = FALSE /\ scope' = scope
  BY TypeParts DEF EditStep, Editable, TypeInv
<1>3. /\ Notify(changes', pending, snap) /\ UNCHANGED <<scope, parked, restoredFor, net, server>>
      /\ call' = call /\ \A d \in Drafts : d # scope => wanted'[d] = wanted[d]
  BY DEF EditStep
<1> QED
  BY <1>1, <1>2, <1>3, ListMoves

LEMMA EditStepSlices ==
  ASSUME TypeInv, PageInv, SlicesInv, EditStep, \A d \in Drafts : Remade(d, madeOn, madeOn'),
         Listed(scope, changes', doc[scope], madeOn'), Listed(scope, redo', doc[scope], madeOn'),
         Apart(changes', redo')
  PROVE  SlicesInv'
BY EditStepMoves, ListSlices

LEMMA AppendParts ==
  ASSUME NEW T, NEW cs \in Seq(T), NEW c \in T
  PROVE  /\ Append(cs, c) \in Seq(T)
         /\ \A k \in DOMAIN Append(cs, c) :
              \/ k \in DOMAIN cs /\ Append(cs, c)[k] = cs[k]
              \/ k = Len(cs) + 1 /\ Append(cs, c)[k] = c
         /\ \A k \in DOMAIN cs : k \in DOMAIN Append(cs, c) /\ k < Len(cs) + 1 /\ Append(cs, c)[k] = cs[k]
         /\ Len(cs) + 1 \in DOMAIN Append(cs, c) /\ Append(cs, c)[Len(cs) + 1] = c
<1> DEFINE es == Append(cs, c)
<1>1. Len(cs) \in Nat /\ DOMAIN cs = 1 .. Len(cs)
  BY SeqParts
<1>2. /\ es \in Seq(T) /\ Len(es) = Len(cs) + 1 /\ es[Len(cs) + 1] = c
      /\ \A i \in 1 .. Len(cs) : es[i] = cs[i]
  BY AppendProperties
<1>3. DOMAIN es = 1 .. Len(cs) + 1
  BY <1>2, SeqParts
<1> HIDE DEF es
<1>4. \A k \in DOMAIN es : (k \in DOMAIN cs /\ es[k] = cs[k]) \/ (k = Len(cs) + 1 /\ es[k] = c)
  BY <1>1, <1>2, <1>3
<1>5. \A k \in DOMAIN cs : k \in DOMAIN es /\ k < Len(cs) + 1 /\ es[k] = cs[k]
  BY <1>1, <1>2, <1>3
<1>6. Len(cs) + 1 \in DOMAIN es
  BY <1>1, <1>3
<1> QED
  BY <1>2, <1>4, <1>5, <1>6 DEF es

\* What goes on the redo stack was staged, and is not there any more.
LEMMA PushedOk ==
  ASSUME TypeInv, NEW d, NEW E, NEW made, Listed(d, changes, E, made), Listed(d, redo, E, made),
         Apart(changes, redo), NEW i \in DOMAIN changes,
         NEW ks, \A k \in DOMAIN ks : \E j \in DOMAIN changes : j # i /\ ks[k] = changes[j]
  PROVE  Listed(d, Pushed(changes[i]), E, made) /\ Apart(ks, Pushed(changes[i])) /\ Apart(ks, redo)
<1> DEFINE c == changes[i]
<1>1. c \in Change /\ redo \in Seq(Change)
  BY TypeParts, SeqParts DEF TypeInv
<1>2. \A k \in DOMAIN redo : redo[k].target # c.target
  BY DEF Apart
<1>3. c.id \in DOMAIN made /\ made[c.id] = On(d, c.target) /\ BasedIn(c, E)
  BY DEF Listed, SourcedIn
<1>4. \A k \in DOMAIN ks : ks[k].target # c.target
  BY DEF Listed, Uniq
<1>5. Apart(ks, redo)
  BY DEF Apart
<1> HIDE DEF c
<1>6. Listed(d, Append(redo, c), E, made)
  BY <1>1, <1>2, <1>3, ListedAppend
<1>7. Apart(ks, Append(redo, c))
  <2> DEFINE es == Append(redo, c)
  <2>1. \A k \in DOMAIN es : (k \in DOMAIN redo /\ es[k] = redo[k]) \/ es[k] = c
    BY <1>1, AppendParts
  <2> HIDE DEF es
  <2>2. Apart(ks, es)
    BY <1>4, <1>5, <2>1 DEF Apart
  <2> QED
    BY <2>2 DEF es
<1>8. Listed(d, Pushed(c), E, made) /\ Apart(ks, Pushed(c))
  BY <1>6, <1>7, EmptyOk DEF Pushed
<1> QED
  BY <1>5, <1>8 DEF c

\* A new edit.
LEMMA EditListed ==
  ASSUME TypeInv, SlicesInv, CanvasInv, NEW t \in Targets, Edit(t)
  PROVE  /\ EditStep /\ (\A d \in Drafts : Remade(d, madeOn, madeOn'))
         /\ Listed(scope, changes', doc[scope], madeOn') /\ Listed(scope, redo', doc[scope], madeOn')
         /\ Apart(changes', redo') /\ CanvasInv'
<1> DEFINE e == edits + 1
           at == Staging(changes, t)
           d == scope
           E == doc[d]
           made2 == madeOn'
<1>1. /\ edits \in Nat /\ edits < MaxEdits /\ MaxEdits \in Nat /\ d \in Drafts
      /\ DOMAIN madeOn = 1 .. MaxEdits
      /\ wanted \in [Drafts -> [Targets -> Nat]] /\ IsMap(E) /\ token \in [Targets -> Nat]
  BY TypeParts, StagedSaveAssumption, HeldTypes DEF Edit, Editable, TypeInv
<1>2. /\ wanted' = [wanted EXCEPT ![d][t] = IF t \in LayoutOnly THEN 0 ELSE e] /\ edits' = e
      /\ madeOn' = [madeOn EXCEPT ![e] = On(d, t)]
      /\ UNCHANGED <<scope, parked, applying, token, restoredFor, call, net, server>>
  BY DEF Edit, On
<1>3. EditStep
  <2>1. \A x \in Drafts : x # d => wanted'[x] = wanted[x]
    BY <1>1, <1>2
  <2> QED
    BY <1>2, <2>1 DEF Edit, EditStep
<1>4. /\ DOMAIN made2 = DOMAIN madeOn /\ e \in DOMAIN madeOn /\ made2[e] = On(d, t)
      /\ \A k \in DOMAIN madeOn : k # e => made2[k] = madeOn[k]
  BY <1>1, <1>2
<1>5. madeOn[e].draft = NoDraft /\ e > edits
  BY <1>1 DEF CanvasInv
<1>6. ASSUME NEW x \in Drafts PROVE Remade(x, madeOn, made2)
  <2>1. x # NoDraft
    BY StagedSaveAssumption DEF Scopes
  <2> HIDE DEF made2, e
  <2> QED
    BY <1>4, <1>5, <2>1 DEF Remade
<1>7. CanvasInv'
  <2>1. ASSUME NEW k \in 1 .. MaxEdits, k > e PROVE made2[k].draft = NoDraft
    <3>1. k > edits /\ k # e
      BY <1>1, <2>1
    <3> QED
      BY <1>1, <1>4, <3>1 DEF CanvasInv
  <2>2. d \in Drafts => \A x \in Targets : token[x] <= doc[d][x].ver
    BY DEF CanvasInv
  <2>3. CanvasInv' <=> /\ \A k \in 1 .. MaxEdits : k > e => made2[k].draft = NoDraft
                       /\ scope' \in Drafts => \A x \in Targets : token'[x] <= doc'[scope'][x].ver
    BY <1>2 DEF CanvasInv
  <2> QED
    BY <1>2, <2>1, <2>2, <2>3 DEF server
<1> HIDE DEF made2
<1>8. /\ Listed(d, changes, E, made2) /\ Listed(d, redo, E, made2) /\ Apart(changes, redo)
      /\ changes \in Seq(Change)
  <2>1. Listed(d, changes, E, madeOn) /\ Listed(d, redo, E, madeOn) /\ Apart(changes, redo)
    BY <1>1, Canvas DEF DraftOk
  <2> QED
    BY <1>1, <1>6, <2>1, Canvas, ListedRemade
<1>9. CASE at # {}
  <2> DEFINE i == CHOOSE k \in at : TRUE
  <2>1. i \in DOMAIN changes /\ changes' = [changes EXCEPT ![i].after = e] /\ redo' = redo
    BY <1>9 DEF Edit, Staging, Replaced
  <2> HIDE DEF i
  <2>2. \A k \in DOMAIN changes : changes[k] \in Change
    BY <1>8, SeqParts
  <2>3. DOMAIN changes' = DOMAIN changes
    BY <2>1
  <2>4. ASSUME NEW k \in DOMAIN changes
        PROVE  /\ changes'[k].target = changes[k].target /\ changes'[k].id = changes[k].id
               /\ BasedIn(changes'[k], E)
    <3>1. /\ changes'[k].target = changes[k].target /\ changes'[k].id = changes[k].id
          /\ changes'[k].base = changes[k].base /\ changes'[k].conflict = changes[k].conflict
          /\ changes'[k].kind = changes[k].kind
      BY <2>1, <2>2 DEF Change
    <3>2. BasedIn(changes[k], E)
      BY <1>8 DEF Listed
    <3> QED
      BY <3>1, <3>2 DEF BasedIn
  <2>5. Listed(d, changes', E, made2)
    BY <1>8, <2>3, <2>4, ListedAlike
  <2>6. Apart(changes', redo')
    BY <1>8, <2>1, <2>3, <2>4 DEF Apart
  <2> QED
    BY <1>3, <1>6, <1>7, <1>8, <2>1, <2>5, <2>6 DEF made2
<1>10. CASE at = {}
  <2>0. PICK u \in Naming : changes' = Append(changes, NewChange(t, u, e)) /\ redo' = <<>>
    BY <1>10 DEF Edit
  <2> DEFINE c == NewChange(t, u, e)
  <2>1. changes' = Append(changes, c) /\ redo' = <<>>
    BY <2>0
  <2>2. c \in Change /\ c.id = e /\ c.target = t /\ c.base = token[t] /\ c.conflict = 0
        /\ (c.kind = "update" => token[t] # 0)
    BY <1>1 DEF NewChange, Change
  <2>3. BasedIn(c, E)
    <3>1. token[t] <= E[t].ver /\ E[t].ver \in Nat /\ token[t] \in Nat
      BY <1>1 DEF CanvasInv, IsMap, Entity
    <3> QED
      BY <2>2, <3>1 DEF BasedIn
  <2>4. \A k \in DOMAIN changes : changes[k].target # t
    BY <1>10 DEF Staging
  <2> HIDE DEF c
  <2>5. Listed(d, Append(changes, c), E, made2)
    BY <1>4, <1>8, <2>2, <2>3, <2>4, ListedAppend DEF made2
  <2> QED
    BY <1>3, <1>6, <1>7, <2>1, <2>5, EmptyOk DEF made2
<1> QED
  BY <1>9, <1>10

LEMMA RootTaken == \A cs : \A i \in DOMAIN cs : i \in CollectStagedSubtree(cs, i)
BY DEF CollectStagedSubtree

\* A discarded change and its subtree leave the list; so do an undone one and one given up.
LEMMA TakenListed ==
  ASSUME TypeInv, NEW d, NEW E, NEW made, Listed(d, changes, E, made), Listed(d, redo, E, made),
         Apart(changes, redo), NEW i \in DOMAIN changes, NEW ids, changes[i].id \in ids
  PROVE  LET ks == Sans(changes, ids)
         IN  /\ Listed(d, ks, E, made) /\ Listed(d, Pushed(changes[i]), E, made)
             /\ Apart(ks, Pushed(changes[i])) /\ Apart(ks, redo)
<1> DEFINE ks == Sans(changes, ids)
<1>1. changes \in Seq(Change)
  BY TypeParts DEF TypeInv
<1>2. ks \in Seq(Change) /\ Cut(ks, changes)
  BY <1>1, SansCut
<1>3. \A k \in DOMAIN ks : \E j \in DOMAIN changes : j # i /\ ks[k] = changes[j]
  BY <1>1, SansFacts
<1> HIDE DEF ks
<1>4. Listed(d, ks, E, made)
  BY <1>1, <1>2, ListedCut
<1> QED
  BY <1>3, <1>4, PushedOk DEF ks

LEMMA GivenUpElsewhere ==
  ASSUME TypeInv, NEW ts, wanted' = GivenUp(ts)
  PROVE  \A d \in Drafts : d # scope => wanted'[d] = wanted[d]
BY TypeParts DEF TypeInv, GivenUp

\* The other edits of the list on the canvas.
LEMMA DiscardListed ==
  ASSUME TypeInv, SlicesInv, NEW i, Discard(i)
  PROVE  /\ EditStep /\ madeOn' = madeOn /\ edits' = edits /\ token' = token
         /\ Listed(scope, changes', doc[scope], madeOn) /\ Listed(scope, redo', doc[scope], madeOn)
         /\ Apart(changes', redo')
<1> DEFINE ids == {changes[v].id : v \in CollectStagedSubtree(changes, i)}
<1>1. /\ i \in DOMAIN changes /\ scope \in Drafts /\ changes' = Sans(changes, ids)
      /\ redo' \in {redo, Pushed(changes[i])}
      /\ wanted' = GivenUp({changes[v].target : v \in CollectStagedSubtree(changes, i)})
      /\ Notify(changes', pending, snap) /\ Editable
      /\ UNCHANGED <<scope, parked, applying, token, restoredFor, call, net, server, edits, madeOn>>
  BY DEF Discard, Editable
<1>2. EditStep
  BY <1>1, GivenUpElsewhere DEF EditStep
<1>3. changes[i].id \in ids
  BY <1>1, RootTaken
<1> HIDE DEF ids
<1>4. /\ Listed(scope, changes, doc[scope], madeOn) /\ Listed(scope, redo, doc[scope], madeOn)
      /\ Apart(changes, redo)
  BY <1>1, Canvas DEF DraftOk
<1>5. /\ Listed(scope, Sans(changes, ids), doc[scope], madeOn)
      /\ Listed(scope, Pushed(changes[i]), doc[scope], madeOn)
      /\ Apart(Sans(changes, ids), Pushed(changes[i])) /\ Apart(Sans(changes, ids), redo)
  BY <1>1, <1>3, <1>4, TakenListed
<1> QED
  BY <1>1, <1>2, <1>4, <1>5

LEMMA DiscardAllListed ==
  ASSUME TypeInv, SlicesInv, DiscardAll
  PROVE  /\ EditStep /\ madeOn' = madeOn /\ edits' = edits /\ token' = token
         /\ Listed(scope, changes', doc[scope], madeOn) /\ Listed(scope, redo', doc[scope], madeOn)
         /\ Apart(changes', redo')
<1>1. /\ changes' = <<>> /\ redo' = <<>> /\ Notify(changes', pending, snap) /\ Editable
      /\ wanted' = GivenUp({changes[i].target : i \in DOMAIN changes})
      /\ UNCHANGED <<scope, parked, applying, token, restoredFor, call, net, server, edits, madeOn>>
  BY DEF DiscardAll
<1> QED
  BY <1>1, GivenUpElsewhere, EmptyOk DEF EditStep

LEMMA UndoListed ==
  ASSUME TypeInv, SlicesInv, Undo
  PROVE  /\ EditStep /\ madeOn' = madeOn /\ edits' = edits /\ token' = token
         /\ Listed(scope, changes', doc[scope], madeOn) /\ Listed(scope, redo', doc[scope], madeOn)
         /\ Apart(changes', redo')
<1> DEFINE n == Len(changes)
           ks == SubSeq(changes, 1, n - 1)
<1>1. /\ scope \in Drafts /\ changes # <<>> /\ changes' = ks /\ redo' = Pushed(changes[n])
      /\ wanted' = GivenUp({changes[n].target}) /\ Notify(changes', pending, snap) /\ Editable
      /\ UNCHANGED <<scope, parked, applying, token, restoredFor, call, net, server, edits, madeOn>>
  BY DEF Undo, Editable
<1>2. EditStep
  BY <1>1, GivenUpElsewhere DEF EditStep
<1>3. changes \in Seq(Change) /\ n \in DOMAIN changes
  BY <1>1, SeqParts, TypeParts DEF TypeInv
<1>4. /\ ks \in Seq(Change) /\ Cut(ks, changes)
      /\ \A k \in DOMAIN ks : \E j \in DOMAIN changes : j # n /\ ks[k] = changes[j]
  BY <1>1, <1>3, FrontCut
<1> HIDE DEF ks, n
<1>5. /\ Listed(scope, changes, doc[scope], madeOn) /\ Listed(scope, redo, doc[scope], madeOn)
      /\ Apart(changes, redo)
  BY <1>1, Canvas DEF DraftOk
<1>6. Listed(scope, ks, doc[scope], madeOn)
  BY <1>3, <1>4, <1>5, ListedCut
<1>7. Listed(scope, Pushed(changes[n]), doc[scope], madeOn) /\ Apart(ks, Pushed(changes[n]))
  BY <1>3, <1>4, <1>5, PushedOk
<1> QED
  BY <1>1, <1>2, <1>6, <1>7

LEMMA RedoListed ==
  ASSUME TypeInv, SlicesInv, Redo
  PROVE  /\ EditStep /\ madeOn' = madeOn /\ edits' = edits /\ token' = token
         /\ Listed(scope, changes', doc[scope], madeOn) /\ Listed(scope, redo', doc[scope], madeOn)
         /\ Apart(changes', redo')
<1> DEFINE n == Len(redo)
           c == redo[n]
           ks == SubSeq(redo, 1, n - 1)
<1>1. /\ scope \in Drafts /\ redo # <<>> /\ changes' = Append(changes, c) /\ redo' = ks
      /\ wanted' = [wanted EXCEPT ![scope][c.target] = IF c.target \in LayoutOnly THEN 0 ELSE c.after]
      /\ Notify(changes', pending, snap) /\ Editable
      /\ UNCHANGED <<scope, parked, applying, token, restoredFor, call, net, server, edits, madeOn>>
  BY DEF Redo, Editable
<1>2. EditStep
  <2>1. wanted \in [Drafts -> [Targets -> Nat]]
    BY TypeParts DEF TypeInv
  <2>2. \A d \in Drafts : d # scope => wanted'[d] = wanted[d]
    BY <1>1, <2>1
  <2> QED
    BY <1>1, <2>2 DEF EditStep
<1>3. redo \in Seq(Change) /\ changes \in Seq(Change) /\ n \in DOMAIN redo /\ c \in Change
  BY <1>1, SeqParts, TypeParts DEF TypeInv
<1>4. /\ ks \in Seq(Change) /\ Cut(ks, redo)
      /\ \A k \in DOMAIN ks : \E j \in DOMAIN redo : j # n /\ ks[k] = redo[j]
  BY <1>1, <1>3, FrontCut
<1>5. /\ Listed(scope, changes, doc[scope], madeOn) /\ Listed(scope, redo, doc[scope], madeOn)
      /\ Apart(changes, redo)
  BY <1>1, Canvas DEF DraftOk
<1> HIDE DEF ks, n
<1>6. Listed(scope, ks, doc[scope], madeOn)
  BY <1>3, <1>4, <1>5, ListedCut
<1>7. /\ c.id \in DOMAIN madeOn /\ madeOn[c.id] = On(scope, c.target) /\ BasedIn(c, doc[scope])
      /\ \A k \in DOMAIN changes : changes[k].target # c.target
      /\ \A k \in DOMAIN ks : ks[k].target # c.target
  BY <1>3, <1>4, <1>5 DEF Listed, SourcedIn, Apart, Uniq
<1> HIDE DEF c
<1>8. Listed(scope, Append(changes, c), doc[scope], madeOn)
  BY <1>3, <1>5, <1>7, ListedAppend
<1>9. Apart(Append(changes, c), ks)
  <2> DEFINE es == Append(changes, c)
  <2>1. \A k \in DOMAIN es : (k \in DOMAIN changes /\ es[k] = changes[k]) \/ es[k] = c
    BY <1>3, AppendParts
  <2>2. Apart(changes, ks)
    BY <1>4, <1>5 DEF Apart
  <2> HIDE DEF es
  <2>3. Apart(es, ks)
    BY <1>7, <2>1, <2>2 DEF Apart
  <2> QED
    BY <2>3 DEF es
<1> QED
  BY <1>1, <1>2, <1>6, <1>8, <1>9

LEMMA ResolveListed ==
  ASSUME TypeInv, SlicesInv, CanvasInv, NEW i, NEW mine \in BOOLEAN, ResolveConflict(i, mine)
  PROVE  /\ EditStep /\ madeOn' = madeOn /\ edits' = edits
         /\ \A t \in Targets : token'[t] <= doc[scope][t].ver
         /\ Listed(scope, changes', doc[scope], madeOn) /\ Listed(scope, redo', doc[scope], madeOn)
         /\ Apart(changes', redo')
<1> DEFINE E == doc[scope]
           c == changes[i]
<1>1. /\ i \in DOMAIN changes /\ c.conflict > 0 /\ scope \in Drafts /\ Editable
      /\ changes' = IF mine THEN [changes EXCEPT ![i] = KeepMine(c)] ELSE Sans(changes, {c.id})
      /\ wanted' = IF mine THEN wanted ELSE GivenUp({c.target})
      /\ token' = [token EXCEPT ![c.target] = c.conflict] /\ Notify(changes', pending, snap)
      /\ UNCHANGED <<scope, redo, parked, applying, restoredFor, call, net, server, edits, madeOn>>
  BY DEF ResolveConflict, Editable
<1>2. EditStep
  <2>1. \A d \in Drafts : d # scope => wanted'[d] = wanted[d]
    BY <1>1, GivenUpElsewhere
  <2> QED
    BY <1>1, <2>1 DEF EditStep
<1>3. /\ changes \in Seq(Change) /\ (\A k \in DOMAIN changes : changes[k] \in Change)
      /\ token \in [Targets -> Nat] /\ IsMap(E)
  BY <1>1, SeqParts, TypeParts, HeldTypes DEF TypeInv
<1>4. Listed(scope, changes, E, madeOn) /\ Listed(scope, redo, E, madeOn) /\ Apart(changes, redo)
  BY <1>1, Canvas DEF DraftOk
<1>5. c.conflict <= E[c.target].ver /\ BasedIn(c, E) /\ c.target \in Targets /\ c \in Change
  BY <1>1, <1>3, <1>4 DEF Listed, BasedIn, Change
<1>6. \A t \in Targets : token'[t] <= E[t].ver
  BY <1>1, <1>3, <1>5 DEF CanvasInv
<1> HIDE DEF E
<1>7. Listed(scope, changes', E, madeOn) /\ Apart(changes', redo)
  <2>1. CASE mine
    <3>1. changes' = [changes EXCEPT ![i] = KeepMine(c)] /\ DOMAIN changes' = DOMAIN changes
      BY <1>1, <2>1
    <3>2. /\ KeepMine(c).target = c.target /\ KeepMine(c).id = c.id /\ KeepMine(c).base = c.conflict
          /\ KeepMine(c).conflict = 0 /\ KeepMine(c).kind = c.kind
      BY <1>5 DEF KeepMine, Change
    <3>3. BasedIn(KeepMine(c), E)
      <4>1. E[c.target].ver \in Nat
        BY <1>3, <1>5 DEF IsMap, Entity
      <4> QED
        BY <1>1, <1>5, <3>2, <4>1 DEF BasedIn
    <3> HIDE DEF c
    <3>4. ASSUME NEW k \in DOMAIN changes
          PROVE  /\ changes'[k].target = changes[k].target /\ changes'[k].id = changes[k].id
                 /\ BasedIn(changes'[k], E)
      <4>1. CASE k = i
        BY <3>1, <3>2, <3>3, <4>1 DEF c
      <4>2. CASE k # i
        BY <3>1, <4>2, <1>4 DEF Listed
      <4> QED
        BY <4>1, <4>2
    <3>5. Listed(scope, changes', E, madeOn)
      BY <1>4, <3>1, <3>4, ListedAlike
    <3>6. Apart(changes', redo)
      BY <1>4, <3>1, <3>4 DEF Apart
    <3> QED
      BY <3>5, <3>6
  <2>2. CASE ~mine
    BY <1>1, <1>4, <2>2, TakenListed
  <2> QED
    BY <2>1, <2>2
<1> QED
  BY <1>1, <1>2, <1>4, <1>6, <1>7 DEF E

\* An edit of the list on the canvas comes while no save runs for that draft.
LEMMA EditStepCall ==
  ASSUME TypeInv, PageInv, LiveInv, CallMade, EditStep, \A d \in Drafts : Remade(d, madeOn, madeOn')
  PROVE  LiveInv' /\ CallMade' /\ PanelInv'
<1>1. call' = call /\ net' = net /\ applying' = FALSE
  BY EditStepMoves DEF EditStep
<1>2. LiveInv' /\ PanelInv'
  BY <1>1 DEF LiveInv, PanelInv, Running, Request
<1>3. CallMade'
  <2> SUFFICES ASSUME Running
               PROVE  \A ids : MadeIn(call.scope, ids, madeOn) => MadeIn(call.scope, ids, madeOn')
    BY <1>1 DEF CallMade, Running
  <2>1. call.scope \in Drafts
    BY DEF Running, TypeInv
  <2>2. Remade(call.scope, madeOn, madeOn')
    BY <2>1
  <2> QED
    BY <2>2 DEF MadeIn, Remade
<1> QED
  BY <1>2, <1>3

LEMMA EditStepKeeps ==
  ASSUME TypeInv, SavingInv, EditStep, madeOn' = madeOn, edits' = edits,
         \A t \in Targets : token'[t] <= doc[scope][t].ver,
         Listed(scope, changes', doc[scope], madeOn), Listed(scope, redo', doc[scope], madeOn),
         Apart(changes', redo')
  PROVE  SavingInv'
<1>1. \A d \in Drafts : Remade(d, madeOn, madeOn')
  BY SameMade
<1>2. PageInv' /\ SlicesInv'
  BY <1>1, EditStepMoves, EditStepSlices DEF SavingInv
<1>3. LiveInv' /\ CallMade' /\ PanelInv'
  BY <1>1, EditStepCall DEF SavingInv
<1>4. CanvasInv'
  BY DEF SavingInv, CanvasInv, EditStep, server
<1> QED
  BY <1>2, <1>3, <1>4 DEF SavingInv

ListEdit ==
  \/ \E t \in Targets : Edit(t)
  \/ \E i \in DOMAIN changes : Discard(i) \/ \E mine \in BOOLEAN : ResolveConflict(i, mine)
  \/ DiscardAll \/ Undo \/ Redo

LEMMA ListEditSaving ==
  ASSUME TypeInv, SavingInv, ListEdit
  PROVE  SavingInv' /\ EditStep
<1>1. ASSUME NEW t \in Targets, Edit(t) PROVE SavingInv' /\ EditStep
  <2>1. /\ EditStep /\ (\A d \in Drafts : Remade(d, madeOn, madeOn')) /\ CanvasInv'
        /\ Listed(scope, changes', doc[scope], madeOn') /\ Listed(scope, redo', doc[scope], madeOn')
        /\ Apart(changes', redo')
    BY <1>1, EditListed DEF SavingInv
  <2>2. PageInv' /\ SlicesInv'
    BY <2>1, EditStepMoves, EditStepSlices DEF SavingInv
  <2>3. LiveInv' /\ CallMade' /\ PanelInv'
    BY <2>1, EditStepCall DEF SavingInv
  <2> QED
    BY <2>1, <2>2, <2>3 DEF SavingInv
<1>2. ASSUME NEW i \in DOMAIN changes, Discard(i) PROVE SavingInv' /\ EditStep
  <2>1. EditStep => \A t \in Targets : token[t] <= doc[scope][t].ver
    BY EditStepMoves DEF SavingInv, CanvasInv
  <2> QED
    BY <1>2, <2>1, DiscardListed, EditStepKeeps DEF SavingInv
<1>3. ASSUME NEW i \in DOMAIN changes, NEW mine \in BOOLEAN, ResolveConflict(i, mine)
      PROVE  SavingInv' /\ EditStep
  BY <1>3, ResolveListed, EditStepKeeps DEF SavingInv
<1>4. CASE DiscardAll \/ Undo \/ Redo
  <2>1. EditStep => \A t \in Targets : token[t] <= doc[scope][t].ver
    BY EditStepMoves DEF SavingInv, CanvasInv
  <2> QED
    BY <1>4, <2>1, DiscardAllListed, UndoListed, RedoListed, EditStepKeeps DEF SavingInv
<1> QED
  BY <1>1, <1>2, <1>3, <1>4 DEF ListEdit

-----------------------------------------------------------------------------
(* A save begun                                                            *)

\* The key of a save: its own, or that of the pending save it repeats.
LEMMA KeyOfSave ==
  ASSUME TypeInv, NEW d \in Drafts, NEW body, NEW prior \in {pending[d], NoSave}
  PROVE  /\ KeyFor(body, prior) # 0
         /\ \/ KeyFor(body, prior) = pending[d].key /\ body = pending[d].body /\ prior = pending[d]
            \/ /\ \A m \in Letters(d) : m.key # KeyFor(body, prior)
               /\ \A r \in commits[d] : r.key # KeyFor(body, prior)
               /\ KeyFor(body, prior) \notin Applied(d)
<1>1. NewRequestId \in Nat \ {0} /\ NewRequestId \notin KeysHeld
  BY KeyFree
<1>2. \A m \in Letters(d) : m.key \in KeysHeld
  BY DEF Letters, LetterOf, KeysHeld
<1>3. \A r \in commits[d] : r.key \in KeysHeld
  BY DEF KeysHeld
<1>4. NewRequestId \notin Applied(d)
  BY <1>1, <1>3 DEF Applied
<1>5. CASE prior.key # 0 /\ prior.body = body
  BY <1>5 DEF KeyFor, NoSave
<1>6. CASE ~ (prior.key # 0 /\ prior.body = body)
  <2>1. KeyFor(body, prior) = NewRequestId
    BY <1>6 DEF KeyFor
  <2> QED
    BY <1>1, <1>2, <1>3, <1>4, <2>1
<1> QED
  BY <1>5, <1>6

LEMMA SaveOkOf ==
  ASSUME NEW rest \in Seq(Change), NEW batch, NEW prior, NEW d, NEW E, NEW made,
         Listed(d, rest, E, made), KeyFor(BodyOf(rest, batch), prior) # 0
  PROVE  SaveOk(d, SaveOf(rest, batch, prior), E, made)
<1>1. Writable(Ops(rest), E)
  BY OpsWritable
<1>2. /\ SaveOf(rest, batch, prior).sent = rest /\ SaveOf(rest, batch, prior).body.ops = Ops(rest)
      /\ SaveOf(rest, batch, prior).key # 0
  BY DEF SaveOf, BodyOf
<1> QED
  BY <1>1, <1>2 DEF SaveOk, Listed

LEMMA SentSlices ==
  ASSUME TypeInv, SlicesInv, scope \in Drafts, scope' = scope, madeOn' = madeOn, redo' = redo,
         NEW rest \in Seq(Change), NEW batch, NEW prior \in {pending[scope], NoSave},
         \A d \in Drafts : Attended(d)' =>
           /\ Attended(d) /\ (d # scope => Unmoved(d))
           /\ doc'[d] = doc[d] /\ commits'[d] = commits[d],
         Held(scope)' = changes', HeldRedo(scope)' = redo',
         HeldSave(scope)' = SaveOf(rest, batch, prior),
         Letters(scope)' = Letters(scope) \cup {LetterOf(Request(SaveOf(rest, batch, prior), scope))},
         Listed(scope, rest, doc[scope], madeOn),
         Listed(scope, changes', doc[scope], madeOn), Apart(changes', redo)
  PROVE  SlicesInv'
<1> DEFINE S2 == SaveOf(rest, batch, prior)
           N2 == Letters(scope) \cup {LetterOf(Request(S2, scope))}
           H2 == changes'
<1>1. /\ KeyFor(BodyOf(rest, batch), prior) # 0
      /\ \/ KeyFor(BodyOf(rest, batch), prior) = pending[scope].key
            /\ BodyOf(rest, batch) = pending[scope].body
         \/ /\ \A m \in Letters(scope) : m.key # KeyFor(BodyOf(rest, batch), prior)
            /\ \A r \in commits[scope] : r.key # KeyFor(BodyOf(rest, batch), prior)
  BY KeyOfSave
<1>2. SaveOk(scope, S2, doc[scope], madeOn)
  BY <1>1, SaveOkOf
<1>3. /\ S2.key # 0
      /\ \/ S2.key = pending[scope].key /\ S2.body = pending[scope].body
         \/ (\A m \in Letters(scope) : m.key # S2.key) /\ (\A r \in commits[scope] : r.key # S2.key)
  BY <1>1 DEF SaveOf
<1>4. \A m \in N2 : m \in Letters(scope) \/ (m.key = S2.key /\ m.ops = S2.body.ops)
  BY DEF LetterOf, Request
<1>5. DraftOk(scope, changes, redo, pending[scope], doc[scope], commits[scope], Letters(scope), madeOn)
  BY Canvas
<1>6. Listed(scope, H2, doc[scope], madeOn) /\ Apart(H2, redo)
  OBVIOUS
<1>7. HeldSave(scope)' = S2 /\ Letters(scope)' = N2 /\ H2 = changes'
  OBVIOUS
<1> HIDE DEF S2, N2, H2
<1>8. DraftOk(scope, H2, redo, S2, doc[scope], commits[scope], N2, madeOn)
  BY <1>2, <1>3, <1>4, <1>5, <1>6, DraftSent
<1>9. ASSUME NEW d \in Drafts, Attended(d)' PROVE SliceInv(d)'
  <2>1. CASE d # scope
    BY <1>9, <2>1, UnmovedSlice, SameMade DEF SlicesInv
  <2>2. CASE d = scope
    <3>1. SliceInv(d)' <=>
            DraftOk(d, Held(d)', HeldRedo(d)', HeldSave(d)', doc'[d], commits'[d], Letters(d)', madeOn')
      BY DEF SliceInv
    <3> QED
      BY <1>7, <1>8, <1>9, <2>2, <3>1
  <2> QED
    BY <2>1, <2>2
<1> QED
  BY <1>9 DEF SlicesInv

\* Save: a list of layer moves only is dropped, the pending save is settled, or the list is sent.
SaveLayout ==
  /\ Ops(changes) = <<>> /\ changes' = <<>> /\ redo' = <<>> /\ wanted' = wanted
  /\ EditStep /\ madeOn' = madeOn /\ edits' = edits /\ token' = token
SendNow ==
  /\ Editable /\ changes # <<>> /\ call = NoCall /\ ~MustSettle(pending[scope], changes)
  /\ Send(changes, changes, scope, pending, NotSettled) /\ applying' = TRUE
  /\ UNCHANGED <<changes, redo, due, scope, parked, token, restoredFor, server, spent, history>>

LEMMA SaveParts ==
  ASSUME Save
  PROVE  SaveLayout \/ SettleStart \/ SendNow
<1>1. /\ Editable /\ changes # <<>> /\ call = NoCall
      /\ UNCHANGED <<scope, parked, token, restoredFor, server, spent, history>>
  BY DEF Save
<1>2. CASE Ops(changes) = <<>>
  <2>1. /\ changes' = <<>> /\ redo' = <<>> /\ Notify(<<>>, pending, snap)
        /\ UNCHANGED <<applying, net, call>>
    BY <1>2 DEF Save
  <2>2. Notify(changes', pending, snap)
    BY <2>1
  <2>3. EditStep /\ madeOn' = madeOn /\ edits' = edits /\ wanted' = wanted
    BY <1>1, <2>1, <2>2 DEF EditStep, history
  <2> QED
    BY <1>1, <1>2, <2>1, <2>3 DEF SaveLayout
<1>3. CASE Ops(changes) # <<>>
  <2>1. applying' = TRUE /\ UNCHANGED <<changes, redo, due>>
    BY <1>3 DEF Save
  <2>2. CASE MustSettle(pending[scope], changes)
    <3>1. /\ net' = net \cup {Request(pending[scope], scope)}
          /\ call' = [NoCall EXCEPT !.phase = "settle", !.scope = scope, !.batch = changes,
                                    !.save = pending[scope]]
          /\ UNCHANGED <<pending, snap>>
      BY <1>3, <2>2 DEF Save
    <3> QED
      BY <1>1, <1>3, <2>1, <2>2, <3>1 DEF SettleStart
  <2>3. CASE ~MustSettle(pending[scope], changes)
    <3>1. Send(changes, changes, scope, pending, NotSettled)
      BY <1>3, <2>3 DEF Save
    <3> QED
      BY <1>1, <2>1, <2>3, <3>1 DEF SendNow
  <2> QED
    BY <2>2, <2>3
<1> QED
  BY <1>2, <1>3

LEMMA SourcedMade ==
  ASSUME NEW d, NEW cs, NEW made, SourcedIn(d, cs, made)
  PROVE  MadeIn(d, Ids(cs), made)
<1> SUFFICES ASSUME NEW i \in DOMAIN cs PROVE cs[i].id \in DOMAIN made /\ made[cs[i].id].draft = d
  BY DEF MadeIn, Ids
<1>1. cs[i].id \in DOMAIN made /\ made[cs[i].id] = On(d, cs[i].target)
  BY DEF SourcedIn
<1> QED
  BY <1>1 DEF On

\* The call as a request leaves.
LEMMA SentCall ==
  ASSUME TypeInv, LiveInv, ~Running \/ call.answer.is # "none",
         NEW save, NEW d, net' = net \cup {Request(save, d)}, call'.phase # "none",
         call'.save = save, call'.scope = d, call'.answer = NoAnswer, madeOn' = madeOn,
         MadeIn(d, Ids(call'.batch), madeOn), MadeIn(d, Ids(save.sent), madeOn),
         MadeIn(d, call'.settled.carried, madeOn)
  PROVE  LiveInv' /\ CallMade'
<1>1. \A m \in net : ~m.live
  <2>1. \A m \in net : m.live \in BOOLEAN
    BY TypeParts DEF TypeInv, RequestRec
  <2> QED
    BY <2>1 DEF LiveInv
<1>2. \A m \in net' : m \in net \/ m = Request(save, d)
  OBVIOUS
<1>3. ASSUME NEW m \in net', m.live
      PROVE  Running' /\ m = Request(call.save, call.scope)' /\ call'.answer.is = "none"
  BY <1>1, <1>2, <1>3 DEF Running, Request, NoAnswer
<1>4. CallMade'
  BY DEF CallMade
<1> QED
  BY <1>3, <1>4 DEF LiveInv

\* The call as a save ends.
LEMMA EndedCall ==
  ASSUME TypeInv, LiveInv, ~Running \/ call.answer.is # "none", net' = net, call' = NoCall
  PROVE  LiveInv' /\ CallMade'
<1>1. \A m \in net : ~m.live
  <2>1. \A m \in net : m.live \in BOOLEAN
    BY TypeParts DEF TypeInv, RequestRec
  <2> QED
    BY <2>1 DEF LiveInv
<1>2. ~Running'
  BY DEF Running, NoCall
<1>3. CallMade'
  BY <1>2 DEF CallMade
<1>4. \A m \in net' : ~m.live
  BY <1>1
<1> QED
  BY <1>3, <1>4 DEF LiveInv

LEMMA CanvasSame ==
  ASSUME CanvasInv, UNCHANGED <<scope, doc, edits, madeOn>>,
         scope \in Drafts => \A t \in Targets : token'[t] <= doc[scope][t].ver
  PROVE  CanvasInv'
BY DEF CanvasInv

LEMMA ZeroAnswered ==
  ASSUME TypeInv, NEW d \in Drafts
  PROVE  AnsweredBy(d, NoAnswer.versions) /\ AnsweredBy(d, NotSettled.versions)
BY HeldTypes DEF AnsweredBy, NoAnswer, NotSettled, IsMap, Entity

LEMMA SaveSaving ==
  ASSUME TypeInv, SavingInv, Save
  PROVE  SavingInv'
<1>1. CASE SaveLayout
  <2>1. scope \in Drafts
    BY <1>1 DEF SaveLayout, EditStep, Editable
  <2> QED
    BY <1>1, <2>1, EditStepKeeps, EmptyOk DEF SaveLayout, SavingInv, CanvasInv
<1>2. CASE SettleStart
  <2>1. /\ scope \in Drafts /\ call = NoCall /\ changes # <<>> /\ pending[scope] # NoSave
        /\ net' = net \cup {Request(pending[scope], scope)}
        /\ call' = [NoCall EXCEPT !.phase = "settle", !.scope = scope, !.batch = changes,
                                  !.save = pending[scope]]
        /\ applying' = TRUE
        /\ UNCHANGED <<pending, changes, redo, scope, token, edits, madeOn, open, doc, commits>>
    BY <1>2 DEF SettleStart, Editable, MustSettle, server, history
  <2>2. /\ call'.phase = "settle" /\ call'.scope = scope /\ call'.batch = changes
        /\ call'.save = pending[scope] /\ call'.answer = NoAnswer /\ call'.settled = NotSettled
    BY <2>1 DEF NoCall
  <2>3. DraftOk(scope, changes, redo, pending[scope], doc[scope], commits[scope], Letters(scope), madeOn)
    BY <2>1, Canvas DEF SavingInv
  <2>4. /\ PageInv' /\ \A d \in Drafts : Attended(d)' =>
                         /\ Attended(d) /\ Quiet(d) /\ (d # scope => Unmoved(d))
                         /\ doc'[d] = doc[d] /\ commits'[d] = commits[d]
        /\ Letters(scope)' = Letters(scope) \cup {LetterOf(Request(pending[scope], scope))}
    BY <1>2, SettleStartMoves DEF SavingInv
  <2>5. ASSUME NEW d \in Drafts, Attended(d)' PROVE SliceInv(d)'
    <3>1. CASE d # scope
      BY <2>1, <2>4, <2>5, <3>1, UnmovedSlice, SameMade DEF SavingInv, SlicesInv
    <3>2. CASE d = scope
      <4> DEFINE S == pending[scope]
                 R2 == HeldRedo(scope)'
                 N2 == Letters(scope) \cup {LetterOf(Request(S, scope))}
      <4>1. \A m \in N2 : m \in Letters(scope) \/ (m.key = S.key /\ m.ops = S.body.ops)
        BY DEF LetterOf, Request
      <4>2. SaveOk(scope, S, doc[scope], madeOn) /\ S.key # 0
        BY <2>1, <2>3 DEF DraftOk, SaveOk
      <4>3. /\ R2 \in {redo, <<>>} /\ Held(scope)' = changes /\ HeldSave(scope)' = S
            /\ Letters(scope)' = N2
        BY <2>1, <2>4, <2>5, <3>2, Canvas DEF SavingInv, Quiet
      <4> HIDE DEF S, N2, R2
      <4>4. Listed(scope, changes, doc[scope], madeOn) /\ Apart(changes, redo)
        BY <2>3 DEF DraftOk
      <4>5. DraftOk(scope, changes, redo, S, doc[scope], commits[scope], N2, madeOn)
        BY <2>3, <4>1, <4>2, <4>4, DraftSent DEF S
      <4>6. DraftOk(scope, changes, R2, S, doc[scope], commits[scope], N2, madeOn)
        BY <4>3, <4>5, DraftKept DEF Remade
      <4>7. SliceInv(d)' <=>
              DraftOk(d, Held(d)', HeldRedo(d)', HeldSave(d)', doc'[d], commits'[d], Letters(d)', madeOn')
        BY DEF SliceInv
      <4> QED
        BY <2>1, <3>2, <4>3, <4>6, <4>7 DEF R2
    <3> QED
      BY <3>1, <3>2
  <2>6. MadeIn(scope, Ids(changes), madeOn) /\ MadeIn(scope, Ids(pending[scope].sent), madeOn)
    BY <2>3, SourcedMade DEF DraftOk, Listed, SaveOk
  <2>7. LiveInv' /\ CallMade'
    <3>1. ~Running /\ MadeIn(scope, {}, madeOn)
      BY <2>1 DEF Running, NoCall, MadeIn
    <3>2. call'.settled.carried = {} /\ call'.phase # "none" /\ TypeInv /\ LiveInv /\ madeOn' = madeOn
      BY <2>1, <2>2 DEF NotSettled, SavingInv
    <3> HIDE DEF SavingInv
    <3> QED
      BY <2>1, <2>2, <2>6, <3>1, <3>2, SentCall
  <2>8. PanelInv'
    BY <2>1, <2>2, ZeroAnswered DEF PanelInv, AnsweredBy, NoAnswer
  <2>9. CanvasInv'
    BY <2>1, CanvasSame DEF SavingInv, CanvasInv
  <2> QED
    BY <2>4, <2>5, <2>7, <2>8, <2>9 DEF SavingInv, SlicesInv
<1>3. CASE SendNow
  <2>1. /\ scope \in Drafts /\ call = NoCall /\ changes # <<>>
        /\ Send(changes, changes, scope, pending, NotSettled) /\ applying' = TRUE
        /\ UNCHANGED <<changes, redo, due, scope, parked, token, restoredFor, server, edits, madeOn,
                       wanted, doc, commits>>
    BY <1>3 DEF SendNow, Editable, history, server
  <2>2. pending \in Saves /\ due \in BOOLEAN /\ changes \in Seq(Change)
    BY TypeParts DEF TypeInv, Saves
  <2>3. /\ PageInv'
        /\ \A d \in Drafts : Attended(d)' =>
             /\ Attended(d) /\ (d # scope => Unmoved(d))
             /\ doc'[d] = doc[d] /\ commits'[d] = commits[d]
        /\ Held(scope)' = changes' /\ HeldRedo(scope)' = redo'
        /\ HeldSave(scope)' = SaveOf(changes, changes, pending[scope])
        /\ Letters(scope)' =
             Letters(scope) \cup {LetterOf(Request(SaveOf(changes, changes, pending[scope]), scope))}
    BY <2>1, <2>2, SendMoves DEF SavingInv
  <2>4. DraftOk(scope, changes, redo, pending[scope], doc[scope], commits[scope], Letters(scope), madeOn)
    BY <2>1, Canvas DEF SavingInv
  <2>5. Listed(scope, changes, doc[scope], madeOn) /\ Apart(changes, redo)
    BY <2>4 DEF DraftOk
  <2>6. SlicesInv'
    BY <2>1, <2>2, <2>3, <2>5, SentSlices DEF SavingInv
  <2> DEFINE save == SaveOf(changes, changes, pending[scope])
  <2>7. /\ net' = net \cup {Request(save, scope)} /\ pending'[scope] = save
        /\ call' = [phase |-> "send", scope |-> scope, batch |-> changes, save |-> save,
                    settled |-> NotSettled, answer |-> NoAnswer]
    BY <2>1, <2>2 DEF Send, SaveOf, Saves, Scopes
  <2>8. save.sent = changes
    BY DEF SaveOf
  <2> HIDE DEF save
  <2>9. LiveInv' /\ CallMade'
    <3>1. ~Running /\ MadeIn(scope, {}, madeOn) /\ MadeIn(scope, Ids(changes), madeOn)
      BY <2>1, <2>5, SourcedMade DEF Running, NoCall, MadeIn, Listed
    <3> QED
      BY <2>1, <2>7, <2>8, <3>1, SentCall DEF SavingInv, NotSettled
  <2>10. PanelInv'
    <3>1. SettledOnly' = {}
      BY <2>7 DEF SettledOnly, NotSettled
    <3> QED
      BY <2>1, <2>7, <3>1, ZeroAnswered DEF PanelInv, AnsweredBy, NoAnswer
  <2>11. CanvasInv'
    BY <2>1, CanvasSame DEF SavingInv, CanvasInv
  <2> QED
    BY <2>3, <2>6, <2>9, <2>10, <2>11 DEF SavingInv
<1> QED
  BY <1>1, <1>2, <1>3, SaveParts

-----------------------------------------------------------------------------
(* A save carried on, its panel shown                                      *)

LEMMA PanelFacts ==
  ASSUME TypeInv, SavingInv, applying
  PROVE  /\ scope \in Drafts /\ call.scope = scope /\ Running /\ call.save = pending[scope]
         /\ changes # <<>> /\ changes \in Seq(Change) /\ redo \in Seq(Change)
         /\ Listed(scope, changes, doc[scope], madeOn) /\ Listed(scope, redo, doc[scope], madeOn)
         /\ Apart(changes, redo) /\ SourcedIn(scope, call.save.sent, madeOn)
         /\ call.save.body.ops = Ops(call.save.sent) /\ call.save.sent \in Seq(Change)
         /\ call.batch \in Seq(Change) /\ EntitiesOk(doc[scope]) /\ IsMap(doc[scope])
         /\ AnsweredBy(scope, call.answer.versions) /\ AnsweredBy(scope, call.settled.versions)
         /\ call.answer.versions \in [Targets -> Nat] /\ call.settled.versions \in [Targets -> Nat]
<1>1. /\ scope \in Drafts /\ call.scope = scope /\ Running /\ call.save = pending[scope]
      /\ changes # <<>> /\ AnsweredBy(scope, call.answer.versions)
      /\ AnsweredBy(scope, call.settled.versions)
  BY DEF SavingInv, PageInv, PanelInv
<1>2. /\ DraftOk(scope, changes, redo, pending[scope], doc[scope], commits[scope], Letters(scope), madeOn)
      /\ changes \in Seq(Change) /\ redo \in Seq(Change) /\ pending[scope] \in PendingSave
  BY <1>1, Canvas DEF SavingInv
<1>3. call.batch \in Seq(Change) /\ call \in CallRec
  BY CallParts
<1>4. /\ call.answer.versions \in [Targets -> Nat] /\ call.settled.versions \in [Targets -> Nat]
      /\ call.save.sent \in Seq(Change)
  BY <1>1, <1>2, <1>3 DEF CallRec, AnswerRec, Settled, PendingSave
<1> QED
  BY <1>1, <1>2, <1>3, <1>4, HeldTypes DEF DraftOk, SaveOk

\* The entity of a staged change that the save carried has a version in its answer.
LEMMA CarriedAnswered ==
  ASSUME TypeInv, SavingInv, applying, call.answer.is = "ok",
         NEW c \in Change, c.id \in DOMAIN madeOn, madeOn[c.id] = On(scope, c.target), c.id \in CarriedIn,
         c.target \notin LayoutOnly
  PROVE  /\ call.answer.versions[c.target] > 0
         /\ \E j \in DOMAIN call.save.sent : /\ call.save.sent[j].id = c.id
                                             /\ call.save.sent[j].target = c.target
<1>1. PICK j \in DOMAIN call.save.sent : call.save.sent[j].id = c.id
  BY DEF CarriedIn, Ids
<1>2. madeOn[c.id] = On(scope, call.save.sent[j].target)
  BY <1>1, PanelFacts DEF SourcedIn
<1>3. call.save.sent[j].target = c.target
  BY <1>2 DEF On
<1>4. PICK k \in DOMAIN Ops(call.save.sent) : Ops(call.save.sent)[k] = OpOf(call.save.sent[j])
  BY <1>3, PanelFacts, OpsFacts
<1>5. call.save.body.ops[k].target = c.target /\ k \in DOMAIN call.save.body.ops
  <2>1. call.save.body.ops = Ops(call.save.sent)
    BY PanelFacts
  <2>2. OpOf(call.save.sent[j]).target = c.target
    BY <1>3 DEF OpOf
  <2> QED
    BY <1>4, <2>1, <2>2
<1>6. call.answer.versions[c.target] > 0
  BY <1>5 DEF SavingInv, PanelInv
<1> QED
  BY <1>1, <1>3, <1>6

LEMMA EditedCarried == EditedIn \subseteq CarriedIn /\ EditedIn \subseteq Ids(call.batch)
BY DEF EditedIn, CarriedIn, EditedSince, Ids

\* Rebased, the staged list is still in order.
LEMMA RebasedListed ==
  ASSUME TypeInv, SavingInv, applying, call.answer.is = "ok"
  PROVE  /\ RebasedSeq(changes) \in Seq(Change) /\ DOMAIN RebasedSeq(changes) = DOMAIN changes
         /\ Listed(scope, RebasedSeq(changes), doc[scope], madeOn)
         /\ Apart(RebasedSeq(changes), redo) /\ Ids(RebasedSeq(changes)) = Ids(changes)
         /\ \A i \in DOMAIN changes :
              /\ RebasedSeq(changes)[i].target = changes[i].target
              /\ RebasedSeq(changes)[i].id = changes[i].id
              /\ RebasedSeq(changes)[i].after = changes[i].after
<1> DEFINE E == doc[scope]
           es == RebasedSeq(changes)
<1>1. es \in Seq(Change) /\ DOMAIN es = DOMAIN changes
  BY PanelFacts, RebasedType
<1>2. \A i \in DOMAIN changes : es[i] = OnTop(changes[i]) /\ changes[i] \in Change
  BY PanelFacts, SeqParts DEF RebasedSeq
<1>3. Listed(scope, changes, E, madeOn)
  BY PanelFacts
<1> HIDE DEF es
<1>4. ASSUME NEW i \in DOMAIN changes
      PROVE  /\ es[i].target = changes[i].target /\ es[i].id = changes[i].id
             /\ es[i].after = changes[i].after /\ BasedIn(es[i], E)
  <2> DEFINE c == changes[i]
  <2>1. c \in Change /\ BasedIn(c, E) /\ c.id \in DOMAIN madeOn /\ madeOn[c.id] = On(scope, c.target)
    BY <1>2, <1>3 DEF Listed, SourcedIn
  <2>2. es[i] = OnTop(c)
    BY <1>2
  <2> HIDE DEF c
  <2>3. CASE c.id \notin EditedIn
    BY <2>1, <2>2, <2>3 DEF OnTop, c
  <2>4. CASE c.id \in EditedIn
    <3>1. es[i] = Rebase(c, call.answer.versions)
      BY <2>2, <2>4 DEF OnTop
    <3>2. /\ es[i].target = c.target /\ es[i].id = c.id /\ es[i].after = c.after
          /\ es[i].base = call.answer.versions[c.target] /\ es[i].conflict = c.conflict
      BY <2>1, <3>1 DEF Rebase, Change
    <3>3. c.target \in Targets /\ call.answer.versions[c.target] <= E[c.target].ver
      BY <2>1, PanelFacts DEF AnsweredBy, Change
    <3>4. c.target \notin LayoutOnly => call.answer.versions[c.target] > 0
      BY <2>1, <2>4, CarriedAnswered, EditedCarried
    <3> QED
      BY <2>1, <3>2, <3>3, <3>4 DEF BasedIn, c
  <2> QED
    BY <2>3, <2>4
<1>5. Listed(scope, es, E, madeOn)
  BY <1>1, <1>3, <1>4, ListedAlike
<1>6. Apart(es, redo) /\ Ids(es) = Ids(changes)
  <2>1. Apart(changes, redo)
    BY PanelFacts
  <2>2. Apart(es, redo)
    BY <1>1, <1>4, <2>1 DEF Apart
  <2>3. Ids(es) = Ids(changes)
    BY <1>1, <1>4 DEF Ids
  <2> QED
    BY <2>2, <2>3
<1> QED
  BY <1>1, <1>4, <1>5, <1>6 DEF es

LEMMA KeepsCut ==
  ASSUME NEW ks, NEW cs, NEW S \in SUBSET (DOMAIN cs), Keeps(ks, cs, S)
  PROVE  Cut(ks, cs)
BY DEF Keeps, Cut

\* What goes out of a list differs from the list rebased only in how it names a parent.
LEMMA OutgoingFacts ==
  ASSUME TypeInv, NEW cs \in Seq(Change)
  PROVE  /\ OutgoingSeq(cs) \in Seq(Change) /\ RebasedSeq(cs) \in Seq(Change)
         /\ DOMAIN OutgoingSeq(cs) = DOMAIN cs /\ DOMAIN RebasedSeq(cs) = DOMAIN cs
         /\ \A i \in DOMAIN cs :
              LET r == RebasedSeq(cs)[i]
                  o == OutgoingSeq(cs)[i]
              IN  /\ o.target = r.target /\ o.id = r.id /\ o.after = r.after /\ o.base = r.base
                  /\ o.conflict = r.conflict /\ o.kind = r.kind
                  /\ \/ o.under = r.under /\ ~ (o.under = "ref" /\ Parent[r.target] \in Created(call.save.body.ops))
                     \/ /\ r.under = "ref" /\ o.under = "id"
                        /\ Parent[r.target] \in Created(call.save.body.ops)
<1>1. /\ OutgoingSeq(cs) \in Seq(Change) /\ RebasedSeq(cs) \in Seq(Change)
      /\ DOMAIN OutgoingSeq(cs) = DOMAIN cs /\ DOMAIN RebasedSeq(cs) = DOMAIN cs
  BY RebasedType
<1>2. ASSUME NEW r \in Change, NEW ts
      PROVE  LET o == Resolve(r, ts)
             IN  /\ o.target = r.target /\ o.id = r.id /\ o.after = r.after /\ o.base = r.base
                 /\ o.conflict = r.conflict /\ o.kind = r.kind
                 /\ \/ o.under = r.under /\ ~ (o.under = "ref" /\ Parent[r.target] \in ts)
                    \/ r.under = "ref" /\ o.under = "id" /\ Parent[r.target] \in ts
  BY DEF Resolve, Change
<1>3. ASSUME NEW i \in DOMAIN cs
      PROVE  /\ RebasedSeq(cs)[i] \in Change
             /\ OutgoingSeq(cs)[i] = Resolve(RebasedSeq(cs)[i], Created(call.save.body.ops))
  <2>1. RebasedSeq(cs)[i] \in Change
    BY <1>1, SeqParts
  <2>2. /\ RebasedSeq(cs)[i] = OnTop(cs[i])
        /\ OutgoingSeq(cs)[i] = Resolve(OnTop(cs[i]), Created(call.save.body.ops))
    BY DEF RebasedSeq, OutgoingSeq, Outgoing
  <2> QED
    BY <2>1, <2>2
<1> HIDE DEF OutgoingSeq, RebasedSeq
<1> QED
  BY <1>1, <1>2, <1>3

LEMMA OutgoingListed ==
  ASSUME TypeInv, SavingInv, applying, call.answer.is = "ok"
  PROVE  /\ OutgoingSeq(changes) \in Seq(Change) /\ DOMAIN OutgoingSeq(changes) = DOMAIN changes
         /\ Listed(scope, OutgoingSeq(changes), doc[scope], madeOn)
<1> DEFINE es == OutgoingSeq(changes)
           rs == RebasedSeq(changes)
<1>1. /\ es \in Seq(Change) /\ DOMAIN es = DOMAIN changes /\ DOMAIN rs = DOMAIN changes
      /\ \A i \in DOMAIN changes :
           /\ es[i].target = rs[i].target /\ es[i].id = rs[i].id /\ es[i].base = rs[i].base
           /\ es[i].conflict = rs[i].conflict /\ es[i].kind = rs[i].kind
  BY ActiveType, OutgoingFacts
<1>2. Listed(scope, rs, doc[scope], madeOn)
  BY RebasedListed
<1> HIDE DEF es, rs
<1>3. \A i \in DOMAIN rs : BasedIn(es[i], doc[scope])
  BY <1>1, <1>2 DEF Listed, BasedIn
<1>4. Listed(scope, es, doc[scope], madeOn)
  BY <1>1, <1>2, <1>3, ListedAlike
<1> QED
  BY <1>1, <1>4 DEF es

LEMMA RestListed ==
  ASSUME TypeInv, SavingInv, applying, call.answer.is = "ok", call.batch = changes
  PROVE  /\ Rest \in Seq(Change) /\ Listed(scope, Rest, doc[scope], madeOn)
         /\ Keeps(Rest, OutgoingSeq(changes), LeftIn)
         /\ LeftIn = {i \in DOMAIN changes : changes[i].id \in EditedIn \/ changes[i].id \notin CarriedIn}
<1>1. /\ OutgoingSeq(changes) \in Seq(Change) /\ Listed(scope, OutgoingSeq(changes), doc[scope], madeOn)
      /\ DOMAIN OutgoingSeq(changes) = DOMAIN changes
  BY OutgoingListed
<1>2. /\ LeftIn \in SUBSET (DOMAIN OutgoingSeq(changes)) /\ Rest = Kept(OutgoingSeq(changes), LeftIn)
      /\ LeftIn = {i \in DOMAIN changes : changes[i].id \in EditedIn \/ changes[i].id \notin CarriedIn}
  BY <1>1 DEF LeftIn, Rest
<1>3. Rest \in Seq(Change) /\ Keeps(Rest, OutgoingSeq(changes), LeftIn)
  BY <1>1, <1>2, KeptFacts
<1>4. Cut(Rest, OutgoingSeq(changes))
  BY <1>2, <1>3, KeepsCut
<1>5. Listed(scope, Rest, doc[scope], madeOn)
  BY <1>1, <1>3, <1>4, ListedCut
<1> QED
  BY <1>2, <1>3, <1>5

\* The steps of a save whose panel is shown, and what each makes of the slice on the canvas.
Resent(rest, settled) ==
  Send(rest, call.batch, scope, [pending EXCEPT ![scope] = NoSave], settled)
Ended(cs, saves) == Done(cs, saves, snap) /\ Notify(changes', saves, snap)
ContinueStep ==
  \/ /\ call.phase = "settle" /\ call.answer.is = "lost"
     /\ Ended(changes, pending) /\ redo' = redo /\ token' = token
  \/ /\ call.phase = "settle" /\ call.answer.is \in {"refused", "conflict"} /\ call.batch = changes
     /\ Resent(changes, NotSettled) /\ UNCHANGED <<changes, redo, due, token>> /\ applying' = TRUE
  \/ /\ call.phase = "settle" /\ call.answer.is = "ok" /\ call.batch = changes /\ Ops(Rest) # <<>>
     /\ changes' = RebasedSeq(changes) /\ due' = (due \/ changes' # changes)
     /\ Resent(Rest, [carried |-> CarriedIn, edited |-> EditedIn, versions |-> call.answer.versions])
     /\ UNCHANGED <<redo, token>> /\ applying' = TRUE
  \/ /\ call.phase = "settle" => call.batch = changes /\ Ops(Rest) = <<>>
     /\ call.answer.is = "ok"
     /\ Ended(<<>>, [pending EXCEPT ![scope] = NoSave]) /\ redo' = <<>>
     /\ Reconcile(scope, call.batch, call.answer.versions)
  \/ /\ call.phase = "send" /\ call.answer.is \in {"refused", "conflict", "lost"}
     /\ \E saves \in {pending, [pending EXCEPT ![scope] = NoSave]} :
          Ended(MarkedSeq(Cleared(SettledOnly)), saves)
     /\ \/ redo' = redo /\ token' = token
        \/ redo' = <<>> /\ \E cs : Reconcile(scope, cs, call.settled.versions)
     /\ call.answer.is # "lost" =>
          Ended(MarkedSeq(Cleared(SettledOnly)), [pending EXCEPT ![scope] = NoSave])
     /\ call.answer.is = "lost" => Ended(MarkedSeq(Cleared(SettledOnly)), pending)
     /\ call.settled = NotSettled => token' = token

LEMMA ContinueParts ==
  ASSUME TypeInv, SavingInv, applying, Continue
  PROVE  ContinueStep /\ UNCHANGED <<scope, parked, restoredFor, server, spent, history>>
<1>1. /\ scope \in Drafts /\ call.scope = scope /\ changes \in Seq(Change)
      /\ call.phase = "settle" => changes = call.batch
      /\ call.phase = "send" => Ids(changes) \subseteq Ids(call.batch)
  BY PanelFacts DEF SavingInv, PanelInv
<1>2. ASSUME NEW cs, NEW saves, Done(cs, saves, snap) PROVE Ended(cs, saves)
  BY <1>2 DEF Done, Ended
<1>3. call.phase \in {"settle", "send"} => Cleared(Ids(call.batch)) = <<>>
  <2>1. ASSUME call.phase \in {"settle", "send"}, NEW i \in DOMAIN changes
        PROVE  changes[i].id \in Ids(call.batch)
    BY <1>1, <2>1 DEF Ids
  <2> QED
    BY <1>1, <2>1, SansAll DEF Cleared
<1>4. CASE SettleLost
  <2>1. /\ call.phase = "settle" /\ call.answer.is = "lost" /\ Done(changes, pending, snap)
        /\ UNCHANGED <<scope, redo, parked, token, restoredFor, server, spent, history>>
    BY <1>4 DEF SettleLost, Answered
  <2>2. Ended(changes, pending)
    BY <1>2, <2>1
  <2> QED
    BY <2>1, <2>2 DEF ContinueStep
<1>5. CASE SettleRefused
  <2>1. /\ call.phase = "settle" /\ call.answer.is \in {"refused", "conflict"} /\ call.batch = changes
        /\ Resent(changes, NotSettled)
        /\ UNCHANGED <<scope, changes, redo, parked, applying, token, due, restoredFor, server, spent,
                       history>>
    BY <1>1, <1>5 DEF SettleRefused, Answered, Resent
  <2> QED
    BY <2>1 DEF ContinueStep
<1>6. CASE SettleApplied
  <2>1. /\ call.phase = "settle" /\ call.answer.is = "ok" /\ call.batch = changes
        /\ UNCHANGED <<scope, parked, restoredFor, server, spent, history>>
        /\ \/ /\ Ops(Rest) = <<>>
              /\ Done(<<>>, [pending EXCEPT ![scope] = NoSave], snap) /\ redo' = <<>>
              /\ Reconcile(scope, call.batch, call.answer.versions)
           \/ /\ Ops(Rest) # <<>> /\ changes' = RebasedSeq(changes)
              /\ due' = (due \/ changes' # changes)
              /\ Resent(Rest, [carried |-> CarriedIn, edited |-> EditedIn,
                               versions |-> call.answer.versions])
              /\ UNCHANGED <<redo, token, applying>>
    BY <1>1, <1>3, <1>6, SettleAppliedEffect DEF Resent
  <2>2. CASE Ops(Rest) = <<>>
    <3>1. /\ Done(<<>>, [pending EXCEPT ![scope] = NoSave], snap) /\ redo' = <<>>
          /\ Reconcile(scope, call.batch, call.answer.versions)
      BY <2>1, <2>2
    <3>2. Ended(<<>>, [pending EXCEPT ![scope] = NoSave])
      BY <1>2, <3>1
    <3> QED
      BY <2>1, <2>2, <3>1, <3>2 DEF ContinueStep
  <2>3. CASE Ops(Rest) # <<>>
    <3>1. /\ changes' = RebasedSeq(changes) /\ due' = (due \/ changes' # changes)
          /\ Resent(Rest, [carried |-> CarriedIn, edited |-> EditedIn,
                           versions |-> call.answer.versions])
          /\ UNCHANGED <<redo, token>> /\ applying' = TRUE
      BY <2>1, <2>3
    <3> QED
      BY <2>1, <2>3, <3>1 DEF ContinueStep
  <2> QED
    BY <2>2, <2>3
<1>7. CASE SendApplied
  <2>1. /\ call.phase = "send" /\ call.answer.is = "ok"
        /\ Done(<<>>, [pending EXCEPT ![scope] = NoSave], snap) /\ redo' = <<>>
        /\ Reconcile(scope, call.batch, call.answer.versions)
        /\ UNCHANGED <<scope, parked, restoredFor, server, spent, history>>
    BY <1>1, <1>3, <1>7 DEF SendApplied, Answered
  <2>2. Ended(<<>>, [pending EXCEPT ![scope] = NoSave])
    BY <1>2, <2>1
  <2> QED
    BY <2>1, <2>2 DEF ContinueStep
<1>8. CASE SendFailed
  <2>1. /\ call.phase = "send" /\ call.answer.is \in {"refused", "conflict", "lost"}
        /\ UNCHANGED <<scope, parked, restoredFor, server, spent, history>>
        /\ \E saves \in {pending, [pending EXCEPT ![scope] = NoSave]} :
             Done(MarkedSeq(Cleared(SettledOnly)), saves, snap)
        /\ \/ redo' = redo /\ token' = token
           \/ redo' = <<>> /\ \E cs : Reconcile(scope, cs, call.settled.versions)
        /\ call.answer.is # "lost" =>
             Done(MarkedSeq(Cleared(SettledOnly)), [pending EXCEPT ![scope] = NoSave], snap)
        /\ call.answer.is = "lost" => Done(MarkedSeq(Cleared(SettledOnly)), pending, snap)
        /\ call.settled = NotSettled => token' = token
    BY <1>1, <1>8, SendFailedEffect
  <2>2. /\ \E saves \in {pending, [pending EXCEPT ![scope] = NoSave]} :
             Ended(MarkedSeq(Cleared(SettledOnly)), saves)
        /\ call.answer.is # "lost" =>
             Ended(MarkedSeq(Cleared(SettledOnly)), [pending EXCEPT ![scope] = NoSave])
        /\ call.answer.is = "lost" => Ended(MarkedSeq(Cleared(SettledOnly)), pending)
    BY <1>2, <2>1
  <2> QED
    BY <2>1, <2>2 DEF ContinueStep
<1> QED
  BY <1>4, <1>5, <1>6, <1>7, <1>8 DEF Continue

\* The canvas takes versions the server answered, never one ahead of it.
LEMMA ReconcileFits ==
  ASSUME TypeInv, CanvasInv, scope \in Drafts, NEW cs, NEW versions \in [Targets -> Nat],
         AnsweredBy(scope, versions), Reconcile(scope, cs, versions)
  PROVE  \A t \in Targets : token'[t] <= doc[scope][t].ver
BY DEF CanvasInv, AnsweredBy, Reconcile

\* A save that ends tells the subscriber of what is left staged; one that goes on sends a request.
LEMMA EndedMoves ==
  ASSUME TypeInv, SavingInv, applying,
         NEW saves \in {pending, [pending EXCEPT ![scope] = NoSave]}, NEW cs, Ended(cs, saves),
         UNCHANGED <<scope, parked, restoredFor, server, spent, history>>
  PROVE  /\ PageInv' /\ changes' = cs /\ saves[scope] \in {pending[scope], NoSave}
         /\ \A d \in Drafts : Attended(d)' =>
              /\ Attended(d) /\ (d # scope => Unmoved(d))
              /\ Letters(d)' = Letters(d) /\ doc'[d] = doc[d] /\ commits'[d] = commits[d]
         /\ Held(scope)' = changes' /\ HeldRedo(scope)' = redo'
         /\ HeldSave(scope)' = IF changes' = <<>> THEN NoSave ELSE saves[scope]
<1>1. /\ changes' = cs /\ applying' = FALSE /\ call' = NoCall /\ net' = net
      /\ Notify(changes', saves, snap) /\ scope \in Drafts
      /\ UNCHANGED <<scope, parked, restoredFor, server, wanted>>
  BY PanelFacts DEF Ended, Done, history
<1>2. /\ saves \in Saves /\ (\A d \in Drafts : d # scope => saves[d] = pending[d])
      /\ saves[scope] \in {pending[scope], NoSave}
  BY ActiveType, BaseTypes, <1>1 DEF Saves, Scopes
<1> QED
  BY <1>1, <1>2, ListMoves DEF SavingInv

LEMMA ResentMoves ==
  ASSUME TypeInv, SavingInv, applying, NEW rest, NEW settled, Resent(rest, settled),
         changes' # <<>>, applying' = TRUE, due' \in BOOLEAN, ~due' => ~due /\ changes' = changes,
         UNCHANGED <<scope, parked, restoredFor, server, spent, history>>
  PROVE  /\ PageInv'
         /\ \A d \in Drafts : Attended(d)' =>
              /\ Attended(d) /\ (d # scope => Unmoved(d))
              /\ doc'[d] = doc[d] /\ commits'[d] = commits[d]
         /\ Held(scope)' = changes' /\ HeldRedo(scope)' = redo'
         /\ HeldSave(scope)' = SaveOf(rest, call.batch, NoSave)
         /\ Letters(scope)' =
              Letters(scope) \cup {LetterOf(Request(SaveOf(rest, call.batch, NoSave), scope))}
<1> DEFINE saves == [pending EXCEPT ![scope] = NoSave]
<1>1. scope \in Drafts /\ changes # <<>> /\ UNCHANGED <<scope, parked, restoredFor, server, wanted>>
  BY PanelFacts DEF history
<1>2. saves \in Saves /\ (\A d \in Drafts : d # scope => saves[d] = pending[d]) /\ saves[scope] = NoSave
  BY ActiveType, BaseTypes, <1>1 DEF Saves, Scopes
<1>3. Send(rest, call.batch, scope, saves, settled)
  BY DEF Resent
<1> HIDE DEF saves
<1> QED
  BY <1>1, <1>2, <1>3, SendMoves DEF SavingInv

LEMMA EndedSaving ==
  ASSUME TypeInv, SavingInv, applying, call.answer.is # "none",
         NEW saves \in {pending, [pending EXCEPT ![scope] = NoSave]}, NEW cs, Ended(cs, saves),
         UNCHANGED <<scope, parked, restoredFor, server, spent, history>>,
         Listed(scope, cs, doc[scope], madeOn), Listed(scope, redo', doc[scope], madeOn),
         Apart(cs, redo'), \A t \in Targets : token'[t] <= doc[scope][t].ver
  PROVE  SavingInv'
<1>1. /\ changes' = cs /\ applying' = FALSE /\ call' = NoCall /\ net' = net
      /\ Notify(changes', saves, snap) /\ scope \in Drafts
      /\ UNCHANGED <<scope, parked, restoredFor, server, wanted, edits, madeOn, doc>>
  BY PanelFacts DEF Ended, Done, history, server
<1>2. /\ saves \in Saves /\ (\A d \in Drafts : d # scope => saves[d] = pending[d])
      /\ saves[scope] \in {pending[scope], NoSave}
  BY ActiveType, BaseTypes, <1>1 DEF Saves, Scopes
<1>3. /\ PageInv'
      /\ \A d \in Drafts : Attended(d)' =>
           /\ Attended(d) /\ (d # scope => Unmoved(d))
           /\ Letters(d)' = Letters(d) /\ doc'[d] = doc[d] /\ commits'[d] = commits[d]
      /\ Held(scope)' = changes' /\ HeldRedo(scope)' = redo'
      /\ HeldSave(scope)' = IF changes' = <<>> THEN NoSave ELSE saves[scope]
  BY <1>1, EndedMoves
<1>4. SlicesInv'
  <2>1. HeldSave(scope)' \in {pending[scope], NoSave} /\ (\A d \in Drafts : Remade(d, madeOn, madeOn'))
    BY <1>1, <1>2, <1>3, SameMade
  <2>2. /\ Listed(scope, changes', doc[scope], madeOn') /\ Listed(scope, redo', doc[scope], madeOn')
        /\ Apart(changes', redo') /\ SlicesInv /\ scope' = scope
    BY <1>1 DEF SavingInv
  <2> QED
    BY <1>1, <1>3, <2>1, <2>2, ListSlices
<1>5. LiveInv' /\ CallMade'
  BY <1>1, EndedCall DEF SavingInv
<1>6. CanvasInv'
  BY <1>1, CanvasSame DEF SavingInv
<1>7. PanelInv'
  BY <1>1 DEF PanelInv
<1> QED
  BY <1>3, <1>4, <1>5, <1>6, <1>7 DEF SavingInv

LEMMA ResentSaving ==
  ASSUME TypeInv, SavingInv, applying, call.answer.is # "none",
         NEW rest \in Seq(Change), NEW settled \in Settled, Resent(rest, settled),
         changes' # <<>>, applying' = TRUE, due' \in BOOLEAN, ~due' => ~due /\ changes' = changes,
         UNCHANGED <<scope, parked, restoredFor, server, spent, history, redo, token>>,
         Listed(scope, rest, doc[scope], madeOn), Listed(scope, changes', doc[scope], madeOn),
         Apart(changes', redo), Ids(changes') \subseteq Ids(call.batch),
         MadeIn(scope, settled.carried, madeOn), AnsweredBy(scope, settled.versions),
         \A i \in DOMAIN changes' : changes'[i].id \in settled.carried \ settled.edited =>
                                      doc[scope][changes'[i].target].ver > 0
  PROVE  SavingInv'
<1> DEFINE saves == [pending EXCEPT ![scope] = NoSave]
           save == SaveOf(rest, call.batch, NoSave)
<1>1. /\ scope \in Drafts /\ changes # <<>> /\ call.scope = scope /\ Running
      /\ UNCHANGED <<scope, parked, restoredFor, server, wanted, edits, madeOn, redo, token, doc, commits>>
  BY PanelFacts DEF history, server
<1>2. saves \in Saves /\ (\A d \in Drafts : d # scope => saves[d] = pending[d]) /\ saves[scope] = NoSave
  BY ActiveType, BaseTypes, <1>1 DEF Saves, Scopes
<1>3. Send(rest, call.batch, scope, saves, settled)
  BY DEF Resent
<1>4. /\ net' = net \cup {Request(save, scope)} /\ pending'[scope] = save
      /\ call' = [phase |-> "send", scope |-> scope, batch |-> call.batch, save |-> save,
                  settled |-> settled, answer |-> NoAnswer]
  BY <1>1, <1>2, <1>3 DEF Send, SaveOf, Saves, Scopes
<1> HIDE DEF saves
<1>5. /\ PageInv'
      /\ \A d \in Drafts : Attended(d)' =>
           /\ Attended(d) /\ (d # scope => Unmoved(d))
           /\ doc'[d] = doc[d] /\ commits'[d] = commits[d]
      /\ Held(scope)' = changes' /\ HeldRedo(scope)' = redo'
      /\ HeldSave(scope)' = SaveOf(rest, call.batch, NoSave)
      /\ Letters(scope)' =
           Letters(scope) \cup {LetterOf(Request(SaveOf(rest, call.batch, NoSave), scope))}
  BY ResentMoves
<1>6. SlicesInv'
  BY <1>1, <1>2, <1>5, SentSlices DEF SavingInv
<1>7. LiveInv' /\ CallMade'
  <2>1. /\ MadeIn(scope, Ids(call.batch), madeOn) /\ MadeIn(scope, Ids(rest), madeOn)
        /\ save.sent = rest
    BY <1>1, SourcedMade DEF SavingInv, CallMade, Listed, SaveOf
  <2> HIDE DEF save
  <2>2. /\ call'.phase # "none" /\ call'.save = save /\ call'.scope = scope /\ call'.answer = NoAnswer
        /\ call'.batch = call.batch /\ call'.settled = settled
    BY <1>4
  <2> QED
    BY <1>1, <1>4, <2>1, <2>2, SentCall DEF SavingInv
<1>8. PanelInv'
  <2> HIDE DEF save
  <2>1. /\ call'.save = pending'[scope] /\ call'.phase = "send" /\ call'.batch = call.batch
        /\ call'.answer = NoAnswer /\ call'.settled = settled
    BY <1>4
  <2>2. SettledOnly' = settled.carried \ settled.edited
    BY <2>1 DEF SettledOnly
  <2> QED
    BY <1>1, <2>1, <2>2, ZeroAnswered DEF PanelInv, AnsweredBy, NoAnswer
<1>9. CanvasInv'
  BY <1>1, CanvasSame DEF SavingInv, CanvasInv
<1> QED
  BY <1>5, <1>6, <1>7, <1>8, <1>9 DEF SavingInv

\* What a failed save leaves is in order, with the conflicts it met.
LEMMA MarkedListed ==
  ASSUME TypeInv, SavingInv, applying
  PROVE  LET cs == MarkedSeq(Cleared(SettledOnly))
         IN  Listed(scope, cs, doc[scope], madeOn) /\ Apart(cs, redo)
<1> DEFINE left == Cleared(SettledOnly)
           E == doc[scope]
<1>1. Listed(scope, changes, E, madeOn) /\ Apart(changes, redo) /\ changes \in Seq(Change)
  BY PanelFacts
<1>2. left \in Seq(Change) /\ Cut(left, changes)
  BY <1>1, SansCut DEF Cleared
<1>3. Listed(scope, left, E, madeOn) /\ Apart(left, redo)
  <2>1. Listed(scope, left, E, madeOn)
    BY <1>1, <1>2, ListedCut
  <2> HIDE DEF left
  <2> QED
    BY <1>1, <1>2, <2>1 DEF Cut, Apart
<1> HIDE DEF left
<1>4. /\ DOMAIN MarkedSeq(left) = DOMAIN left
      /\ \A i \in DOMAIN left : MarkedSeq(left)[i] = ConflictOn(left[i])
  BY DEF MarkedSeq
<1>5. ASSUME NEW i \in DOMAIN left
      PROVE  /\ MarkedSeq(left)[i].target = left[i].target /\ MarkedSeq(left)[i].id = left[i].id
             /\ BasedIn(MarkedSeq(left)[i], E)
  <2> DEFINE c == left[i]
  <2>1. c \in Change /\ BasedIn(c, E)
    BY <1>2, <1>3, SeqParts DEF Listed
  <2>2. MarkedSeq(left)[i] = ConflictOn(c)
    BY <1>4
  <2> HIDE DEF c
  <2>3. c.target \in Targets /\ call.answer.versions[c.target] <= E[c.target].ver
    BY <2>1, PanelFacts DEF AnsweredBy, Change
  <2>4. \/ ConflictOn(c) = c
        \/ /\ ConflictOn(c).target = c.target /\ ConflictOn(c).id = c.id /\ ConflictOn(c).base = c.base
           /\ ConflictOn(c).kind = c.kind /\ ConflictOn(c).conflict = call.answer.versions[c.target]
    BY <2>1 DEF ConflictOn, Change
  <2>5. BasedIn(ConflictOn(c), E) /\ ConflictOn(c).target = c.target /\ ConflictOn(c).id = c.id
    BY <2>1, <2>3, <2>4 DEF BasedIn
  <2> QED
    BY <2>2, <2>5 DEF c
<1>6. Listed(scope, MarkedSeq(left), E, madeOn)
  BY <1>3, <1>4, <1>5, ListedAlike
<1>7. Apart(MarkedSeq(left), redo)
  BY <1>3, <1>4, <1>5 DEF Apart
<1> QED
  BY <1>6, <1>7 DEF left

LEMMA PanelSaving ==
  ASSUME TypeInv, SavingInv, applying, Continue
  PROVE  SavingInv'
<1> DEFINE E == doc[scope]
           none == [pending EXCEPT ![scope] = NoSave]
<1>1. ContinueStep /\ UNCHANGED <<scope, parked, restoredFor, server, spent, history>>
  BY ContinueParts
<1>2. /\ scope \in Drafts /\ Listed(scope, changes, E, madeOn) /\ Listed(scope, redo, E, madeOn)
      /\ Apart(changes, redo) /\ changes # <<>> /\ changes \in Seq(Change)
      /\ AnsweredBy(scope, call.answer.versions) /\ AnsweredBy(scope, call.settled.versions)
      /\ call.answer.versions \in [Targets -> Nat] /\ call.settled.versions \in [Targets -> Nat]
  BY PanelFacts
<1>3. \A t \in Targets : token[t] <= E[t].ver
  BY <1>2 DEF SavingInv, CanvasInv
<1>4. NotSettled \in Settled /\ MadeIn(scope, {}, madeOn) /\ NotSettled.carried = {}
  BY BaseTypes DEF MadeIn, NotSettled
<1>5. CASE /\ call.phase = "settle" /\ call.answer.is = "lost"
           /\ Ended(changes, pending) /\ redo' = redo /\ token' = token
  BY <1>1, <1>2, <1>3, <1>5, EndedSaving
<1>6. CASE /\ call.phase = "settle" /\ call.answer.is # "none" /\ call.batch = changes
           /\ Resent(changes, NotSettled) /\ UNCHANGED <<changes, redo, due, token>> /\ applying' = TRUE
  <2>1. due \in BOOLEAN /\ AnsweredBy(scope, NotSettled.versions) /\ E = doc[scope]
    BY <1>2, TypeParts, ZeroAnswered DEF TypeInv
  <2> HIDE DEF E, none
  <2> QED
    BY <1>1, <1>2, <1>4, <1>6, <2>1, ResentSaving
<1>7. CASE /\ call.phase = "settle" /\ call.answer.is = "ok" /\ call.batch = changes /\ Ops(Rest) # <<>>
           /\ changes' = RebasedSeq(changes) /\ due' = (due \/ changes' # changes)
           /\ Resent(Rest, [carried |-> CarriedIn, edited |-> EditedIn, versions |-> call.answer.versions])
           /\ UNCHANGED <<redo, token>> /\ applying' = TRUE
  <2> DEFINE settled == [carried |-> CarriedIn, edited |-> EditedIn, versions |-> call.answer.versions]
  <2>1. Rest \in Seq(Change) /\ Listed(scope, Rest, E, madeOn)
    BY <1>7, RestListed
  <2>2. /\ Listed(scope, changes', E, madeOn) /\ Apart(changes', redo) /\ Ids(changes') = Ids(call.batch)
        /\ changes' \in Seq(Change) /\ DOMAIN changes' = DOMAIN changes
        /\ \A i \in DOMAIN changes :
             changes'[i].target = changes[i].target /\ changes'[i].id = changes[i].id
    BY <1>7, RebasedListed
  <2>3. changes' # <<>> /\ due' \in BOOLEAN /\ (~due' => ~due /\ changes' = changes)
    <3>1. due \in BOOLEAN
      BY TypeParts DEF TypeInv
    <3>2. DOMAIN changes # {} /\ DOMAIN <<>> = {}
      BY <1>2, SeqParts
    <3>3. changes' # <<>>
      BY <2>2, <3>2
    <3> QED
      BY <1>7, <3>1, <3>3
  <2>4. settled \in Settled
    <3>1. call.batch \in Seq(Change) /\ call.save.sent \in Seq(Change)
      BY CallParts
    <3>2. CarriedIn \subseteq Nat /\ EditedIn \subseteq Nat
      BY <3>1, IdsType, EditedCarried DEF CarriedIn
    <3> QED
      BY <1>2, <3>2 DEF Settled
  <2>5. MadeIn(scope, CarriedIn, madeOn)
    BY PanelFacts DEF SavingInv, CallMade, CarriedIn
  <2>6. ASSUME NEW i \in DOMAIN changes', changes'[i].id \in CarriedIn \ EditedIn
        PROVE  E[changes'[i].target].ver > 0
    <3> DEFINE c == changes[i]
    <3>1. /\ i \in DOMAIN changes /\ c \in Change
          /\ c.id \in DOMAIN madeOn /\ madeOn[c.id] = On(scope, c.target)
          /\ c.id \in CarriedIn /\ changes'[i].target = c.target
      BY <1>2, <2>2, <2>6, SeqParts DEF Listed, SourcedIn
    <3> HIDE DEF c
    <3>2. c.target \in Targets
      BY <3>1 DEF Change
    <3>3. EntitiesOk(E) /\ IsMap(E) /\ call.answer.versions \in [Targets -> Nat]
      BY PanelFacts
    <3>4. CASE c.target \in LayoutOnly
      BY <3>1, <3>2, <3>3, <3>4, StagedSaveAssumption DEF EntitiesOk
    <3>5. CASE c.target \notin LayoutOnly
      <4>1. call.answer.versions[c.target] > 0
        BY <1>7, <3>1, <3>5, CarriedAnswered
      <4>2. call.answer.versions[c.target] <= E[c.target].ver /\ E[c.target].ver \in Nat
        BY <1>2, <3>2, <3>3 DEF AnsweredBy, IsMap, Entity
      <4>3. E[c.target].ver > 0
        BY <3>2, <3>3, <4>1, <4>2
      <4> QED
        BY <3>1, <3>2, <3>3, <4>3 DEF EntitiesOk
    <3> QED
      BY <3>4, <3>5
  <2>7. /\ settled.carried = CarriedIn /\ settled.edited = EditedIn
        /\ settled.versions = call.answer.versions /\ Resent(Rest, settled) /\ E = doc[scope]
    BY <1>7
  <2> HIDE DEF settled, E, none
  <2> QED
    BY <1>1, <1>2, <1>7, <2>1, <2>2, <2>3, <2>4, <2>5, <2>6, <2>7, ResentSaving
<1>8. CASE /\ call.phase = "settle" => call.batch = changes /\ Ops(Rest) = <<>>
           /\ call.answer.is = "ok"
           /\ Ended(<<>>, none) /\ redo' = <<>> /\ Reconcile(scope, call.batch, call.answer.versions)
  <2>1. \A t \in Targets : token'[t] <= E[t].ver
    BY <1>2, <1>8, ReconcileFits DEF SavingInv
  <2> QED
    BY <1>1, <1>8, <2>1, EmptyOk, EndedSaving
<1>9. CASE /\ call.phase = "send" /\ call.answer.is \in {"refused", "conflict", "lost"}
           /\ \E saves \in {pending, none} : Ended(MarkedSeq(Cleared(SettledOnly)), saves)
           /\ \/ redo' = redo /\ token' = token
              \/ redo' = <<>> /\ \E cs : Reconcile(scope, cs, call.settled.versions)
  <2> DEFINE left == MarkedSeq(Cleared(SettledOnly))
  <2>1. Listed(scope, left, E, madeOn) /\ Apart(left, redo)
    BY MarkedListed
  <2>2. PICK saves \in {pending, none} : Ended(left, saves)
    BY <1>9
  <2> HIDE DEF left
  <2>3. Listed(scope, redo', E, madeOn) /\ Apart(left, redo')
    <3>1. redo' = redo \/ redo' = <<>>
      BY <1>9
    <3>2. Listed(scope, <<>>, E, madeOn) /\ Apart(left, <<>>)
      BY EmptyOk
    <3> HIDE DEF E
    <3> QED
      BY <1>2, <2>1, <3>1, <3>2
  <2>4. \A t \in Targets : token'[t] <= E[t].ver
    BY <1>2, <1>3, <1>9, ReconcileFits DEF SavingInv
  <2> QED
    BY <1>1, <1>9, <2>1, <2>2, <2>3, <2>4, EndedSaving
<1> QED
  BY <1>1, <1>5, <1>6, <1>7, <1>8, <1>9 DEF ContinueStep

-----------------------------------------------------------------------------
(* A save carried on, its draft left or its panel not shown                *)

LEMMA RestIds ==
  ASSUME TypeInv
  PROVE  Ids(Rest) \subseteq Ids(call.batch) /\ Rest \in Seq(Change)
<1>1. /\ Rest \in Seq(Change) /\ Keeps(Rest, OutgoingSeq(call.batch), LeftIn)
      /\ LeftIn \in SUBSET (DOMAIN call.batch)
  BY RestType
<1>2. ASSUME NEW i \in DOMAIN call.batch PROVE OutgoingSeq(call.batch)[i].id = call.batch[i].id
  <2>1. call.batch[i] \in Change
    BY CallParts, SeqParts
  <2>2. OutgoingSeq(call.batch)[i].id = RebasedSeq(call.batch)[i].id
    BY CallParts, OutgoingFacts
  <2>3. RebasedSeq(call.batch)[i].id = call.batch[i].id
    BY <2>1 DEF RebasedSeq, OnTop, Rebase, Change
  <2> QED
    BY <2>2, <2>3
<1> HIDE DEF Rest, LeftIn
<1>3. ASSUME NEW k \in DOMAIN Rest PROVE Rest[k].id \in Ids(call.batch)
  <2>1. PICK i \in LeftIn : Rest[k] = OutgoingSeq(call.batch)[i]
    BY <1>1 DEF Keeps
  <2> QED
    BY <1>1, <1>2, <2>1 DEF Ids
<1> QED
  BY <1>1, <1>3 DEF Ids

LEMMA CarriedOn ==
  ASSUME TypeInv, LiveInv, CallMade, Continue
  PROVE  LiveInv' /\ CallMade'
<1>1. /\ Running /\ call.answer.is # "none"
  BY DEF Continue, SettleLost, SettleRefused, SettleApplied, SendApplied, SendFailed, Answered, Running
<1>2. /\ MadeIn(call.scope, Ids(call.batch), madeOn) /\ MadeIn(call.scope, CarriedIn, madeOn)
      /\ MadeIn(call.scope, {}, madeOn) /\ NotSettled.carried = {}
  BY <1>1 DEF CallMade, CarriedIn, MadeIn, NotSettled
<1>3. ASSUME NEW cs, NEW saves, Done(cs, saves, snap) PROVE LiveInv' /\ CallMade'
  BY <1>1, <1>3, EndedCall DEF Done
<1>4. ASSUME NEW rest, Ids(rest) \subseteq Ids(call.batch), NEW saves, NEW settled,
             Send(rest, call.batch, call.scope, saves, settled),
             MadeIn(call.scope, settled.carried, madeOn), madeOn' = madeOn
      PROVE  LiveInv' /\ CallMade'
  <2> DEFINE save == SaveOf(rest, call.batch, saves[call.scope])
  <2>1. /\ net' = net \cup {Request(save, call.scope)}
        /\ call' = [phase |-> "send", scope |-> call.scope, batch |-> call.batch, save |-> save,
                    settled |-> settled, answer |-> NoAnswer]
    BY <1>4 DEF Send, SaveOf
  <2>2. save.sent = rest
    BY DEF SaveOf
  <2> HIDE DEF save
  <2>3. /\ call'.phase # "none" /\ call'.save = save /\ call'.scope = call.scope
        /\ call'.answer = NoAnswer /\ call'.batch = call.batch /\ call'.settled = settled
    BY <2>1
  <2>4. MadeIn(call.scope, Ids(save.sent), madeOn)
    BY <1>2, <1>4, <2>2 DEF MadeIn
  <2> QED
    BY <1>1, <1>2, <1>4, <2>1, <2>3, <2>4, SentCall
<1>5. madeOn' = madeOn
  BY DEF Continue, SettleLost, SettleRefused, SettleApplied, SendApplied, SendFailed, history
<1>6. CASE SettleLost \/ SendApplied
  BY <1>3, <1>6 DEF SettleLost, SendApplied
<1>7. CASE SettleRefused
  BY <1>2, <1>4, <1>5, <1>7 DEF SettleRefused
<1>8. CASE SettleApplied
  <2> DEFINE settled == [carried |-> CarriedIn, edited |-> EditedIn, versions |-> call.answer.versions]
  <2>1. \/ Done(Cleared(Ids(call.batch)), [pending EXCEPT ![call.scope] = NoSave], snap)
        \/ Send(Rest, call.batch, call.scope, [pending EXCEPT ![call.scope] = NoSave], settled)
    BY <1>8, SettleAppliedEffect
  <2>2. settled.carried = CarriedIn
    OBVIOUS
  <2> HIDE DEF settled
  <2> QED
    BY <1>2, <1>3, <1>4, <1>5, <2>1, <2>2, RestIds
<1>9. CASE SendFailed
  BY <1>3, <1>9, SendFailedEffect
<1> QED
  BY <1>6, <1>7, <1>8, <1>9 DEF Continue

LEMMA ContinueSaving ==
  ASSUME TypeInv, SavingInv, Continue
  PROVE  SavingInv'
<1>1. CASE applying
  BY <1>1, PanelSaving
<1>2. CASE ~applying
  <2>1. /\ PageInv' /\ (\A d \in Drafts : Attended(d)' => Attended(d) /\ Unmoved(d))
        /\ applying' = FALSE /\ UNCHANGED <<scope, token, madeOn, edits, doc, wanted>>
    BY <1>2, ForeignMoves DEF SavingInv
  <2>2. SlicesInv'
    BY <2>1, UnmovedSlice, SameMade DEF SavingInv, SlicesInv
  <2>3. LiveInv' /\ CallMade'
    BY CarriedOn DEF SavingInv
  <2>4. CanvasInv'
    BY <2>1, CanvasSame DEF SavingInv, CanvasInv
  <2>5. PanelInv'
    BY <2>1 DEF PanelInv
  <2> QED
    BY <2>1, <2>2, <2>3, <2>4, <2>5 DEF SavingInv
<1>3. applying \in BOOLEAN
  BY TypeParts DEF TypeInv
<1> QED
  BY <1>1, <1>2, <1>3

-----------------------------------------------------------------------------
(* Navigation                                                              *)

LEMMA MovesSaving ==
  ASSUME TypeInv, SavingInv, ~Hasty,
         WriteSnapshot \/ Reload \/ Evict \/ \E s \in Scopes : SwitchTo(s)
  PROVE  SavingInv'
<1>1. PageInv' /\ \A d \in Drafts : Attended(d)' => Attended(d) /\ Unmoved(d)
  BY MovesOnly DEF SavingInv
<1>2. UNCHANGED <<doc, madeOn, edits>>
  BY DEF WriteSnapshot, Reload, Evict, SwitchTo, Activate, server, history
<1>3. SlicesInv'
  BY <1>1, <1>2, UnmovedSlice, SameMade DEF SavingInv, SlicesInv
<1>4. ASSUME NEW s \in Scopes, Activate(s) PROVE CanvasInv' /\ LiveInv' /\ CallMade' /\ PanelInv'
  <2>1. /\ scope' = s /\ applying' = FALSE /\ UNCHANGED <<call, net, madeOn, edits, doc>>
        /\ token' = [t \in Targets |-> IF s \in Drafts THEN doc[s][t].ver ELSE 0]
    BY <1>2, <1>4 DEF Activate
  <2>2. \A t \in Targets : s \in Drafts => token'[t] <= doc[s][t].ver
    <3>1. ASSUME NEW t \in Targets, s \in Drafts PROVE doc[s][t].ver \in Nat
      BY <3>1, TypeParts DEF TypeInv, Entity
    <3> QED
      BY <2>1, <3>1
  <2>3. CanvasInv'
    BY <2>1, <2>2 DEF SavingInv, CanvasInv
  <2> QED
    BY <2>1, <2>3 DEF SavingInv, LiveInv, CallMade, PanelInv, Running
<1>5. CASE Reload
  <2>1. /\ scope' = Published /\ applying' = FALSE /\ call' = NoCall
        /\ net' = {[m EXCEPT !.live = FALSE] : m \in net}
    BY <1>5 DEF Reload
  <2>2. \A m \in net' : ~m.live
    BY <2>1, TypeParts DEF TypeInv, RequestRec
  <2>3. ~Running' /\ Published \notin Drafts
    BY <2>1, StagedSaveAssumption DEF Running, NoCall
  <2>4. CanvasInv' /\ LiveInv' /\ CallMade' /\ PanelInv'
    BY <1>2, <2>1, <2>2, <2>3 DEF SavingInv, CanvasInv, LiveInv, CallMade, PanelInv
  <2> QED
    BY <1>1, <1>3, <2>4 DEF SavingInv
<1>6. CASE WriteSnapshot
  <2>1. UNCHANGED <<scope, changes, applying, token, pending, call, net, doc, commits, edits, madeOn>>
    BY <1>6 DEF WriteSnapshot, server, history
  <2>2. CanvasInv' /\ LiveInv' /\ CallMade'
    BY <2>1 DEF SavingInv, CanvasInv, LiveInv, CallMade, Running
  <2>3. PanelInv'
    BY <2>1 DEF SavingInv, PanelInv, AnsweredBy, Applied, SettledOnly
  <2> QED
    BY <1>1, <1>3, <2>2, <2>3 DEF SavingInv
<1> QED
  BY <1>1, <1>3, <1>4, <1>5, <1>6 DEF Evict, SwitchTo, SavingInv, Scopes

-----------------------------------------------------------------------------
(* The server's steps                                                      *)

\* What the page is told of its request, if it hears of it: what the draft now holds.
Told(a) ==
  /\ Running /\ call' = [call EXCEPT !.answer = a] /\ a.is # "none"
  /\ \/ a.versions = NoAnswer.versions /\ a.is # "ok"
     \/ a.versions = [t \in Targets |-> doc'[call.scope][t].ver]
  /\ a.is = "ok" => call.save.key \in {r.key : r \in commits'[call.scope]}

LEMMA ServedCall ==
  ASSUME TypeInv, LiveInv, ServerStep
  PROVE  /\ net' \subseteq net
         /\ call' = call \/ ((\A m \in net' : ~m.live) /\ \E a : Told(a))
<1>1. ASSUME NEW m \in net, net' = net \ {m}, m.live
      PROVE  /\ Running /\ m = Request(call.save, call.scope) /\ \A x \in net' : ~x.live
             /\ m.key = call.save.key /\ m.draft = call.scope
  <2>1. \A x \in net : x.live \in BOOLEAN
    BY TypeParts DEF TypeInv, RequestRec
  <2> QED
    BY <1>1, <2>1 DEF LiveInv, Request
<1>2. ASSUME NEW m \in net, NEW is, NEW entities, Answer(m, is, entities), is # "none",
             entities = doc'[m.draft], is = "ok" => m.key \in {r.key : r \in commits'[m.draft]}
      PROVE  /\ net' \subseteq net
             /\ call' = call \/ ((\A x \in net' : ~x.live) /\ \E a : Told(a))
  <2>1. net' = net \ {m}
    BY <1>2 DEF Answer
  <2>2. CASE ~m.live
    BY <1>2, <2>1, <2>2 DEF Answer
  <2>3. CASE m.live
    <3> DEFINE a == [is |-> is, versions |-> [t \in Targets |-> entities[t].ver]]
               b == [NoAnswer EXCEPT !.is = "lost"]
    <3>1. call' = [call EXCEPT !.answer = a] \/ call' = [call EXCEPT !.answer = b]
      BY <1>2, <2>3 DEF Answer
    <3>2. /\ Running /\ (\A x \in net' : ~x.live) /\ m.key = call.save.key /\ m.draft = call.scope
      BY <1>1, <2>1, <2>3
    <3>3. call' = [call EXCEPT !.answer = a] => Told(a)
      BY <1>2, <3>2 DEF Told
    <3>4. call' = [call EXCEPT !.answer = b] => Told(b)
      BY <3>2 DEF Told, NoAnswer
    <3> QED
      BY <2>1, <3>1, <3>2, <3>3, <3>4
  <2> QED
    BY <2>2, <2>3
<1>3. ASSUME NEW m \in net, NEW is \in {"refused", "lost"}, net' = net \ {m},
             call' = IF m.live THEN [call EXCEPT !.answer = [NoAnswer EXCEPT !.is = is]] ELSE call
      PROVE  /\ net' \subseteq net
             /\ call' = call \/ ((\A x \in net' : ~x.live) /\ \E a : Told(a))
  <2> DEFINE a == [NoAnswer EXCEPT !.is = is]
  <2>1. CASE m.live
    <3>1. Running /\ \A x \in net' : ~x.live
      BY <1>1, <1>3, <2>1
    <3>2. Told(a)
      BY <1>3, <2>1, <3>1 DEF Told, NoAnswer
    <3> QED
      BY <1>3, <3>1, <3>2
  <2> QED
    BY <1>3, <2>1
<1>4. ASSUME NEW m \in net, Replay(m)
      PROVE  /\ net' \subseteq net
             /\ call' = call \/ ((\A x \in net' : ~x.live) /\ \E a : Told(a))
  BY <1>2, <1>4 DEF Replay, Applied, server
<1>5. ASSUME NEW m \in net, Apply(m)
      PROVE  /\ net' \subseteq net
             /\ call' = call \/ ((\A x \in net' : ~x.live) /\ \E a : Told(a))
  <2>1. /\ m.draft \in Drafts /\ doc \in [Drafts -> [Targets -> Entity]]
        /\ commits \in [Drafts -> SUBSET Commit]
    BY TypeParts DEF TypeInv, RequestRec
  <2>2. doc'[m.draft] = After(m.draft, m.ops)
    BY <1>5, <2>1 DEF Apply
  <2>3. [key |-> m.key, ops |-> m.ops] \in commits'[m.draft]
    BY <1>5, <2>1 DEF Apply
  <2>4. m.key \in {r.key : r \in commits'[m.draft]}
    BY <2>3
  <2> QED
    BY <1>2, <1>5, <2>2, <2>4 DEF Apply
<1>6. ASSUME NEW m \in net, Refuse(m)
      PROVE  /\ net' \subseteq net
             /\ call' = call \/ ((\A x \in net' : ~x.live) /\ \E a : Told(a))
  <2> DEFINE is == IF /\ m.draft \in open /\ ~Exists(m.draft, m.ops)
                      /\ Conflicts(m.draft, m.ops)
                   THEN "conflict" ELSE "refused"
  <2>1. is # "none" /\ is # "ok"
    OBVIOUS
  <2>2. Answer(m, is, doc[m.draft]) /\ doc' = doc
    BY <1>6 DEF Refuse, server
  <2> HIDE DEF is
  <2> QED
    BY <1>2, <2>1, <2>2
<1>7. ASSUME NEW m \in net, Violate(m) \/ Drop(m)
      PROVE  /\ net' \subseteq net
             /\ call' = call \/ ((\A x \in net' : ~x.live) /\ \E a : Told(a))
  BY <1>3, <1>7 DEF Violate, Drop
<1>8. ASSUME NEW d \in Drafts, CloseDraft(d) \/ \E t \in Targets : OtherEdit(d, t)
      PROVE  net' = net /\ call' = call
  BY <1>8 DEF CloseDraft, OtherEdit, page
<1> QED
  BY <1>4, <1>5, <1>6, <1>7, <1>8 DEF ServerStep, Respond

\* What a batch writes is there from then on.
LEMMA WrittenOk ==
  ASSUME TypeInv, NEW d \in Drafts, NEW ops \in Seq(Op), EntitiesOk(doc[d])
  PROVE  /\ Grown(doc[d], After(d, ops)) /\ EntitiesOk(After(d, ops))
         /\ \A i \in DOMAIN ops : After(d, ops)[ops[i].target].ver > 0
<1> DEFINE E == doc[d]
           F == After(d, ops)
<1>1. E \in [Targets -> Entity] /\ F \in [Targets -> Entity]
  BY AfterType, TypeParts DEF TypeInv
<1>2. ASSUME NEW t \in Targets
      PROVE  E[t].ver <= F[t].ver /\ (t \in Written(ops) => F[t].ver > 0)
  <2>1. E[t].ver \in Nat
    BY <1>1 DEF Entity
  <2>2. ASSUME NEW x, NEW op PROVE Written1(x, op).ver = x.ver + 1
    BY DEF Written1
  <2>3. \/ t \notin Written(ops) /\ F[t] = E[t]
        \/ \E i \in DOMAIN ops : F[t] = Written1(E[t], ops[i])
    BY AppliedEdit
  <2>4. \/ t \notin Written(ops) /\ F[t] = E[t]
        \/ F[t].ver = E[t].ver + 1
    BY <2>2, <2>3
  <2> HIDE DEF E, F
  <2> QED
    BY <2>1, <2>4
<1>3. \A i \in DOMAIN ops : ops[i].target \in Targets /\ ops[i].target \in Written(ops)
  <2>1. \A i \in DOMAIN ops : ops[i] \in Op
    BY SeqParts
  <2> QED
    BY <2>1 DEF Op, Written
<1>4. \A t \in Targets : E[t].ver \in Nat /\ F[t].ver \in Nat
  BY <1>1 DEF Entity
<1> HIDE DEF E, F
<1>5. Grown(E, F) /\ EntitiesOk(F) /\ \A i \in DOMAIN ops : F[ops[i].target].ver > 0
  <2>1. Grown(E, F)
    BY <1>2 DEF Grown
  <2>2. \A t \in Targets : t \in Existing => F[t].ver > 0
    <3>1. \A t \in Targets : t \in Existing => E[t].ver > 0
      BY DEF EntitiesOk, E
    <3> QED
      BY <1>2, <1>4, <3>1
  <2> QED
    BY <1>2, <1>3, <2>1, <2>2 DEF EntitiesOk
<1> QED
  BY <1>5 DEF E, F

LEMMA ServedDraft ==
  ASSUME TypeInv, NEW d \in Drafts, SliceInv(d), ServerStep
  PROVE  /\ Grown(doc[d], doc'[d]) /\ EntitiesOk(doc'[d]) /\ commits[d] \subseteq commits'[d]
         /\ \A r \in commits'[d] :
              \/ r \in commits[d]
              \/ r \in Letters(d) /\ \A i \in DOMAIN r.ops : doc'[d][r.ops[i].target].ver > 0
<1>1. /\ EntitiesOk(doc[d]) /\ \A m \in Letters(d) : Writable(m.ops, doc[d])
  BY DEF SliceInv, DraftOk, LettersOk
<1>2. /\ doc \in [Drafts -> [Targets -> Entity]] /\ commits \in [Drafts -> SUBSET Commit]
      /\ \A m \in net : m.draft \in Drafts /\ m.ops \in Seq(Op)
  BY TypeParts DEF TypeInv, RequestRec
<1>3. Grown(doc[d], doc[d])
  BY <1>2 DEF Grown, Entity
<1>4. ASSUME doc'[d] = doc[d], commits'[d] = commits[d]
      PROVE  /\ Grown(doc[d], doc'[d]) /\ EntitiesOk(doc'[d]) /\ commits[d] \subseteq commits'[d]
             /\ \A r \in commits'[d] : r \in commits[d]
  BY <1>1, <1>3, <1>4
<1>5. ASSUME NEW m \in net, Apply(m), m.draft = d
      PROVE  /\ Grown(doc[d], doc'[d]) /\ EntitiesOk(doc'[d]) /\ commits[d] \subseteq commits'[d]
             /\ \A r \in commits'[d] :
                  \/ r \in commits[d]
                  \/ r \in Letters(d) /\ \A i \in DOMAIN r.ops : doc'[d][r.ops[i].target].ver > 0
  <2>1. /\ doc'[d] = After(d, m.ops) /\ commits'[d] = commits[d] \cup {LetterOf(m)}
    BY <1>2, <1>5 DEF Apply, Accepts, LetterOf
  <2>2. LetterOf(m) \in Letters(d) /\ LetterOf(m).ops = m.ops
    BY <1>5 DEF Letters, LetterOf
  <2>3. Writable(m.ops, doc[d])
    BY <1>1, <2>2
  <2>4. /\ Grown(doc[d], After(d, m.ops)) /\ EntitiesOk(After(d, m.ops))
        /\ \A i \in DOMAIN m.ops : After(d, m.ops)[m.ops[i].target].ver > 0
    BY <1>1, <1>2, <1>5, <2>1, <2>3, WrittenOk
  <2> QED
    BY <2>1, <2>2, <2>4
<1>6. ASSUME NEW e \in Drafts, NEW t \in Targets, OtherEdit(e, t)
      PROVE  Grown(doc[d], doc'[d]) /\ EntitiesOk(doc'[d]) /\ commits' = commits
  <2>1. doc' = [doc EXCEPT ![e][t].ver = @ + 1] /\ commits' = commits
    BY <1>6 DEF OtherEdit
  <2>2. ASSUME NEW u \in Targets
        PROVE  /\ doc'[d][u].ver = doc[d][u].ver \/ doc'[d][u].ver = doc[d][u].ver + 1
               /\ doc[d][u].ver \in Nat
    <3>1. doc[d][u] \in Entity
      BY <1>2
    <3>2. CASE d # e \/ t # u
      BY <1>2, <2>1, <3>1, <3>2 DEF Entity
    <3>3. CASE d = e /\ t = u
      BY <1>2, <2>1, <3>1, <3>3 DEF Entity
    <3> QED
      BY <3>2, <3>3
  <2>3. Grown(doc[d], doc'[d]) /\ EntitiesOk(doc'[d])
    BY <1>1, <2>2 DEF Grown, EntitiesOk
  <2> QED
    BY <2>1, <2>3
<1>7. \/ doc'[d] = doc[d] /\ commits'[d] = commits[d]
      \/ \E m \in net : Apply(m) /\ m.draft = d
      \/ \E e \in Drafts, t \in Targets : OtherEdit(e, t)
  <2>1. ASSUME NEW m \in net, Apply(m), m.draft # d PROVE doc'[d] = doc[d] /\ commits'[d] = commits[d]
    BY <1>2, <2>1 DEF Apply
  <2> QED
    BY <2>1 DEF ServerStep, Respond, Replay, Refuse, Violate, Drop, CloseDraft, server
<1> QED
  BY <1>4, <1>5, <1>6, <1>7

LEMMA ServerSaving ==
  ASSUME TypeInv, SavingInv, ServerStep
  PROVE  SavingInv'
<1>1. /\ PageInv'
      /\ \A d \in Drafts : Attended(d)' =>
           /\ Attended(d) /\ Quiet(d) /\ Letters(d)' \subseteq Letters(d) /\ wanted'[d] = wanted[d]
      /\ UNCHANGED <<scope, changes, redo, applying, pending, due, token, edits, madeOn, minted>>
  BY ServerMoves DEF SavingInv
<1>2. net' \subseteq net /\ (call' = call \/ ((\A m \in net' : ~m.live) /\ \E a : Told(a)))
  BY ServedCall DEF SavingInv
<1>3. \A d \in Drafts : Attended(d)' =>
        /\ Grown(doc[d], doc'[d]) /\ EntitiesOk(doc'[d]) /\ commits[d] \subseteq commits'[d]
        /\ \A r \in commits'[d] :
             \/ r \in commits[d]
             \/ r \in Letters(d) /\ \A i \in DOMAIN r.ops : doc'[d][r.ops[i].target].ver > 0
  BY <1>1, ServedDraft DEF SavingInv, SlicesInv
<1>4. TypeInv'
  <2>1. Next
    BY DEF ServerStep, Next
  <2> QED
    BY <2>1, TypeStep
<1>4a. /\ token \in [Targets -> Nat] /\ doc \in [Drafts -> [Targets -> Entity]]
       /\ doc' \in [Drafts -> [Targets -> Entity]] /\ commits' \in [Drafts -> SUBSET Commit]
  <2>1. token \in [Targets -> Nat] /\ doc \in [Drafts -> [Targets -> Entity]]
    BY TypeParts DEF TypeInv
  <2>2. doc' \in [Drafts -> [Targets -> Entity]] /\ commits' \in [Drafts -> SUBSET Commit]
    BY <1>4, TypePartsNext DEF TypeInv
  <2> QED
    BY <2>1, <2>2
<1>5. ASSUME NEW d \in Drafts, Attended(d)' PROVE SliceInv(d)'
  <2> DEFINE H == Held(d)
             R == HeldRedo(d)
             S == HeldSave(d)
             N == Letters(d)
  <2>1. DraftOk(d, H, R, S, doc[d], commits[d], N, madeOn)
    BY <1>1, <1>5 DEF SavingInv, SlicesInv, SliceInv
  <2>2. /\ H \in Seq(Change) /\ R \in Seq(Change) /\ S \in PendingSave /\ N \in SUBSET Commit
        /\ commits[d] \subseteq Commit /\ IsMap(doc[d])
    BY HeldTypes
  <2>3. Held(d)' = H /\ HeldSave(d)' = S /\ HeldRedo(d)' \in {R, <<>>} /\ Letters(d)' \in SUBSET N
    BY <1>1, <1>5 DEF Quiet
  <2>4. IsMap(doc'[d]) /\ commits'[d] \in SUBSET Commit
    BY <1>4a DEF IsMap
  <2> HIDE DEF H, R, S, N
  <2>5. \A r \in commits'[d] :
          \/ r \in commits[d]
          \/ r \in N /\ \A i \in DOMAIN r.ops : doc'[d][r.ops[i].target].ver > 0
    BY <1>3, <1>5 DEF N
  <2>6. Grown(doc[d], doc'[d]) /\ EntitiesOk(doc'[d])
    BY <1>3, <1>5
  <2>7. DraftOk(d, H, R, S, doc'[d], commits'[d], Letters(d)', madeOn)
    BY <2>1, <2>2, <2>3, <2>4, <2>5, <2>6, DraftWritten
  <2>8. DraftOk(d, H, HeldRedo(d)', S, doc'[d], commits'[d], Letters(d)', madeOn)
    BY <2>3, <2>7, DraftKept DEF Remade
  <2>9. SliceInv(d)' <=>
          DraftOk(d, Held(d)', HeldRedo(d)', HeldSave(d)', doc'[d], commits'[d], Letters(d)', madeOn')
    BY DEF SliceInv
  <2> QED
    BY <1>1, <2>3, <2>8, <2>9
<1>6. CanvasInv'
  <2>1. ASSUME scope \in Drafts, NEW t \in Targets PROVE token'[t] <= doc'[scope][t].ver
    <3>1. token[t] <= doc[scope][t].ver /\ doc[scope][t].ver <= doc'[scope][t].ver
      BY <1>1, <1>3, <2>1 DEF SavingInv, CanvasInv, Grown, Attended
    <3>2. token[t] \in Nat /\ doc[scope][t].ver \in Nat /\ doc'[scope][t].ver \in Nat
      BY <1>4a, <2>1 DEF Entity
    <3> QED
      BY <1>1, <3>1, <3>2
  <2> QED
    BY <1>1, <2>1 DEF SavingInv, CanvasInv
<1>7. /\ Running' <=> Running
      /\ call'.scope = call.scope /\ call'.batch = call.batch /\ call'.save = call.save
      /\ call'.settled = call.settled /\ call'.phase = call.phase
  BY <1>2, CallParts DEF Told, CallRec, Running
<1>8. LiveInv' /\ CallMade'
  <2>1. LiveInv'
    <3>1. CASE call' = call
      BY <1>2, <3>1 DEF SavingInv, LiveInv, Running
    <3>2. CASE \A m \in net' : ~m.live
      BY <3>2 DEF LiveInv
    <3> QED
      BY <1>2, <3>1, <3>2
  <2> QED
    BY <1>1, <1>7, <2>1 DEF SavingInv, CallMade
<1>9. PanelInv'
  <2> SUFFICES ASSUME applying' PROVE PanelInv'
    BY DEF PanelInv
  <2>1. /\ scope \in Drafts /\ scope' = scope /\ Attended(scope)' /\ call.scope = scope /\ applying
        /\ call.save = pending[scope] /\ pending' = pending /\ changes' = changes
    BY <1>1, PanelFacts DEF Attended
  <2> DEFINE E == doc[scope]
             F == doc'[scope]
  <2>2. IsMap(E) /\ IsMap(F) /\ Grown(E, F) /\ EntitiesOk(F) /\ commits[scope] \subseteq commits'[scope]
    <3>1. IsMap(E) /\ IsMap(F)
      BY <1>4a, <2>1 DEF IsMap
    <3> QED
      BY <1>3, <2>1, <3>1
  <2> HIDE DEF E, F
  <2>3. ASSUME NEW versions \in [Targets -> Nat], \A t \in Targets : versions[t] <= E[t].ver
        PROVE  \A t \in Targets : versions[t] <= F[t].ver
    <3>1. ASSUME NEW t \in Targets PROVE versions[t] <= F[t].ver
      <4>1. E[t].ver \in Nat /\ F[t].ver \in Nat /\ E[t].ver <= F[t].ver /\ versions[t] \in Nat
        BY <2>2 DEF IsMap, Grown, Entity
      <4> QED
        BY <2>3, <4>1
    <3> QED
      BY <3>1
  <2>4. /\ \A t \in Targets : call.settled.versions[t] <= F[t].ver
        /\ \A t \in Targets : call.answer.versions[t] <= F[t].ver
        /\ call.settled.versions \in [Targets -> Nat] /\ call.answer.versions \in [Targets -> Nat]
    BY <2>1, <2>3, PanelFacts DEF AnsweredBy, E
  <2>5. ASSUME NEW k, k \in {r.key : r \in commits'[scope]}, k = call.save.key
        PROVE  \A i \in DOMAIN call.save.body.ops :
                 /\ call.save.body.ops[i].target \in Targets
                 /\ F[call.save.body.ops[i].target].ver > 0
    <3>1. SliceInv(scope)' /\ HeldSave(scope)' = call.save
      BY <1>1, <1>5, <2>1 DEF HeldSave
    <3>2. LettersOk(HeldSave(scope)', F, commits'[scope], Letters(scope)')
      BY <2>1, <3>1 DEF SliceInv, DraftOk, F
    <3>3. PICK r \in commits'[scope] : r.key = call.save.key
      BY <2>5
    <3>4. r.ops = call.save.body.ops /\ \A i \in DOMAIN r.ops : F[r.ops[i].target].ver > 0
      BY <3>1, <3>2, <3>3 DEF LettersOk
    <3>5. \A i \in DOMAIN call.save.body.ops : call.save.body.ops[i].target \in Targets
      <4>1. call.save.body.ops \in Seq(Op)
        BY CallParts DEF PendingSave, Body
      <4>2. \A i \in DOMAIN call.save.body.ops : call.save.body.ops[i] \in Op
        BY <4>1, SeqParts
      <4> QED
        BY <4>2 DEF Op
    <3> QED
      BY <2>2, <3>4, <3>5 DEF EntitiesOk
  <2>6. /\ \A t \in Targets : call'.answer.versions[t] <= F[t].ver
        /\ call'.answer.is = "ok" =>
             /\ call.save.key \in {r.key : r \in commits'[scope]}
             /\ \A i \in DOMAIN call.save.body.ops :
                  call'.answer.versions[call.save.body.ops[i].target] > 0
    <3>1. CASE call' = call
      <4>1. call.answer.is = "ok" =>
              /\ call.save.key \in {r.key : r \in commits[scope]}
              /\ \A i \in DOMAIN call.save.body.ops :
                   call.answer.versions[call.save.body.ops[i].target] > 0
        BY <2>1 DEF SavingInv, PanelInv, Applied
      <4> QED
        BY <2>2, <2>4, <3>1, <4>1
    <3>2. ASSUME NEW a, Told(a)
          PROVE  /\ \A t \in Targets : call'.answer.versions[t] <= F[t].ver
                 /\ call'.answer.is = "ok" =>
                      /\ call.save.key \in {r.key : r \in commits'[scope]}
                      /\ \A i \in DOMAIN call.save.body.ops :
                           call'.answer.versions[call.save.body.ops[i].target] > 0
      <4>1. call'.answer = a
        BY <3>2, CallParts DEF Told, CallRec
      <4>2. \/ a.versions = NoAnswer.versions /\ a.is # "ok"
            \/ a.versions = [t \in Targets |-> F[t].ver]
        BY <2>1, <3>2 DEF Told, F
      <4>3. a.is = "ok" => call.save.key \in {r.key : r \in commits'[scope]}
        BY <2>1, <3>2 DEF Told
      <4>4. \A t \in Targets : F[t].ver \in Nat
        BY <2>2 DEF IsMap, Entity
      <4>5. \A t \in Targets : a.versions[t] <= F[t].ver
        <5>1. CASE a.versions = NoAnswer.versions
          BY <4>4, <5>1 DEF NoAnswer
        <5>2. CASE a.versions = [t \in Targets |-> F[t].ver]
          BY <4>4, <5>2
        <5> QED
          BY <4>2, <5>1, <5>2
      <4>6. ASSUME a.is = "ok", NEW i \in DOMAIN call.save.body.ops
            PROVE  a.versions[call.save.body.ops[i].target] > 0
        BY <2>5, <4>2, <4>3, <4>6
      <4> QED
        BY <4>1, <4>3, <4>5, <4>6
    <3> QED
      BY <1>2, <3>1, <3>2
  <2>7. call.phase = "send" => \A i \in DOMAIN changes :
          changes[i].id \in SettledOnly => F[changes[i].target].ver > 0
    <3>1. ASSUME call.phase = "send", NEW i \in DOMAIN changes, changes[i].id \in SettledOnly
          PROVE  F[changes[i].target].ver > 0
      <4>1. E[changes[i].target].ver > 0
        BY <2>1, <3>1 DEF SavingInv, PanelInv, E
      <4>2. changes[i].target \in Targets
        <5>1. changes[i] \in Change
          BY ActiveType
        <5> QED
          BY <5>1 DEF Change
      <4>3. E[changes[i].target].ver <= F[changes[i].target].ver
            /\ E[changes[i].target].ver \in Nat /\ F[changes[i].target].ver \in Nat
        BY <2>2, <4>2 DEF IsMap, Grown, Entity
      <4> QED
        BY <4>1, <4>3
    <3> QED
      BY <3>1
  <2>8. /\ changes # <<>> /\ (call.phase = "settle" => changes = call.batch)
        /\ (call.phase = "send" => Ids(changes) \subseteq Ids(call.batch))
    BY <2>1 DEF SavingInv, PanelInv
  <2>9. SettledOnly' = SettledOnly
    BY <1>7 DEF SettledOnly
  <2> QED
    BY <1>7, <2>1, <2>4, <2>6, <2>7, <2>8, <2>9 DEF PanelInv, AnsweredBy, Applied, F
<1> QED
  BY <1>1, <1>5, <1>6, <1>8, <1>9 DEF SavingInv, SlicesInv

LEMMA SavingInit == Init => SavingInv
<1> SUFFICES ASSUME Init PROVE SavingInv
  OBVIOUS
<1>1. Published \notin Drafts /\ NoDraft \notin Drafts
  BY StagedSaveAssumption DEF Scopes
<1>2. ASSUME NEW d \in Drafts
      PROVE  Held(d) = <<>> /\ HeldRedo(d) = <<>> /\ HeldSave(d) = NoSave /\ Letters(d) = {}
             /\ commits[d] = {} /\ snap[d] = NoSnap
  BY <1>1 DEF Init, Held, HeldRedo, HeldSave, Restorable, EmptySlice, NoSnap, Letters, Scopes
<1>3. PageInv
  BY <1>1, <1>2 DEF Init, PageInv, Synced, NoSnap, Running, NoCall
<1>4. ASSUME NEW d \in Drafts PROVE SliceInv(d)
  <2>1. EntitiesOk(doc[d])
    BY DEF Init, EntitiesOk, Stored, Absent
  <2>2. LettersOk(NoSave, doc[d], {}, {})
    BY DEF LettersOk
  <2> QED
    BY <1>2, <2>1, <2>2, EmptyOk DEF SliceInv, DraftOk
<1>5. CanvasInv
  <2>1. \A e \in 1 .. MaxEdits : madeOn[e].draft = NoDraft
    BY DEF Init
  <2> QED
    BY <1>1, <2>1 DEF Init, CanvasInv
<1>6. LiveInv /\ CallMade /\ PanelInv
  BY DEF Init, LiveInv, CallMade, PanelInv, Running, NoCall
<1> QED
  BY <1>3, <1>4, <1>5, <1>6 DEF SavingInv, SlicesInv

LEMMA SavingUnchanged ==
  ASSUME TypeInv, SavingInv, UNCHANGED vars
  PROVE  SavingInv'
<1>1. /\ UNCHANGED <<scope, changes, redo, parked, applying, token, pending, due, restoredFor, call>>
      /\ UNCHANGED <<snap, net, open, doc, commits, edits, wanted, madeOn>>
  BY DEF vars, page, server, history
<1>2. ASSUME NEW d \in Drafts
      PROVE  Unmoved(d) /\ (Attended(d)' <=> Attended(d)) /\ (Synced(d)' <=> Synced(d))
  BY <1>1 DEF Unmoved, Quiet, Held, HeldRedo, HeldSave, Restorable, Attended, Synced, Letters, LetterOf
<1>3. PageInv'
  BY <1>1, <1>2 DEF SavingInv, PageInv, Running, Attended
<1>4. SlicesInv'
  BY <1>1, <1>2, UnmovedSlice, SameMade DEF SavingInv, SlicesInv
<1>5. CanvasInv' /\ LiveInv' /\ CallMade'
  BY <1>1 DEF SavingInv, CanvasInv, LiveInv, CallMade, Running
<1>6. PanelInv'
  BY <1>1 DEF SavingInv, PanelInv, AnsweredBy, Applied, SettledOnly
<1> QED
  BY <1>3, <1>4, <1>5, <1>6 DEF SavingInv

Moving == WriteSnapshot \/ Reload \/ Evict \/ \E s \in Scopes : SwitchTo(s)

LEMMA Steps == Next => ListEdit \/ Moving \/ Save \/ Continue \/ ServerStep
BY DEF Next, ListEdit, Moving, ServerStep

LEMMA SavingStep == ~Hasty /\ TypeInv /\ SavingInv /\ [Next]_vars => SavingInv'
<1> SUFFICES ASSUME ~Hasty, TypeInv, SavingInv, [Next]_vars PROVE SavingInv'
  OBVIOUS
<1>1. CASE Next
  BY <1>1, Steps, ListEditSaving, MovesSaving, SaveSaving, ContinueSaving, ServerSaving DEF Moving
<1>2. CASE UNCHANGED vars
  BY <1>2, SavingUnchanged
<1> QED
  BY <1>1, <1>2

LEMMA SavingAlways ==
  ASSUME ~Hasty
  PROVE  Spec => [](TypeInv /\ SavingInv)
<1>1. Init => TypeInv /\ SavingInv
  BY TypeInit, SavingInit
<1>2. TypeInv /\ SavingInv /\ [Next]_vars => (TypeInv /\ SavingInv)'
  BY TypeStep, SavingStep
<1> QED
  BY <1>1, <1>2, PTL DEF Spec


-----------------------------------------------------------------------------
(* No staged create is left without a parent                               *)

Known(E, p) == p \in Targets /\ E[p].ver > 0

\* The create j of H makes the parent of its create i.
Parents(H, j, i) == H[j].kind = "create" /\ H[j].target = Parent[H[i].target]

\* A create of H that names its parent by its id has it on E; one that names it by its temp id
\* has it on E, or created before it in H.
Rooted(H, E) ==
  \A i \in DOMAIN H :
    LET p == Parent[H[i].target]
    IN  H[i].kind = "create" =>
          /\ H[i].under = "id" => Known(E, p)
          /\ H[i].under = "ref" => Known(E, p) \/ \E j \in DOMAIN H : j < i /\ Parents(H, j, i)
RootInv == \A d \in Drafts : Attended(d) => Rooted(Held(d), doc[d])

\* The creates of H are still creates in G, or their entities are there.
LEMMA RootedAlike ==
  ASSUME NEW H, NEW G, NEW E, Rooted(H, E), DOMAIN G = DOMAIN H,
         \A i \in DOMAIN H :
           /\ G[i].target = H[i].target
           /\ G[i].kind = "create" => H[i].kind = "create" /\ G[i].under = H[i].under
           /\ H[i].kind = "create" => G[i].kind = "create" \/ Known(E, H[i].target)
  PROVE  Rooted(G, E)
<1> SUFFICES ASSUME NEW i \in DOMAIN G, G[i].kind = "create"
             PROVE  /\ G[i].under = "id" => Known(E, Parent[G[i].target])
                    /\ G[i].under = "ref" => \/ Known(E, Parent[G[i].target])
                                            \/ \E j \in DOMAIN G : j < i /\ Parents(G, j, i)
  BY DEF Rooted
<1>1. /\ H[i].under = "id" => Known(E, Parent[H[i].target])
      /\ H[i].under = "ref" => \/ Known(E, Parent[H[i].target])
                              \/ \E j \in DOMAIN H : j < i /\ Parents(H, j, i)
  BY DEF Rooted
<1>2. ASSUME NEW j \in DOMAIN H, Parents(H, j, i)
      PROVE  Parents(G, j, i) \/ Known(E, Parent[G[i].target])
  BY <1>2 DEF Parents
<1> QED
  BY <1>1, <1>2

LEMMA RootedGrown ==
  ASSUME NEW H, NEW E, NEW F, IsMap(E), IsMap(F), Grown(E, F), Rooted(H, E)
  PROVE  Rooted(H, F)
<1>1. ASSUME NEW p, Known(E, p) PROVE Known(F, p)
  BY <1>1 DEF Known, IsMap, Grown, Entity
<1> QED
  BY <1>1 DEF Rooted

\* A list cut short, of parents only that are on E or of no create that stays.
Sparing(ks, cs, E) ==
  \A i, j \in DOMAIN cs, k \in DOMAIN ks :
    ks[k] = cs[i] /\ cs[i].kind = "create" /\ cs[i].under = "ref" /\ j < i /\ Parents(cs, j, i) =>
      Known(E, cs[j].target) \/ \E l \in DOMAIN ks : ks[l] = cs[j]

LEMMA RootedCut ==
  ASSUME NEW cs \in Seq(Change), NEW ks \in Seq(Change), NEW E, Cut(ks, cs), Uniq(cs),
         Rooted(cs, E), Sparing(ks, cs, E)
  PROVE  Rooted(ks, E)
<1>1. ASSUME NEW k \in DOMAIN ks, ks[k].kind = "create", ks[k].under = "ref",
             ~Known(E, Parent[ks[k].target])
      PROVE  \E l \in DOMAIN ks : l < k /\ Parents(ks, l, k)
  <2>1. PICK i \in DOMAIN cs : ks[k] = cs[i]
    BY DEF Cut
  <2>2. PICK j \in DOMAIN cs : j < i /\ Parents(cs, j, i)
    BY <1>1, <2>1 DEF Rooted
  <2>3. PICK l \in DOMAIN ks : ks[l] = cs[j]
    BY <1>1, <2>1, <2>2 DEF Sparing, Parents
  <2>4. i \in Nat /\ j \in Nat /\ k \in Nat /\ l \in Nat
    BY SeqParts
  <2>5. k # l
    BY <2>1, <2>2, <2>3, <2>4 DEF Uniq
  <2>6. ~(k < l)
    <3> SUFFICES ASSUME k < l PROVE FALSE
      OBVIOUS
    <3>1. PICK a, b \in DOMAIN cs : a < b /\ ks[k] = cs[a] /\ ks[l] = cs[b]
      BY DEF Cut
    <3>2. a = i /\ b = j
      BY <2>1, <2>3, <3>1 DEF Uniq
    <3> QED
      BY <2>2, <2>4, <3>1, <3>2
  <2> QED
    BY <2>1, <2>2, <2>3, <2>4, <2>5, <2>6 DEF Parents
<1>2. ASSUME NEW k \in DOMAIN ks, ks[k].kind = "create", ks[k].under = "id"
      PROVE  Known(E, Parent[ks[k].target])
  <2>1. PICK i \in DOMAIN cs : ks[k] = cs[i]
    BY DEF Cut
  <2> QED
    BY <1>2, <2>1 DEF Rooted
<1> QED
  BY <1>1, <1>2 DEF Rooted

LEMMA SubtreeClosed ==
  ASSUME NEW cs, NEW root \in DOMAIN cs
  PROVE  Closed(cs, CollectStagedSubtree(cs, root))
BY DEF Closed, CollectStagedSubtree

\* Same change, same entity: an id is of one change of a list.
LEMMA SameId ==
  ASSUME NEW d, NEW cs, NEW E, NEW made, Listed(d, cs, E, made), NEW i \in DOMAIN cs, NEW j \in DOMAIN cs,
         cs[i].id = cs[j].id
  PROVE  i = j
<1>1. On(d, cs[i].target) = On(d, cs[j].target)
  BY DEF Listed, SourcedIn
<1>2. cs[i].target = cs[j].target
  BY <1>1 DEF On
<1> QED
  BY <1>2 DEF Listed, Uniq

\* A staged update is of an entity that is there.
LEMMA UpdateThere ==
  ASSUME NEW c \in Change, NEW E, IsMap(E), EntitiesOk(E), BasedIn(c, E),
         c.kind = "update" \/ c.conflict > 0
  PROVE  Known(E, c.target)
<1>1. c.target \in Targets /\ E[c.target].ver \in Nat /\ c.base \in Nat /\ c.conflict \in Nat
  BY DEF Change, IsMap, Entity
<1>2. CASE c.target \in LayoutOnly
  BY <1>1, <1>2, StagedSaveAssumption DEF EntitiesOk, Known
<1>3. CASE c.target \notin LayoutOnly
  BY <1>1, <1>3 DEF BasedIn, Known
<1> QED
  BY <1>2, <1>3

\* The list without some of its members.
LEMMA SansSparing ==
  ASSUME NEW d, NEW cs \in Seq(Change), NEW E, NEW made, Listed(d, cs, E, made), Rooted(cs, E),
         NEW ids,
         \A i, j \in DOMAIN cs :
           cs[i].kind = "create" /\ cs[i].under = "ref" /\ Parents(cs, j, i) /\ cs[j].id \in ids =>
             cs[i].id \in ids \/ Known(E, cs[j].target)
  PROVE  Rooted(Sans(cs, ids), E)
<1> DEFINE ks == Sans(cs, ids)
<1>1. /\ ks \in Seq(Change) /\ Cut(ks, cs)
      /\ \A k \in DOMAIN ks : \E i \in DOMAIN cs : cs[i].id \notin ids /\ ks[k] = cs[i]
      /\ \A i \in DOMAIN cs : cs[i].id \notin ids => \E k \in DOMAIN ks : ks[k] = cs[i]
  BY SansCut, SansFacts
<1> HIDE DEF ks
<1>2. ASSUME NEW i \in DOMAIN cs, NEW j \in DOMAIN cs, NEW k \in DOMAIN ks, ks[k] = cs[i],
             cs[i].kind = "create", cs[i].under = "ref", Parents(cs, j, i), ~Known(E, cs[j].target)
      PROVE  \E l \in DOMAIN ks : ks[l] = cs[j]
  <2>1. PICK a \in DOMAIN cs : cs[a].id \notin ids /\ ks[k] = cs[a]
    BY <1>1
  <2>2. cs[j].id \notin ids
    BY <1>2, <2>1
  <2> QED
    BY <1>1, <2>2
<1>3. Sparing(ks, cs, E) /\ Uniq(cs)
  BY <1>2 DEF Sparing, Listed
<1>4. Rooted(ks, E)
  BY <1>1, <1>3, RootedCut
<1> QED
  BY <1>4 DEF ks

\* The canvas list and its draft's entities.
LEMMA CanvasFacts ==
  ASSUME TypeInv, SavingInv, scope \in Drafts
  PROVE  /\ Listed(scope, changes, doc[scope], madeOn) /\ EntitiesOk(doc[scope]) /\ IsMap(doc[scope])
         /\ changes \in Seq(Change) /\ (\A i \in DOMAIN changes : changes[i] \in Change)
         /\ Attended(scope) /\ Held(scope) = changes
         /\ \A t \in Targets : token[t] > 0 => Known(doc[scope], t)
<1>1. /\ DraftOk(scope, changes, redo, pending[scope], doc[scope], commits[scope], Letters(scope), madeOn)
      /\ changes \in Seq(Change) /\ Attended(scope) /\ Held(scope) = changes
  BY Canvas DEF SavingInv
<1>2. Listed(scope, changes, doc[scope], madeOn) /\ EntitiesOk(doc[scope]) /\ IsMap(doc[scope])
  BY <1>1, HeldTypes DEF DraftOk
<1>3. ASSUME NEW t \in Targets, token[t] > 0 PROVE Known(doc[scope], t)
  <2>1. token[t] <= doc[scope][t].ver /\ token[t] \in Nat /\ doc[scope][t].ver \in Nat
    BY <1>2, TypeParts DEF SavingInv, CanvasInv, TypeInv, IsMap, Entity
  <2> QED
    BY <1>3, <2>1 DEF Known
<1> QED
  BY <1>1, <1>2, <1>3, ActiveType

LEMMA EditRooted ==
  ASSUME TypeInv, SavingInv, RootInv, NEW t \in Targets, Edit(t)
  PROVE  Rooted(changes', doc[scope])
<1> DEFINE e == edits + 1
           E == doc[scope]
<1>1. scope \in Drafts
  BY DEF Edit, Editable
<1>2. Rooted(changes, E) /\ changes \in Seq(Change) /\ \A i \in DOMAIN changes : changes[i] \in Change
  BY <1>1, CanvasFacts DEF RootInv
<1>3. CASE Staging(changes, t) # {}
  <2> DEFINE i == CHOOSE k \in Staging(changes, t) : TRUE
  <2>1. i \in DOMAIN changes /\ changes' = [changes EXCEPT ![i].after = e]
    BY <1>3 DEF Edit, Staging, Replaced
  <2> HIDE DEF i
  <2>2. /\ DOMAIN changes' = DOMAIN changes
        /\ \A k \in DOMAIN changes : /\ changes'[k].target = changes[k].target
                                     /\ changes'[k].kind = changes[k].kind
                                     /\ changes'[k].under = changes[k].under
    BY <1>2, <2>1 DEF Change
  <2> QED
    BY <1>2, <2>2, RootedAlike
<1>4. CASE Staging(changes, t) = {}
  <2>0. PICK u \in Naming : MayStage(t, u) /\ changes' = Append(changes, NewChange(t, u, e))
    BY <1>4 DEF Edit
  <2> DEFINE c == NewChange(t, u, e)
             cs == Append(changes, c)
             p == Parent[t]
  <2>1. changes' = cs
    BY <2>0
  <2>2. c.target = t /\ c.under = u /\ (c.kind = "create" => token[t] = 0)
    BY DEF NewChange
  <2>3. DOMAIN cs = 1 .. (Len(changes) + 1) /\ Len(changes) \in Nat /\ DOMAIN changes = 1 .. Len(changes)
        /\ cs[Len(changes) + 1] = c /\ \A k \in DOMAIN changes : cs[k] = changes[k]
    BY <1>2
  <2>4. ASSUME c.kind = "create", u # "none"
        PROVE  p \in Targets /\ u \in Shown(p)
    <3>1. ~(token[t] > 0)
      BY <2>2, <2>4
    <3> QED
      BY <2>0, <2>4, <3>1, StagedSaveAssumption DEF MayStage
  <2>5. ASSUME c.kind = "create", u = "ref"
        PROVE  \E j \in DOMAIN changes : changes[j].kind = "create" /\ changes[j].target = p
    BY <2>4, <2>5 DEF Shown, Creating, Staging
  <2>6. ASSUME c.kind = "create", u = "id"
        PROVE  Known(E, p)
    <3>1. p \in Targets /\ (token[p] > 0 \/ Staging(changes, p) # Creating(changes, p))
      BY <2>4, <2>6 DEF Shown
    <3>2. CASE token[p] > 0
      BY <1>1, <3>1, <3>2, CanvasFacts
    <3>3. ASSUME NEW j \in DOMAIN changes, changes[j].target = p, changes[j].kind # "create"
          PROVE  Known(E, p)
      <4>1. changes[j] \in Change /\ changes[j].kind = "update" /\ BasedIn(changes[j], E)
        BY <1>1, <1>2, <3>3, CanvasFacts DEF Change, Listed
      <4> QED
        BY <1>1, <3>3, <4>1, CanvasFacts, UpdateThere
    <3> QED
      BY <3>1, <3>2, <3>3 DEF Staging, Creating
  <2> HIDE DEF c, cs, E, p
  <2>7. ASSUME NEW i \in DOMAIN cs, cs[i].kind = "create"
        PROVE  /\ cs[i].under = "id" => Known(E, Parent[cs[i].target])
               /\ cs[i].under = "ref" => \/ Known(E, Parent[cs[i].target])
                                        \/ \E j \in DOMAIN cs : j < i /\ Parents(cs, j, i)
    <3>1. CASE i \in DOMAIN changes
      <4>1. /\ changes[i].under = "id" => Known(E, Parent[changes[i].target])
            /\ changes[i].under = "ref" =>
                 \/ Known(E, Parent[changes[i].target])
                 \/ \E j \in DOMAIN changes : j < i /\ Parents(changes, j, i)
        BY <1>2, <2>3, <2>7, <3>1 DEF Rooted
      <4>2. \A j \in DOMAIN changes : Parents(changes, j, i) => j \in DOMAIN cs /\ Parents(cs, j, i)
        BY <2>3, <3>1 DEF Parents
      <4> QED
        BY <2>3, <3>1, <4>1, <4>2
    <3>2. CASE i = Len(changes) + 1
      <4>1. cs[i] = c /\ cs[i].target = t /\ cs[i].under = u
        BY <2>2, <2>3, <3>2
      <4>2. u = "ref" => \E j \in DOMAIN changes : changes[j].kind = "create" /\ changes[j].target = p
        BY <2>5, <2>7, <4>1
      <4>3. u = "id" => Known(E, p)
        BY <2>6, <2>7, <4>1
      <4>4. \A j \in DOMAIN changes : j \in DOMAIN cs /\ j < i /\ cs[j] = changes[j]
        BY <2>3, <3>2
      <4> QED
        BY <4>1, <4>2, <4>3, <4>4 DEF p, Parents
    <3> QED
      BY <2>3, <3>1, <3>2
  <2> QED
    BY <2>1, <2>7 DEF Rooted, E
<1> QED
  BY <1>3, <1>4

\* The cascade of a discard takes every create staged under what it takes.
LEMMA DiscardRooted ==
  ASSUME TypeInv, SavingInv, RootInv, NEW i, Discard(i)
  PROVE  Rooted(changes', doc[scope])
<1> DEFINE V == CollectStagedSubtree(changes, i)
           ids == {changes[v].id : v \in V}
           E == doc[scope]
<1>1. scope \in Drafts /\ i \in DOMAIN changes /\ changes' = Sans(changes, ids)
  BY DEF Discard, Editable
<1>2. /\ Rooted(changes, E) /\ changes \in Seq(Change) /\ Listed(scope, changes, E, madeOn)
      /\ IsMap(E) /\ EntitiesOk(E)
  BY <1>1, CanvasFacts DEF RootInv
<1>3. Closed(changes, V) /\ V \subseteq DOMAIN changes
  BY <1>1, SubtreeClosed DEF CollectStagedSubtree
<1> HIDE DEF V, E
<1>4. ASSUME NEW a \in DOMAIN changes, NEW b \in DOMAIN changes,
             changes[a].kind = "create", changes[a].under = "ref", Parents(changes, b, a),
             changes[b].id \in ids
      PROVE  changes[a].id \in ids
  <2>1. PICK v \in V : changes[v].id = changes[b].id
    BY <1>4
  <2>2. v = b
    BY <1>2, <1>3, <1>4, <2>1, SameId
  <2>3. a \in V
    BY <1>3, <1>4, <2>2 DEF Closed, Parents
  <2> QED
    BY <2>3
<1> HIDE DEF ids
<1>5. Rooted(Sans(changes, ids), E)
  BY <1>2, <1>4, SansSparing
<1> QED
  BY <1>1, <1>5 DEF E

LEMMA UndoRooted ==
  ASSUME TypeInv, SavingInv, RootInv, Undo
  PROVE  Rooted(changes', doc[scope])
<1> DEFINE ks == SubSeq(changes, 1, Len(changes) - 1)
           E == doc[scope]
<1>1. scope \in Drafts /\ changes # <<>> /\ changes' = ks
  BY DEF Undo, Editable
<1>2. Rooted(changes, E) /\ changes \in Seq(Change) /\ Listed(scope, changes, E, madeOn)
  BY <1>1, CanvasFacts DEF RootInv
<1>3. /\ ks \in Seq(Change) /\ Cut(ks, changes) /\ DOMAIN ks = 1 .. (Len(changes) - 1)
      /\ \A k \in DOMAIN ks : ks[k] = changes[k] /\ k \in DOMAIN changes /\ k # Len(changes)
  BY <1>1, <1>2, FrontCut
<1>4. DOMAIN changes = 1 .. Len(changes) /\ Len(changes) \in Nat
  BY <1>2, SeqParts
<1> HIDE DEF ks, E
<1>5. ASSUME NEW i \in DOMAIN changes, NEW j \in DOMAIN changes, NEW k \in DOMAIN ks,
             ks[k] = changes[i], j < i
      PROVE  \E l \in DOMAIN ks : ks[l] = changes[j]
  <2>1. i = k
    BY <1>2, <1>3, <1>5 DEF Listed, Uniq
  <2>2. j \in DOMAIN ks
    BY <1>3, <1>4, <1>5, <2>1
  <2> QED
    BY <1>3, <2>2
<1>6. Sparing(ks, changes, E) /\ Uniq(changes)
  BY <1>2, <1>5 DEF Sparing, Listed
<1>7. Rooted(ks, E)
  BY <1>2, <1>3, <1>6, RootedCut
<1> QED
  BY <1>1, <1>7 DEF E

LEMMA ResolveRooted ==
  ASSUME TypeInv, SavingInv, RootInv, NEW i, NEW mine \in BOOLEAN, ResolveConflict(i, mine)
  PROVE  Rooted(changes', doc[scope])
<1> DEFINE E == doc[scope]
<1>1. /\ scope \in Drafts /\ i \in DOMAIN changes /\ changes[i].conflict > 0
      /\ changes' = IF mine THEN [changes EXCEPT ![i] = KeepMine(changes[i])]
                    ELSE Sans(changes, {changes[i].id})
  BY DEF ResolveConflict, Editable
<1>2. /\ Rooted(changes, E) /\ changes \in Seq(Change) /\ Listed(scope, changes, E, madeOn)
      /\ IsMap(E) /\ EntitiesOk(E) /\ \A k \in DOMAIN changes : changes[k] \in Change
  BY <1>1, CanvasFacts DEF RootInv
<1> HIDE DEF E
<1>3. CASE mine
  <2>1. changes' = [changes EXCEPT ![i] = KeepMine(changes[i])]
    BY <1>1, <1>3
  <2>2. /\ KeepMine(changes[i]).target = changes[i].target
        /\ KeepMine(changes[i]).kind = changes[i].kind /\ KeepMine(changes[i]).under = changes[i].under
    BY <1>1, <1>2 DEF KeepMine, Change
  <2>3. /\ DOMAIN changes' = DOMAIN changes
        /\ \A k \in DOMAIN changes : /\ changes'[k].target = changes[k].target
                                     /\ changes'[k].kind = changes[k].kind
                                     /\ changes'[k].under = changes[k].under
    BY <2>1, <2>2
  <2>4. Rooted(changes', E)
    BY <1>2, <2>3, RootedAlike
  <2> QED
    BY <2>4 DEF E
<1>4. CASE ~mine
  <2>1. Known(E, changes[i].target)
    <3>1. BasedIn(changes[i], E)
      BY <1>1, <1>2 DEF Listed
    <3> QED
      BY <1>1, <1>2, <3>1, UpdateThere
  <2>2. ASSUME NEW b \in DOMAIN changes, changes[b].id \in {changes[i].id}
        PROVE  Known(E, changes[b].target)
    BY <1>1, <1>2, <2>1, <2>2, SameId
  <2>3. Rooted(Sans(changes, {changes[i].id}), E)
    BY <1>2, <2>2, SansSparing
  <2> QED
    BY <1>1, <1>4, <2>3 DEF E
<1> QED
  BY <1>3, <1>4

LEMMA RootedEmpty == \A E : Rooted(<<>>, E)
BY DEF Rooted

LEMMA ListEditRooted ==
  ASSUME TypeInv, SavingInv, RootInv, MaxRedos = 0, ListEdit
  PROVE  Rooted(changes', doc[scope])
<1>1. ~Redo
  <2>1. spent.redos \in Nat
    BY TypeParts DEF TypeInv
  <2> QED
    BY <2>1 DEF Redo
<1>2. CASE DiscardAll
  BY <1>2, RootedEmpty DEF DiscardAll
<1> QED
  BY <1>1, <1>2, EditRooted, DiscardRooted, UndoRooted, ResolveRooted DEF ListEdit

\* A save's steps: the list is left, rebased, marked, or emptied; what a settled save took is there.
LEMMA PanelRooted ==
  ASSUME TypeInv, SavingInv, RootInv, applying, Continue
  PROVE  Rooted(changes', doc[scope])
<1> DEFINE E == doc[scope]
<1>1. /\ scope \in Drafts /\ changes \in Seq(Change) /\ \A i \in DOMAIN changes : changes[i] \in Change
  BY PanelFacts, ActiveType
<1>2. /\ Rooted(changes, E) /\ Listed(scope, changes, E, madeOn) /\ IsMap(E) /\ EntitiesOk(E)
  BY <1>1, CanvasFacts DEF RootInv
<1>3. \/ changes' = changes
      \/ changes' = <<>>
      \/ call.answer.is = "ok" /\ changes' = RebasedSeq(changes)
      \/ call.phase = "send" /\ changes' = MarkedSeq(Cleared(SettledOnly))
  BY ContinueParts DEF ContinueStep, Ended, Done
<1> HIDE DEF E
<1>4. CASE changes' = RebasedSeq(changes) /\ call.answer.is = "ok"
  <2>1. /\ DOMAIN changes' = DOMAIN changes
        /\ \A i \in DOMAIN changes : changes'[i].target = changes[i].target
    BY <1>4, RebasedListed
  <2>2. \A i \in DOMAIN changes :
          /\ changes'[i].kind = "create" =>
               changes[i].kind = "create" /\ changes'[i].under = changes[i].under
          /\ changes'[i].kind = "create" \/ changes'[i].kind = "update"
    BY <1>1, <1>4 DEF RebasedSeq, OnTop, Rebase, Change
  <2>3. Listed(scope, changes', E, madeOn) /\ changes' \in Seq(Change)
    BY <1>4, RebasedListed DEF E
  <2>4. ASSUME NEW i \in DOMAIN changes, changes'[i].kind = "update" PROVE Known(E, changes[i].target)
    <3>1. changes'[i] \in Change /\ BasedIn(changes'[i], E) /\ changes'[i].target = changes[i].target
      BY <2>1, <2>3, SeqParts DEF Listed
    <3> QED
      BY <1>2, <2>4, <3>1, UpdateThere
  <2>5. Rooted(changes', E)
    BY <1>2, <2>1, <2>2, <2>4, RootedAlike
  <2> QED
    BY <2>5 DEF E
<1>5. CASE changes' = MarkedSeq(Cleared(SettledOnly)) /\ call.phase = "send"
  <2> DEFINE left == Cleared(SettledOnly)
  <2>1. \A j \in DOMAIN changes : changes[j].id \in SettledOnly => Known(E, changes[j].target)
    BY <1>1, <1>5 DEF SavingInv, PanelInv, E, Known, Change
  <2>2. Rooted(left, E)
    BY <1>1, <1>2, <2>1, SansSparing DEF Cleared
  <2>3. \A i \in DOMAIN left : left[i] \in Change
    <3>1. left \in Seq(Change)
      BY <1>1, SansCut DEF Cleared
    <3> QED
      BY <3>1, SeqParts
  <2> HIDE DEF left
  <2>4. /\ DOMAIN MarkedSeq(left) = DOMAIN left
        /\ \A i \in DOMAIN left : /\ MarkedSeq(left)[i].target = left[i].target
                                  /\ MarkedSeq(left)[i].kind = left[i].kind
                                  /\ MarkedSeq(left)[i].under = left[i].under
    BY <2>3 DEF MarkedSeq, ConflictOn, Change
  <2>5. Rooted(MarkedSeq(left), E)
    BY <2>2, <2>4, RootedAlike
  <2> QED
    BY <1>5, <2>5 DEF E, left
<1> QED
  BY <1>2, <1>3, <1>4, <1>5, RootedEmpty DEF E

\* Drafts are left only; the others' slices stay put, and so does what the server has.
OnlyHere ==
  \A d \in Drafts : Attended(d)' => Attended(d) /\ (d # scope => Unmoved(d)) /\ doc'[d] = doc[d]

LEMMA PanelMoves ==
  ASSUME TypeInv, SavingInv, applying, Continue
  PROVE  OnlyHere /\ scope' = scope /\ scope \in Drafts
<1>1. ContinueStep /\ UNCHANGED <<scope, parked, restoredFor, server, spent, history>>
  BY ContinueParts
<1>2. scope \in Drafts /\ changes # <<>> /\ due \in BOOLEAN /\ changes \in Seq(Change)
  BY PanelFacts, TypeParts DEF TypeInv
<1>3. ASSUME NEW cs, NEW saves \in {pending, [pending EXCEPT ![scope] = NoSave]}, Ended(cs, saves)
      PROVE  OnlyHere
  BY <1>1, <1>3, EndedMoves DEF OnlyHere
<1>4. ASSUME NEW rest, NEW settled, Resent(rest, settled),
             changes' # <<>>, applying' = TRUE, due' \in BOOLEAN, ~due' => ~due /\ changes' = changes
      PROVE  OnlyHere
  BY <1>1, <1>4, ResentMoves DEF OnlyHere
<1>5. ASSUME Resent(changes, NotSettled), UNCHANGED <<changes, due>>, applying' = TRUE PROVE OnlyHere
  BY <1>2, <1>4, <1>5
<1>6. ASSUME call.answer.is = "ok", changes' = RebasedSeq(changes), due' = (due \/ changes' # changes),
             applying' = TRUE, NEW settled, Resent(Rest, settled)
      PROVE  OnlyHere
  <2>1. DOMAIN changes' = DOMAIN changes
    BY <1>6, RebasedListed
  <2>2. DOMAIN changes # {} /\ DOMAIN <<>> = {}
    BY <1>2, SeqParts
  <2>3. changes' # <<>>
    BY <2>1, <2>2
  <2>4. due' \in BOOLEAN /\ (~due' => ~due /\ changes' = changes)
    BY <1>2, <1>6
  <2> QED
    BY <1>4, <1>6, <2>3, <2>4
<1>7. OnlyHere
  <2> DEFINE settled == [carried |-> CarriedIn, edited |-> EditedIn, versions |-> call.answer.versions]
             none == [pending EXCEPT ![scope] = NoSave]
  <2>1. \/ Ended(changes, pending)
        \/ Resent(changes, NotSettled) /\ UNCHANGED <<changes, due>> /\ applying' = TRUE
        \/ /\ call.answer.is = "ok" /\ changes' = RebasedSeq(changes)
           /\ due' = (due \/ changes' # changes) /\ applying' = TRUE /\ Resent(Rest, settled)
        \/ Ended(<<>>, none)
        \/ \E saves \in {pending, none} : Ended(MarkedSeq(Cleared(SettledOnly)), saves)
    BY <1>1 DEF ContinueStep
  <2> HIDE DEF settled
  <2> QED
    BY <1>3, <1>5, <1>6, <2>1
<1> QED
  BY <1>1, <1>2, <1>7

LEMMA SaveMoves ==
  ASSUME TypeInv, SavingInv, Save
  PROVE  /\ OnlyHere /\ scope' = scope /\ scope \in Drafts /\ changes' \in {changes, <<>>}
<1>1. CASE SaveLayout
  BY <1>1, EditStepMoves DEF SaveLayout, SavingInv, OnlyHere
<1>2. CASE SettleStart
  <2>1. scope' = scope /\ changes' = changes
    BY <1>2 DEF SettleStart
  <2> QED
    BY <1>2, <2>1, SettleStartMoves DEF SavingInv, OnlyHere
<1>3. CASE SendNow
  <2>1. /\ scope \in Drafts /\ changes # <<>>
        /\ Send(changes, changes, scope, pending, NotSettled) /\ applying' = TRUE
        /\ UNCHANGED <<changes, redo, due, scope, parked, restoredFor, server, wanted>>
    BY <1>3 DEF SendNow, Editable, history
  <2>2. pending \in Saves /\ due \in BOOLEAN
    BY TypeParts DEF TypeInv, Saves
  <2> QED
    BY <2>1, <2>2, SendMoves DEF SavingInv, OnlyHere
<1> QED
  BY <1>1, <1>2, <1>3, SaveParts

LEMMA RootStep ==
  ~Hasty /\ MaxRedos = 0 /\ TypeInv /\ SavingInv /\ RootInv /\ [Next]_vars => RootInv'
<1> SUFFICES ASSUME ~Hasty, MaxRedos = 0, TypeInv, SavingInv, RootInv, [Next]_vars,
                    NEW d \in Drafts, Attended(d)'
             PROVE  Rooted(Held(d)', doc'[d])
  BY DEF RootInv
<1>1. ASSUME Attended(d), Unmoved(d) PROVE Rooted(Held(d)', doc'[d])
  BY <1>1 DEF RootInv, Unmoved, Quiet
<1>2. ASSUME Attended(d), d # scope => Unmoved(d), doc'[d] = doc[d], scope' = scope,
             Rooted(changes', doc[scope])
      PROVE  Rooted(Held(d)', doc'[d])
  <2>1. d = scope => Held(d)' = changes'
    BY <1>2 DEF Held
  <2> QED
    BY <1>1, <1>2, <2>1
<1>3. CASE Moving
  BY <1>1, <1>3, MovesOnly DEF Moving, SavingInv
<1>4. CASE ListEdit
  <2>1. EditStep
    BY <1>4, ListEditSaving
  <2> QED
    BY <1>2, <1>4, <2>1, EditStepMoves, ListEditRooted DEF SavingInv
<1>5. CASE Save
  <2>1. Attended(d) /\ (d # scope => Unmoved(d)) /\ doc'[d] = doc[d]
    BY <1>5, SaveMoves DEF OnlyHere
  <2>2. scope' = scope /\ scope \in Drafts /\ changes' \in {changes, <<>>}
    BY <1>5, SaveMoves
  <2>3. Rooted(changes', doc[scope])
    BY <2>2, CanvasFacts, RootedEmpty DEF RootInv
  <2> QED
    BY <1>2, <2>1, <2>2, <2>3
<1>6. CASE Continue /\ applying
  <2>1. Attended(d) /\ (d # scope => Unmoved(d)) /\ doc'[d] = doc[d] /\ scope' = scope
    BY <1>6, PanelMoves DEF OnlyHere
  <2> QED
    BY <1>2, <1>6, <2>1, PanelRooted
<1>7. CASE Continue /\ ~applying
  BY <1>1, <1>7, ForeignMoves DEF SavingInv
<1>8. CASE ServerStep
  <2>1. Attended(d) /\ Held(d)' = Held(d)
    BY <1>8, ServerMoves DEF SavingInv, Quiet
  <2>2. Grown(doc[d], doc'[d])
    BY <1>8, <2>1, ServedDraft DEF SavingInv, SlicesInv
  <2>3. Held(d) \in Seq(Change) /\ IsMap(doc[d])
    BY HeldTypes
  <2>4. IsMap(doc'[d])
    <3>1. TypeInv'
      BY TypeStep
    <3>2. doc' \in [Drafts -> [Targets -> Entity]]
      BY <3>1, TypePartsNext DEF TypeInv
    <3> QED
      BY <3>2 DEF IsMap
  <2> QED
    BY <2>1, <2>2, <2>3, <2>4, RootedGrown DEF RootInv
<1>9. CASE UNCHANGED vars
  BY <1>9 DEF vars, page, server, history, RootInv, Held, Attended
<1>10. applying \in BOOLEAN
  BY TypeParts DEF TypeInv
<1> QED
  BY <1>3, <1>4, <1>5, <1>6, <1>7, <1>8, <1>9, <1>10, Steps

LEMMA RootAlways ==
  ASSUME ~Hasty, MaxRedos = 0
  PROVE  Spec => [](TypeInv /\ SavingInv /\ RootInv)
<1>1. Init => RootInv
  <2>1. ASSUME Init, NEW d \in Drafts PROVE Held(d) = <<>>
    BY <2>1, StagedSaveAssumption DEF Init, Held, NoSnap, EmptySlice, Scopes
  <2> QED
    BY <2>1, RootedEmpty DEF RootInv
<1>2. TypeInv /\ SavingInv /\ RootInv /\ [Next]_vars => RootInv'
  BY RootStep
<1> QED
  BY <1>1, <1>2, SavingAlways, PTL DEF Spec

\* A staged create can be saved with what is staged beside it, or is stranded: its parent stays
\* created before it or is on the draft, through discards and undos, a save that carries one without
\* the other, a conflict given up, and the draft left and come back to; for a tab that is not left in
\* a hurry, and when nothing undone is brought back (a redo can bring back a child whose parent was
\* discarded since).
THEOREM ParentsKept ==
  ASSUME ~Hasty, MaxRedos = 0
  PROVE  Spec => []NoOrphan
<1>1. RootInv /\ TypeInv /\ SavingInv => NoOrphan
  <2> SUFFICES ASSUME RootInv, TypeInv, SavingInv, scope \in Drafts, NEW i \in DOMAIN changes,
                      changes[i].kind = "create"
               PROVE  \/ Resolvable(scope, changes, changes[i])
                      \/ Stranded(scope, changes, changes[i])
    BY DEF NoOrphan
  <2> DEFINE p == Parent[changes[i].target]
  <2>1. /\ changes[i].under = "id" => Known(doc[scope], p)
        /\ changes[i].under = "ref" =>
             Known(doc[scope], p) \/ \E j \in DOMAIN changes : j < i /\ Parents(changes, j, i)
    BY CanvasFacts DEF RootInv, Rooted
  <2>2. Known(doc[scope], p) <=> p \in There(scope)
    BY DEF Known, There
  <2>3. (\E j \in DOMAIN changes : j < i /\ Parents(changes, j, i)) => Creating(changes, p) # {}
    BY DEF Parents, Creating, Staging
  <2> QED
    BY <2>1, <2>2, <2>3 DEF Resolvable, Stranded
<1> QED
  BY <1>1, RootAlways, PTL

-----------------------------------------------------------------------------
(* No edit is lost                                                         *)

Writes(ops, t) == \E i \in DOMAIN ops : ops[i].target = t
StagedIn(H, t) == \E i \in DOMAIN H : H[i].target = t

\* The edit e of t is what E has of the user's, and no request still on its way can write over it
\* without meeting a conflict.
Past(t, E, C, N) ==
  \A m \in N : (\A r \in C : r.key # m.key) =>
    \A i \in DOMAIN m.ops : m.ops[i].target = t /\ m.ops[i].kind = "update" => m.ops[i].base < E[t].ver
Landed(t, e, E, C, N) == E[t].mine = e /\ E[t].ver > 0 /\ Past(t, E, C, N)

\* What the user wants is what is staged; what they want and is not staged has landed, and the
\* pending save is not about it; a pending save that was applied has landed.
WantedOk(H, W) ==
  /\ \A t \in LayoutOnly : W[t] = 0
  /\ \A i \in DOMAIN H : H[i].target \notin LayoutOnly => W[H[i].target] = H[i].after
SavedOk(H, S, E, C, N, W) ==
  /\ S # NoSave /\ (\E r \in C : r.key = S.key) =>
       \A i \in DOMAIN S.body.ops : Landed(S.body.ops[i].target, S.body.ops[i].after, E, C, N)
  /\ \A t \in Targets : W[t] # 0 /\ ~StagedIn(H, t) =>
       Landed(t, W[t], E, C, N) /\ ~Writes(S.body.ops, t)
LossOk(H, S, E, C, N, W) == WantedOk(H, W) /\ SavedOk(H, S, E, C, N, W)
LossInv ==
  \A d \in Drafts : Attended(d) =>
    LossOk(Held(d), HeldSave(d), doc[d], commits[d], Letters(d), wanted[d])

\* The staged changes a running save sends are in its request; those it does not were in the save
\* that was settled before it, and have landed.
SentIn(c, ops) == \E k \in DOMAIN ops : ops[k].target = c.target /\ ops[k].after = c.after
CallLoss ==
  applying /\ call.phase = "send" =>
    /\ \A i \in DOMAIN changes : changes[i].target \notin LayoutOnly /\ changes[i].id \notin SettledOnly =>
         SentIn(changes[i], call.save.body.ops)
    /\ \A i \in DOMAIN changes : changes[i].target \notin LayoutOnly /\ changes[i].id \in SettledOnly =>
           /\ Landed(changes[i].target, changes[i].after, doc[scope], commits[scope], Letters(scope))
           /\ ~Writes(call.save.body.ops, changes[i].target)

LEMMA LandedFewer ==
  ASSUME NEW t, NEW e, NEW E, NEW C, NEW N, NEW N2 \in SUBSET N, Landed(t, e, E, C, N)
  PROVE  Landed(t, e, E, C, N2)
BY DEF Landed, Past

\* A request goes out: about an entity it does not write, or under a key already applied, it is no
\* danger to what landed.
LEMMA LandedSent ==
  ASSUME NEW t, NEW e, NEW E, NEW C, NEW N, NEW l, Landed(t, e, E, C, N),
         ~Writes(l.ops, t) \/ \E r \in C : r.key = l.key
  PROVE  Landed(t, e, E, C, N \cup {l})
<1>1. ASSUME NEW m \in N \cup {l}, \A r \in C : r.key # m.key, NEW i \in DOMAIN m.ops,
             m.ops[i].target = t, m.ops[i].kind = "update"
      PROVE  m.ops[i].base < E[t].ver
  <2>1. CASE m \in N
    BY <1>1, <2>1 DEF Landed, Past
  <2>2. CASE m = l
    BY <1>1, <2>2 DEF Writes
  <2> QED
    BY <2>1, <2>2
<1> QED
  BY <1>1 DEF Landed, Past

LEMMA LossFewer ==
  ASSUME NEW H, NEW S, NEW E, NEW C, NEW N, NEW N2 \in SUBSET N, NEW W, LossOk(H, S, E, C, N, W)
  PROVE  LossOk(H, S, E, C, N2, W)
<1>1. SavedOk(H, S, E, C, N2, W)
  BY LandedFewer DEF LossOk, SavedOk
<1> QED
  BY <1>1 DEF LossOk

\* What an edit of the list leaves: some changes given up, or one staged anew.
LEMMA LossTaken ==
  ASSUME NEW H, NEW S, NEW E, NEW C, NEW N, NEW W, LossOk(H, S, E, C, N, W), W \in [Targets -> Nat],
         NEW K, NEW ts,
         \A k \in DOMAIN K : \E i \in DOMAIN H : H[i].target \notin ts /\ K[k].target = H[i].target
                                               /\ K[k].after = H[i].after,
         \A i \in DOMAIN H : H[i].target \notin ts => StagedIn(K, H[i].target),
         \A i \in DOMAIN H : H[i].target \in Targets,
         NEW S2 \in {S, NoSave}
  PROVE  LossOk(K, S2, E, C, N, [t \in Targets |-> IF t \in ts THEN 0 ELSE W[t]])
<1> DEFINE W2 == [t \in Targets |-> IF t \in ts THEN 0 ELSE W[t]]
<1>1. \A t \in Targets : W2[t] = 0 \/ (t \notin ts /\ W2[t] = W[t])
  OBVIOUS
<1>2. \A t \in Targets : t \notin ts => W2[t] = W[t]
  OBVIOUS
<1> HIDE DEF W2
<1>3. LayoutOnly \subseteq Targets
  BY StagedSaveAssumption
<1>4. WantedOk(K, W2)
  BY <1>1, <1>2, <1>3 DEF LossOk, WantedOk
<1>5. SavedOk(K, S2, E, C, N, W2)
  <2>1. SavedOk(H, S, E, C, N, W)
    BY DEF LossOk
  <2>2. ASSUME NEW t \in Targets, W2[t] # 0, ~StagedIn(K, t)
        PROVE  Landed(t, W2[t], E, C, N) /\ ~Writes(S2.body.ops, t)
    <3>1. t \notin ts /\ W2[t] = W[t]
      BY <1>1, <2>2
    <3>2. ~StagedIn(H, t)
      BY <2>2, <3>1 DEF StagedIn
    <3>3. Landed(t, W[t], E, C, N) /\ ~Writes(S.body.ops, t)
      BY <2>1, <2>2, <3>1, <3>2 DEF SavedOk
    <3>4. ~Writes(NoSave.body.ops, t)
      BY DEF NoSave, Writes
    <3> QED
      BY <3>1, <3>3, <3>4
  <2> QED
    BY <2>1, <2>2 DEF SavedOk
<1>6. LossOk(K, S2, E, C, N, W2)
  BY <1>4, <1>5 DEF LossOk
<1> QED
  BY <1>6 DEF W2

LEMMA LossStaged ==
  ASSUME NEW H, NEW S, NEW E, NEW C, NEW N, NEW W, LossOk(H, S, E, C, N, W), W \in [Targets -> Nat],
         NEW K, NEW t \in Targets, NEW e \in Nat,
         \A k \in DOMAIN K :
           \/ K[k].target = t /\ K[k].after = e
           \/ \E i \in DOMAIN H : H[i].target # t /\ K[k].target = H[i].target /\ K[k].after = H[i].after,
         \A i \in DOMAIN H : StagedIn(K, H[i].target), StagedIn(K, t),
         \A i \in DOMAIN H : H[i].target \in Targets
  PROVE  LossOk(K, S, E, C, N, [W EXCEPT ![t] = IF t \in LayoutOnly THEN 0 ELSE e])
<1> DEFINE W2 == [W EXCEPT ![t] = IF t \in LayoutOnly THEN 0 ELSE e]
<1>1. /\ \A u \in Targets : u # t => W2[u] = W[u]
      /\ t \in LayoutOnly => W2[t] = 0
      /\ t \notin LayoutOnly => W2[t] = e
  OBVIOUS
<1> HIDE DEF W2
<1>2. LayoutOnly \subseteq Targets
  BY StagedSaveAssumption
<1>3. WantedOk(K, W2)
  BY <1>1, <1>2 DEF LossOk, WantedOk
<1>4. SavedOk(K, S, E, C, N, W2)
  <2>1. SavedOk(H, S, E, C, N, W)
    BY DEF LossOk
  <2>2. ASSUME NEW u \in Targets, W2[u] # 0, ~StagedIn(K, u)
        PROVE  Landed(u, W2[u], E, C, N) /\ ~Writes(S.body.ops, u)
    <3>1. u # t /\ ~StagedIn(H, u)
      BY <2>2 DEF StagedIn
    <3> QED
      BY <1>1, <2>1, <2>2, <3>1 DEF SavedOk
  <2> QED
    BY <2>1, <2>2 DEF SavedOk
<1>5. LossOk(K, S, E, C, N, W2)
  BY <1>3, <1>4 DEF LossOk
<1> QED
  BY <1>5 DEF W2

\* Same places, same entities, same edits.
LEMMA LossAlike ==
  ASSUME NEW H, NEW S, NEW E, NEW C, NEW N, NEW W, LossOk(H, S, E, C, N, W),
         NEW K, DOMAIN K = DOMAIN H,
         \A i \in DOMAIN H : K[i].target = H[i].target /\ K[i].after = H[i].after
  PROVE  LossOk(K, S, E, C, N, W) /\ \A t : StagedIn(K, t) <=> StagedIn(H, t)
BY DEF LossOk, WantedOk, SavedOk, StagedIn

\* A save of the staged list, or of what is left of it: under a fresh key, or that of the pending
\* save it repeats.
LEMMA LossSent ==
  ASSUME NEW H, NEW S, NEW E, NEW C, NEW N, NEW W, LossOk(H, S, E, C, N, W), NEW S2,
         S2.key # 0, NEW l, l.key = S2.key, l.ops = S2.body.ops,
         \A t \in Targets : Writes(S2.body.ops, t) => StagedIn(H, t),
         \/ \A r \in C : r.key # S2.key
         \/ S # NoSave /\ S2.key = S.key /\ S2.body = S.body
  PROVE  LossOk(H, S2, E, C, N \cup {l}, W)
<1>1. SavedOk(H, S2, E, C, N \cup {l}, W)
  <2>1. SavedOk(H, S, E, C, N, W)
    BY DEF LossOk
  <2>2. ASSUME NEW t \in Targets, W[t] # 0, ~StagedIn(H, t)
        PROVE  Landed(t, W[t], E, C, N \cup {l}) /\ ~Writes(S2.body.ops, t)
    <3>1. Landed(t, W[t], E, C, N) /\ ~Writes(S2.body.ops, t)
      BY <2>1, <2>2 DEF SavedOk
    <3> QED
      BY <3>1, LandedSent
  <2>3. ASSUME \E r \in C : r.key = S2.key, NEW i \in DOMAIN S2.body.ops
        PROVE  Landed(S2.body.ops[i].target, S2.body.ops[i].after, E, C, N \cup {l})
    <3>1. S # NoSave /\ S2.key = S.key /\ S2.body = S.body
      BY <2>3
    <3>2. Landed(S2.body.ops[i].target, S2.body.ops[i].after, E, C, N)
      BY <2>1, <2>3, <3>1 DEF SavedOk
    <3> QED
      BY <2>3, <3>2, LandedSent
  <2> QED
    BY <2>2, <2>3 DEF SavedOk
<1> QED
  BY <1>1 DEF LossOk

\* The pending save is sent again.
LEMMA LossResettled ==
  ASSUME NEW H, NEW S, NEW E, NEW C, NEW N, NEW W, LossOk(H, S, E, C, N, W),
         NEW l, l.key = S.key, l.ops = S.body.ops
  PROVE  LossOk(H, S, E, C, N \cup {l}, W)
<1>1. SavedOk(H, S, E, C, N \cup {l}, W)
  <2>1. SavedOk(H, S, E, C, N, W)
    BY DEF LossOk
  <2> QED
    BY <2>1, LandedSent DEF SavedOk
<1> QED
  BY <1>1 DEF LossOk

LEMMA CanvasLoss ==
  ASSUME TypeInv, SavingInv, LossInv, scope \in Drafts
  PROVE  /\ LossOk(changes, pending[scope], doc[scope], commits[scope], Letters(scope), wanted[scope])
         /\ wanted[scope] \in [Targets -> Nat] /\ \A i \in DOMAIN changes : changes[i].target \in Targets
<1>1. /\ Attended(scope) /\ Held(scope) = changes /\ HeldSave(scope) = pending[scope]
      /\ \A i \in DOMAIN changes : changes[i] \in Change
  BY Canvas, ActiveType DEF SavingInv
<1> QED
  BY <1>1, HeldTypes DEF LossInv, Change

LEMMA GivenUpHere ==
  ASSUME TypeInv, scope \in Drafts, NEW ts, wanted' = GivenUp(ts)
  PROVE  wanted'[scope] = [t \in Targets |-> IF t \in ts THEN 0 ELSE wanted[scope][t]]
BY TypeParts DEF TypeInv, GivenUp

\* An edit of the list: what becomes of it, of what the user wants, and of the pending save.
LossHere ==
  LossOk(changes', IF changes' = <<>> THEN NoSave ELSE pending[scope], doc[scope], commits[scope],
         Letters(scope), wanted'[scope])

LEMMA TakenLoss ==
  ASSUME TypeInv, SavingInv, LossInv, scope \in Drafts, NEW ts, wanted' = GivenUp(ts),
         \A k \in DOMAIN changes' : \E i \in DOMAIN changes :
           changes[i].target \notin ts /\ changes'[k] = changes[i],
         \A i \in DOMAIN changes : changes[i].target \notin ts => StagedIn(changes', changes[i].target)
  PROVE  LossHere
<1> DEFINE S2 == IF changes' = <<>> THEN NoSave ELSE pending[scope]
           E == doc[scope]
           C == commits[scope]
           N == Letters(scope)
           W == wanted[scope]
           W2 == [t \in Targets |-> IF t \in ts THEN 0 ELSE W[t]]
<1>1. S2 \in {pending[scope], NoSave}
  OBVIOUS
<1>2. LossOk(changes, pending[scope], E, C, N, W) /\ W \in [Targets -> Nat]
      /\ \A i \in DOMAIN changes : changes[i].target \in Targets
  BY CanvasLoss
<1>3. wanted'[scope] = W2
  BY GivenUpHere
<1> HIDE DEF S2, E, C, N, W
<1>4. \A k \in DOMAIN changes' : \E i \in DOMAIN changes :
        changes[i].target \notin ts /\ changes'[k].target = changes[i].target
        /\ changes'[k].after = changes[i].after
  OBVIOUS
<1>5. LossOk(changes', S2, E, C, N, W2)
  BY <1>1, <1>2, <1>4, LossTaken
<1> QED
  BY <1>3, <1>5 DEF LossHere, S2, E, C, N, W

\* What a filter by id leaves.
SansOk(ks, cs, ids) ==
  /\ \A k \in DOMAIN ks : \E i \in DOMAIN cs : cs[i].id \notin ids /\ ks[k] = cs[i]
  /\ \A i \in DOMAIN cs : cs[i].id \notin ids => \E k \in DOMAIN ks : ks[k] = cs[i]

LEMMA SansIsOk ==
  ASSUME NEW cs \in Seq(Change), NEW ids
  PROVE  SansOk(Sans(cs, ids), cs, ids)
BY SansFacts DEF SansOk

LEMMA SansLoss ==
  ASSUME TypeInv, SavingInv, LossInv, scope \in Drafts, NEW V \in SUBSET (DOMAIN changes),
         changes' = Sans(changes, {changes[v].id : v \in V}),
         wanted' = GivenUp({changes[v].target : v \in V})
  PROVE  LossHere
<1> DEFINE ids == {changes[v].id : v \in V}
           ts == {changes[v].target : v \in V}
<1>1. changes \in Seq(Change) /\ Listed(scope, changes, doc[scope], madeOn)
  BY CanvasFacts
<1>2. ASSUME NEW i \in DOMAIN changes PROVE changes[i].id \in ids <=> changes[i].target \in ts
  <2>1. ASSUME NEW v \in V, changes[i].id = changes[v].id PROVE i = v
    BY <1>1, <2>1, SameId
  <2>2. ASSUME NEW v \in V, changes[i].target = changes[v].target PROVE i = v
    BY <1>1, <2>2 DEF Listed, Uniq
  <2> QED
    BY <2>1, <2>2
<1> DEFINE ks == Sans(changes, ids)
<1>3. SansOk(ks, changes, ids)
  <2>1. changes \in Seq(Change)
    BY <1>1
  <2> HIDE DEF ids, ts
  <2> QED
    BY <2>1, SansIsOk
<1>4. changes' = ks /\ wanted' = GivenUp(ts)
  OBVIOUS
<1> HIDE DEF ks, ids, ts
<1>5. \A i \in DOMAIN changes : changes[i].target \notin ts => StagedIn(changes', changes[i].target)
  <2>1. \A i \in DOMAIN changes : changes[i].target \notin ts => StagedIn(ks, changes[i].target)
    BY <1>2, <1>3 DEF StagedIn, SansOk
  <2> QED
    BY <1>4, <2>1
<1>6. \A k \in DOMAIN changes' : \E i \in DOMAIN changes :
        changes[i].target \notin ts /\ changes'[k] = changes[i]
  <2>1. \A k \in DOMAIN ks : \E i \in DOMAIN changes : changes[i].target \notin ts /\ ks[k] = changes[i]
    BY <1>2, <1>3 DEF SansOk
  <2> QED
    BY <1>4, <2>1
<1> QED
  BY <1>4, <1>5, <1>6, TakenLoss

LEMMA UndoLoss ==
  ASSUME TypeInv, SavingInv, LossInv, Undo
  PROVE  LossHere
<1> DEFINE n == Len(changes)
           ks == SubSeq(changes, 1, n - 1)
<1>1. scope \in Drafts /\ changes # <<>> /\ changes' = ks /\ wanted' = GivenUp({changes[n].target})
  BY DEF Undo, Editable
<1>2. changes \in Seq(Change) /\ Listed(scope, changes, doc[scope], madeOn)
  BY <1>1, CanvasFacts
<1>3. /\ DOMAIN ks = 1 .. (n - 1)
      /\ \A k \in DOMAIN ks : ks[k] = changes[k] /\ k \in DOMAIN changes /\ k # n
  BY <1>1, <1>2, FrontCut
<1>4. n \in Nat /\ n \in DOMAIN changes /\ DOMAIN changes = 1 .. n
  BY <1>1, <1>2, SeqParts
<1> HIDE DEF ks, n
<1>5. \A i \in DOMAIN changes : changes[i].target = changes[n].target => i = n
  BY <1>2, <1>4 DEF Listed, Uniq
<1>6. \A k \in DOMAIN changes' : \E i \in DOMAIN changes :
        changes[i].target \notin {changes[n].target} /\ changes'[k] = changes[i]
  BY <1>1, <1>3, <1>5
<1>7. ASSUME NEW i \in DOMAIN changes, changes[i].target \notin {changes[n].target}
      PROVE  StagedIn(changes', changes[i].target)
  <2>1. i \in DOMAIN ks
    BY <1>3, <1>4, <1>7
  <2> QED
    BY <1>1, <1>3, <2>1 DEF StagedIn
<1> QED
  BY <1>1, <1>6, <1>7, TakenLoss

LEMMA StagedLoss ==
  ASSUME TypeInv, SavingInv, LossInv, scope \in Drafts, changes' # <<>>, NEW t \in Targets, NEW e \in Nat,
         wanted' = [wanted EXCEPT ![scope][t] = IF t \in LayoutOnly THEN 0 ELSE e],
         \A k \in DOMAIN changes' :
           \/ changes'[k].target = t /\ changes'[k].after = e
           \/ \E i \in DOMAIN changes : /\ changes[i].target # t /\ changes'[k].target = changes[i].target
                                        /\ changes'[k].after = changes[i].after,
         \A i \in DOMAIN changes : StagedIn(changes', changes[i].target), StagedIn(changes', t)
  PROVE  LossHere
<1> DEFINE E == doc[scope]
           C == commits[scope]
           N == Letters(scope)
           W == wanted[scope]
           W2 == [W EXCEPT ![t] = IF t \in LayoutOnly THEN 0 ELSE e]
<1>1. LossOk(changes, pending[scope], E, C, N, W) /\ W \in [Targets -> Nat]
      /\ \A i \in DOMAIN changes : changes[i].target \in Targets
  BY CanvasLoss
<1>2. wanted'[scope] = W2
  BY TypeParts DEF TypeInv
<1> HIDE DEF E, C, N, W
<1>3. LossOk(changes', pending[scope], E, C, N, W2)
  BY <1>1, LossStaged
<1> QED
  BY <1>2, <1>3 DEF LossHere, E, C, N, W

LEMMA EditLoss ==
  ASSUME TypeInv, SavingInv, LossInv, NEW t \in Targets, Edit(t)
  PROVE  LossHere
<1> DEFINE e == edits + 1
           at == Staging(changes, t)
<1>1. /\ scope \in Drafts /\ wanted' = [wanted EXCEPT ![scope][t] = IF t \in LayoutOnly THEN 0 ELSE e]
      /\ e \in Nat
  BY TypeParts DEF Edit, Editable, TypeInv
<1>2. changes \in Seq(Change) /\ Uniq(changes) /\ \A i \in DOMAIN changes : changes[i] \in Change
  BY <1>1, CanvasFacts DEF Listed
<1>3. CASE at # {}
  <2> DEFINE i == CHOOSE k \in at : TRUE
  <2>1. i \in DOMAIN changes /\ changes[i].target = t /\ changes' = [changes EXCEPT ![i].after = e]
    BY <1>3 DEF Edit, Staging, Replaced
  <2> HIDE DEF i, e
  <2>2. DOMAIN changes' = DOMAIN changes /\ changes' # <<>>
    BY <2>1
  <2>3. changes'[i].target = t /\ changes'[i].after = e
    BY <1>2, <2>1 DEF Change
  <2>4. \A k \in DOMAIN changes : k # i => changes'[k] = changes[k] /\ changes[k].target # t
    BY <1>2, <2>1 DEF Uniq
  <2>5. \A k \in DOMAIN changes' :
           \/ changes'[k].target = t /\ changes'[k].after = e
           \/ \E j \in DOMAIN changes : /\ changes[j].target # t /\ changes'[k].target = changes[j].target
                                        /\ changes'[k].after = changes[j].after
    BY <2>2, <2>3, <2>4
  <2>6. (\A j \in DOMAIN changes : StagedIn(changes', changes[j].target)) /\ StagedIn(changes', t)
    BY <2>1, <2>2, <2>3, <2>4 DEF StagedIn
  <2> QED
    BY <1>1, <2>2, <2>5, <2>6, StagedLoss
<1>4. CASE at = {}
  <2>0. PICK u \in Naming : changes' = Append(changes, NewChange(t, u, e))
    BY <1>4 DEF Edit
  <2> DEFINE c == NewChange(t, u, e)
  <2>1. changes' = Append(changes, c)
    BY <2>0
  <2>2. c.target = t /\ c.after = e
    BY DEF NewChange
  <2>3. /\ \A k \in DOMAIN changes' :
             \/ k \in DOMAIN changes /\ changes'[k] = changes[k]
             \/ changes'[k] = c
        /\ \A k \in DOMAIN changes : k \in DOMAIN changes' /\ changes'[k] = changes[k]
        /\ Len(changes) + 1 \in DOMAIN changes' /\ changes'[Len(changes) + 1] = c
    <3> HIDE DEF c
    <3> QED
      BY <1>2, <2>1
  <2> HIDE DEF c, e
  <2>4. changes' # <<>>
    BY <2>3
  <2>5. \A k \in DOMAIN changes : changes[k].target # t
    BY <1>4 DEF Staging
  <2>6. (\A j \in DOMAIN changes : StagedIn(changes', changes[j].target)) /\ StagedIn(changes', t)
    BY <2>2, <2>3 DEF StagedIn
  <2>7. \A k \in DOMAIN changes' :
           \/ changes'[k].target = t /\ changes'[k].after = e
           \/ \E j \in DOMAIN changes : /\ changes[j].target # t /\ changes'[k].target = changes[j].target
                                        /\ changes'[k].after = changes[j].after
    BY <2>2, <2>3, <2>5
  <2> QED
    BY <1>1, <2>4, <2>6, <2>7, StagedLoss
<1> QED
  BY <1>3, <1>4

LEMMA RedoLoss ==
  ASSUME TypeInv, SavingInv, LossInv, Redo
  PROVE  LossHere
<1> DEFINE c == redo[Len(redo)]
<1>1. /\ scope \in Drafts /\ redo # <<>> /\ changes' = Append(changes, c)
      /\ wanted' = [wanted EXCEPT ![scope][c.target] = IF c.target \in LayoutOnly THEN 0 ELSE c.after]
  BY DEF Redo, Editable
<1>2. redo \in Seq(Change) /\ changes \in Seq(Change) /\ Apart(changes, redo)
  BY <1>1, Canvas DEF SavingInv, DraftOk
<1>3. Len(redo) \in DOMAIN redo /\ c \in Change
  BY <1>1, <1>2, SeqParts
<1>4. c.target \in Targets /\ c.after \in Nat /\ \A k \in DOMAIN changes : changes[k].target # c.target
  BY <1>2, <1>3 DEF Apart, Change
<1> HIDE DEF c
<1>5. /\ \A k \in DOMAIN changes' :
           \/ k \in DOMAIN changes /\ changes'[k] = changes[k]
           \/ changes'[k] = c
      /\ \A k \in DOMAIN changes : k \in DOMAIN changes' /\ changes'[k] = changes[k]
      /\ Len(changes) + 1 \in DOMAIN changes' /\ changes'[Len(changes) + 1] = c
  BY <1>1, <1>2, <1>3
<1>6. changes' # <<>> /\ (\A j \in DOMAIN changes : StagedIn(changes', changes[j].target))
      /\ StagedIn(changes', c.target)
  BY <1>5 DEF StagedIn
<1>7. \A k \in DOMAIN changes' :
         \/ changes'[k].target = c.target /\ changes'[k].after = c.after
         \/ \E j \in DOMAIN changes :
              /\ changes[j].target # c.target /\ changes'[k].target = changes[j].target
              /\ changes'[k].after = changes[j].after
  BY <1>4, <1>5
<1> QED
  BY <1>1, <1>4, <1>6, <1>7, StagedLoss

LEMMA ResolveLoss ==
  ASSUME TypeInv, SavingInv, LossInv, NEW i, NEW mine \in BOOLEAN, ResolveConflict(i, mine)
  PROVE  LossHere
<1>1. /\ scope \in Drafts /\ i \in DOMAIN changes
      /\ changes' = IF mine THEN [changes EXCEPT ![i] = KeepMine(changes[i])]
                    ELSE Sans(changes, {changes[i].id})
      /\ wanted' = IF mine THEN wanted ELSE GivenUp({changes[i].target})
  BY DEF ResolveConflict, Editable
<1>2. CASE mine
  <2>1. changes' = [changes EXCEPT ![i] = KeepMine(changes[i])] /\ wanted' = wanted
    BY <1>1, <1>2
  <2>2. KeepMine(changes[i]).target = changes[i].target /\ KeepMine(changes[i]).after = changes[i].after
    BY <1>1, ActiveType DEF KeepMine, Change
  <2>3. /\ DOMAIN changes' = DOMAIN changes /\ changes' # <<>>
        /\ \A k \in DOMAIN changes :
             changes'[k].target = changes[k].target /\ changes'[k].after = changes[k].after
    <3> DEFINE c == KeepMine(changes[i])
    <3>1. changes' = [changes EXCEPT ![i] = c] /\ c.target = changes[i].target /\ c.after = changes[i].after
      BY <2>1, <2>2
    <3> HIDE DEF c
    <3>2. DOMAIN changes' = DOMAIN changes
      BY <3>1
    <3>3. changes' # <<>>
      BY <1>1, <3>2
    <3>4. \A k \in DOMAIN changes : changes'[k] = IF k = i THEN c ELSE changes[k]
      BY <1>1, <3>1
    <3> QED
      BY <3>1, <3>2, <3>3, <3>4
  <2>4. LossOk(changes, pending[scope], doc[scope], commits[scope], Letters(scope), wanted[scope])
    BY <1>1, CanvasLoss
  <2>5. LossOk(changes', pending[scope], doc[scope], commits[scope], Letters(scope), wanted[scope])
    BY <2>3, <2>4, LossAlike
  <2> QED
    BY <2>1, <2>3, <2>5 DEF LossHere
<1>3. CASE ~mine
  <2>1. /\ {changes[v].id : v \in {i}} = {changes[i].id}
        /\ {changes[v].target : v \in {i}} = {changes[i].target}
    OBVIOUS
  <2>2. {i} \in SUBSET (DOMAIN changes)
    BY <1>1
  <2> QED
    BY <1>1, <1>3, <2>1, <2>2, SansLoss
<1> QED
  BY <1>2, <1>3

LEMMA DiscardLoss ==
  ASSUME TypeInv, SavingInv, LossInv, DiscardAll \/ \E i \in DOMAIN changes : Discard(i)
  PROVE  LossHere
<1>1. ASSUME NEW i \in DOMAIN changes, Discard(i) PROVE LossHere
  <2> DEFINE V == CollectStagedSubtree(changes, i)
  <2>1. V \in SUBSET (DOMAIN changes)
    BY DEF CollectStagedSubtree
  <2>2. /\ scope \in Drafts /\ changes' = Sans(changes, {changes[v].id : v \in V})
        /\ wanted' = GivenUp({changes[v].target : v \in V})
    BY <1>1 DEF Discard, Editable
  <2> HIDE DEF V
  <2> QED
    BY <2>1, <2>2, SansLoss
<1>2. CASE DiscardAll
  <2> DEFINE ts == {changes[i].target : i \in DOMAIN changes}
  <2>1. scope \in Drafts /\ changes' = <<>> /\ wanted' = GivenUp(ts)
    BY <1>2 DEF DiscardAll, Editable
  <2>2. \A i \in DOMAIN changes : changes[i].target \in ts
    OBVIOUS
  <2> HIDE DEF ts
  <2>3. /\ \A k \in DOMAIN changes' : \E i \in DOMAIN changes :
             changes[i].target \notin ts /\ changes'[k] = changes[i]
        /\ \A i \in DOMAIN changes : changes[i].target \notin ts => StagedIn(changes', changes[i].target)
    BY <2>1, <2>2
  <2> QED
    BY <2>1, <2>3, TakenLoss
<1> QED
  BY <1>1, <1>2

LEMMA ListEditLoss ==
  ASSUME TypeInv, SavingInv, LossInv, ListEdit
  PROVE  LossHere
BY EditLoss, DiscardLoss, UndoLoss, RedoLoss, ResolveLoss DEF ListEdit

-----------------------------------------------------------------------------
(* A save begun or ended loses no edit                                     *)

\* What is no longer staged, though still wanted, has landed.
LEMMA LossDropped ==
  ASSUME NEW H, NEW S, NEW E, NEW C, NEW N, NEW W, LossOk(H, S, E, C, N, W),
         NEW K, NEW S2 \in {S, NoSave},
         \A k \in DOMAIN K : \E i \in DOMAIN H : K[k].target = H[i].target /\ K[k].after = H[i].after,
         \A i \in DOMAIN H : H[i].target \notin LayoutOnly /\ ~StagedIn(K, H[i].target) =>
           Landed(H[i].target, H[i].after, E, C, N) /\ ~Writes(S2.body.ops, H[i].target)
  PROVE  LossOk(K, S2, E, C, N, W)
<1>1. WantedOk(K, W)
  BY DEF LossOk, WantedOk
<1>2. SavedOk(K, S2, E, C, N, W)
  <2>1. SavedOk(H, S, E, C, N, W)
    BY DEF LossOk
  <2>2. ASSUME NEW t \in Targets, W[t] # 0, ~StagedIn(K, t)
        PROVE  Landed(t, W[t], E, C, N) /\ ~Writes(S2.body.ops, t)
    <3>1. CASE StagedIn(H, t)
      <4>1. PICK i \in DOMAIN H : H[i].target = t
        BY <3>1 DEF StagedIn
      <4>2. t \notin LayoutOnly /\ W[t] = H[i].after
        BY <2>2, <4>1 DEF LossOk, WantedOk
      <4> QED
        BY <2>2, <4>1, <4>2
    <3>2. CASE ~StagedIn(H, t)
      <4>1. Landed(t, W[t], E, C, N) /\ ~Writes(S.body.ops, t)
        BY <2>1, <2>2, <3>2 DEF SavedOk
      <4>2. ~Writes(NoSave.body.ops, t)
        BY DEF NoSave, Writes
      <4> QED
        BY <4>1, <4>2
    <3> QED
      BY <3>1, <3>2
  <2> QED
    BY <2>1, <2>2 DEF SavedOk
<1> QED
  BY <1>1, <1>2 DEF LossOk

LEMMA LossElsewhere ==
  ASSUME LossInv, NEW d \in Drafts, Attended(d), Unmoved(d)
  PROVE  LossOk(Held(d)', HeldSave(d)', doc'[d], commits'[d], Letters(d)', wanted'[d])
<1>1. LossOk(Held(d), HeldSave(d), doc[d], commits[d], Letters(d), wanted[d])
  BY DEF LossInv
<1>2. /\ Held(d)' = Held(d) /\ HeldSave(d)' = HeldSave(d) /\ Letters(d)' \in SUBSET Letters(d)
      /\ doc'[d] = doc[d] /\ commits'[d] = commits[d] /\ wanted'[d] = wanted[d]
  BY DEF Unmoved, Quiet
<1>3. LossOk(Held(d), HeldSave(d), doc[d], commits[d], Letters(d)', wanted[d])
  BY <1>1, <1>2, LossFewer
<1> QED
  BY <1>2, <1>3

\* Only the draft on the canvas is touched.
LEMMA LossOnCanvas ==
  ASSUME LossInv, scope' = scope,
         \A d \in Drafts : Attended(d)' =>
           /\ Attended(d) /\ (d # scope => Unmoved(d)) /\ doc'[d] = doc[d] /\ commits'[d] = commits[d],
         Held(scope)' = changes', NEW S2, HeldSave(scope)' = S2, NEW N2, Letters(scope)' = N2,
         LossOk(changes', S2, doc[scope], commits[scope], N2, wanted'[scope])
  PROVE  LossInv'
<1>1. ASSUME NEW d \in Drafts, Attended(d)'
      PROVE  LossOk(Held(d)', HeldSave(d)', doc'[d], commits'[d], Letters(d)', wanted'[d])
  <2>1. CASE d # scope
    BY <1>1, <2>1, LossElsewhere
  <2>2. CASE d = scope
    <3>1. Held(d)' = changes' /\ HeldSave(d)' = S2 /\ Letters(d)' = N2
      BY <2>2
    <3>2. doc'[d] = doc[d] /\ commits'[d] = commits[d]
      BY <1>1
    <3> QED
      BY <2>2, <3>1, <3>2
  <2> QED
    BY <2>1, <2>2
<1> QED
  BY <1>1 DEF LossInv

LEMMA LossEdited ==
  ASSUME TypeInv, SavingInv, LossInv, EditStep, LossHere
  PROVE  LossInv' /\ CallLoss'
<1> DEFINE S2 == IF changes' = <<>> THEN NoSave ELSE pending[scope]
           N2 == Letters(scope)
<1>1. /\ scope' = scope /\ scope \in Drafts /\ applying' = FALSE
      /\ \A d \in Drafts : Attended(d)' =>
           /\ Attended(d) /\ (d # scope => Unmoved(d)) /\ doc'[d] = doc[d] /\ commits'[d] = commits[d]
      /\ Held(scope)' = changes' /\ HeldSave(scope)' = S2
  BY EditStepMoves DEF SavingInv
<1>2. Letters(scope)' = N2
  <2>1. net' = net
    BY DEF EditStep
  <2> QED
    BY <1>1, <2>1, SameLetters
<1>3. LossOk(changes', S2, doc[scope], commits[scope], N2, wanted'[scope])
  BY DEF LossHere
<1> HIDE DEF S2, N2
<1>4. LossInv'
  BY <1>1, <1>2, <1>3, LossOnCanvas
<1> QED
  BY <1>1, <1>4 DEF CallLoss

\* The canvas, its save sent.
LEMMA LossSentHere ==
  ASSUME TypeInv, SavingInv, LossInv, scope \in Drafts, NEW rest \in Seq(Change), NEW batch,
         NEW prior \in {pending[scope], NoSave}, \A k \in DOMAIN rest : StagedIn(changes, rest[k].target),
         NEW S2, S2 = SaveOf(rest, batch, prior)
  PROVE  LossOk(changes, S2, doc[scope], commits[scope],
                Letters(scope) \cup {LetterOf(Request(S2, scope))}, wanted[scope])
<1> DEFINE E == doc[scope]
           C == commits[scope]
           N == Letters(scope)
           W == wanted[scope]
           S == pending[scope]
           l == LetterOf(Request(S2, scope))
<1>1. LossOk(changes, S, E, C, N, W)
  BY CanvasLoss
<1>2. S2.key # 0 /\ ((\A r \in C : r.key # S2.key) \/ (S # NoSave /\ S2.key = S.key /\ S2.body = S.body))
  <2>1. S2.key = KeyFor(BodyOf(rest, batch), prior) /\ S2.body = BodyOf(rest, batch)
    BY DEF SaveOf
  <2>2. S2.key # 0 /\ ((S2.key = S.key /\ S2.body = S.body) \/ (\A r \in C : r.key # S2.key))
    BY <2>1, KeyOfSave
  <2>3. NoSave.key = 0
    BY DEF NoSave
  <2> QED
    BY <2>2, <2>3
<1>3. l.key = S2.key /\ l.ops = S2.body.ops /\ S2.body.ops = Ops(rest)
  BY DEF LetterOf, Request, SaveOf, BodyOf
<1>4. ASSUME NEW t \in Targets, Writes(S2.body.ops, t) PROVE StagedIn(changes, t)
  <2>1. PICK k \in DOMAIN Ops(rest) : Ops(rest)[k].target = t
    BY <1>3, <1>4 DEF Writes
  <2>2. PICK i \in DOMAIN rest : Ops(rest)[k] = OpOf(rest[i])
    BY OpsFacts
  <2> QED
    BY <2>1, <2>2 DEF OpOf
<1> HIDE DEF E, C, N, W, S, l
<1>5. LossOk(changes, S2, E, C, N \cup {l}, W)
  BY <1>1, <1>2, <1>3, <1>4, LossSent
<1> QED
  BY <1>5 DEF E, C, N, W, l

\* The call as its request leaves: what it does not send has landed.
LEMMA SentCallLoss ==
  ASSUME NEW rest \in Seq(Change), NEW settled, call'.save.body.ops = Ops(rest), call'.settled = settled,
         \A i \in DOMAIN changes' :
           changes'[i].target \notin LayoutOnly /\ changes'[i].id \notin settled.carried \ settled.edited =>
             SentIn(changes'[i], rest),
         \A i \in DOMAIN changes' :
             changes'[i].target \notin LayoutOnly /\ changes'[i].id \in settled.carried \ settled.edited =>
               /\ Landed(changes'[i].target, changes'[i].after,
                         doc[scope]', commits[scope]', Letters(scope)')
               /\ \A k \in DOMAIN rest : rest[k].target # changes'[i].target
  PROVE  CallLoss'
<1>1. SettledOnly' = settled.carried \ settled.edited
  BY DEF SettledOnly
<1>2. ASSUME NEW c, c.target \notin LayoutOnly, SentIn(c, rest) PROVE SentIn(c, Ops(rest))
  <2>1. PICK k \in DOMAIN rest : rest[k].target = c.target /\ rest[k].after = c.after
    BY <1>2 DEF SentIn
  <2>2. PICK j \in DOMAIN Ops(rest) : Ops(rest)[j] = OpOf(rest[k])
    BY <1>2, <2>1, OpsFacts
  <2> QED
    BY <2>1, <2>2 DEF SentIn, OpOf
<1>3. ASSUME NEW t, \A k \in DOMAIN rest : rest[k].target # t PROVE ~Writes(Ops(rest), t)
  <2> SUFFICES ASSUME NEW j \in DOMAIN Ops(rest), Ops(rest)[j].target = t PROVE FALSE
    BY DEF Writes
  <2>1. PICK i \in DOMAIN rest : Ops(rest)[j] = OpOf(rest[i])
    BY OpsFacts
  <2> QED
    BY <1>3, <2>1 DEF OpOf
<1> QED
  BY <1>1, <1>2, <1>3 DEF CallLoss

LEMMA SaveLoss ==
  ASSUME TypeInv, SavingInv, LossInv, Save
  PROVE  LossInv' /\ CallLoss'
<1>1. CASE SaveLayout
  <2>1. /\ scope \in Drafts /\ Ops(changes) = <<>> /\ changes' = <<>> /\ wanted' = wanted /\ EditStep
    BY <1>1 DEF SaveLayout, EditStep, Editable
  <2>2. /\ changes \in Seq(Change)
        /\ LossOk(changes, pending[scope], doc[scope], commits[scope], Letters(scope), wanted[scope])
    BY <2>1, CanvasLoss, CanvasFacts
  <2>3. ASSUME NEW i \in DOMAIN changes PROVE changes[i].target \in LayoutOnly
    <3>1. DOMAIN Ops(changes) = {}
      BY <2>1, EmptySeq
    <3> QED
      BY <2>2, <3>1, OpsFacts
  <2>4. DOMAIN <<>> = {}
    BY EmptySeq
  <2>5. LossOk(<<>>, NoSave, doc[scope], commits[scope], Letters(scope), wanted[scope])
    BY <2>2, <2>3, <2>4, LossDropped
  <2>6. LossHere
    BY <2>1, <2>5 DEF LossHere
  <2> QED
    BY <2>1, <2>6, LossEdited
<1>2. CASE SettleStart
  <2> DEFINE S == pending[scope]
             N2 == Letters(scope) \cup {LetterOf(Request(S, scope))}
  <2>1. /\ scope \in Drafts /\ call'.phase = "settle" /\ UNCHANGED <<pending, changes, scope, wanted>>
    BY <1>2 DEF SettleStart, Editable, history, NoCall
  <2>2. /\ \A d \in Drafts : Attended(d)' =>
             /\ Attended(d) /\ (d # scope => Unmoved(d)) /\ doc'[d] = doc[d] /\ commits'[d] = commits[d]
        /\ Letters(scope)' = N2
    BY <1>2, SettleStartMoves DEF SavingInv
  <2>3. Held(scope)' = changes' /\ HeldSave(scope)' = S
    BY <2>1 DEF Held, HeldSave
  <2>4. LossOk(changes, S, doc[scope], commits[scope], N2, wanted[scope])
    <3> DEFINE l == LetterOf(Request(S, scope))
    <3>1. l.key = S.key /\ l.ops = S.body.ops
      BY DEF LetterOf, Request
    <3>2. LossOk(changes, S, doc[scope], commits[scope], Letters(scope), wanted[scope])
      BY <2>1, CanvasLoss
    <3> HIDE DEF l, S
    <3> QED
      BY <3>1, <3>2, LossResettled DEF l
  <2> HIDE DEF S, N2
  <2>5. LossInv'
    BY <2>1, <2>2, <2>3, <2>4, LossOnCanvas
  <2> QED
    BY <2>1, <2>5 DEF CallLoss
<1>3. CASE SendNow
  <2> DEFINE S2 == SaveOf(changes, changes, pending[scope])
             N2 == Letters(scope) \cup {LetterOf(Request(S2, scope))}
  <2>1. /\ scope \in Drafts /\ changes # <<>>
        /\ Send(changes, changes, scope, pending, NotSettled) /\ applying' = TRUE
        /\ UNCHANGED <<changes, redo, due, scope, parked, restoredFor, server, wanted>>
    BY <1>3 DEF SendNow, Editable, history
  <2>2. pending \in Saves /\ due \in BOOLEAN /\ changes \in Seq(Change)
    BY TypeParts DEF TypeInv, Saves
  <2>3. /\ \A d \in Drafts : Attended(d)' =>
             /\ Attended(d) /\ (d # scope => Unmoved(d)) /\ doc'[d] = doc[d] /\ commits'[d] = commits[d]
        /\ Held(scope)' = changes' /\ HeldSave(scope)' = S2 /\ Letters(scope)' = N2
    BY <2>1, <2>2, SendMoves DEF SavingInv
  <2>4. \A k \in DOMAIN changes : StagedIn(changes, changes[k].target)
    BY DEF StagedIn
  <2>5. LossOk(changes, S2, doc[scope], commits[scope], N2, wanted[scope])
    BY <2>1, <2>2, <2>4, LossSentHere
  <2>6. call'.save.body.ops = Ops(changes) /\ call'.settled = NotSettled
    BY <2>1 DEF Send, BodyOf
  <2> HIDE DEF S2, N2
  <2>7. LossInv'
    BY <2>1, <2>3, <2>5, LossOnCanvas
  <2>8. CallLoss'
    <3>1. \A i \in DOMAIN changes : SentIn(changes[i], changes)
      BY DEF SentIn
    <3>2. NotSettled.carried \ NotSettled.edited = {} /\ changes' = changes
      BY <2>1 DEF NotSettled
    <3> QED
      BY <2>2, <2>6, <3>1, <3>2, SentCallLoss
  <2> QED
    BY <2>7, <2>8
<1> QED
  BY <1>1, <1>2, <1>3, SaveParts

\* What the save that was answered wrote has landed.
LEMMA AnsweredLanded ==
  ASSUME TypeInv, SavingInv, LossInv, applying, call.answer.is = "ok",
         NEW c, SentIn(c, call.save.body.ops)
  PROVE  Landed(c.target, c.after, doc[scope], commits[scope], Letters(scope))
<1>1. /\ scope \in Drafts /\ call.save = pending[scope]
      /\ LossOk(changes, pending[scope], doc[scope], commits[scope], Letters(scope), wanted[scope])
  BY PanelFacts, CanvasLoss
<1>2. PICK k \in DOMAIN call.save.body.ops : /\ call.save.body.ops[k].target = c.target
                                             /\ call.save.body.ops[k].after = c.after
  BY DEF SentIn
<1>3. pending[scope] # NoSave
  <2>1. DOMAIN NoSave.body.ops = {}
    BY EmptySeq DEF NoSave
  <2> QED
    BY <1>1, <1>2, <2>1
<1>4. \E r \in commits[scope] : r.key = pending[scope].key
  BY <1>1 DEF SavingInv, PanelInv, Applied
<1> QED
  BY <1>1, <1>2, <1>3, <1>4 DEF LossOk, SavedOk

\* A staged change the settled save carried, and not edited since, is in that save as it is staged.
LEMMA CarriedSent ==
  ASSUME TypeInv, SavingInv, applying, call.batch = changes, NEW i \in DOMAIN changes,
         changes[i].target \notin LayoutOnly, changes[i].id \in CarriedIn, changes[i].id \notin EditedIn
  PROVE  SentIn(changes[i], call.save.body.ops)
<1> DEFINE c == changes[i]
<1>1. /\ SourcedIn(scope, call.save.sent, madeOn) /\ call.save.body.ops = Ops(call.save.sent)
      /\ call.save.sent \in Seq(Change) /\ SourcedIn(scope, changes, madeOn)
  BY PanelFacts DEF Listed
<1>2. PICK j \in DOMAIN call.save.sent : call.save.sent[j].id = c.id
  BY DEF CarriedIn, Ids
<1>3. On(scope, call.save.sent[j].target) = On(scope, c.target)
  BY <1>1, <1>2 DEF SourcedIn
<1>4. call.save.sent[j].target = c.target
  BY <1>3 DEF On
<1>5. call.save.sent[j].after = c.after
  BY <1>2 DEF EditedIn, EditedSince
<1>6. PICK k \in DOMAIN Ops(call.save.sent) : Ops(call.save.sent)[k] = OpOf(call.save.sent[j])
  BY <1>1, <1>4, OpsFacts
<1> QED
  BY <1>1, <1>4, <1>5, <1>6 DEF SentIn, OpOf

\* What is left to send, against what is staged.
LEMMA RestFits ==
  ASSUME TypeInv, SavingInv, applying, call.answer.is = "ok", call.batch = changes
  PROVE  /\ Rest \in Seq(Change)
         /\ \A k \in DOMAIN Rest : \E i \in LeftIn : /\ i \in DOMAIN changes
                                                     /\ Rest[k].target = changes[i].target
                                                     /\ Rest[k].after = changes[i].after
         /\ \A i \in LeftIn : SentIn(changes[i], Rest)
         /\ \A i \in DOMAIN changes \ LeftIn :
              /\ changes[i].id \in CarriedIn /\ changes[i].id \notin EditedIn
              /\ \A k \in DOMAIN Rest : Rest[k].target # changes[i].target
         /\ \A i \in LeftIn : ~(changes[i].id \in CarriedIn /\ changes[i].id \notin EditedIn)
<1>1. /\ Rest \in Seq(Change) /\ Keeps(Rest, OutgoingSeq(changes), LeftIn)
      /\ LeftIn = {i \in DOMAIN changes : changes[i].id \in EditedIn \/ changes[i].id \notin CarriedIn}
  BY RestListed
<1>2. /\ DOMAIN OutgoingSeq(changes) = DOMAIN changes
      /\ \A i \in DOMAIN changes : /\ OutgoingSeq(changes)[i].target = changes[i].target
                                   /\ OutgoingSeq(changes)[i].after = changes[i].after
  BY RebasedListed, ActiveType, OutgoingFacts
<1>3. Uniq(changes)
  BY PanelFacts DEF Listed
<1> HIDE DEF Rest, LeftIn
<1>4. ASSUME NEW k \in DOMAIN Rest
      PROVE  \E i \in LeftIn : /\ i \in DOMAIN changes /\ Rest[k].target = changes[i].target
                               /\ Rest[k].after = changes[i].after
  <2>1. PICK i \in LeftIn : Rest[k] = OutgoingSeq(changes)[i]
    BY <1>1 DEF Keeps
  <2> QED
    BY <1>1, <1>2, <2>1
<1>5. ASSUME NEW i \in LeftIn PROVE SentIn(changes[i], Rest)
  <2>1. PICK k \in DOMAIN Rest : Rest[k] = OutgoingSeq(changes)[i]
    BY <1>1 DEF Keeps
  <2> QED
    BY <1>1, <1>2, <2>1 DEF SentIn
<1>6. ASSUME NEW i \in DOMAIN changes, i \notin LeftIn, NEW k \in DOMAIN Rest
      PROVE  Rest[k].target # changes[i].target
  BY <1>3, <1>4, <1>6 DEF Uniq
<1> QED
  BY <1>1, <1>4, <1>5, <1>6

\* A save that ends, with what it leaves staged and pending.
LEMMA EndedLoss ==
  ASSUME TypeInv, SavingInv, LossInv, applying,
         NEW saves \in {pending, [pending EXCEPT ![scope] = NoSave]}, NEW cs, Ended(cs, saves),
         UNCHANGED <<scope, parked, restoredFor, server, spent, history>>,
         LossOk(cs, IF cs = <<>> THEN NoSave ELSE saves[scope], doc[scope], commits[scope],
                Letters(scope), wanted[scope])
  PROVE  LossInv' /\ CallLoss'
<1> DEFINE S2 == IF cs = <<>> THEN NoSave ELSE saves[scope]
           N2 == Letters(scope)
<1>1. /\ \A d \in Drafts : Attended(d)' =>
           /\ Attended(d) /\ (d # scope => Unmoved(d)) /\ doc'[d] = doc[d] /\ commits'[d] = commits[d]
      /\ changes' = cs /\ Held(scope)' = changes' /\ HeldSave(scope)' = S2
  BY EndedMoves
<1>2. applying' = FALSE /\ net' = net /\ scope' = scope /\ wanted' = wanted
  BY DEF Ended, Done, history
<1>3. Letters(scope)' = N2
  BY <1>2, SameLetters
<1>4. LossOk(changes', S2, doc[scope], commits[scope], N2, wanted'[scope])
  BY <1>1, <1>2
<1> HIDE DEF S2, N2
<1>5. LossInv'
  BY <1>1, <1>2, <1>3, <1>4, LossOnCanvas
<1> QED
  BY <1>2, <1>5 DEF CallLoss

\* A request that goes out, with what it does not carry.
LEMMA ResentLoss ==
  ASSUME TypeInv, SavingInv, LossInv, applying, NEW rest \in Seq(Change), NEW settled,
         Resent(rest, settled), changes' # <<>>, applying' = TRUE, due' \in BOOLEAN,
         ~due' => ~due /\ changes' = changes,
         UNCHANGED <<scope, parked, restoredFor, server, spent, history>>,
         DOMAIN changes' = DOMAIN changes,
         \A i \in DOMAIN changes : /\ changes'[i].target = changes[i].target
                                   /\ changes'[i].after = changes[i].after
                                   /\ changes'[i].id = changes[i].id,
         \A k \in DOMAIN rest : StagedIn(changes, rest[k].target),
         \A i \in DOMAIN changes :
           changes[i].target \notin LayoutOnly /\ changes[i].id \notin settled.carried \ settled.edited =>
             SentIn(changes[i], rest),
         \A i \in DOMAIN changes :
             changes[i].target \notin LayoutOnly /\ changes[i].id \in settled.carried \ settled.edited =>
               /\ Landed(changes[i].target, changes[i].after, doc[scope], commits[scope], Letters(scope))
               /\ \A k \in DOMAIN rest : rest[k].target # changes[i].target
  PROVE  LossInv' /\ CallLoss'
<1> DEFINE S2 == SaveOf(rest, call.batch, NoSave)
           l == LetterOf(Request(S2, scope))
           N2 == Letters(scope) \cup {l}
           E == doc[scope]
           C == commits[scope]
<1>1. /\ \A d \in Drafts : Attended(d)' =>
           /\ Attended(d) /\ (d # scope => Unmoved(d)) /\ doc'[d] = doc[d] /\ commits'[d] = commits[d]
      /\ Held(scope)' = changes' /\ HeldSave(scope)' = S2 /\ Letters(scope)' = N2
  BY ResentMoves
<1>2. scope \in Drafts /\ scope' = scope /\ wanted' = wanted /\ doc' = doc /\ commits' = commits
  BY PanelFacts DEF history, server
<1>3. LossOk(changes, S2, E, C, N2, wanted[scope])
  BY <1>2, LossSentHere
<1>4. l.ops = Ops(rest)
  BY DEF LetterOf, Request, SaveOf, BodyOf
<1>5. call'.save.body.ops = Ops(rest) /\ call'.settled = settled
  BY DEF Resent, Send, BodyOf
<1> HIDE DEF S2, l
<1>6. LossOk(changes', S2, E, C, N2, wanted'[scope])
  <2> HIDE DEF E, C, N2
  <2> QED
    BY <1>2, <1>3, LossAlike
<1>7. LossInv'
  <2> HIDE DEF N2
  <2> QED
    BY <1>1, <1>2, <1>6, LossOnCanvas
<1>8. CallLoss'
  <2>1. ASSUME NEW i \in DOMAIN changes', changes'[i].target \notin LayoutOnly,
               changes'[i].id \notin settled.carried \ settled.edited
        PROVE  SentIn(changes'[i], rest)
    <3>1. SentIn(changes[i], rest)
      BY <2>1
    <3> QED
      BY <2>1, <3>1 DEF SentIn
  <2>2. ASSUME NEW i \in DOMAIN changes', changes'[i].target \notin LayoutOnly,
               changes'[i].id \in settled.carried \ settled.edited
        PROVE  /\ Landed(changes'[i].target, changes'[i].after, E, C, N2)
               /\ \A k \in DOMAIN rest : rest[k].target # changes'[i].target
    <3>1. /\ Landed(changes[i].target, changes[i].after, E, C, Letters(scope))
          /\ \A k \in DOMAIN rest : rest[k].target # changes[i].target
      BY <2>2
    <3>2. ~Writes(l.ops, changes[i].target)
      <4> SUFFICES ASSUME NEW j \in DOMAIN Ops(rest), Ops(rest)[j].target = changes[i].target PROVE FALSE
        BY <1>4 DEF Writes
      <4>1. PICK k \in DOMAIN rest : Ops(rest)[j] = OpOf(rest[k])
        BY OpsFacts
      <4> QED
        BY <3>1, <4>1 DEF OpOf
    <3> HIDE DEF E, C
    <3>3. Landed(changes[i].target, changes[i].after, E, C, N2)
      BY <3>1, <3>2, LandedSent
    <3> QED
      BY <2>2, <3>1, <3>3
  <2>3. doc[scope]' = E /\ commits[scope]' = C /\ Letters(scope)' = N2
    BY <1>1, <1>2
  <2> HIDE DEF E, C, N2
  <2> QED
    BY <1>5, <2>1, <2>2, <2>3, SentCallLoss
<1> QED
  BY <1>7, <1>8

LEMMA FailedLoss ==
  ASSUME TypeInv, SavingInv, LossInv, CallLoss, applying, call.phase = "send",
         NEW S2 \in {pending[scope], NoSave}
  PROVE  LossOk(MarkedSeq(Cleared(SettledOnly)), S2, doc[scope], commits[scope], Letters(scope),
                wanted[scope])
<1> DEFINE E == doc[scope]
           C == commits[scope]
           N == Letters(scope)
           left == Cleared(SettledOnly)
           K == MarkedSeq(left)
<1>1. /\ scope \in Drafts /\ call.save = pending[scope] /\ changes \in Seq(Change)
      /\ LossOk(changes, pending[scope], E, C, N, wanted[scope])
  BY PanelFacts, CanvasLoss
<1>2. SansOk(left, changes, SettledOnly) /\ left \in Seq(Change)
  BY <1>1, SansIsOk, SansFacts DEF Cleared
<1> HIDE DEF left
<1>3. /\ DOMAIN K = DOMAIN left
      /\ \A k \in DOMAIN left : K[k].target = left[k].target /\ K[k].after = left[k].after
  <2>1. \A k \in DOMAIN left : left[k] \in Change
    BY <1>2, SeqParts
  <2>2. \A c \in Change : ConflictOn(c).target = c.target /\ ConflictOn(c).after = c.after
    BY DEF ConflictOn, Change
  <2> QED
    BY <2>1, <2>2 DEF MarkedSeq
<1> HIDE DEF K
<1>4. \A k \in DOMAIN K : \E i \in DOMAIN changes : /\ K[k].target = changes[i].target
                                                    /\ K[k].after = changes[i].after
  BY <1>2, <1>3 DEF SansOk
<1>5. ASSUME NEW i \in DOMAIN changes, changes[i].id \notin SettledOnly PROVE StagedIn(K, changes[i].target)
  BY <1>2, <1>3, <1>5 DEF SansOk, StagedIn
<1>6. ASSUME NEW i \in DOMAIN changes, changes[i].target \notin LayoutOnly,
             ~StagedIn(K, changes[i].target)
      PROVE  Landed(changes[i].target, changes[i].after, E, C, N) /\ ~Writes(S2.body.ops, changes[i].target)
  <2>1. changes[i].id \in SettledOnly
    BY <1>5, <1>6
  <2>2. /\ Landed(changes[i].target, changes[i].after, E, C, N)
        /\ ~Writes(pending[scope].body.ops, changes[i].target)
    BY <1>1, <1>6, <2>1 DEF CallLoss
  <2>3. ~Writes(NoSave.body.ops, changes[i].target)
    BY DEF NoSave, Writes
  <2> QED
    BY <2>2, <2>3
<1> HIDE DEF E, C, N
<1>7. LossOk(K, S2, E, C, N, wanted[scope])
  BY <1>1, <1>4, <1>6, LossDropped
<1> QED
  BY <1>7 DEF K, left, E, C, N

LEMMA FinishedLoss ==
  ASSUME TypeInv, SavingInv, LossInv, CallLoss, applying, call.answer.is = "ok",
         call.phase = "settle" => call.batch = changes /\ Ops(Rest) = <<>>
  PROVE  LossOk(<<>>, NoSave, doc[scope], commits[scope], Letters(scope), wanted[scope])
<1>1. /\ scope \in Drafts /\ Running
      /\ LossOk(changes, pending[scope], doc[scope], commits[scope], Letters(scope), wanted[scope])
  BY PanelFacts, CanvasLoss
<1>2. call.phase \in {"settle", "send"}
  BY <1>1, CallParts DEF Running, CallRec
<1>3. ASSUME NEW i \in DOMAIN changes, changes[i].target \notin LayoutOnly
      PROVE  Landed(changes[i].target, changes[i].after, doc[scope], commits[scope], Letters(scope))
  <2>1. CASE call.phase = "settle"
    <3>1. Rest \in Seq(Change) /\ Ops(Rest) = <<>> /\ call.batch = changes /\ DOMAIN Ops(Rest) = {}
      BY <1>2, <2>1, RestFits, EmptySeq
    <3>2. i \notin LeftIn
      <4> SUFFICES ASSUME i \in LeftIn PROVE FALSE
        OBVIOUS
      <4>1. SentIn(changes[i], Rest)
        BY <3>1, RestFits
      <4>2. PICK k \in DOMAIN Rest : Rest[k].target = changes[i].target
        BY <4>1 DEF SentIn
      <4> QED
        BY <1>3, <3>1, <4>2, OpsFacts
    <3>3. changes[i].id \in CarriedIn /\ changes[i].id \notin EditedIn
      BY <3>1, <3>2, RestFits
    <3>4. SentIn(changes[i], call.save.body.ops)
      BY <1>3, <3>1, <3>3, CarriedSent
    <3> QED
      BY <1>3, <3>4, AnsweredLanded
  <2>2. CASE call.phase = "send"
    <3>1. CASE changes[i].id \in SettledOnly
      BY <1>3, <2>2, <3>1 DEF CallLoss
    <3>2. CASE changes[i].id \notin SettledOnly
      <4>1. SentIn(changes[i], call.save.body.ops)
        BY <1>3, <2>2, <3>2 DEF CallLoss
      <4> QED
        BY <1>3, <4>1, AnsweredLanded
    <3> QED
      BY <3>1, <3>2
  <2> QED
    BY <1>2, <2>1, <2>2
<1>4. DOMAIN <<>> = {} /\ \A t : ~Writes(NoSave.body.ops, t)
  BY EmptySeq DEF NoSave, Writes
<1> QED
  BY <1>1, <1>3, <1>4, LossDropped

LEMMA PanelLoss ==
  ASSUME TypeInv, SavingInv, LossInv, CallLoss, applying, Continue
  PROVE  LossInv' /\ CallLoss'
<1> DEFINE none == [pending EXCEPT ![scope] = NoSave]
           E == doc[scope]
           C == commits[scope]
           N == Letters(scope)
           W == wanted[scope]
<1>1. ContinueStep /\ UNCHANGED <<scope, parked, restoredFor, server, spent, history>>
  BY ContinueParts
<1>2. /\ scope \in Drafts /\ changes # <<>> /\ changes \in Seq(Change) /\ due \in BOOLEAN
      /\ none[scope] = NoSave
      /\ LossOk(changes, pending[scope], E, C, N, W)
  <2>1. scope \in Drafts /\ pending \in Saves /\ scope \in Scopes
    BY PanelFacts, ActiveType DEF Scopes
  <2> QED
    BY <2>1, PanelFacts, TypeParts, CanvasLoss DEF TypeInv, Saves
<1>3. CASE /\ call.phase = "settle" /\ call.answer.is = "lost"
           /\ Ended(changes, pending) /\ redo' = redo /\ token' = token
  BY <1>1, <1>2, <1>3, EndedLoss
<1>4. CASE /\ call.phase = "settle" /\ call.answer.is # "none" /\ call.batch = changes
           /\ Resent(changes, NotSettled) /\ UNCHANGED <<changes, redo, due, token>> /\ applying' = TRUE
  <2>1. /\ \A i \in DOMAIN changes : SentIn(changes[i], changes)
        /\ \A k \in DOMAIN changes : StagedIn(changes, changes[k].target)
        /\ NotSettled.carried \ NotSettled.edited = {}
    BY DEF SentIn, StagedIn, NotSettled
  <2> HIDE DEF none, E, C, N, W
  <2> QED
    BY <1>1, <1>2, <1>4, <2>1, ResentLoss
<1>5. CASE /\ call.phase = "settle" /\ call.answer.is = "ok" /\ call.batch = changes /\ Ops(Rest) # <<>>
           /\ changes' = RebasedSeq(changes) /\ due' = (due \/ changes' # changes)
           /\ Resent(Rest, [carried |-> CarriedIn, edited |-> EditedIn, versions |-> call.answer.versions])
           /\ UNCHANGED <<redo, token>> /\ applying' = TRUE
  <2> DEFINE settled == [carried |-> CarriedIn, edited |-> EditedIn, versions |-> call.answer.versions]
  <2>1. /\ Rest \in Seq(Change)
        /\ \A k \in DOMAIN Rest :
             \E i \in LeftIn : i \in DOMAIN changes /\ Rest[k].target = changes[i].target
        /\ \A i \in LeftIn : SentIn(changes[i], Rest)
        /\ \A i \in DOMAIN changes \ LeftIn :
              /\ changes[i].id \in CarriedIn /\ changes[i].id \notin EditedIn
              /\ \A k \in DOMAIN Rest : Rest[k].target # changes[i].target
        /\ \A i \in LeftIn : ~(changes[i].id \in CarriedIn /\ changes[i].id \notin EditedIn)
    BY <1>5, RestFits
  <2>2. /\ DOMAIN changes' = DOMAIN changes
        /\ \A i \in DOMAIN changes : /\ changes'[i].target = changes[i].target
                                     /\ changes'[i].after = changes[i].after
                                     /\ changes'[i].id = changes[i].id
    BY <1>5, RebasedListed
  <2>3. changes' # <<>> /\ due' \in BOOLEAN /\ (~due' => ~due /\ changes' = changes)
    <3>1. DOMAIN changes # {} /\ DOMAIN <<>> = {}
      BY <1>2, SeqParts
    <3>2. changes' # <<>>
      BY <2>2, <3>1
    <3> QED
      BY <1>2, <1>5, <3>2
  <2>4. settled.carried \ settled.edited = CarriedIn \ EditedIn /\ Resent(Rest, settled)
    BY <1>5
  <2>5. \A k \in DOMAIN Rest : StagedIn(changes, Rest[k].target)
    BY <2>1 DEF StagedIn
  <2>6. ASSUME NEW i \in DOMAIN changes, changes[i].target \notin LayoutOnly,
               changes[i].id \in settled.carried \ settled.edited
        PROVE  /\ Landed(changes[i].target, changes[i].after, E, C, N)
               /\ \A k \in DOMAIN Rest : Rest[k].target # changes[i].target
    <3>1. changes[i].id \in CarriedIn /\ changes[i].id \notin EditedIn
      BY <2>4, <2>6
    <3>2. i \notin LeftIn
      BY <2>1, <3>1
    <3>3. SentIn(changes[i], call.save.body.ops)
      BY <1>5, <2>6, <3>1, CarriedSent
    <3>4. Landed(changes[i].target, changes[i].after, E, C, N)
      BY <1>5, <2>6, <3>3, AnsweredLanded
    <3> QED
      BY <2>1, <3>2, <3>4
  <2>7. \A i \in DOMAIN changes : changes[i].id \notin settled.carried \ settled.edited =>
          SentIn(changes[i], Rest)
    BY <2>1, <2>4
  <2>8. \A i \in DOMAIN changes :
            changes[i].target \notin LayoutOnly /\ changes[i].id \in settled.carried \ settled.edited =>
              /\ Landed(changes[i].target, changes[i].after, doc[scope], commits[scope], Letters(scope))
              /\ \A k \in DOMAIN Rest : Rest[k].target # changes[i].target
    BY <2>6
  <2> HIDE DEF settled, none, E, C, N, W
  <2> QED
    BY <1>1, <1>5, <2>1, <2>2, <2>3, <2>4, <2>5, <2>7, <2>8, ResentLoss
<1>6. CASE /\ call.phase = "settle" => call.batch = changes /\ Ops(Rest) = <<>>
           /\ call.answer.is = "ok"
           /\ Ended(<<>>, none) /\ redo' = <<>> /\ Reconcile(scope, call.batch, call.answer.versions)
  <2>1. LossOk(<<>>, NoSave, E, C, N, W)
    BY <1>6, FinishedLoss
  <2> QED
    BY <1>1, <1>6, <2>1, EndedLoss
<1>7. CASE /\ call.phase = "send" /\ call.answer.is \in {"refused", "conflict", "lost"}
           /\ \E saves \in {pending, none} : Ended(MarkedSeq(Cleared(SettledOnly)), saves)
           /\ \/ redo' = redo /\ token' = token
              \/ redo' = <<>> /\ \E cs : Reconcile(scope, cs, call.settled.versions)
  <2> DEFINE left == MarkedSeq(Cleared(SettledOnly))
  <2>1. PICK saves \in {pending, none} : Ended(left, saves)
    BY <1>7
  <2>2. (IF left = <<>> THEN NoSave ELSE saves[scope]) \in {pending[scope], NoSave}
    BY <1>2, <2>1
  <2>3. LossOk(left, IF left = <<>> THEN NoSave ELSE saves[scope], E, C, N, W)
    BY <1>7, <2>2, FailedLoss
  <2> HIDE DEF left
  <2> QED
    BY <1>1, <2>1, <2>3, EndedLoss
<1> QED
  BY <1>1, <1>3, <1>4, <1>5, <1>6, <1>7 DEF ContinueStep

-----------------------------------------------------------------------------
(* The server's steps lose no edit                                         *)

\* What a step of the server makes of one draft: someone else's edit or none, or a letter taken.
Took(l, E, F, C) ==
  /\ \A r \in C : r.key # l.key
  /\ \A i \in DOMAIN l.ops : l.ops[i].kind = "update" => l.ops[i].base = E[l.ops[i].target].ver
  /\ \A i \in DOMAIN l.ops : l.ops[i].kind = "create" => ~(E[l.ops[i].target].ver > 0)
  /\ \A t \in Targets : \/ ~Writes(l.ops, t) /\ F[t] = E[t]
                        \/ \E i \in DOMAIN l.ops : l.ops[i].target = t /\ F[t] = Written1(E[t], l.ops[i])
Served(E, F, C, C2, N) ==
  \/ /\ C2 = C
     /\ \A t \in Targets : /\ F[t].mine = E[t].mine /\ E[t].ver <= F[t].ver
                           /\ F[t].ver > 0 => E[t].ver > 0
  \/ \E l \in N : C2 = C \cup {l} /\ Took(l, E, F, C)

LEMMA ServedParts ==
  ASSUME TypeInv, ServerStep, NEW d \in Drafts
  PROVE  Served(doc[d], doc'[d], commits[d], commits'[d], Letters(d))
<1>1. /\ doc \in [Drafts -> [Targets -> Entity]] /\ commits \in [Drafts -> SUBSET Commit]
      /\ \A m \in net : m.draft \in Drafts /\ m.ops \in Seq(Op)
  BY TypeParts DEF TypeInv, RequestRec
<1>2. ASSUME doc'[d] = doc[d], commits'[d] = commits[d]
      PROVE  Served(doc[d], doc'[d], commits[d], commits'[d], Letters(d))
  <2>1. \A t \in Targets : doc[d][t].ver <= doc[d][t].ver
    BY <1>1 DEF Entity
  <2> QED
    BY <1>2, <2>1 DEF Served
<1>3. ASSUME NEW m \in net, Apply(m), m.draft = d
      PROVE  Served(doc[d], doc'[d], commits[d], commits'[d], Letters(d))
  <2> DEFINE l == LetterOf(m)
  <2>1. /\ doc'[d] = After(d, m.ops) /\ commits'[d] = commits[d] \cup {l}
        /\ ~Conflicts(d, m.ops) /\ ~Exists(d, m.ops) /\ m.key \notin Applied(d)
    BY <1>1, <1>3 DEF Apply, Accepts, LetterOf
  <2>2. l \in Letters(d) /\ l.ops = m.ops /\ l.key = m.key
    BY <1>3 DEF Letters, LetterOf
  <2>3. \A r \in commits[d] : r.key # l.key
    BY <2>1, <2>2 DEF Applied
  <2>4. \A i \in DOMAIN l.ops : l.ops[i].kind = "update" => l.ops[i].base = doc[d][l.ops[i].target].ver
    BY <2>1, <2>2 DEF Conflicts
  <2>4a. ASSUME NEW i \in DOMAIN l.ops, l.ops[i].kind = "create", doc[d][l.ops[i].target].ver > 0
         PROVE  FALSE
    <3>1. m.ops \in Seq(Op) /\ i \in DOMAIN m.ops /\ m.ops[i] = l.ops[i]
      BY <1>1, <2>2
    <3>2. m.ops[i].target \in Targets
      <4>1. m.ops[i] \in Op
        BY <3>1, SeqParts
      <4> QED
        BY <4>1 DEF Op
    <3>3. m.ops[i].target \in Created(m.ops)
      BY <2>4a, <3>1 DEF Created
    <3> QED
      BY <2>1, <2>4a, <3>1, <3>2, <3>3 DEF Exists, There
  <2>5. ASSUME NEW t \in Targets
        PROVE  \/ ~Writes(l.ops, t) /\ doc'[d][t] = doc[d][t]
               \/ \E i \in DOMAIN l.ops : l.ops[i].target = t /\ doc'[d][t] = Written1(doc[d][t], l.ops[i])
    <3>1. \/ t \notin Written(m.ops) /\ After(d, m.ops)[t] = doc[d][t]
          \/ \E i \in DOMAIN m.ops :
               m.ops[i].target = t /\ After(d, m.ops)[t] = Written1(doc[d][t], m.ops[i])
      BY <1>1, <1>3, AppliedEdit
    <3>2. t \notin Written(m.ops) => ~Writes(l.ops, t)
      BY <2>2 DEF Written, Writes
    <3> QED
      BY <2>1, <2>2, <3>1, <3>2
  <2> HIDE DEF l
  <2> QED
    BY <2>1, <2>2, <2>3, <2>4, <2>4a, <2>5 DEF Served, Took
<1>4. ASSUME NEW m \in net, Apply(m), m.draft # d
      PROVE  doc'[d] = doc[d] /\ commits'[d] = commits[d]
  BY <1>1, <1>4 DEF Apply
<1>5. ASSUME NEW m \in net, Replay(m) \/ Refuse(m) \/ Violate(m) \/ Drop(m)
      PROVE  doc'[d] = doc[d] /\ commits'[d] = commits[d]
  BY <1>5 DEF Replay, Refuse, Violate, Drop, server
<1>6. ASSUME NEW e \in Drafts, CloseDraft(e)
      PROVE  doc'[d] = doc[d] /\ commits'[d] = commits[d]
  BY <1>6 DEF CloseDraft
<1>7. ASSUME NEW e \in Drafts, NEW u \in Targets, OtherEdit(e, u)
      PROVE  Served(doc[d], doc'[d], commits[d], commits'[d], Letters(d))
  <2>1. doc' = [doc EXCEPT ![e][u].ver = doc[e][u].ver + 1] /\ commits' = commits
    BY <1>7 DEF OtherEdit
  <2>2. ASSUME NEW t \in Targets
        PROVE  /\ doc'[d][t].mine = doc[d][t].mine /\ doc[d][t].ver <= doc'[d][t].ver
               /\ doc'[d][t].ver > 0 => doc[d][t].ver > 0
    <3>1. doc[d][t] \in Entity /\ doc[e][u].ver > 0
      BY <1>1, <1>7 DEF OtherEdit, There
    <3>2. \/ doc'[d][t] = doc[d][t]
          \/ d = e /\ t = u /\ doc'[d][t] = [doc[d][t] EXCEPT !.ver = doc[d][t].ver + 1]
      BY <1>1, <2>1
    <3> QED
      BY <3>1, <3>2 DEF Entity
  <2> QED
    BY <2>1, <2>2 DEF Served
<1> QED
  BY <1>2, <1>3, <1>4, <1>5, <1>6, <1>7 DEF ServerStep, Respond

\* What landed stays: an update on its way is of an older version, a create of what is there is
\* refused.
LEMMA LandedStays ==
  ASSUME NEW E, NEW F, NEW C, NEW C2, NEW N \in SUBSET Commit, NEW N2 \in SUBSET N,
         IsMap(E), IsMap(F), Served(E, F, C, C2, N),
         NEW t \in Targets, NEW e, Landed(t, e, E, C, N)
  PROVE  Landed(t, e, F, C2, N2)
<1>1. E[t].ver \in Nat /\ E[t].ver > 0 /\ E[t].mine = e /\ F[t].ver \in Nat
  BY DEF IsMap, Entity, Landed
<1>2. C \subseteq C2
  BY DEF Served
<1>3. F[t].mine = E[t].mine /\ E[t].ver <= F[t].ver
  <2>1. ASSUME NEW l \in N, Took(l, E, F, C), Writes(l.ops, t) PROVE FALSE
    <3>1. PICK i \in DOMAIN l.ops : l.ops[i].target = t /\ F[t] = Written1(E[t], l.ops[i])
      BY <2>1 DEF Took
    <3>2. l.ops[i] \in Op
      BY SeqParts DEF Commit
    <3>3. CASE l.ops[i].kind = "update"
      <4>1. l.ops[i].base = E[t].ver
        BY <2>1, <3>1, <3>3 DEF Took
      <4>2. l.ops[i].base < E[t].ver
        BY <2>1, <3>1, <3>3 DEF Took, Landed, Past
      <4> QED
        BY <1>1, <4>1, <4>2
    <3>4. CASE l.ops[i].kind = "create"
      BY <1>1, <2>1, <3>1, <3>4 DEF Took
    <3> QED
      BY <3>2, <3>3, <3>4 DEF Op
  <2>2. ASSUME NEW l \in N, Took(l, E, F, C), ~Writes(l.ops, t) PROVE F[t] = E[t]
    BY <2>2 DEF Took, Writes
  <2> QED
    BY <1>1, <2>1, <2>2 DEF Served
<1>4. Past(t, F, C2, N2)
  <2> SUFFICES ASSUME NEW m \in N2, \A r \in C2 : r.key # m.key, NEW i \in DOMAIN m.ops,
                      m.ops[i].target = t, m.ops[i].kind = "update"
               PROVE  m.ops[i].base < F[t].ver
    BY DEF Past
  <2>1. m.ops[i].base < E[t].ver
    BY <1>2 DEF Landed, Past
  <2>2. m.ops[i] \in Op
    BY SeqParts DEF Commit
  <2> QED
    BY <1>1, <1>3, <2>1, <2>2 DEF Op
<1> QED
  BY <1>1, <1>3, <1>4 DEF Landed

\* A letter taken: what it wrote has landed.
LEMMA TookLanded ==
  ASSUME NEW E, NEW F, NEW C, NEW N \in SUBSET Commit, NEW N2 \in SUBSET N, IsMap(E), IsMap(F),
         NEW l \in N, Took(l, E, F, C), NEW S, LettersOk(S, E, C, N), NEW i \in DOMAIN l.ops,
         F[l.ops[i].target].ver > 0
  PROVE  Landed(l.ops[i].target, l.ops[i].after, F, C \cup {l}, N2)
<1> DEFINE t == l.ops[i].target
<1>1. l.ops[i] \in Op /\ t \in Targets
  <2>1. l.ops[i] \in Op
    BY SeqParts DEF Commit
  <2> QED
    BY <2>1 DEF Op
<1>2. Uniq(l.ops)
  BY DEF LettersOk, Writable
<1>3. F[t] = Written1(E[t], l.ops[i])
  <2>1. PICK j \in DOMAIN l.ops : l.ops[j].target = t /\ F[t] = Written1(E[t], l.ops[j])
    BY <1>1 DEF Took, Writes
  <2>2. j = i
    BY <1>2, <2>1 DEF Uniq
  <2> QED
    BY <2>1, <2>2
<1> HIDE DEF t
<1>4. F[t].mine = l.ops[i].after /\ F[t].ver = E[t].ver + 1 /\ E[t].ver \in Nat
  BY <1>1, <1>3 DEF Written1, IsMap, Entity
<1>5. ASSUME NEW m \in N2, NEW k \in DOMAIN m.ops, m.ops[k].target = t, m.ops[k].kind = "update"
      PROVE  m.ops[k].base < F[t].ver
  <2>1. m.ops[k] \in Op
    BY SeqParts DEF Commit
  <2>2. m.ops[k].base <= E[t].ver
    BY <1>5 DEF LettersOk, Writable
  <2> QED
    BY <1>4, <2>1, <2>2 DEF Op
<1>6. F[t].ver > 0
  BY DEF t
<1> QED
  BY <1>4, <1>5, <1>6 DEF Landed, Past, t

LEMMA LossServed ==
  ASSUME NEW H, NEW S \in PendingSave, NEW E, NEW F, NEW C, NEW C2, NEW N \in SUBSET Commit,
         NEW N2 \in SUBSET N, NEW W,
         IsMap(E), IsMap(F), Grown(E, F), Served(E, F, C, C2, N), LettersOk(S, E, C, N),
         \A r \in C2 : r \in C \/ \A i \in DOMAIN r.ops : F[r.ops[i].target].ver > 0,
         LossOk(H, S, E, C, N, W)
  PROVE  LossOk(H, S, F, C2, N2, W)
<1>1. SavedOk(H, S, F, C2, N2, W)
  <2>1. SavedOk(H, S, E, C, N, W)
    BY DEF LossOk
  <2>2. ASSUME NEW t \in Targets, NEW e, Landed(t, e, E, C, N) PROVE Landed(t, e, F, C2, N2)
    BY <2>2, LandedStays
  <2>3. ASSUME S # NoSave, NEW r \in C2, r.key = S.key, NEW i \in DOMAIN S.body.ops
        PROVE  Landed(S.body.ops[i].target, S.body.ops[i].after, F, C2, N2)
    <3>1. CASE r \in C
      <4>1. S.body.ops[i] \in Op
        BY SeqParts DEF PendingSave, Body
      <4>2. S.body.ops[i].target \in Targets
        BY <4>1 DEF Op
      <4>3. Landed(S.body.ops[i].target, S.body.ops[i].after, E, C, N)
        BY <2>1, <2>3, <3>1 DEF SavedOk
      <4> QED
        BY <2>2, <4>2, <4>3
    <3>2. CASE r \notin C
      <4>1. PICK l \in N : C2 = C \cup {l} /\ Took(l, E, F, C)
        BY <2>3, <3>2 DEF Served
      <4>2. r = l
        BY <2>3, <3>2, <4>1
      <4>3. l.ops = S.body.ops
        BY <2>3, <4>2 DEF LettersOk
      <4>4. F[l.ops[i].target].ver > 0
        BY <2>3, <3>2, <4>2, <4>3
      <4>5. Landed(l.ops[i].target, l.ops[i].after, F, C \cup {l}, N2)
        BY <2>3, <4>1, <4>3, <4>4, TookLanded
      <4> QED
        BY <4>1, <4>3, <4>5
    <3> QED
      BY <3>1, <3>2
  <2> QED
    BY <2>1, <2>2, <2>3 DEF SavedOk
<1> QED
  BY <1>1 DEF LossOk

LEMMA ServerLoss ==
  ASSUME TypeInv, SavingInv, LossInv, CallLoss, ServerStep
  PROVE  LossInv' /\ CallLoss'
<1>1. /\ \A d \in Drafts : Attended(d)' =>
           /\ Attended(d) /\ Quiet(d) /\ Letters(d)' \subseteq Letters(d) /\ wanted'[d] = wanted[d]
      /\ UNCHANGED <<scope, changes, applying>>
      /\ call' = call \/ \E a : call' = [call EXCEPT !.answer = a]
  BY ServerMoves DEF SavingInv
<1>2. doc' \in [Drafts -> [Targets -> Entity]]
  <2>1. TypeInv'
    <3>1. Next
      BY DEF ServerStep, Next
    <3> QED
      BY <3>1, TypeStep
  <2> QED
    BY <2>1, TypePartsNext DEF TypeInv
<1>3. ASSUME NEW d \in Drafts, Attended(d)
      PROVE  /\ IsMap(doc[d]) /\ IsMap(doc'[d]) /\ Grown(doc[d], doc'[d])
             /\ Letters(d) \in SUBSET Commit /\ HeldSave(d) \in PendingSave
             /\ LettersOk(HeldSave(d), doc[d], commits[d], Letters(d))
             /\ Served(doc[d], doc'[d], commits[d], commits'[d], Letters(d))
             /\ \A r \in commits'[d] :
                  r \in commits[d] \/ \A i \in DOMAIN r.ops : doc'[d][r.ops[i].target].ver > 0
  <2>1. SliceInv(d)
    BY <1>3 DEF SavingInv, SlicesInv
  <2>2. LettersOk(HeldSave(d), doc[d], commits[d], Letters(d))
    BY <2>1 DEF SliceInv, DraftOk
  <2>3. IsMap(doc[d]) /\ Letters(d) \in SUBSET Commit /\ HeldSave(d) \in PendingSave
    BY HeldTypes
  <2>4. IsMap(doc'[d])
    BY <1>2 DEF IsMap
  <2>5. /\ Grown(doc[d], doc'[d])
        /\ \A r \in commits'[d] :
             r \in commits[d] \/ \A i \in DOMAIN r.ops : doc'[d][r.ops[i].target].ver > 0
    BY <2>1, ServedDraft
  <2>6. Served(doc[d], doc'[d], commits[d], commits'[d], Letters(d))
    BY ServedParts
  <2> QED
    BY <2>2, <2>3, <2>4, <2>5, <2>6
<1>4. ASSUME NEW d \in Drafts, Attended(d)'
      PROVE  LossOk(Held(d)', HeldSave(d)', doc'[d], commits'[d], Letters(d)', wanted'[d])
  <2>1. /\ Attended(d) /\ Held(d)' = Held(d) /\ HeldSave(d)' = HeldSave(d)
        /\ Letters(d)' \in SUBSET Letters(d) /\ wanted'[d] = wanted[d]
    BY <1>1, <1>4 DEF Quiet
  <2>2. LossOk(Held(d), HeldSave(d), doc[d], commits[d], Letters(d), wanted[d])
    BY <2>1 DEF LossInv
  <2>3. LossOk(Held(d), HeldSave(d), doc'[d], commits'[d], Letters(d)', wanted[d])
    BY <1>3, <2>1, <2>2, LossServed
  <2> QED
    BY <2>1, <2>3
<1>5. LossInv'
  BY <1>4 DEF LossInv
<1>6. CallLoss'
  <2> SUFFICES ASSUME applying', call'.phase = "send" PROVE CallLoss'
    BY DEF CallLoss
  <2>1. /\ call'.phase = call.phase /\ call'.save = call.save /\ call'.settled = call.settled
        /\ scope' = scope /\ changes' = changes /\ applying' = applying
    BY <1>1, CallParts DEF CallRec
  <2>2. scope \in Drafts /\ SettledOnly' = SettledOnly /\ applying /\ call.phase = "send"
    BY <2>1, PanelFacts DEF SettledOnly
  <2>3. /\ Attended(scope) /\ Letters(scope)' \in SUBSET Letters(scope)
        /\ \A i \in DOMAIN changes : changes[i].target \in Targets
    <3>1. Attended(scope) /\ Attended(scope)'
      BY <2>1 DEF Attended
    <3> QED
      BY <1>1, <2>1, <2>2, <3>1, CanvasLoss
  <2>4. ASSUME NEW i \in DOMAIN changes, changes[i].target \notin LayoutOnly,
               changes[i].id \in SettledOnly
        PROVE  /\ Landed(changes[i].target, changes[i].after, doc'[scope], commits'[scope], Letters(scope)')
               /\ ~Writes(call.save.body.ops, changes[i].target)
    <3>2. /\ Landed(changes[i].target, changes[i].after, doc[scope], commits[scope], Letters(scope))
          /\ ~Writes(call.save.body.ops, changes[i].target)
      BY <2>2, <2>4 DEF CallLoss
    <3>3. Landed(changes[i].target, changes[i].after, doc'[scope], commits'[scope], Letters(scope)')
      <4> DEFINE N2 == Letters(scope)'
                 F == doc'[scope]
                 C2 == commits'[scope]
      <4>1. /\ N2 \in SUBSET Letters(scope) /\ Letters(scope) \in SUBSET Commit
            /\ IsMap(doc[scope]) /\ IsMap(F) /\ Served(doc[scope], F, commits[scope], C2, Letters(scope))
            /\ changes[i].target \in Targets
        BY <1>3, <2>2, <2>3, <2>4
      <4> HIDE DEF N2, F, C2
      <4>2. Landed(changes[i].target, changes[i].after, F, C2, N2)
        BY <3>2, <4>1, LandedStays
      <4> QED
        BY <4>2 DEF N2, F, C2
    <3> QED
      BY <3>2, <3>3
  <2>5. \A i \in DOMAIN changes : changes[i].target \notin LayoutOnly /\ changes[i].id \notin SettledOnly =>
          SentIn(changes[i], call.save.body.ops)
    BY <2>2 DEF CallLoss
  <2> QED
    BY <2>1, <2>2, <2>4, <2>5 DEF CallLoss
<1> QED
  BY <1>5, <1>6

LEMMA LossStep ==
  ~Hasty /\ TypeInv /\ SavingInv /\ LossInv /\ CallLoss /\ [Next]_vars => LossInv' /\ CallLoss'
<1> SUFFICES ASSUME ~Hasty, TypeInv, SavingInv, LossInv, CallLoss, [Next]_vars
             PROVE  LossInv' /\ CallLoss'
  OBVIOUS
<1>1. ASSUME \A d \in Drafts : Attended(d)' => Attended(d) /\ Unmoved(d) PROVE LossInv'
  BY <1>1, LossElsewhere DEF LossInv
<1>2. CASE Moving
  <2>1. LossInv'
    BY <1>1, <1>2, MovesOnly DEF Moving, SavingInv
  <2>2. CASE WriteSnapshot
    <3>1. UNCHANGED <<scope, changes, applying, call, net, doc, commits>>
      BY <2>2 DEF WriteSnapshot, server
    <3>2. Letters(scope)' = Letters(scope) /\ SettledOnly' = SettledOnly
      BY <3>1 DEF Letters, SettledOnly
    <3> QED
      BY <2>1, <3>1, <3>2 DEF CallLoss
  <2>3. CASE Reload \/ Evict \/ \E s \in Scopes : SwitchTo(s)
    <3>1. applying' = FALSE
      BY <2>3 DEF Reload, Evict, SwitchTo, Activate
    <3> QED
      BY <2>1, <3>1 DEF CallLoss
  <2> QED
    BY <1>2, <2>2, <2>3 DEF Moving
<1>3. CASE ListEdit
  <2>1. EditStep
    BY <1>3, ListEditSaving
  <2> QED
    BY <1>3, <2>1, ListEditLoss, LossEdited
<1>4. CASE Save
  BY <1>4, SaveLoss
<1>5. CASE Continue /\ applying
  BY <1>5, PanelLoss
<1>6. CASE Continue /\ ~applying
  <2>1. (\A d \in Drafts : Attended(d)' => Attended(d) /\ Unmoved(d)) /\ applying' = FALSE
    BY <1>6, ForeignMoves DEF SavingInv
  <2> QED
    BY <1>1, <2>1 DEF CallLoss
<1>7. CASE ServerStep
  BY <1>7, ServerLoss
<1>8. CASE UNCHANGED vars
  BY <1>8 DEF vars, page, server, history, LossInv, CallLoss, Attended, Held, HeldSave, Restorable, Letters,
              SettledOnly
<1>9. applying \in BOOLEAN
  BY TypeParts DEF TypeInv
<1> QED
  BY <1>2, <1>3, <1>4, <1>5, <1>6, <1>7, <1>8, <1>9, Steps

LEMMA LossInit == Init => LossInv /\ CallLoss
<1> SUFFICES ASSUME Init PROVE LossInv /\ CallLoss
  OBVIOUS
<1>1. CallLoss
  BY DEF Init, CallLoss
<1>2. ASSUME NEW d \in Drafts
      PROVE  LossOk(Held(d), HeldSave(d), doc[d], commits[d], Letters(d), wanted[d])
  <2>1. Held(d) = <<>> /\ HeldSave(d) = NoSave /\ commits[d] = {}
    BY StagedSaveAssumption DEF Init, Held, HeldSave, Restorable, NoSnap, NoSave, EmptySlice, Scopes
  <2>2. \A t \in Targets : wanted[d][t] = 0
    BY DEF Init
  <2>3. DOMAIN <<>> = {} /\ LayoutOnly \subseteq Targets
    BY EmptySeq, StagedSaveAssumption
  <2> QED
    BY <2>1, <2>2, <2>3 DEF LossOk, WantedOk, SavedOk
<1> QED
  BY <1>1, <1>2 DEF LossInv

LEMMA LossAlways ==
  ASSUME ~Hasty
  PROVE  Spec => [](TypeInv /\ SavingInv /\ LossInv /\ CallLoss)
<1>1. Init => LossInv /\ CallLoss
  BY LossInit
<1>2. TypeInv /\ SavingInv /\ LossInv /\ CallLoss /\ [Next]_vars => LossInv' /\ CallLoss'
  BY LossStep
<1> QED
  BY <1>1, <1>2, SavingAlways, PTL DEF Spec

\* What the user wants is there or staged.
LEMMA WantedKept ==
  ASSUME TypeInv, LossInv, NEW d \in Drafts, Attended(d),
         NEW t \in Targets, wanted[d][t] # 0
  PROVE  \/ doc[d][t].mine = wanted[d][t]
         \/ \E i \in DOMAIN Held(d) : Held(d)[i].target = t /\ Held(d)[i].after = wanted[d][t]
<1>1. LossOk(Held(d), HeldSave(d), doc[d], commits[d], Letters(d), wanted[d])
  BY DEF LossInv
<1>2. CASE StagedIn(Held(d), t)
  <2>1. PICK i \in DOMAIN Held(d) : Held(d)[i].target = t
    BY <1>2 DEF StagedIn
  <2> QED
    BY <1>1, <2>1 DEF LossOk, WantedOk
<1>3. CASE ~StagedIn(Held(d), t)
  BY <1>1, <1>3 DEF LossOk, SavedOk, Landed
<1> QED
  BY <1>2, <1>3

\* The user's last edit of each entity, unless given up, is on the draft or still staged: no answer
\* lost, page reloaded, save retried, settled or refused, draft left and come back to, or edit made by
\* someone else loses it, and no request that comes late writes an older edit over it. For a tab that
\* is not left in a hurry.
THEOREM NoEditLost ==
  ASSUME ~Hasty
  PROVE  Spec => []NothingLost
<1>1. TypeInv /\ LossInv => NothingLost
  <2> SUFFICES ASSUME TypeInv, LossInv, NEW d \in open, NEW t \in Targets, wanted[d][t] # 0
               PROVE  \/ doc[d][t].mine = wanted[d][t]
                      \/ \E i \in DOMAIN Held(d) : Held(d)[i].target = t /\ Held(d)[i].after = wanted[d][t]
    BY DEF NothingLost
  <2>1. d \in Drafts /\ Attended(d)
    BY TypeParts DEF TypeInv, Attended
  <2> QED
    BY <2>1, WantedKept
<1> QED
  BY <1>1, LossAlways, PTL
=============================================================================
