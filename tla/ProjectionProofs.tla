-------------------------- MODULE ProjectionProofs --------------------------
(***************************************************************************)
(* Proofs about Projection, for every number of entities, passes and       *)
(* readers and every bound.                                                *)
(***************************************************************************)
EXTENDS Projection, SequenceTheorems, WellFoundedInduction, TLAPS

-----------------------------------------------------------------------------
(* The types, with main's head h                                           *)

Ops == {"keep", "put", "gone"}
Row(h) == [status : Statuses, projected : 0 .. h, epoch : Nat]
Pcs == {"idle", "read", "plan", "write", "heal", "mark", "done", "failed", "yield"}
PassRec(h) == [pc : Pcs, from : 0 .. h, to : 0 .. h, seen : Nat, mine : Nat, first : BOOLEAN,
               todo : SUBSET Entities]
EvictRec(h) == [pc : {"idle", "mark", "check", "drop"}, projected : 0 .. h, epoch : Nat]
ProbeRec(h) == [projected : 0 .. h, epoch : Nat]
Leases == [Readers -> {"out", "held", "routed"}]
Strays == {"no", "key", "lost"}

LEMMA TypeParts ==
  LET h == Len(main) IN
  TypeOK <=> /\ main \in Seq([Entities -> Ops]) /\ h <= MaxCommits
             /\ ps \in Row(h) /\ key \in Key /\ saved \in Key
             /\ lock \in Passes \cup {Evictor, Nobody} /\ pass \in [Passes -> PassRec(h)]
             /\ evictor \in EvictRec(h) /\ dropped \in BOOLEAN /\ loaded \in 0 .. h
             /\ probe \in ProbeRec(h) /\ reader \in Leases /\ stray \in Strays
  BY DEF TypeOK, MainHead, Ops, Row, Pcs, PassRec, EvictRec, ProbeRec, Leases, Strays

\* The same, a step later.
LEMMA TypePartsNext ==
  LET h == Len(main') IN
  TypeOK' <=> /\ main' \in Seq([Entities -> Ops]) /\ h <= MaxCommits
              /\ ps' \in Row(h) /\ key' \in Key /\ saved' \in Key
              /\ lock' \in Passes \cup {Evictor, Nobody} /\ pass' \in [Passes -> PassRec(h)]
              /\ evictor' \in EvictRec(h) /\ dropped' \in BOOLEAN /\ loaded' \in 0 .. h
              /\ probe' \in ProbeRec(h) /\ reader' \in Leases /\ stray' \in Strays
  BY DEF TypeOK, MainHead, Ops, Row, Pcs, PassRec, EvictRec, ProbeRec, Leases, Strays

LEMMA Heads ==
  ASSUME TypeOK
  PROVE  /\ Len(main) \in Nat /\ MainHead = Len(main) /\ MaxCommits \in Nat /\ MainHead <= MaxCommits
         /\ MainHead \in Nat /\ main \in [1 .. MainHead -> [Entities -> Ops]]
         /\ 0 .. MainHead \subseteq Seqs
<1>1. main \in Seq([Entities -> Ops]) /\ Len(main) <= MaxCommits
  BY TypeParts
<1>2. Len(main) \in Nat /\ main \in [1 .. Len(main) -> [Entities -> Ops]]
  BY <1>1, LenProperties
<1> QED
  BY <1>1, <1>2, ProjectionAssumption DEF MainHead, Seqs

-----------------------------------------------------------------------------
(* What main holds at a seq                                                *)

\* A set of seqs that is not empty has a greatest one.
LEMMA MaxIn ==
  ASSUME NEW n \in Nat, NEW S \in SUBSET (0 .. n), S # {}
  PROVE  Max(S) \in S /\ \A x \in S : x <= Max(S)
<1> DEFINE T == {n - x : x \in S}
<1>0. PICK z : z \in S
  OBVIOUS
<1>1. T \subseteq Nat /\ T # {}
  <2>1. ASSUME NEW t \in T PROVE t \in Nat
    <3>1. PICK x \in S : t = n - x
      OBVIOUS
    <3>2. x \in 0 .. n
      OBVIOUS
    <3> QED
      BY <3>1, <3>2
  <2>2. n - z \in T
    BY <1>0
  <2> QED
    BY <2>1, <2>2
<1>2. IsWellFoundedOn(OpToRel(<, Nat), Nat)
  BY NatLessThanWellFounded
<1>3. PICK t \in T : \A y \in T : <<y, t>> \notin OpToRel(<, Nat)
  BY <1>1, <1>2, WFMin
<1>4. ASSUME NEW y \in T PROVE t <= y
  <2>1. t \in Nat /\ y \in Nat
    BY <1>1
  <2>2. y < t => <<y, t>> \in OpToRel(<, Nat)
    BY <2>1 DEF OpToRel
  <2>3. ~(y < t)
    BY <1>3, <2>2
  <2> HIDE DEF T
  <2> QED
    BY <2>1, <2>3
<1>5. PICK s \in S : t = n - s
  OBVIOUS
<1>6. \A x \in S : s >= x
  <2>1. TAKE x \in S
  <2>2. n - x \in T
    OBVIOUS
  <2>3. t <= n - x
    <3> HIDE DEF T
    <3> QED
      BY <1>4, <2>2
  <2>4. s \in 0 .. n /\ x \in 0 .. n
    OBVIOUS
  <2> HIDE DEF T
  <2> QED
    BY <1>5, <2>3, <2>4
<1>7. \E x \in S : \A y \in S : x >= y
  BY <1>6
<1>8. Max(S) \in S /\ \A y \in S : Max(S) >= y
  BY <1>7 DEF Max
<1> QED
  BY <1>8

LEMMA MinPair ==
  ASSUME NEW a \in Nat, NEW b \in Nat
  PROVE  /\ Min({a, b}) \in Nat /\ Min({a, b}) \in {a, b}
         /\ Min({a, b}) <= a /\ Min({a, b}) <= b
<1>1. \E x \in {a, b} : \A y \in {a, b} : x =< y
  BY SMT
<1>2. Min({a, b}) \in {a, b} /\ \A y \in {a, b} : Min({a, b}) =< y
  BY <1>1 DEF Min
<1> QED
  BY <1>2

Touched(n, e) == {m \in 1 .. n : main[m][e] # "keep"}

LEMMA AtIs ==
  ASSUME NEW n, NEW e \in Entities
  PROVE  At(n)[e] = IF Touched(n, e) = {} \/ main[Max(Touched(n, e))][e] = "gone" THEN 0
                    ELSE Max(Touched(n, e))
  BY DEF At, Touched

LEMMA AtType ==
  ASSUME NEW n \in Nat
  PROVE  At(n) \in [Entities -> 0 .. n]
<1>1. ASSUME NEW e \in Entities PROVE At(n)[e] \in 0 .. n
  <2>1. Touched(n, e) \in SUBSET (0 .. n)
    BY DEF Touched
  <2>2. CASE Touched(n, e) = {}
    BY <2>2, AtIs
  <2>3. CASE Touched(n, e) # {}
    <3>1. Max(Touched(n, e)) \in 0 .. n
      BY <2>1, <2>3, MaxIn
    <3> QED
      BY <2>3, <3>1, AtIs
  <2> QED
    BY <2>2, <2>3
<1>2. At(n) = [e \in Entities |-> At(n)[e]]
  BY DEF At
<1> QED
  BY <1>1, <1>2

\* An entity that no commit of a window changes has the same value at its two ends.
LEMMA AtStable ==
  ASSUME NEW a \in Nat, NEW b \in Nat, a <= b, NEW e \in Entities,
         \A m \in a + 1 .. b : main[m][e] = "keep"
  PROVE  At(b)[e] = At(a)[e]
<1>1. Touched(b, e) = Touched(a, e)
  BY DEF Touched
<1> QED
  BY <1>1, AtIs

\* A commit that is added to main leaves what it held before.
LEMMA AtKept ==
  ASSUME NEW n \in Nat, NEW e \in Entities, \A m \in 1 .. n : main'[m] = main[m]
  PROVE  At(n)'[e] = At(n)[e]
<1>1. Touched(n, e)' = Touched(n, e)
  BY DEF Touched
<1>2. At(n)'[e] = IF Touched(n, e)' = {} \/ main'[Max(Touched(n, e)')][e] = "gone" THEN 0
                  ELSE Max(Touched(n, e)')
  BY DEF At, Touched
<1>3. CASE Touched(n, e) = {}
  BY <1>1, <1>2, <1>3, AtIs
<1>4. CASE Touched(n, e) # {}
  <2>1. Touched(n, e) \in SUBSET (0 .. n)
    BY DEF Touched
  <2>2. Max(Touched(n, e)) \in Touched(n, e)
    BY <1>4, <2>1, MaxIn
  <2>3. main'[Max(Touched(n, e))] = main[Max(Touched(n, e))]
    BY <2>2 DEF Touched
  <2> QED
    BY <1>1, <1>2, <1>4, <2>3, AtIs
<1> QED
  BY <1>3, <1>4

-----------------------------------------------------------------------------
(* What the actions write                                                  *)

\* Pass p comes to pc, and no other pass moves.
Steps(p, pc) == /\ pass' \in [Passes -> PassRec(Len(main))]
                /\ \A q \in Passes : q # p => pass'[q] = pass[q]
                /\ pass'[p].pc = pc
\* It still is the pass that it was.
Carries(p) == /\ pass'[p].from = pass[p].from /\ pass'[p].to = pass[p].to
              /\ pass'[p].seen = pass[p].seen /\ pass'[p].mine = pass[p].mine

LEMMA PassFields ==
  ASSUME TypeOK, NEW p \in Passes
  PROVE  /\ pass[p] \in PassRec(Len(main)) /\ pass[p].pc \in Pcs /\ pass[p].from \in 0 .. MainHead
         /\ pass[p].to \in 0 .. MainHead /\ pass[p].seen \in Nat /\ pass[p].mine \in Nat
         /\ pass[p].first \in BOOLEAN /\ pass[p].todo \in SUBSET Entities
<1>1. PICK h : h = Len(main)
  OBVIOUS
<1>2. pass \in [Passes -> PassRec(h)]
  BY <1>1, TypeParts
<1>3. PICK r \in PassRec(h) : r = pass[p]
  BY <1>2
<1> QED
  BY <1>1, <1>3 DEF PassRec, MainHead

LEMMA RowFields ==
  ASSUME TypeOK
  PROVE  /\ ps.status \in Statuses /\ ps.projected \in 0 .. MainHead /\ ps.epoch \in Nat
         /\ evictor.pc \in {"idle", "mark", "check", "drop"} /\ evictor.projected \in 0 .. MainHead
         /\ evictor.epoch \in Nat /\ probe.projected \in 0 .. MainHead /\ probe.epoch \in Nat
         /\ key.exists \in BOOLEAN /\ key.holds \in [Entities -> Seqs] /\ key.marker \in Seqs
         /\ saved.exists \in BOOLEAN /\ saved.holds \in [Entities -> Seqs] /\ saved.marker \in Seqs
<1>1. PICK h : h = Len(main)
  OBVIOUS
<1>2. /\ ps \in Row(h) /\ evictor \in EvictRec(h) /\ probe \in ProbeRec(h)
      /\ key \in Key /\ saved \in Key
  BY <1>1, TypeParts
<1> QED
  BY <1>1, <1>2 DEF Row, EvictRec, ProbeRec, Key, MainHead

LEMMA GotoSteps ==
  ASSUME TypeOK, NEW p \in Passes, NEW pc \in Pcs, Goto(p, pc)
  PROVE  Steps(p, pc) /\ Carries(p) /\ pass'[p].todo = pass[p].todo
<1>1. PICK h : h = Len(main)
  OBVIOUS
<1>2. pass \in [Passes -> PassRec(h)]
  BY <1>1, TypeParts
<1>3. PICK r \in PassRec(h) : r = pass[p]
  BY <1>2
<1>4. PICK q : q = [r EXCEPT !.pc = pc]
  OBVIOUS
<1>5. /\ q \in PassRec(h) /\ q.pc = pc /\ q.from = r.from /\ q.to = r.to /\ q.seen = r.seen
      /\ q.mine = r.mine /\ q.todo = r.todo
  BY <1>3, <1>4 DEF PassRec
<1>6. pass' = [pass EXCEPT ![p] = q]
  BY <1>2, <1>3, <1>4 DEF Goto
<1> QED
  BY <1>1, <1>2, <1>3, <1>5, <1>6 DEF Steps, Carries

LEMMA NoPassType ==
  ASSUME NEW h \in Nat
  PROVE  NoPass \in PassRec(h)
  BY DEF NoPass, PassRec, Pcs

LEMMA EndSteps ==
  ASSUME TypeOK, NEW p \in Passes, End(p)
  PROVE  /\ Steps(p, "idle") /\ pass'[p] = NoPass
         /\ lock' = (IF lock = p THEN Nobody ELSE lock) /\ lock' \in Passes \cup {Evictor, Nobody}
<1>1. PICK h \in Nat : h = Len(main)
  BY Heads
<1>2. pass \in [Passes -> PassRec(h)] /\ lock \in Passes \cup {Evictor, Nobody}
  BY <1>1, TypeParts
<1>3. NoPass \in PassRec(h) /\ NoPass.pc = "idle"
  BY NoPassType DEF NoPass
<1>4. pass' = [pass EXCEPT ![p] = NoPass]
  BY DEF End
<1>5. /\ pass' \in [Passes -> PassRec(h)] /\ pass'[p] = NoPass
      /\ \A q \in Passes : q # p => pass'[q] = pass[q]
  BY <1>2, <1>3, <1>4
<1>6. lock' = IF lock = p THEN Nobody ELSE lock
  BY DEF End
<1>7. Steps(p, "idle")
  BY <1>1, <1>3, <1>5 DEF Steps
<1> QED
  BY <1>2, <1>5, <1>6, <1>7

LEMMA PublishEffect ==
  ASSUME TypeOK, NEW e \in Entities, Publish(e)
  PROVE  /\ main' \in Seq([Entities -> Ops]) /\ Len(main') = Len(main) + 1
         /\ Len(main') <= MaxCommits /\ \A m \in 1 .. Len(main) : main'[m] = main[m]
         /\ UNCHANGED <<ps, key, saved, lock, pass, evictor, dropped, loaded, probe, reader, stray>>
<1>1. PICK op \in Ops : main' = Append(main, [Kept EXCEPT ![e] = op])
  BY DEF Publish, Ops
<1>2. main \in Seq([Entities -> Ops])
  BY TypeParts
<1>3. [Kept EXCEPT ![e] = op] \in [Entities -> Ops]
  BY DEF Kept, Ops
<1>4. Len(main) < MaxCommits /\ Len(main) \in Nat /\ MaxCommits \in Nat
  BY Heads DEF Publish, MainHead
<1>5. /\ main' \in Seq([Entities -> Ops]) /\ Len(main') = Len(main) + 1
      /\ \A m \in 1 .. Len(main) : main'[m] = main[m]
  BY <1>1, <1>2, <1>3, AppendProperties
<1> QED
  BY <1>4, <1>5 DEF Publish

LEMMA BeginEffect ==
  ASSUME TypeOK, NEW p \in Passes, Begin(p)
  PROVE  /\ Steps(p, "read") /\ pass[p].pc = "idle" /\ lock = Nobody /\ lock' = p
         /\ pass'[p].from = ps.projected /\ pass'[p].to = MainHead /\ pass'[p].seen = ps.epoch
         /\ pass'[p].mine = 0 /\ pass'[p].todo = {}
         /\ ps.status \notin Out /\ (Calm => ~Amiss) /\ ps.projected < MainHead
         /\ UNCHANGED <<main, ps, key, saved, evictor, dropped, loaded, probe, reader, stray>>
<1>1. PICK h \in Nat : h = Len(main) /\ h = MainHead
  BY Heads
<1>2. pass \in [Passes -> PassRec(h)]
  BY <1>1, TypeParts
<1>3. PICK b \in BOOLEAN : b = (ps.projected = 0 /\ ps.status = "idle")
  OBVIOUS
<1>4. PICK n : n = ps.projected
  OBVIOUS
<1>5. PICK m : m = ps.epoch
  OBVIOUS
<1>6. PICK q : q = [NoPass EXCEPT !.pc = "read", !.from = n, !.to = h, !.seen = m, !.first = b]
  OBVIOUS
<1>7. n \in 0 .. h /\ m \in Nat
  BY <1>1, <1>4, <1>5, RowFields
<1>8. /\ q \in PassRec(h) /\ q.pc = "read" /\ q.from = n /\ q.to = h /\ q.seen = m
      /\ q.mine = 0 /\ q.todo = {}
  <2>1. q = [pc |-> "read", from |-> n, to |-> h, seen |-> m, mine |-> 0, first |-> b, todo |-> {}]
    BY <1>6 DEF NoPass
  <2> QED
    BY <1>7, <2>1 DEF PassRec, Pcs
<1>9. pass' = [pass EXCEPT ![p] = q]
  BY <1>1, <1>3, <1>4, <1>5, <1>6 DEF Begin
<1>10. /\ pass' \in [Passes -> PassRec(h)] /\ pass'[p] = q
       /\ \A r \in Passes : r # p => pass'[r] = pass[r]
  BY <1>2, <1>8, <1>9
<1>11. Steps(p, "read")
  BY <1>1, <1>8, <1>10 DEF Steps
<1> QED
  BY <1>1, <1>4, <1>5, <1>8, <1>10, <1>11 DEF Begin, Lags

LEMMA QueueEffect ==
  ASSUME TypeOK, NEW p \in Passes, QueueFirstSeed(p)
  PROVE  /\ pass[p].pc = "read"
         /\ \/ /\ Steps(p, "idle") /\ pass'[p] = NoPass
               /\ lock' = (IF lock = p THEN Nobody ELSE lock)
               /\ ps.epoch = pass[p].seen /\ ps.projected = 0 /\ ps.status = "idle"
               /\ ps'.status = "waiting_capacity" /\ ps'.projected = 0 /\ ps'.epoch = ps.epoch + 1
            \/ /\ Steps(p, "read") /\ Carries(p) /\ pass'[p].todo = pass[p].todo
               /\ UNCHANGED <<ps, lock>>
         /\ ps' \in Row(Len(main)) /\ lock' \in Passes \cup {Evictor, Nobody}
         /\ UNCHANGED <<main, key, saved, evictor, dropped, loaded, probe, reader, stray>>
<1>1. PICK h \in Nat : h = Len(main)
  BY Heads
<1>2. ps \in Row(h) /\ lock \in Passes \cup {Evictor, Nobody} /\ pass \in [Passes -> PassRec(h)]
  BY <1>1, TypeParts
<1>3. CASE ps.epoch = pass[p].seen /\ ps.projected = 0 /\ ps.status = "idle"
  <2>1. ps' = [ps EXCEPT !.status = "waiting_capacity", !.epoch = @ + 1] /\ End(p)
    BY <1>3 DEF QueueFirstSeed
  <2>2. PICK m \in Nat : m = ps.epoch + 1
    BY RowFields
  <2>3. ps' = [ps EXCEPT !.status = "waiting_capacity", !.epoch = m]
    BY <1>2, <2>1, <2>2 DEF Row
  <2>4. /\ ps' \in Row(h) /\ ps'.status = "waiting_capacity" /\ ps'.projected = ps.projected
        /\ ps'.epoch = m
    BY <1>2, <2>2, <2>3 DEF Row, Statuses, Out
  <2> QED
    BY <1>1, <1>3, <2>1, <2>2, <2>4, EndSteps DEF QueueFirstSeed
<1>4. CASE ~(ps.epoch = pass[p].seen /\ ps.projected = 0 /\ ps.status = "idle")
  <2>1. pass' = [pass EXCEPT ![p].first = FALSE] /\ UNCHANGED <<ps, lock>>
    BY <1>4 DEF QueueFirstSeed
  <2>2. PICK r \in PassRec(h) : r = pass[p]
    BY <1>2
  <2>3. PICK q : q = [r EXCEPT !.first = FALSE]
    OBVIOUS
  <2>4. /\ q \in PassRec(h) /\ q.pc = r.pc /\ q.from = r.from /\ q.to = r.to /\ q.seen = r.seen
        /\ q.mine = r.mine /\ q.todo = r.todo
    BY <2>2, <2>3 DEF PassRec
  <2>5. pass' = [pass EXCEPT ![p] = q]
    BY <1>2, <2>1, <2>2, <2>3
  <2>6. pass[p].pc = "read"
    BY DEF QueueFirstSeed
  <2>7. Steps(p, "read") /\ Carries(p) /\ pass'[p].todo = pass[p].todo
    BY <1>1, <1>2, <2>2, <2>4, <2>5, <2>6 DEF Steps, Carries
  <2> QED
    BY <1>1, <1>2, <2>1, <2>7 DEF QueueFirstSeed
<1> QED
  BY <1>3, <1>4

LEMMA ClaimEffect ==
  ASSUME TypeOK, NEW p \in Passes, Claim(p)
  PROVE  /\ pass[p].pc = "read"
         /\ \/ /\ Steps(p, "plan") /\ pass'[p].from = pass[p].from /\ pass'[p].to = pass[p].to
               /\ pass'[p].seen = pass[p].seen /\ pass'[p].mine = ps.epoch + 1
               /\ pass'[p].todo = pass[p].todo /\ lock' = lock
               /\ ps.epoch = pass[p].seen /\ ps.projected = pass[p].from
               /\ ps'.status \in {"rebuilding", "projecting", "rehydrating"}
               /\ ps'.projected = ps.projected /\ ps'.epoch = ps.epoch + 1
            \/ /\ Steps(p, "idle") /\ pass'[p] = NoPass
               /\ lock' = (IF lock = p THEN Nobody ELSE lock) /\ ps' = ps
         /\ ps' \in Row(Len(main)) /\ lock' \in Passes \cup {Evictor, Nobody}
         /\ UNCHANGED <<main, key, saved, evictor, dropped, loaded, probe, reader, stray>>
<1>1. PICK h \in Nat : h = Len(main)
  BY Heads
<1>2. ps \in Row(h) /\ lock \in Passes \cup {Evictor, Nobody} /\ pass \in [Passes -> PassRec(h)]
  BY <1>1, TypeParts
<1>3. CASE Unmoved(p)
  <2>1. PICK s \in {"rebuilding", "projecting", "rehydrating"} :
          s = UnlessLoading(IF pass[p].from = 0 THEN "rebuilding" ELSE "projecting")
    BY DEF UnlessLoading
  <2>2. PICK m \in Nat : m = ps.epoch + 1
    BY RowFields
  <2>3. ps' = [ps EXCEPT !.epoch = m, !.status = s] /\ lock' = lock
    BY <1>2, <1>3, <2>1, <2>2 DEF Claim, Row
  <2>4. /\ ps' \in Row(h) /\ ps'.status = s /\ ps'.projected = ps.projected /\ ps'.epoch = m
    BY <1>2, <2>1, <2>2, <2>3 DEF Row, Statuses, Out
  <2>5. PICK r \in PassRec(h) : r = pass[p]
    BY <1>2
  <2>6. PICK q : q = [r EXCEPT !.pc = "plan", !.mine = m]
    OBVIOUS
  <2>7. /\ q \in PassRec(h) /\ q.pc = "plan" /\ q.from = r.from /\ q.to = r.to /\ q.seen = r.seen
        /\ q.mine = m /\ q.todo = r.todo
    BY <2>2, <2>5, <2>6 DEF PassRec, Pcs
  <2>8. pass' = [pass EXCEPT ![p] = q]
    <3>1. pass' = [pass EXCEPT ![p].pc = "plan", ![p].mine = ps.epoch + 1]
      BY <1>3 DEF Claim
    <3> QED
      BY <1>2, <2>2, <2>5, <2>6, <3>1
  <2>9. Steps(p, "plan")
    BY <1>1, <1>2, <2>7, <2>8 DEF Steps
  <2> QED
    BY <1>1, <1>2, <1>3, <2>1, <2>2, <2>3, <2>4, <2>5, <2>7, <2>8, <2>9 DEF Claim, Unmoved
<1>4. CASE ~Unmoved(p)
  <2>1. End(p) /\ ps' = ps
    BY <1>4 DEF Claim
  <2> QED
    BY <1>1, <1>2, <2>1, EndSteps DEF Claim
<1> QED
  BY <1>3, <1>4

LEMMA PlanEffect ==
  ASSUME TypeOK, NEW p \in Passes, PlanPass(p)
  PROVE  /\ pass[p].pc = "plan" /\ Steps(p, "write") /\ Carries(p)
         /\ pass'[p].todo = (IF pass[p].from = 0 THEN Diff(pass[p].to)
                             ELSE Window(pass[p].from, pass[p].to))
         /\ key' \in Key /\ key'.holds = key.holds /\ key'.marker = key.marker
         /\ UNCHANGED <<main, ps, saved, lock, evictor, dropped, loaded, probe, reader, stray>>
<1>1. PICK h \in Nat : h = Len(main)
  BY Heads
<1>2. key \in Key /\ pass \in [Passes -> PassRec(h)]
  BY <1>1, TypeParts
<1>3. PICK t \in SUBSET Entities : t = IF pass[p].from = 0 THEN Diff(pass[p].to)
                                       ELSE Window(pass[p].from, pass[p].to)
  BY DEF Diff, Window
<1>4. PICK r \in PassRec(h) : r = pass[p]
  BY <1>2
<1>5. PICK q : q = [r EXCEPT !.pc = "write", !.todo = t]
  OBVIOUS
<1>6. /\ q \in PassRec(h) /\ q.pc = "write" /\ q.from = r.from /\ q.to = r.to /\ q.seen = r.seen
      /\ q.mine = r.mine /\ q.todo = t
  BY <1>3, <1>4, <1>5 DEF PassRec, Pcs
<1>7. pass' = [pass EXCEPT ![p] = q]
  <2>1. pass' = [pass EXCEPT ![p].pc = "write", ![p].todo = t]
    BY <1>3 DEF PlanPass
  <2> QED
    BY <1>2, <1>4, <1>5, <2>1
<1>8. Steps(p, "write") /\ Carries(p) /\ pass'[p].todo = t
  BY <1>1, <1>2, <1>4, <1>6, <1>7 DEF Steps, Carries
<1>9. key' = key \/ key' = [key EXCEPT !.exists = TRUE]
  BY DEF PlanPass
<1>10. key' \in Key /\ key'.holds = key.holds /\ key'.marker = key.marker
  BY <1>2, <1>9 DEF Key
<1> QED
  BY <1>3, <1>8, <1>10 DEF PlanPass

\* What a pass writes is a value of main.
LEMMA AtSeqs ==
  ASSUME TypeOK, NEW n \in 0 .. MainHead
  PROVE  At(n) \in [Entities -> Seqs]
<1>1. n \in Nat /\ At(n) \in [Entities -> 0 .. n]
  BY AtType, Heads
<1>2. 0 .. n \subseteq Seqs
  BY <1>1, Heads
<1> QED
  BY <1>1, <1>2

LEMMA SoiledType ==
  ASSUME TypeOK, NEW p \in Passes
  PROVE  Soiled(p) \in Strays /\ (Soiled(p) = "no" => stray = "no" /\ ~Superseded(p))
                              /\ (Soiled(p) = "lost" <=> stray = "lost")
<1>1. stray \in Strays
  BY TypeParts
<1> QED
  BY <1>1 DEF Soiled, Strays

LEMMA WriteEffect ==
  ASSUME TypeOK, NEW p \in Passes, NEW e \in Entities, Write(p, e)
  PROVE  /\ pass[p].pc \in {"write", "heal"} /\ Steps(p, pass[p].pc) /\ Carries(p)
         /\ e \in pass[p].todo /\ pass'[p].todo = pass[p].todo \ {e}
         /\ key' \in Key /\ key'.marker = key.marker
         /\ key'.holds = [key.holds EXCEPT ![e] = At(pass[p].to)[e]]
         /\ stray' \in Strays /\ stray' = Soiled(p)
         /\ UNCHANGED <<main, ps, saved, lock, evictor, dropped, loaded, probe, reader>>
<1>1. PICK h \in Nat : h = Len(main)
  BY Heads
<1>2. key \in Key /\ pass \in [Passes -> PassRec(h)]
  BY <1>1, TypeParts
<1>3. PICK v \in Seqs : v = At(pass[p].to)[e]
  BY AtSeqs, PassFields
<1>4. PICK r \in PassRec(h) : r = pass[p]
  BY <1>2
<1>5. PICK t \in SUBSET Entities : t = r.todo \ {e}
  BY <1>4 DEF PassRec
<1>6. PICK q : q = [r EXCEPT !.todo = t]
  OBVIOUS
<1>7. /\ q \in PassRec(h) /\ q.pc = r.pc /\ q.from = r.from /\ q.to = r.to /\ q.seen = r.seen
      /\ q.mine = r.mine /\ q.todo = t
  BY <1>4, <1>5, <1>6 DEF PassRec
<1>8. pass' = [pass EXCEPT ![p] = q]
  <2>1. pass' = [pass EXCEPT ![p].todo = @ \ {e}]
    BY DEF Write
  <2> QED
    BY <1>2, <1>4, <1>5, <1>6, <2>1
<1>9. Steps(p, pass[p].pc) /\ Carries(p) /\ pass'[p].todo = pass[p].todo \ {e}
  BY <1>1, <1>2, <1>4, <1>5, <1>7, <1>8 DEF Steps, Carries
<1>10. PICK g \in [Entities -> Seqs] : g = [key.holds EXCEPT ![e] = v]
  BY <1>3, RowFields
<1>11. key' = [key EXCEPT !.exists = TRUE, !.holds = g]
  BY <1>2, <1>3, <1>10 DEF Write, Put, Key
<1>12. key' \in Key /\ key'.marker = key.marker /\ key'.holds = g
  BY <1>2, <1>11 DEF Key
<1> QED
  BY <1>3, <1>9, <1>10, <1>12, SoiledType DEF Write

LEMMA SweptIs ==
  ASSUME TypeOK, NEW h \in [Entities -> Seqs]
  PROVE  /\ Swept(h) \in [Entities -> Seqs]
         /\ \A e \in Entities : Swept(h)[e] \in {h[e], Live[e]}
<1>1. Live \in [Entities -> Seqs]
  BY AtSeqs, Heads DEF Live
<1>2. CASE Alive(h) <= Alive(Live)
  BY <1>2 DEF Swept
<1>3. CASE ~(Alive(h) <= Alive(Live))
  <2>1. Swept(h) = [e \in Entities |-> IF Live[e] = 0 THEN 0 ELSE h[e]]
    BY <1>3 DEF Swept
  <2> QED
    BY <1>1, <2>1
<1> QED
  BY <1>2, <1>3

\* Where a pass that verifies its work comes to: to its mark or its failure, with nothing to do, or
\* to heal what is not as main's head has it.
VerifySteps(p, pc) ==
  /\ Steps(p, pc) /\ Carries(p)
  /\ \/ pc \in {"mark", "failed"} /\ pass'[p].todo = {}
     \/ /\ pc = "heal" /\ pass[p].to = MainHead
        /\ pass'[p].todo = {e \in Entities : key'.holds[e] # At(MainHead)[e]}

LEMMA VerifyEffect ==
  ASSUME TypeOK, NEW p \in Passes, Verify(p)
  PROVE  /\ pass[p].pc \in {"write", "heal"} /\ pass[p].todo = {}
         /\ \E pc \in {"mark", "failed", "heal"} : VerifySteps(p, pc)
         /\ key' \in Key /\ key'.marker = key.marker
         /\ \/ key'.holds = key.holds
            \/ /\ pass[p].to = MainHead
               /\ \A e \in Entities : key'.holds[e] \in {key.holds[e], At(MainHead)[e]}
         /\ stray' \in Strays
         /\ \/ key'.holds = key.holds /\ stray' = stray
            \/ stray' = Soiled(p)
         /\ UNCHANGED <<main, ps, saved, lock, evictor, dropped, loaded, probe, reader>>
<1>1. PICK m \in Nat : m = Len(main)
  BY Heads
<1>2. key \in Key /\ pass \in [Passes -> PassRec(m)] /\ stray \in Strays
  BY <1>1, TypeParts
<1>3. PICK h : h = IF pass[p].pc = "heal" THEN key.holds ELSE Swept(key.holds)
  OBVIOUS
<1>4. h \in [Entities -> Seqs] /\ \A e \in Entities : h[e] \in {key.holds[e], Live[e]}
  BY <1>3, RowFields, SweptIs
<1>5. pass[p].pc \in {"write", "heal"} /\ pass[p].todo = {}
  BY DEF Verify
<1>6. CASE Goto(p, "mark") /\ UNCHANGED <<key, stray>>
  <2>1. VerifySteps(p, "mark")
    BY <1>5, <1>6, GotoSteps DEF Pcs, VerifySteps
  <2> QED
    BY <1>2, <1>5, <1>6, <2>1 DEF Verify
<1>7. CASE /\ pass[p].to = MainHead /\ key' = [key EXCEPT !.holds = h, !.exists = TRUE]
           /\ stray' = Soiled(p)
           /\ \/ Goto(p, "failed") \/ Goto(p, "mark")
              \/ pass' = [pass EXCEPT ![p].pc = "heal",
                                      ![p].todo = {e \in Entities : h[e] # Live[e]}]
  <2>1. key' \in Key /\ key'.marker = key.marker /\ key'.holds = h
    BY <1>2, <1>4, <1>7 DEF Key
  <2>2. \E pc \in {"mark", "failed", "heal"} : VerifySteps(p, pc)
    <3>1. CASE Goto(p, "failed") \/ Goto(p, "mark")
      <4>1. Goto(p, "failed") => VerifySteps(p, "failed")
        BY <1>5, GotoSteps DEF Pcs, VerifySteps
      <4>2. Goto(p, "mark") => VerifySteps(p, "mark")
        BY <1>5, GotoSteps DEF Pcs, VerifySteps
      <4> QED
        BY <3>1, <4>1, <4>2
    <3>2. CASE pass' = [pass EXCEPT ![p].pc = "heal",
                                    ![p].todo = {e \in Entities : h[e] # Live[e]}]
      <4>1. PICK t \in SUBSET Entities : t = {e \in Entities : h[e] # Live[e]}
        OBVIOUS
      <4>2. PICK r \in PassRec(m) : r = pass[p]
        BY <1>2
      <4>3. PICK q : q = [r EXCEPT !.pc = "heal", !.todo = t]
        OBVIOUS
      <4>4. /\ q \in PassRec(m) /\ q.pc = "heal" /\ q.from = r.from /\ q.to = r.to
            /\ q.seen = r.seen /\ q.mine = r.mine /\ q.todo = t
        BY <4>1, <4>2, <4>3 DEF PassRec, Pcs
      <4>5. pass' = [pass EXCEPT ![p] = q]
        BY <1>2, <3>2, <4>1, <4>2, <4>3
      <4>6. Steps(p, "heal") /\ Carries(p) /\ pass'[p].todo = t
        BY <1>1, <1>2, <4>2, <4>4, <4>5 DEF Steps, Carries
      <4>7. VerifySteps(p, "heal")
        BY <1>7, <2>1, <4>1, <4>6 DEF VerifySteps, Live
      <4> QED
        BY <4>7
    <3> QED
      BY <1>7, <3>1, <3>2
  <2> QED
    BY <1>4, <1>5, <1>7, <2>1, <2>2, SoiledType DEF Verify, Live
<1>8. \/ Goto(p, "mark") /\ UNCHANGED <<key, stray>>
      \/ /\ pass[p].to = MainHead /\ key' = [key EXCEPT !.holds = h, !.exists = TRUE]
         /\ stray' = Soiled(p)
         /\ \/ Goto(p, "failed") \/ Goto(p, "mark")
            \/ pass' = [pass EXCEPT ![p].pc = "heal",
                                    ![p].todo = {e \in Entities : h[e] # Live[e]}]
  BY <1>3 DEF Verify
<1> QED
  BY <1>6, <1>7, <1>8

LEMMA MarkEffect ==
  ASSUME TypeOK, NEW p \in Passes, Mark(p)
  PROVE  /\ pass[p].pc = "mark" /\ Steps(p, "done") /\ Carries(p) /\ pass'[p].todo = pass[p].todo
         /\ key' \in Key /\ key'.holds = key.holds /\ key'.marker = pass[p].to
         /\ stray' \in Strays /\ (stray' = "lost" <=> stray = "lost")
         /\ stray' = "no" => \A q \in Passes : ~Superseded(q)
         /\ UNCHANGED <<main, ps, saved, lock, evictor, dropped, loaded, probe, reader>>
<1>1. key \in Key /\ stray \in Strays
  BY TypeParts
<1>2. PICK n \in Seqs : n = pass[p].to
  BY PassFields, Heads
<1>3. key' = [key EXCEPT !.exists = TRUE, !.marker = n]
  BY <1>2 DEF Mark
<1>4. key' \in Key /\ key'.holds = key.holds /\ key'.marker = n
  BY <1>1, <1>2, <1>3 DEF Key
<1>5. Steps(p, "done") /\ Carries(p) /\ pass'[p].todo = pass[p].todo
  BY GotoSteps DEF Mark, Pcs
<1>6. stray' = IF stray = "lost" THEN stray
               ELSE IF \E q \in Passes : Superseded(q) THEN "key" ELSE "no"
  BY DEF Mark
<1>7. /\ stray' \in Strays /\ (stray' = "lost" <=> stray = "lost")
      /\ stray' = "no" => \A q \in Passes : ~Superseded(q)
  BY <1>1, <1>6 DEF Strays
<1> QED
  BY <1>2, <1>4, <1>5, <1>7 DEF Mark

LEMMA FinishEffect ==
  ASSUME TypeOK, NEW p \in Passes, Finish(p)
  PROVE  /\ pass[p].pc \in {"done", "failed"}
         /\ \/ /\ ps.epoch = pass[p].mine /\ Steps(p, "idle") /\ pass'[p] = NoPass
               /\ lock' = (IF lock = p THEN Nobody ELSE lock)
               /\ ps'.status \in {"idle", "rehydrating"} /\ ps'.epoch = ps.epoch
               /\ ps'.projected = (IF pass[p].pc = "done" THEN pass[p].to ELSE ps.projected)
            \/ /\ ps.epoch # pass[p].mine /\ Steps(p, "yield") /\ Carries(p)
               /\ pass'[p].todo = pass[p].todo /\ UNCHANGED <<ps, lock>>
         /\ ps' \in Row(Len(main)) /\ lock' \in Passes \cup {Evictor, Nobody}
         /\ UNCHANGED <<main, key, saved, evictor, dropped, loaded, probe, reader, stray>>
<1>1. PICK h \in Nat : h = Len(main) /\ h = MainHead
  BY Heads
<1>2. ps \in Row(h) /\ lock \in Passes \cup {Evictor, Nobody}
  BY <1>1, TypeParts
<1>3. CASE ps.epoch = pass[p].mine
  <2>1. PICK s \in {"idle", "rehydrating"} : s = UnlessLoading("idle")
    BY DEF UnlessLoading
  <2>2. PICK n \in 0 .. h : n = IF pass[p].pc = "done" THEN pass[p].to ELSE ps.projected
    BY <1>1, PassFields, RowFields
  <2>3. ps' = [ps EXCEPT !.status = s, !.projected = n] /\ End(p)
    BY <1>2, <1>3, <2>1, <2>2 DEF Finish, Published, Row
  <2>4. ps' \in Row(h) /\ ps'.status = s /\ ps'.projected = n /\ ps'.epoch = ps.epoch
    BY <1>2, <2>1, <2>2, <2>3 DEF Row, Statuses
  <2> QED
    BY <1>1, <1>3, <2>1, <2>2, <2>3, <2>4, EndSteps DEF Finish
<1>4. CASE ps.epoch # pass[p].mine
  <2>1. Goto(p, "yield") /\ UNCHANGED <<ps, lock>>
    BY <1>4 DEF Finish
  <2> QED
    BY <1>1, <1>2, <1>4, <2>1, GotoSteps DEF Finish, Pcs
<1> QED
  BY <1>3, <1>4

LEMMA YieldEffect ==
  ASSUME TypeOK, NEW p \in Passes, YieldSuperseded(p)
  PROVE  /\ pass[p].pc = "yield" /\ Steps(p, "idle") /\ pass'[p] = NoPass
         /\ lock' = (IF lock = p THEN Nobody ELSE lock) /\ lock' \in Passes \cup {Evictor, Nobody}
         /\ ps' \in Row(Len(main)) /\ ps'.status = ps.status /\ ps'.epoch = ps.epoch + 1
         /\ ps'.projected \in {ps.projected, pass[p].from}
         /\ ps'.projected <= ps.projected /\ ps'.projected <= pass[p].from
         /\ UNCHANGED <<main, key, saved, evictor, dropped, loaded, probe, reader, stray>>
<1>1. PICK h \in Nat : h = Len(main) /\ h = MainHead
  BY Heads
<1>2. ps \in Row(h)
  BY <1>1, TypeParts
<1>3. ps.projected \in 0 .. h /\ pass[p].from \in 0 .. h
  BY <1>1, PassFields, RowFields
<1>4. PICK n \in 0 .. h : /\ n = Lowered(p) /\ n \in {ps.projected, pass[p].from}
                          /\ n <= ps.projected /\ n <= pass[p].from
  BY <1>3, MinPair DEF Lowered
<1>5. PICK m \in Nat : m = ps.epoch + 1
  BY RowFields
<1>6. ps' = [ps EXCEPT !.projected = n, !.epoch = m]
  BY <1>2, <1>4, <1>5 DEF YieldSuperseded, Row
<1>7. ps' \in Row(h) /\ ps'.status = ps.status /\ ps'.projected = n /\ ps'.epoch = m
  BY <1>2, <1>4, <1>5, <1>6 DEF Row
<1>8. End(p)
  BY DEF YieldSuperseded
<1> QED
  BY <1>1, <1>4, <1>5, <1>7, <1>8, EndSteps DEF YieldSuperseded

LEMMA FailEffect ==
  ASSUME TypeOK, NEW p \in Passes, Fail(p)
  PROVE  /\ pass[p].pc \in {"plan", "write", "heal", "mark"} /\ Steps(p, "failed") /\ Carries(p)
         /\ UNCHANGED <<main, ps, key, saved, lock, evictor, dropped, loaded, probe, reader, stray>>
  BY GotoSteps DEF Fail, Pcs

LEMMA CrashEffect ==
  ASSUME TypeOK, NEW p \in Passes, Crash(p)
  PROVE  /\ pass[p].pc # "idle" /\ Steps(p, "idle") /\ pass'[p] = NoPass
         /\ lock' = (IF lock = p THEN Nobody ELSE lock) /\ lock' \in Passes \cup {Evictor, Nobody}
         /\ stray' \in Strays /\ stray' = (IF Superseded(p) /\ lock # p THEN "lost" ELSE stray)
         /\ UNCHANGED <<main, ps, key, saved, evictor, dropped, loaded, probe, reader>>
<1>1. stray \in Strays
  BY TypeParts
<1>2. stray' = (IF Superseded(p) /\ lock # p THEN "lost" ELSE stray) /\ End(p)
  BY DEF Crash
<1>3. stray' \in Strays
  BY <1>1, <1>2 DEF Strays
<1> QED
  BY <1>2, <1>3, EndSteps DEF Crash

LEMMA ResetEffect ==
  ASSUME TypeOK, LivenessReset
  PROVE  /\ \/ ps' = ps
            \/ /\ ps.status = "idle" /\ ps'.epoch = ps.epoch + 1
               /\ \/ ps'.projected = 0 /\ ps'.status = "evicted"
                  \/ /\ ps'.projected = key.marker /\ key.marker < ps.projected /\ key.marker # 0
                     /\ ps'.status = "idle"
         /\ ps' \in Row(Len(main)) /\ probe' \in ProbeRec(Len(main))
         /\ UNCHANGED <<main, key, saved, lock, pass, evictor, dropped, loaded, reader, stray>>
<1>1. PICK h \in Nat : h = Len(main) /\ h = MainHead
  BY Heads
<1>2. ps \in Row(h)
  BY <1>1, TypeParts
<1>3. PICK b : b = probe.projected
  OBVIOUS
<1>4. b \in 0 .. h /\ key.exists \in BOOLEAN /\ key.marker \in Nat
  BY <1>1, <1>3, RowFields, ProjectionAssumption DEF Seqs
<1>5. PICK n : n = ResetTo
  OBVIOUS
<1>6. /\ n \in 0 .. h
      /\ n # b => n = 0 \/ (n = key.marker /\ key.marker < b /\ key.marker # 0)
  BY <1>3, <1>4, <1>5 DEF ResetTo
<1>7. probe' \in ProbeRec(h)
  BY DEF LivenessReset, NoProbe, ProbeRec
<1>8. CASE /\ n # b /\ ps.projected = b /\ ps.status = "idle"
           /\ ps' = [status |-> IF n = 0 THEN "evicted" ELSE "idle",
                     projected |-> n, epoch |-> ps.epoch + 1]
  <2>1. PICK m \in Nat : m = ps.epoch + 1
    BY RowFields
  <2>2. PICK s : s = IF n = 0 THEN "evicted" ELSE "idle"
    OBVIOUS
  <2>3. ps' = [status |-> s, projected |-> n, epoch |-> m]
    BY <1>8, <2>1, <2>2
  <2>4. ps' \in Row(h) /\ ps'.status = s /\ ps'.projected = n /\ ps'.epoch = m
    BY <1>6, <2>1, <2>2, <2>3 DEF Row, Statuses, Out
  <2> QED
    BY <1>1, <1>6, <1>7, <1>8, <2>1, <2>2, <2>4 DEF LivenessReset
<1>9. CASE ps' = ps
  BY <1>1, <1>2, <1>7, <1>9 DEF LivenessReset
<1> QED
  BY <1>3, <1>5, <1>8, <1>9 DEF LivenessReset

\* The row takes a new epoch with watermark 0.
Zeroed(s) == ps'.status = s /\ ps'.projected = 0 /\ ps'.epoch = ps.epoch + 1

LEMMA ZeroRow ==
  ASSUME TypeOK, NEW s \in Statuses,
         ps' = [status |-> s, projected |-> 0, epoch |-> ps.epoch + 1]
  PROVE  ps' \in Row(Len(main)) /\ Zeroed(s)
<1>1. PICK h \in Nat : h = Len(main)
  BY Heads
<1>2. PICK m \in Nat : m = ps.epoch + 1
  BY RowFields
<1> QED
  BY <1>1, <1>2 DEF Row, Zeroed

LEMMA RebuildEffect ==
  ASSUME TypeOK, Rebuild
  PROVE  /\ ps.status \notin Out /\ Zeroed("rebuilding") /\ ps' \in Row(Len(main))
         /\ UNCHANGED <<main, key, saved, lock, pass, evictor, dropped, loaded, probe, reader, stray>>
  BY ZeroRow DEF Rebuild, Statuses

LEMMA WatermarksEffect ==
  ASSUME TypeOK, ResetWatermarks
  PROVE  /\ ps.projected > 0 /\ (\E s \in {"evicted", "reseeding"} : Zeroed(s))
         /\ ps' \in Row(Len(main))
         /\ UNCHANGED <<main, key, saved, lock, pass, evictor, dropped, loaded, probe, reader, stray>>
<1>1. PICK s \in {"evicted", "reseeding"} :
        s = IF ps.status = "rehydrating" THEN "evicted" ELSE "reseeding"
  OBVIOUS
<1>2. ps' = [status |-> s, projected |-> 0, epoch |-> ps.epoch + 1] /\ s \in Statuses
  BY <1>1 DEF ResetWatermarks, Statuses, Out
<1> QED
  BY <1>1, <1>2, ZeroRow DEF ResetWatermarks

LEMMA EvictBeginEffect ==
  ASSUME TypeOK, EvictBegin
  PROVE  /\ evictor.pc = "idle" /\ lock = Nobody /\ lock' = Evictor
         /\ evictor'.pc = "mark" /\ evictor'.projected = ps.projected /\ evictor'.epoch = 0
         /\ evictor' \in EvictRec(Len(main))
         /\ UNCHANGED <<main, ps, key, saved, pass, dropped, loaded, probe, reader, stray>>
<1>1. PICK h \in Nat : h = Len(main) /\ h = MainHead
  BY Heads
<1>2. PICK n \in 0 .. h : n = ps.projected
  BY <1>1, RowFields
<1>3. evictor' = [pc |-> "mark", projected |-> n, epoch |-> 0]
  BY <1>2 DEF EvictBegin, NoEvict
<1>4. /\ evictor' \in EvictRec(h) /\ evictor'.pc = "mark" /\ evictor'.projected = n
      /\ evictor'.epoch = 0
  BY <1>2, <1>3 DEF EvictRec
<1> QED
  BY <1>1, <1>2, <1>4 DEF EvictBegin

LEMMA EvictEndEffect ==
  ASSUME TypeOK, EvictEnd
  PROVE  /\ evictor'.pc = "idle" /\ evictor'.projected = 0 /\ evictor'.epoch = 0 /\ lock' = Nobody
         /\ evictor' \in EvictRec(Len(main))
<1>1. PICK h \in Nat : h = Len(main)
  BY Heads
<1> QED
  BY <1>1 DEF EvictEnd, NoEvict, EvictRec

LEMMA EvictMarkEffect ==
  ASSUME TypeOK, EvictMark
  PROVE  /\ evictor.pc = "mark"
         /\ \/ /\ ps.status = "idle" /\ ps.projected = evictor.projected /\ Zeroed("evicted")
               /\ evictor'.pc = "check" /\ evictor'.epoch = ps.epoch + 1
               /\ evictor'.projected = evictor.projected /\ lock' = lock
            \/ EvictEnd /\ ps' = ps
         /\ ps' \in Row(Len(main)) /\ evictor' \in EvictRec(Len(main))
         /\ UNCHANGED <<main, key, saved, pass, dropped, loaded, probe, reader, stray>>
<1>1. PICK h \in Nat : h = Len(main) /\ h = MainHead
  BY Heads
<1>2. ps \in Row(h) /\ evictor \in EvictRec(h)
  BY <1>1, TypeParts
<1>3. CASE ps.status = "idle" /\ ps.projected = evictor.projected
  <2>1. ps' \in Row(Len(main)) /\ Zeroed("evicted")
    BY <1>3, ZeroRow DEF EvictMark, Statuses, Out
  <2>2. PICK m \in Nat : m = ps.epoch + 1
    BY RowFields
  <2>3. evictor' = [evictor EXCEPT !.pc = "check", !.epoch = m] /\ lock' = lock
    BY <1>3, <2>2 DEF EvictMark
  <2>4. /\ evictor' \in EvictRec(h) /\ evictor'.pc = "check" /\ evictor'.epoch = m
        /\ evictor'.projected = evictor.projected
    BY <1>2, <2>2, <2>3 DEF EvictRec
  <2> QED
    BY <1>1, <1>3, <2>1, <2>2, <2>3, <2>4 DEF EvictMark
<1>4. CASE ~(ps.status = "idle" /\ ps.projected = evictor.projected)
  <2>1. EvictEnd /\ ps' = ps
    BY <1>4 DEF EvictMark
  <2> QED
    BY <1>1, <1>2, <2>1, EvictEndEffect DEF EvictMark
<1> QED
  BY <1>3, <1>4

LEMMA EvictCheckEffect ==
  ASSUME TypeOK, EvictCheck
  PROVE  /\ evictor.pc = "check"
         /\ \/ /\ EvictEnd
               /\ \/ ps' = ps
                  \/ /\ ps.epoch = evictor.epoch /\ ps'.status = "idle"
                     /\ ps'.projected = evictor.projected /\ ps'.epoch = ps.epoch + 1
            \/ /\ \A r \in Readers : reader[r] = "out"
               /\ evictor'.pc = "drop" /\ evictor'.epoch = evictor.epoch
               /\ evictor'.projected = evictor.projected /\ UNCHANGED <<ps, lock>>
         /\ ps' \in Row(Len(main)) /\ evictor' \in EvictRec(Len(main))
         /\ UNCHANGED <<main, key, saved, pass, dropped, loaded, probe, reader, stray>>
<1>1. PICK h \in Nat : h = Len(main) /\ h = MainHead
  BY Heads
<1>2. ps \in Row(h) /\ evictor \in EvictRec(h)
  BY <1>1, TypeParts
<1>3. CASE ReadSince
  <2>1. EvictEnd
    BY <1>3 DEF EvictCheck
  <2>2. CASE ps' = ps
    BY <1>1, <1>2, <2>1, <2>2, EvictEndEffect DEF EvictCheck
  <2>3. CASE /\ ps.epoch = evictor.epoch
             /\ ps' = [status |-> "idle", projected |-> evictor.projected, epoch |-> ps.epoch + 1]
    <3>1. PICK m \in Nat : m = ps.epoch + 1
      BY RowFields
    <3>2. PICK n \in 0 .. h : n = evictor.projected
      BY <1>1, RowFields
    <3>3. ps' \in Row(h) /\ ps'.status = "idle" /\ ps'.projected = n /\ ps'.epoch = m
      BY <2>3, <3>1, <3>2 DEF Row, Statuses
    <3> QED
      BY <1>1, <2>1, <2>3, <3>1, <3>2, <3>3, EvictEndEffect DEF EvictCheck
  <2> QED
    BY <1>3, <2>2, <2>3 DEF EvictCheck
<1>4. CASE ~ReadSince
  <2>1. evictor' = [evictor EXCEPT !.pc = "drop"] /\ UNCHANGED <<ps, lock>>
    BY <1>4 DEF EvictCheck
  <2>2. /\ evictor' \in EvictRec(h) /\ evictor'.pc = "drop" /\ evictor'.epoch = evictor.epoch
        /\ evictor'.projected = evictor.projected
    BY <1>2, <2>1 DEF EvictRec
  <2>3. \A r \in Readers : reader[r] = "out"
    BY <1>4 DEF ReadSince, Leased
  <2> QED
    BY <1>1, <1>2, <2>1, <2>2, <2>3 DEF EvictCheck
<1> QED
  BY <1>3, <1>4

LEMMA GoneType ==
  Gone \in Key /\ Gone.marker = 0
  BY ProjectionAssumption DEF Gone, Key, Seqs

LEMMA WaitEffect ==
  ASSUME TypeOK, Wait
  PROVE  /\ ps.status = "evicted" /\ ~dropped /\ evictor.pc = "idle"
         /\ ps' \in Row(Len(main)) /\ ps'.status = "waiting_capacity"
         /\ ps'.projected = ps.projected /\ ps'.epoch = ps.epoch
         /\ UNCHANGED <<main, key, saved, lock, pass, evictor, dropped, loaded, probe, reader, stray>>
<1>1. ps \in Row(Len(main))
  BY TypeParts
<1>2. ps' = [ps EXCEPT !.status = "waiting_capacity"]
  BY DEF Wait
<1> QED
  BY <1>1, <1>2 DEF Wait, Row, Statuses, Out

LEMMA LoadedEffect ==
  ASSUME TypeOK, FinishLoad
  PROVE  /\ \/ ps' = ps
            \/ /\ ps.status = "rehydrating" /\ ps'.status = "idle"
               /\ ps'.projected = ps.projected /\ ps'.epoch = ps.epoch
         /\ ps' \in Row(Len(main)) /\ loaded' = 0
         /\ UNCHANGED <<main, key, saved, lock, pass, evictor, dropped, probe, reader, stray>>
<1>1. ps \in Row(Len(main))
  BY TypeParts
<1>2. CASE ps' = ps
  BY <1>1, <1>2 DEF FinishLoad
<1>3. CASE ps.status = "rehydrating" /\ ps' = [ps EXCEPT !.status = "idle"]
  <2>1. /\ ps' \in Row(Len(main)) /\ ps'.status = "idle" /\ ps'.projected = ps.projected
        /\ ps'.epoch = ps.epoch
    BY <1>1, <1>3 DEF Row, Statuses
  <2> QED
    BY <1>3, <2>1 DEF FinishLoad
<1> QED
  BY <1>2, <1>3 DEF FinishLoad

LEMMA StartLoadEffect ==
  ASSUME TypeOK, StartLoad
  PROVE  /\ dropped /\ ~dropped'
         /\ (ps' = ps /\ ps.status \notin Out) \/ Zeroed("rehydrating")
         /\ ps' \in Row(Len(main))
         /\ UNCHANGED <<main, key, saved, lock, pass, evictor, loaded, probe, reader, stray>>
<1>1. ps \in Row(Len(main))
  BY TypeParts
<1>2. CASE ps.status \in Out
  BY <1>2, ZeroRow DEF StartLoad, Statuses
<1>3. CASE ps.status \notin Out
  BY <1>1, <1>3 DEF StartLoad
<1> QED
  BY <1>2, <1>3

-----------------------------------------------------------------------------
(* Types                                                                   *)

LEMMA InitTypes == Init => TypeOK
<1> SUFFICES ASSUME Init PROVE TypeOK
  OBVIOUS
<1>1. main = <<Kept, [e \in Entities |-> "put"]>>
  BY DEF Init
<1>2. Kept \in [Entities -> Ops] /\ [e \in Entities |-> "put"] \in [Entities -> Ops]
  BY DEF Kept, Ops
<1>3. main \in Seq([Entities -> Ops]) /\ Len(main) = 2
  BY <1>1, <1>2
<1>4. 0 \in 0 .. 2 /\ 2 \in 0 .. 2 /\ 2 \in Seqs /\ 0 \in Seqs /\ 2 <= MaxCommits
  BY ProjectionAssumption DEF Seqs
<1>5. ps \in Row(2) /\ evictor \in EvictRec(2) /\ probe \in ProbeRec(2)
  BY <1>4 DEF Init, Row, EvictRec, ProbeRec, NoEvict, NoProbe, Statuses
<1>6. key \in Key /\ saved \in Key
  BY <1>4, GoneType DEF Init, Key
<1>7. pass \in [Passes -> PassRec(2)] /\ reader \in Leases /\ lock \in Passes \cup {Evictor, Nobody}
  BY NoPassType DEF Init, Leases
<1>8. dropped \in BOOLEAN /\ loaded \in 0 .. 2 /\ stray \in Strays
  BY <1>4 DEF Init, Strays
<1> QED
  BY <1>3, <1>4, <1>5, <1>6, <1>7, <1>8, TypeParts

LEMMA TypesGrow ==
  ASSUME NEW h \in Nat
  PROVE  /\ 0 .. h \subseteq 0 .. h + 1 /\ Row(h) \subseteq Row(h + 1)
         /\ PassRec(h) \subseteq PassRec(h + 1) /\ EvictRec(h) \subseteq EvictRec(h + 1)
         /\ ProbeRec(h) \subseteq ProbeRec(h + 1)
<1>1. 0 .. h \subseteq 0 .. h + 1
  OBVIOUS
<1>2. Row(h) \subseteq Row(h + 1)
  BY <1>1 DEF Row
<1>3. PassRec(h) \subseteq PassRec(h + 1)
  BY <1>1 DEF PassRec
<1>4. EvictRec(h) \subseteq EvictRec(h + 1) /\ ProbeRec(h) \subseteq ProbeRec(h + 1)
  BY <1>1 DEF EvictRec, ProbeRec
<1> QED
  BY <1>1, <1>2, <1>3, <1>4

LEMMA PublishTypes ==
  ASSUME TypeOK, NEW e \in Entities, Publish(e)
  PROVE  TypeOK'
<1>1. PICK h \in Nat : h = Len(main)
  BY Heads
<1>2. /\ ps \in Row(h) /\ key \in Key /\ saved \in Key
      /\ lock \in Passes \cup {Evictor, Nobody} /\ pass \in [Passes -> PassRec(h)]
      /\ evictor \in EvictRec(h) /\ dropped \in BOOLEAN /\ loaded \in 0 .. h
      /\ probe \in ProbeRec(h) /\ reader \in Leases /\ stray \in Strays
  BY <1>1, TypeParts
<1>3. /\ main' \in Seq([Entities -> Ops]) /\ Len(main') = h + 1 /\ h + 1 <= MaxCommits
      /\ UNCHANGED <<ps, key, saved, lock, pass, evictor, dropped, loaded, probe, reader, stray>>
  BY <1>1, PublishEffect
<1>4. /\ ps' \in Row(h + 1) /\ pass' \in [Passes -> PassRec(h + 1)]
      /\ evictor' \in EvictRec(h + 1) /\ loaded' \in 0 .. h + 1 /\ probe' \in ProbeRec(h + 1)
  BY <1>2, <1>3, TypesGrow
<1> QED
  BY <1>2, <1>3, <1>4, TypePartsNext

\* A step of a pass, and a step of anything else.
PassNext(p) == Begin(p) \/ PassStep(p) \/ Fail(p) \/ Crash(p) \/ LoseLock(p)

LEMMA PassTypes ==
  ASSUME TypeOK, NEW p \in Passes, PassNext(p)
  PROVE  TypeOK'
<1>0. PICK h : h = Len(main)
  OBVIOUS
<1>1. /\ main \in Seq([Entities -> Ops]) /\ h <= MaxCommits
      /\ ps \in Row(h) /\ key \in Key /\ saved \in Key
      /\ lock \in Passes \cup {Evictor, Nobody} /\ pass \in [Passes -> PassRec(h)]
      /\ evictor \in EvictRec(h) /\ dropped \in BOOLEAN /\ loaded \in 0 .. h
      /\ probe \in ProbeRec(h) /\ reader \in Leases /\ stray \in Strays
  BY <1>0, TypeParts
<1>2. /\ UNCHANGED <<main, saved, evictor, dropped, loaded, probe, reader>>
      /\ ps' \in Row(h) /\ key' \in Key /\ lock' \in Passes \cup {Evictor, Nobody}
      /\ pass' \in [Passes -> PassRec(h)] /\ stray' \in Strays
  <2>1. CASE Begin(p)
    BY <1>0, <1>1, <2>1, BeginEffect DEF Steps
  <2>2. CASE QueueFirstSeed(p)
    BY <1>0, <1>1, <2>2, QueueEffect DEF Steps
  <2>3. CASE Claim(p)
    BY <1>0, <1>1, <2>3, ClaimEffect DEF Steps
  <2>4. CASE PlanPass(p)
    BY <1>0, <1>1, <2>4, PlanEffect DEF Steps
  <2>5. ASSUME NEW e \in Entities, Write(p, e)
        PROVE  <1>2!1 /\ <1>2!2 /\ <1>2!3
    BY <1>0, <1>1, <2>5, WriteEffect DEF Steps
  <2>6. CASE Verify(p)
    BY <1>0, <1>1, <2>6, VerifyEffect DEF VerifySteps, Steps
  <2>7. CASE Mark(p)
    BY <1>0, <1>1, <2>7, MarkEffect DEF Steps
  <2>8. CASE Finish(p)
    BY <1>0, <1>1, <2>8, FinishEffect DEF Steps
  <2>9. CASE YieldSuperseded(p)
    BY <1>0, <1>1, <2>9, YieldEffect DEF Steps
  <2>10. CASE Fail(p)
    BY <1>0, <1>1, <2>10, FailEffect DEF Steps
  <2>11. CASE Crash(p)
    BY <1>0, <1>1, <2>11, CrashEffect DEF Steps
  <2>12. CASE LoseLock(p)
    BY <1>1, <2>12 DEF LoseLock
  <2> QED
    BY <2>1, <2>2, <2>3, <2>4, <2>5, <2>6, <2>7, <2>8, <2>9, <2>10, <2>11, <2>12
       DEF PassNext, PassStep
<1> QED
  BY <1>0, <1>1, <1>2, TypePartsNext

\* The steps of FalkorDB and of the check of what it holds.
CheckNext == Save \/ Restart \/ LivenessRead \/ LivenessReset \/ Rebuild \/ ResetWatermarks
\* The steps of the evictor and of the capacity loop.
LoadNext == Wait \/ DropStale \/ StartLoad \/ SeeLoaded \/ FinishLoad
EvictNext == EvictBegin \/ EvictStep \/ EvictCrash
ReadNext(r) == Hold(r) \/ Route(r) \/ Read(r)

LEMMA NextIs ==
  Next <=> \/ \E e \in Entities : Publish(e)
           \/ \E p \in Passes : PassNext(p)
           \/ CheckNext \/ EvictNext \/ LoadNext
           \/ \E r \in Readers : ReadNext(r)
  BY DEF Next, PassNext, CheckNext, EvictNext, LoadNext, ReadNext

LEMMA SaveEffect ==
  ASSUME TypeOK, Save
  PROVE  /\ saved' = key /\ stray' = (IF stray = "key" THEN "lost" ELSE stray) /\ stray' \in Strays
         /\ Calm => key.marker # 0
         /\ UNCHANGED <<main, ps, key, lock, pass, evictor, dropped, loaded, probe, reader>>
<1>1. stray \in Strays
  BY TypeParts
<1> QED
  BY <1>1 DEF Save, Strays

LEMMA RowTypes ==
  ASSUME TypeOK, CheckNext \/ LoadNext
  PROVE  TypeOK'
<1>0. PICK h : h = Len(main) /\ h = MainHead
  BY DEF MainHead
<1>1. /\ main \in Seq([Entities -> Ops]) /\ h <= MaxCommits
      /\ ps \in Row(h) /\ key \in Key /\ saved \in Key
      /\ lock \in Passes \cup {Evictor, Nobody} /\ pass \in [Passes -> PassRec(h)]
      /\ evictor \in EvictRec(h) /\ dropped \in BOOLEAN /\ loaded \in 0 .. h
      /\ probe \in ProbeRec(h) /\ reader \in Leases /\ stray \in Strays
  BY <1>0, TypeParts
<1>2. /\ UNCHANGED <<main, lock, pass, evictor, reader>>
      /\ ps' \in Row(h) /\ key' \in Key /\ saved' \in Key /\ dropped' \in BOOLEAN
      /\ loaded' \in 0 .. h /\ probe' \in ProbeRec(h) /\ stray' \in Strays
  <2>1. CASE Save
    BY <1>1, <2>1, SaveEffect
  <2>2. CASE Restart
    BY <1>1, <2>2 DEF Restart
  <2>3. CASE LivenessRead
    <3>1. ps.projected \in 0 .. h /\ ps.epoch \in Nat
      BY <1>0, RowFields
    <3>2. probe' \in ProbeRec(h)
      BY <2>3, <3>1 DEF LivenessRead, ProbeRec
    <3> QED
      BY <1>1, <2>3, <3>2 DEF LivenessRead
  <2>4. CASE LivenessReset
    BY <1>0, <1>1, <2>4, ResetEffect
  <2>5. CASE Rebuild
    BY <1>0, <1>1, <2>5, RebuildEffect
  <2>6. CASE ResetWatermarks
    BY <1>0, <1>1, <2>6, WatermarksEffect
  <2>7. CASE Wait
    BY <1>0, <1>1, <2>7, WaitEffect
  <2>8. CASE DropStale
    <3>1. key' \in Key /\ dropped' = TRUE
      BY <2>8, GoneType DEF DropStale
    <3> QED
      BY <1>1, <2>8, <3>1 DEF DropStale
  <2>9. CASE StartLoad
    <3>1. dropped' \in BOOLEAN
      BY <2>9 DEF StartLoad
    <3> QED
      BY <1>0, <1>1, <2>9, <3>1, StartLoadEffect
  <2>10. CASE SeeLoaded
    <3>1. loaded' \in 0 .. h
      BY <1>0, <2>10, RowFields DEF SeeLoaded
    <3> QED
      BY <1>1, <2>10, <3>1 DEF SeeLoaded
  <2>11. CASE FinishLoad
    <3>1. 0 \in 0 .. h
      BY <1>0, Heads
    <3> QED
      BY <1>0, <1>1, <2>11, <3>1, LoadedEffect
  <2> QED
    BY <2>1, <2>2, <2>3, <2>4, <2>5, <2>6, <2>7, <2>8, <2>9, <2>10, <2>11 DEF CheckNext, LoadNext
<1> QED
  BY <1>0, <1>1, <1>2, TypePartsNext

LEMMA EvictTypes ==
  ASSUME TypeOK, EvictNext
  PROVE  TypeOK'
<1>0. PICK h : h = Len(main)
  OBVIOUS
<1>1. /\ main \in Seq([Entities -> Ops]) /\ h <= MaxCommits
      /\ ps \in Row(h) /\ key \in Key /\ saved \in Key
      /\ lock \in Passes \cup {Evictor, Nobody} /\ pass \in [Passes -> PassRec(h)]
      /\ evictor \in EvictRec(h) /\ dropped \in BOOLEAN /\ loaded \in 0 .. h
      /\ probe \in ProbeRec(h) /\ reader \in Leases /\ stray \in Strays
  BY <1>0, TypeParts
<1>2. /\ UNCHANGED <<main, saved, pass, dropped, loaded, probe, reader, stray>>
      /\ ps' \in Row(h) /\ key' \in Key /\ lock' \in Passes \cup {Evictor, Nobody}
      /\ evictor' \in EvictRec(h)
  <2>1. CASE EvictBegin
    BY <1>0, <1>1, <2>1, EvictBeginEffect
  <2>2. CASE EvictMark
    BY <1>0, <1>1, <2>2, EvictMarkEffect, EvictEndEffect
  <2>3. CASE EvictCheck
    BY <1>0, <1>1, <2>3, EvictCheckEffect, EvictEndEffect
  <2>4. CASE EvictDrop
    BY <1>0, <1>1, <2>4, GoneType, EvictEndEffect DEF EvictDrop
  <2>5. CASE EvictCrash
    BY <1>0, <1>1, <2>5, EvictEndEffect DEF EvictCrash
  <2> QED
    BY <2>1, <2>2, <2>3, <2>4, <2>5 DEF EvictNext, EvictStep
<1> QED
  BY <1>0, <1>1, <1>2, TypePartsNext

LEMMA ReadEffect ==
  ASSUME TypeOK, NEW r \in Readers, ReadNext(r)
  PROVE  /\ reader' \in Leases /\ \A q \in Readers : q # r => reader'[q] = reader[q]
         /\ reader'[r] = "routed" => ServesHead
         /\ UNCHANGED <<main, ps, key, saved, lock, pass, evictor, dropped, loaded, probe, stray>>
<1>1. reader \in Leases
  BY TypeParts
<1>2. PICK s \in {"out", "held", "routed"} : /\ reader' = [reader EXCEPT ![r] = s]
                                             /\ s = "routed" => ServesHead
  BY DEF ReadNext, Hold, Route, Read
<1>3. UNCHANGED <<main, ps, key, saved, lock, pass, evictor, dropped, loaded, probe, stray>>
  BY DEF ReadNext, Hold, Route, Read
<1> QED
  BY <1>1, <1>2, <1>3 DEF Leases

LEMMA StepTypes ==
  ASSUME TypeOK, [Next]_vars
  PROVE  TypeOK'
<1>1. CASE UNCHANGED vars
  BY <1>1, TypeParts, TypePartsNext DEF vars
<1>2. ASSUME NEW r \in Readers, ReadNext(r)
      PROVE  TypeOK'
  BY <1>2, ReadEffect, TypeParts, TypePartsNext
<1> QED
  BY <1>1, <1>2, NextIs, PublishTypes, PassTypes, RowTypes, EvictTypes

(***************************************************************************)
(* Every step keeps the types, and no watermark, marker read from the row, *)
(* or pass is ever past main's head (the rows and records of projection.py *)
(* and residency.py).                                                      *)
(***************************************************************************)
THEOREM ProjectionTypes == Spec => []TypeOK
<1>1. TypeOK /\ [Next]_vars => TypeOK'
  BY StepTypes
<1> QED
  BY <1>1, InitTypes, PTL DEF Spec

-----------------------------------------------------------------------------
(* Eviction and reads                                                      *)

LEMMA InitEvict == Init => EvictInv
<1> SUFFICES ASSUME Init PROVE EvictInv
  OBVIOUS
<1>1. main = <<Kept, [e \in Entities |-> "put"]>> /\ evictor = NoEvict /\ dropped = FALSE
  BY DEF Init
<1>2. MainHead > 0
  BY <1>1 DEF MainHead
<1>3. \A p \in Passes : pass[p] = NoPass
  BY DEF Init
<1>4. ps.status = "idle" /\ ps.epoch = 0
  BY DEF Init
<1>5. EpochInv
  BY <1>1, <1>3, <1>4 DEF EpochInv, NoPass, NoEvict
<1>6. OutInv
  BY <1>4 DEF OutInv, Out
<1> QED
  BY <1>1, <1>2, <1>5, <1>6 DEF EvictInv, NoEvict, EvictionSparesReads

\* What a step of pass p keeps true of the row's epoch and of a graph that is out.
LEMMA PassEvict ==
  ASSUME TypeOK, EvictInv, NEW p \in Passes, PassNext(p)
  PROVE  EvictInv'
<1>0. /\ EpochInv /\ OutInv /\ (dropped => ps.status \in Out) /\ EvictionSparesReads
      /\ evictor.pc \in {"check", "drop"} => ps.status = "evicted" /\ ~dropped
      /\ MainHead > 0
  BY DEF EvictInv
<1>1. UNCHANGED <<main, evictor, dropped, reader>>
  <2>1. ASSUME NEW e \in Entities, Write(p, e)
        PROVE  UNCHANGED <<main, evictor, dropped, reader>>
    BY <2>1 DEF Write
  <2> QED
    BY <2>1 DEF PassNext, PassStep, Begin, QueueFirstSeed, Claim, PlanPass, Verify, Mark, Finish,
                YieldSuperseded, Fail, Crash, LoseLock
<1>2. ps.epoch \in Nat /\ evictor.epoch \in Nat /\ MainHead \in Nat
  BY RowFields, Heads
<1>3. \A q \in Passes : pass[q].seen \in Nat /\ pass[q].mine \in Nat /\ pass[q].pc \in Pcs
  BY PassFields
<1>4. NoPass.pc = "idle" /\ NoPass.seen = 0 /\ NoPass.mine = 0
  BY DEF NoPass
<1>5. EpochInv' /\ OutInv' /\ (ps.status \in Out => ps'.status = ps.status)
  <2> SUFFICES /\ evictor.epoch <= ps'.epoch
               /\ \A q \in Passes : pass'[q].seen <= ps'.epoch /\ pass'[q].mine <= ps'.epoch
               /\ ps'.status \in Out =>
                    /\ ps'.projected = 0
                    /\ \A q \in Passes :
                         /\ pass'[q].pc = "read" => pass'[q].seen < ps'.epoch
                         /\ pass'[q].pc \notin {"idle", "read"} => pass'[q].mine < ps'.epoch
               /\ ps.status \in Out => ps'.status = ps.status
    BY <1>1 DEF EpochInv, OutInv, Out
  <2> USE <1>0, <1>2, <1>3, <1>4 DEF EpochInv, OutInv
  <2>1. CASE Begin(p)
    BY <2>1, BeginEffect DEF Steps
  <2>2. CASE QueueFirstSeed(p)
    <3>1. CASE ps' = ps
      BY <2>2, <3>1, QueueEffect DEF Steps, Carries
    <3>2. CASE ps' # ps
      BY <2>2, <3>2, QueueEffect DEF Steps, Out
    <3> QED
      BY <3>1, <3>2
  <2>3. CASE Claim(p)
    <3>1. CASE ps' = ps
      BY <2>3, <3>1, ClaimEffect DEF Steps
    <3>2. CASE ps' # ps
      BY <2>3, <3>2, ClaimEffect DEF Steps, Out
    <3> QED
      BY <3>1, <3>2
  <2>4. CASE PlanPass(p)
    BY <2>4, PlanEffect DEF Steps, Carries
  <2>5. ASSUME NEW e \in Entities, Write(p, e)
        PROVE  /\ Carries(p) /\ pass'[p].pc = pass[p].pc /\ ps' = ps
               /\ \A q \in Passes : q # p => pass'[q] = pass[q]
    BY <2>5, WriteEffect DEF Steps
  <2>6. CASE \E e \in Entities : Write(p, e)
    BY <2>5, <2>6 DEF Carries
  <2>7. CASE Verify(p)
    <3>1. PICK pc \in {"mark", "failed", "heal"} : Steps(p, pc) /\ Carries(p)
      BY <2>7, VerifyEffect DEF VerifySteps
    <3> QED
      BY <2>7, <3>1, VerifyEffect DEF Steps, Carries
  <2>8. CASE Mark(p)
    BY <2>8, MarkEffect DEF Steps, Carries
  <2>9. CASE Finish(p)
    <3>1. CASE ps.epoch = pass[p].mine
      BY <2>9, <3>1, FinishEffect DEF Steps, Out
    <3>2. CASE ps.epoch # pass[p].mine
      BY SMTT(30), <2>9, <3>2, FinishEffect DEF Steps, Carries
    <3> QED
      BY <3>1, <3>2
  <2>10. CASE YieldSuperseded(p)
    <3>1. ps.projected \in Nat /\ pass[p].from \in Nat
      BY RowFields, PassFields
    <3> QED
      BY SMTT(30), <2>10, <3>1, YieldEffect DEF Steps
  <2>11. CASE Fail(p)
    BY <2>11, FailEffect DEF Steps, Carries
  <2>12. CASE Crash(p)
    BY <2>12, CrashEffect DEF Steps
  <2>13. CASE LoseLock(p)
    BY <2>13 DEF LoseLock
  <2> QED
    BY <2>1, <2>2, <2>3, <2>4, <2>6, <2>7, <2>8, <2>9, <2>10, <2>11, <2>12, <2>13
       DEF PassNext, PassStep
<1> QED
  BY <1>0, <1>1, <1>5 DEF EvictInv, EvictionSparesReads, MainHead, Out

\* A step that leaves the passes and the reads as they are, and moves the row's epoch on or leaves it.
LEMMA RowEvict ==
  ASSUME TypeOK, EvictInv, CheckNext \/ EvictNext \/ LoadNext
  PROVE  EvictInv'
<1>0. /\ EpochInv /\ OutInv /\ (dropped => ps.status \in Out) /\ EvictionSparesReads
      /\ evictor.pc \in {"check", "drop"} => ps.status = "evicted" /\ ~dropped
      /\ MainHead > 0
  BY DEF EvictInv
<1>1. UNCHANGED <<main, pass, reader>>
  BY DEF CheckNext, EvictNext, EvictStep, LoadNext, Save, Restart, LivenessRead, LivenessReset,
         Rebuild, ResetWatermarks, EvictBegin, EvictMark, EvictCheck, EvictDrop, EvictCrash, Wait,
         DropStale, StartLoad, SeeLoaded, FinishLoad
<1>2. ps.epoch \in Nat /\ evictor.epoch \in Nat /\ ps.projected \in Nat
  BY RowFields
<1>3. \A q \in Passes : pass[q].seen \in Nat /\ pass[q].mine \in Nat
  BY PassFields
<1> SUFFICES /\ evictor'.epoch <= ps'.epoch
             /\ ps' = ps \/ (ps'.status \notin Out)
                \/ (ps'.epoch = ps.epoch /\ ps.status \in Out /\ ps'.projected = ps.projected)
                \/ (ps'.epoch = ps.epoch + 1 /\ ps'.projected = 0)
             /\ ps.epoch <= ps'.epoch
             /\ dropped' => ps'.status \in Out
             /\ evictor'.pc \in {"check", "drop"} => ps'.status = "evicted" /\ ~dropped'
             /\ EvictionSparesReads'
  <2>1. ps'.epoch \in Nat
    <3>1. ps' \in Row(Len(main'))
      BY RowTypes, EvictTypes, TypePartsNext
    <3> QED
      BY <3>1 DEF Row
  <2>2. EpochInv'
    BY <1>0, <1>1, <1>2, <1>3, <2>1 DEF EpochInv
  <2>3. OutInv'
    BY <1>0, <1>1, <1>2, <1>3, <2>1 DEF OutInv, EpochInv
  <2>4. MainHead' > 0
    BY <1>0, <1>1 DEF MainHead
  <2> QED
    BY <2>2, <2>3, <2>4 DEF EvictInv
<1> USE <1>0, <1>1, <1>2 DEF EpochInv, OutInv, EvictionSparesReads
<1>4. CASE Save
  BY <1>4, SaveEffect
<1>5. CASE Restart
  BY <1>5 DEF Restart
<1>6. CASE LivenessRead
  BY <1>6 DEF LivenessRead
<1>7. CASE LivenessReset
  BY <1>7, ResetEffect DEF Out
<1>8. CASE Rebuild
  BY <1>8, RebuildEffect DEF Zeroed, Out
<1>9. CASE ResetWatermarks
  BY <1>9, WatermarksEffect DEF Zeroed, Out
<1>10. CASE EvictBegin
  BY <1>10, EvictBeginEffect
<1>11. CASE EvictMark
  BY <1>11, EvictMarkEffect, EvictEndEffect DEF Zeroed, Out
<1>12. CASE EvictCheck
  BY <1>12, EvictCheckEffect, EvictEndEffect DEF Out
<1>13. CASE EvictDrop
  BY <1>13, EvictEndEffect DEF EvictDrop
<1>14. CASE EvictCrash
  BY <1>14, EvictEndEffect DEF EvictCrash
<1>15. CASE Wait
  BY <1>15, WaitEffect DEF Out
<1>16. CASE DropStale
  BY <1>16 DEF DropStale
<1>17. CASE StartLoad
  BY <1>17, StartLoadEffect DEF Zeroed, Out
<1>18. CASE SeeLoaded
  BY <1>18 DEF SeeLoaded
<1>19. CASE FinishLoad
  BY <1>19, LoadedEffect DEF Out
<1> QED
  BY <1>4, <1>5, <1>6, <1>7, <1>8, <1>9, <1>10, <1>11, <1>12, <1>13, <1>14, <1>15, <1>16, <1>17,
     <1>18, <1>19 DEF CheckNext, EvictNext, EvictStep, LoadNext

LEMMA StepEvict ==
  ASSUME TypeOK, EvictInv, [Next]_vars
  PROVE  EvictInv'
<1>1. CASE UNCHANGED vars
  BY <1>1 DEF EvictInv, EpochInv, OutInv, EvictionSparesReads, vars, MainHead
<1>2. ASSUME NEW e \in Entities, Publish(e)
      PROVE  EvictInv'
  <2>1. MainHead' = MainHead + 1 /\ MainHead \in Nat
    BY <1>2, PublishEffect, Heads DEF MainHead
  <2>2. UNCHANGED <<ps, pass, evictor, dropped, reader>>
    BY <1>2 DEF Publish
  <2> QED
    BY <2>1, <2>2 DEF EvictInv, EpochInv, OutInv, EvictionSparesReads
<1>3. ASSUME NEW r \in Readers, ReadNext(r)
      PROVE  EvictInv'
  <2>1. UNCHANGED <<main, ps, pass, evictor, dropped>>
    BY <1>3, ReadEffect
  <2>2. EvictionSparesReads'
    <3>1. SUFFICES ASSUME evictor.pc = "drop", NEW q \in Readers, reader'[q] = "routed"
                   PROVE  FALSE
      BY <2>1 DEF EvictionSparesReads
    <3>2. ps.projected = 0 /\ MainHead > 0 /\ MainHead \in Nat
      BY <3>1, Heads DEF EvictInv, OutInv, Out
    <3>3. ~ServesHead
      BY <3>2 DEF ServesHead
    <3>4. reader'[q] = reader[q]
      BY <1>3, <3>1, <3>3, ReadEffect
    <3> QED
      BY <3>1, <3>4 DEF EvictInv, EvictionSparesReads
  <2> QED
    BY <2>1, <2>2 DEF EvictInv, EpochInv, OutInv, MainHead
<1> QED
  BY <1>1, <1>2, <1>3, NextIs, PassEvict, RowEvict

(***************************************************************************)
(* CacheManager.evict never drops the key under a read that was routed to  *)
(* it: between the guarded UPDATE and the drop the graph stays out, which  *)
(* keeps every later read away, and _read_since sees the earlier ones      *)
(* (cache_manager.py), whatever passes, loads, resets and deaths of either *)
(* side come between.                                                      *)
(***************************************************************************)
THEOREM EvictionIsSafe == Spec => []EvictionSparesReads
<1>1. TypeOK /\ EvictInv /\ [Next]_vars => TypeOK' /\ EvictInv'
  BY StepTypes, StepEvict
<1>2. EvictInv => EvictionSparesReads
  BY DEF EvictInv
<1> QED
  BY <1>1, <1>2, InitTypes, InitEvict, PTL DEF Spec

-----------------------------------------------------------------------------
(* The order of passes                                                     *)

LEMMA InitTurn == Init => MainHead > 1 /\ SeqInv /\ TurnInv
<1> SUFFICES ASSUME Init PROVE MainHead > 1 /\ SeqInv /\ TurnInv
  OBVIOUS
<1>1. MainHead = 2
  BY DEF Init, MainHead
<1>2. \A p \in Passes : pass[p].pc = "idle"
  BY DEF Init, NoPass
<1>3. /\ ps.projected = 2 /\ key.marker = 2 /\ saved.marker = 0 /\ evictor.projected = 0
      /\ evictor.pc = "idle"
  BY DEF Init, Gone, NoEvict
<1>4. SeqInv
  BY <1>1, <1>2, <1>3 DEF SeqInv
<1>5. TurnInv
  BY <1>2, <1>3 DEF TurnInv, Claimed, Current, Latest
<1> QED
  BY <1>1, <1>4, <1>5

\* The numbers that the invariants compare.
LEMMA Numbers ==
  ASSUME TypeOK
  PROVE  /\ MainHead \in Nat /\ ps.projected \in Nat /\ ps.epoch \in Nat /\ key.marker \in Nat
         /\ saved.marker \in Nat /\ evictor.projected \in Nat /\ evictor.epoch \in Nat
         /\ ps.projected <= MainHead /\ evictor.projected <= MainHead
         /\ \A p \in Passes : /\ pass[p].from \in Nat /\ pass[p].to \in Nat /\ pass[p].seen \in Nat
                              /\ pass[p].mine \in Nat /\ pass[p].from <= MainHead
                              /\ pass[p].to <= MainHead
<1>1. MainHead \in Nat /\ MaxCommits \in Nat
  BY Heads
<1>2. /\ ps.projected \in 0 .. MainHead /\ ps.epoch \in Nat /\ evictor.projected \in 0 .. MainHead
      /\ evictor.epoch \in Nat /\ key.marker \in Seqs /\ saved.marker \in Seqs
  BY RowFields
<1>3. \A p \in Passes : /\ pass[p].from \in 0 .. MainHead /\ pass[p].to \in 0 .. MainHead
                        /\ pass[p].seen \in Nat /\ pass[p].mine \in Nat
  BY PassFields
<1> QED
  BY <1>1, <1>2, <1>3 DEF Seqs

\* Pass p goes on, and the row stays as it is.
GoesOn(p) ==
  /\ Claimed(p) /\ (\E pc \in Pcs \ {"idle", "read"} : Steps(p, pc)) /\ Carries(p)
  /\ UNCHANGED <<main, ps, saved, lock, evictor>>
  /\ key'.marker \in {key.marker, pass[p].to}
  /\ pass'[p].pc \in {"mark", "done"} => pass'[p].todo = {}

\* Pass p ends, its lock given back.
Leaves(p) ==
  /\ pass[p].pc # "idle" /\ Steps(p, "idle") /\ pass'[p] = NoPass
  /\ lock' = (IF lock = p THEN Nobody ELSE lock)
  /\ UNCHANGED <<main, key, saved, evictor>>

\* The row takes another epoch with a watermark that is not higher.
Lowers == ps'.epoch = ps.epoch + 1 /\ ps'.projected \in 0 .. ps.projected /\ ps'.projected # 1

LEMMA GoesOnIs ==
  ASSUME TypeOK, SeqInv, NEW p \in Passes
  PROVE  /\ PlanPass(p) => GoesOn(p)
         /\ \A e \in Entities : Write(p, e) => GoesOn(p)
         /\ Verify(p) => GoesOn(p)
         /\ Mark(p) => GoesOn(p)
         /\ Fail(p) => GoesOn(p)
         /\ Finish(p) /\ ps.epoch # pass[p].mine => GoesOn(p)
<1> USE DEF GoesOn, Claimed, Pcs
<1>1. ASSUME PlanPass(p) PROVE GoesOn(p)
  BY <1>1, PlanEffect DEF Steps
<1>2. ASSUME NEW e \in Entities, Write(p, e) PROVE GoesOn(p)
  BY <1>2, WriteEffect DEF Steps
<1>3. ASSUME Verify(p) PROVE GoesOn(p)
  <2>1. PICK pc \in {"mark", "failed", "heal"} : VerifySteps(p, pc)
    BY <1>3, VerifyEffect
  <2> QED
    BY <1>3, <2>1, VerifyEffect DEF VerifySteps, Steps
<1>4. ASSUME Mark(p) PROVE GoesOn(p)
  <2>1. pass[p].todo = {}
    BY <1>4 DEF Mark, SeqInv
  <2> QED
    BY <1>4, <2>1, MarkEffect
<1>5. ASSUME Fail(p) PROVE GoesOn(p)
  BY <1>5, FailEffect DEF Steps
<1>6. ASSUME Finish(p), ps.epoch # pass[p].mine PROVE GoesOn(p)
  BY <1>6, FinishEffect DEF Steps
<1> QED
  BY <1>1, <1>2, <1>3, <1>4, <1>5, <1>6

LEMMA GoesOnTurn ==
  ASSUME TypeOK, SeqInv, TurnInv, NEW p \in Passes, GoesOn(p)
  PROVE  SeqInv' /\ TurnInv'
<1>1. /\ ps' = ps /\ lock' = lock /\ evictor' = evictor /\ saved' = saved
      /\ key'.marker \in {key.marker, pass[p].to} /\ MainHead' = MainHead /\ Claimed(p)
      /\ pass'[p].pc \in {"mark", "done"} => pass'[p].todo = {}
  BY DEF GoesOn, MainHead
<1>2. \A q \in Passes : /\ pass'[q].from = pass[q].from /\ pass'[q].to = pass[q].to
                        /\ pass'[q].seen = pass[q].seen /\ pass'[q].mine = pass[q].mine
                        /\ q # p => pass'[q] = pass[q]
  BY DEF GoesOn, Steps, Carries
<1>3. pass'[p].pc \notin {"idle", "read"}
  BY DEF GoesOn, Steps
<1>4. \A q \in Passes : /\ Claimed(q)' <=> Claimed(q)
                        /\ Current(q)' <=> Current(q)
                        /\ Latest(q)' <=> Latest(q)
  BY <1>1, <1>2, <1>3 DEF Claimed, Current, Latest
<1>5. SeqInv'
  <2>1. pass[p].to > 1 /\ pass[p].to <= MainHead /\ pass[p].to # 1
    BY <1>1, Numbers DEF SeqInv, Claimed
  <2> QED
    BY <1>1, <1>2, <1>3, <2>1 DEF SeqInv, Claimed
<1>6. TurnInv'
  BY <1>1, <1>2, <1>4, Numbers DEF TurnInv
<1> QED
  BY <1>5, <1>6

LEMMA LeavesTurn ==
  ASSUME TypeOK, EpochInv, SeqInv, TurnInv, NEW p \in Passes, Leaves(p),
         \/ ps' = ps
         \/ Lowers
         \/ Current(p) /\ ps'.epoch = ps.epoch /\ ps'.projected \in {ps.projected, pass[p].to}
  PROVE  SeqInv' /\ TurnInv'
<1>1. /\ evictor' = evictor /\ saved' = saved /\ key' = key /\ MainHead' = MainHead
      /\ \A q \in Passes : lock' = q => lock = q /\ q # p
      /\ lock = Evictor => lock' = Evictor
  BY ProjectionAssumption DEF Leaves, MainHead
<1>2. \A q \in Passes : pass'[q].pc # "idle" => q # p /\ pass'[q] = pass[q]
  BY DEF Leaves, Steps
<1>3. \A q \in Passes : q # p => pass'[q] = pass[q]
  BY DEF Leaves, Steps
<1>4. \A q \in Passes : Claimed(q)' => q # p /\ pass'[q] = pass[q] /\ Claimed(q)
  BY <1>2 DEF Claimed
<1>5. pass[p].pc # "idle" /\ pass[p].to > 1 /\ pass[p].to <= MainHead
  BY Numbers DEF SeqInv, Leaves
<1>6. SeqInv'
  <2>1. ps'.projected # 1 /\ ps'.projected <= MainHead
    <3>1. Lowers => ps'.projected # 1 /\ ps'.projected <= MainHead
      BY Numbers DEF Lowers
    <3> QED
      BY <1>5, <3>1, Numbers DEF SeqInv
  <2> QED
    BY <1>1, <1>2, <2>1 DEF SeqInv
<1>7. TurnInv'
  <2>1. CASE ps' = ps
    <3>1. \A q \in Passes : Latest(q)' => q # p /\ Latest(q) /\ pass'[q] = pass[q]
      BY <1>2, <2>1 DEF Claimed, Current, Latest
    <3>2. \A q \in Passes : Current(q)' => Current(q) /\ pass'[q] = pass[q]
      BY <1>4, <2>1 DEF Current
    <3> QED
      BY <1>1, <1>4, <2>1, <3>1, <3>2, ProjectionAssumption DEF TurnInv
  <2>2. CASE Lowers
    <3>1. \A q \in Passes : ~Latest(q)' /\ ~Current(q)'
      BY <1>2, <2>2, Numbers DEF Latest, Current, Claimed, EpochInv, Lowers
    <3> QED
      BY <1>1, <1>4, <2>2, <3>1, Numbers, ProjectionAssumption DEF TurnInv, Lowers
  <2>3. CASE Current(p) /\ ps'.epoch = ps.epoch /\ ps'.projected \in {ps.projected, pass[p].to}
    <3>1. \A q \in Passes : Current(q)' => FALSE
      BY <1>4, <2>3 DEF Current, TurnInv
    <3>2. \A q \in Passes : Latest(q)' => Latest(q) /\ pass'[q] = pass[q]
      BY <1>2, <2>3 DEF Latest, Claimed, Current
    <3>3. \A q \in Passes : lock' = q /\ Claimed(q)' => FALSE
      <4>1. Latest(p)
        BY <2>3 DEF Latest
      <4> QED
        BY <1>1, <1>4, <4>1, ProjectionAssumption DEF TurnInv
    <3> QED
      BY <1>1, <1>4, <3>1, <3>2, <3>3, ProjectionAssumption DEF TurnInv
  <2> QED
    BY <2>1, <2>2, <2>3
<1> QED
  BY <1>6, <1>7

LEMMA BeginTurn ==
  ASSUME TypeOK, EpochInv, MainHead > 1, SeqInv, TurnInv, NEW p \in Passes, Begin(p)
  PROVE  SeqInv' /\ TurnInv'
<1>1. /\ pass[p].pc = "idle" /\ lock = Nobody /\ lock' = p /\ pass'[p].pc = "read"
      /\ pass'[p].from = ps.projected /\ pass'[p].to = MainHead
      /\ \A q \in Passes : q # p => pass'[q] = pass[q]
      /\ UNCHANGED <<ps, key, saved, evictor>> /\ MainHead' = MainHead
  BY BeginEffect DEF Steps, MainHead
<1>2. SeqInv'
  BY <1>1, Numbers DEF SeqInv
<1>3. \A q \in Passes : /\ Claimed(q)' <=> Claimed(q)
                        /\ Current(q)' <=> Current(q)
                        /\ q # p => (Latest(q)' <=> Latest(q))
                        /\ Claimed(q) => q # p
  BY <1>1 DEF Claimed, Current, Latest
<1>4. key.marker <= MainHead
  BY DEF SeqInv
<1>5. evictor.pc = "idle"
  BY <1>1, ProjectionAssumption DEF TurnInv
<1>6. TurnInv'
  BY <1>1, <1>3, <1>4, <1>5, Numbers DEF TurnInv
<1> QED
  BY <1>2, <1>6

LEMMA ClaimTurn ==
  ASSUME TypeOK, EpochInv, SeqInv, TurnInv, NEW p \in Passes, Claim(p), pass'[p].pc = "plan"
  PROVE  SeqInv' /\ TurnInv'
<1>0. NoPass.pc # "plan"
  BY DEF NoPass
<1>1. /\ pass[p].pc = "read" /\ ps.epoch = pass[p].seen /\ ps.projected = pass[p].from
      /\ lock' = lock /\ pass'[p].from = pass[p].from /\ pass'[p].to = pass[p].to
      /\ pass'[p].mine = ps.epoch + 1
      /\ ps'.projected = ps.projected /\ ps'.epoch = ps.epoch + 1
      /\ \A q \in Passes : q # p => pass'[q] = pass[q]
      /\ UNCHANGED <<key, saved, evictor>> /\ MainHead' = MainHead
  BY <1>0, ClaimEffect DEF Steps, MainHead
<1>2. SeqInv'
  BY <1>1, Numbers DEF SeqInv
<1>3. \A q \in Passes : q # p => /\ Claimed(q)' <=> Claimed(q)
                                 /\ ~Latest(q)' /\ ~Current(q)'
  BY <1>1, Numbers DEF EpochInv, Claimed, Current, Latest
<1>4. Latest(p) /\ Current(p)'
  BY <1>1 DEF Latest, Current, Claimed
<1>5. \A q \in Passes : q # p => pass'[q].mine # pass'[p].mine
  BY <1>1, Numbers DEF EpochInv
<1>6. TurnInv'
  BY <1>1, <1>3, <1>4, <1>5, Numbers DEF TurnInv
<1> QED
  BY <1>2, <1>6

LEMMA PassTurn ==
  ASSUME TypeOK, EvictInv, MainHead > 1, SeqInv, TurnInv, NEW p \in Passes, PassNext(p)
  PROVE  SeqInv' /\ TurnInv'
<1>0. EpochInv
  BY DEF EvictInv
<1>1. CASE Begin(p)
  BY <1>0, <1>1, BeginTurn
<1>2. CASE QueueFirstSeed(p)
  <2>1. CASE pass'[p].pc = "idle"
    <3>1. Leaves(p) /\ Lowers
      BY <1>2, <2>1, QueueEffect DEF Leaves, Lowers, Steps
    <3> QED
      BY <1>0, <3>1, LeavesTurn
  <2>2. CASE pass'[p].pc # "idle"
    <3>1. /\ pass[p].pc = "read" /\ pass'[p].pc = "read" /\ Carries(p)
          /\ \A q \in Passes : q # p => pass'[q] = pass[q]
          /\ UNCHANGED <<ps, key, saved, lock, evictor>> /\ MainHead' = MainHead
      BY <1>2, <2>2, QueueEffect DEF Steps, MainHead
    <3>2. \A q \in Passes : /\ Claimed(q)' <=> Claimed(q)
                            /\ Current(q)' <=> Current(q)
                            /\ Latest(q)' <=> Latest(q)
      BY <3>1 DEF Claimed, Current, Latest, Carries
    <3>3. SeqInv'
      BY <3>1 DEF SeqInv, Carries
    <3>4. TurnInv'
      BY <3>1, <3>2 DEF TurnInv, Carries
    <3> QED
      BY <3>3, <3>4
  <2> QED
    BY <2>1, <2>2
<1>3. CASE Claim(p)
  <2>1. CASE pass'[p].pc = "plan"
    BY <1>0, <1>3, <2>1, ClaimTurn
  <2>2. CASE pass'[p].pc # "plan"
    <3>1. Leaves(p) /\ ps' = ps
      BY <1>3, <2>2, ClaimEffect DEF Leaves, Steps
    <3> QED
      BY <1>0, <3>1, LeavesTurn
  <2> QED
    BY <2>1, <2>2
<1>4. CASE PlanPass(p) \/ (\E e \in Entities : Write(p, e)) \/ Verify(p) \/ Mark(p) \/ Fail(p)
           \/ (Finish(p) /\ ps.epoch # pass[p].mine)
  BY <1>4, GoesOnIs, GoesOnTurn
<1>5. CASE Finish(p) /\ ps.epoch = pass[p].mine
  <2>1. /\ Leaves(p) /\ Current(p) /\ ps'.epoch = ps.epoch
        /\ ps'.projected \in {ps.projected, pass[p].to}
    BY <1>5, FinishEffect DEF Leaves, Current, Claimed
  <2> QED
    BY <1>0, <2>1, LeavesTurn
<1>6. CASE YieldSuperseded(p)
  <2>1. Leaves(p)
    BY <1>6, YieldEffect DEF Leaves
  <2>2. pass[p].from # 1 /\ ps.projected # 1
    BY <1>6, YieldEffect DEF SeqInv
  <2>3. Lowers
    BY <1>6, <2>2, YieldEffect, Numbers DEF Lowers
  <2> QED
    BY <1>0, <2>1, <2>3, LeavesTurn
<1>7. CASE Crash(p)
  <2>1. Leaves(p) /\ ps' = ps
    BY <1>7, CrashEffect DEF Leaves
  <2> QED
    BY <1>0, <2>1, LeavesTurn
<1>8. CASE LoseLock(p)
  <2>1. /\ UNCHANGED <<ps, key, saved, pass, evictor>> /\ MainHead' = MainHead
        /\ lock = p /\ lock' = Nobody
    BY <1>8 DEF LoseLock, MainHead
  <2>2. evictor.pc = "idle"
    BY <2>1, ProjectionAssumption DEF TurnInv
  <2>3. SeqInv'
    BY <2>1 DEF SeqInv
  <2>4. TurnInv'
    BY <2>1, <2>2, ProjectionAssumption DEF TurnInv, Claimed, Current, Latest
  <2> QED
    BY <2>3, <2>4
<1> QED
  BY <1>1, <1>2, <1>3, <1>4, <1>5, <1>6, <1>7, <1>8 DEF PassNext, PassStep

\* The row takes another epoch, with the watermark it had when the evictor marked it.
Reverts == /\ evictor.pc = "check" /\ ps.epoch = evictor.epoch
           /\ ps'.epoch = ps.epoch + 1 /\ ps'.projected = evictor.projected

\* What the steps of everything but passes, publishes and reads do to the row ...
LEMMA RowMoves ==
  ASSUME TypeOK, EvictInv, SeqInv, CheckNext \/ EvictNext \/ LoadNext
  PROVE  /\ UNCHANGED <<main, pass>>
         /\ \/ ps'.epoch = ps.epoch /\ ps'.projected = ps.projected
            \/ Lowers
            \/ Reverts
<1>1. UNCHANGED <<main, pass>>
  BY DEF CheckNext, EvictNext, EvictStep, LoadNext, Save, Restart, LivenessRead, LivenessReset,
         Rebuild, ResetWatermarks, EvictBegin, EvictMark, EvictCheck, EvictDrop, EvictCrash, Wait,
         DropStale, StartLoad, SeeLoaded, FinishLoad
<1>2. ASSUME NEW s, Zeroed(s)
      PROVE  Lowers
  BY <1>2, Numbers DEF Zeroed, Lowers
<1>3. CASE Save \/ Restart \/ LivenessRead \/ EvictBegin \/ EvictDrop \/ EvictCrash \/ DropStale
           \/ SeeLoaded
  <2>1. ps' = ps
    BY <1>3 DEF Save, Restart, LivenessRead, EvictBegin, EvictDrop, EvictCrash, DropStale, SeeLoaded
  <2> QED
    BY <1>1, <2>1
<1>4. CASE LivenessReset
  <2>1. key.marker # 1
    BY DEF SeqInv
  <2> QED
    BY <1>1, <1>4, <2>1, ResetEffect, Numbers DEF Lowers
<1>5. CASE Rebuild
  BY <1>1, <1>2, <1>5, RebuildEffect
<1>6. CASE ResetWatermarks
  BY <1>1, <1>2, <1>6, WatermarksEffect
<1>7. CASE EvictMark
  BY <1>1, <1>2, <1>7, EvictMarkEffect
<1>8. CASE EvictCheck
  BY <1>1, <1>8, EvictCheckEffect DEF Reverts
<1>9. CASE Wait
  BY <1>1, <1>9, WaitEffect
<1>10. CASE StartLoad
  BY <1>1, <1>2, <1>10, StartLoadEffect
<1>11. CASE FinishLoad
  BY <1>1, <1>11, LoadedEffect
<1> QED
  BY <1>3, <1>4, <1>5, <1>6, <1>7, <1>8, <1>9, <1>10, <1>11
     DEF CheckNext, EvictNext, EvictStep, LoadNext

\* ... to the evictor and the lock ...
LEMMA EvictorMoves ==
  ASSUME TypeOK, TurnInv, CheckNext \/ EvictNext \/ LoadNext
  PROVE  /\ \/ UNCHANGED <<evictor, lock>>
            \/ EvictBegin
            \/ evictor.pc # "idle" /\ EvictEnd
            \/ /\ evictor.pc = "mark" /\ evictor'.pc = "check" /\ lock' = lock
               /\ ps.projected = evictor.projected /\ evictor'.projected = ps.projected
               /\ Zeroed("evicted") /\ evictor'.epoch = ps.epoch + 1
            \/ /\ evictor.pc = "check" /\ evictor'.pc = "drop" /\ lock' = lock
               /\ evictor'.projected = evictor.projected /\ evictor'.epoch = evictor.epoch
<1>1. CASE CheckNext \/ LoadNext
  BY <1>1 DEF CheckNext, LoadNext, Save, Restart, LivenessRead, LivenessReset, Rebuild,
              ResetWatermarks, Wait, DropStale, StartLoad, SeeLoaded, FinishLoad
<1>2. CASE EvictMark
  BY <1>2, EvictMarkEffect
<1>3. CASE EvictCheck
  BY <1>3, EvictCheckEffect
<1>4. CASE EvictDrop \/ EvictCrash
  BY <1>4 DEF EvictDrop, EvictCrash
<1> QED
  BY <1>1, <1>2, <1>3, <1>4 DEF EvictNext, EvictStep

\* ... and to the key, on disk and off it.
LEMMA KeyMoves ==
  ASSUME TypeOK, Calm, CheckNext \/ EvictNext \/ LoadNext
  PROVE  \/ UNCHANGED <<key, saved>>
         \/ saved' = key /\ key' = key
         \/ key' = Gone /\ saved' = saved
         \/ key' = saved /\ saved' = saved /\ \A p \in Passes : pass[p].pc = "idle"
<1>1. CASE Save
  BY <1>1, SaveEffect
<1>2. CASE Restart
  BY <1>2 DEF Restart
<1>3. CASE DropStale \/ EvictDrop
  BY <1>3 DEF DropStale, EvictDrop
<1>4. CASE EvictMark \/ EvictCheck
  BY <1>4 DEF EvictMark, EvictCheck
<1>5. CASE \/ LivenessRead \/ LivenessReset \/ Rebuild \/ ResetWatermarks \/ EvictBegin
           \/ EvictCrash \/ Wait \/ StartLoad \/ SeeLoaded \/ FinishLoad
  BY <1>5 DEF LivenessRead, LivenessReset, Rebuild, ResetWatermarks, EvictBegin, EvictCrash, Wait,
              StartLoad, SeeLoaded, FinishLoad
<1> QED
  BY <1>1, <1>2, <1>3, <1>4, <1>5 DEF CheckNext, EvictNext, EvictStep, LoadNext

LEMMA RowTurn ==
  ASSUME TypeOK, Calm, EvictInv, MainHead > 1, SeqInv, TurnInv, CheckNext \/ EvictNext \/ LoadNext
  PROVE  SeqInv' /\ TurnInv'
<1>1. UNCHANGED <<main, pass>> /\ MainHead' = MainHead
  BY RowMoves DEF MainHead
<1>2. Gone.marker = 0
  BY DEF Gone
<1>3. ps'.projected # 1 /\ ps'.projected <= MainHead
  BY RowMoves, Numbers DEF SeqInv, Lowers, Reverts
<1>4. evictor'.projected # 1 /\ evictor'.projected <= MainHead
  BY EvictorMoves, EvictBeginEffect, EvictEndEffect, Numbers DEF SeqInv
<1>5. SeqInv'
  BY <1>1, <1>2, <1>3, <1>4, KeyMoves, Numbers DEF SeqInv
<1>6. evictor'.pc # "idle" => lock' = Evictor
  BY EvictorMoves, EvictBeginEffect, EvictEndEffect DEF TurnInv
<1>7. \A q \in Passes : lock' = q => lock = q
  BY EvictorMoves, EvictBeginEffect, EvictEndEffect, ProjectionAssumption
<1>8. \A q \in Passes : (Claimed(q)' <=> Claimed(q)) /\ pass'[q] = pass[q]
  BY <1>1 DEF Claimed
<1>9. key'.marker \in {key.marker, 0} \/ \A q \in Passes : pass[q].pc = "idle"
  BY <1>2, KeyMoves
<1>10. \A q \in Passes : Latest(q)' => key'.marker <= pass[q].to \/ ~Latest(q)
  BY <1>9, Numbers DEF TurnInv, Latest, Current, Claimed
<1>11. CASE ps'.epoch = ps.epoch /\ ps'.projected = ps.projected
  <2>1. \A q \in Passes : (Current(q)' <=> Current(q)) /\ (Latest(q)' <=> Latest(q))
    BY <1>1, <1>11 DEF Claimed, Current, Latest
  <2> QED
    BY <1>5, <1>6, <1>7, <1>8, <1>10, <1>11, <2>1 DEF TurnInv
<1>12. CASE Lowers \/ Reverts
  <2>1. \A q \in Passes : ~Latest(q)' /\ ~Current(q)'
    BY <1>1, <1>12, Numbers DEF Latest, Current, Claimed, EvictInv, EpochInv, Lowers, Reverts
  <2>2. \A q \in Passes : lock = q => Lowers
    BY <1>12, ProjectionAssumption DEF TurnInv, Reverts
  <2>3. \A q \in Passes : lock' = q /\ Claimed(q)' => ps'.projected <= pass'[q].from
    BY <1>7, <1>8, <2>2, Numbers DEF TurnInv, Lowers
  <2> QED
    BY <1>5, <1>6, <1>8, <2>1, <2>3 DEF TurnInv
<1> QED
  BY <1>11, <1>12, RowMoves

LEMMA StepTurn ==
  ASSUME TypeOK, Calm, EvictInv, MainHead > 1, SeqInv, TurnInv, [Next]_vars
  PROVE  MainHead' > 1 /\ SeqInv' /\ TurnInv'
<1>1. CASE \/ UNCHANGED vars
           \/ \E r \in Readers : ReadNext(r)
           \/ \E e \in Entities : Publish(e)
  <2>1. UNCHANGED <<ps, key, saved, lock, pass, evictor>>
    BY <1>1, ReadEffect, PublishEffect DEF vars
  <2>2. MainHead' >= MainHead /\ MainHead' \in Nat
    <3>1. CASE main' = main
      BY <3>1, Numbers DEF MainHead
    <3>2. CASE \E e \in Entities : Publish(e)
      BY <3>2, PublishEffect, Numbers DEF MainHead
    <3> QED
      BY <1>1, <3>1, <3>2, ReadEffect DEF vars
  <2>3. SeqInv'
    BY <2>1, <2>2, Numbers DEF SeqInv
  <2>4. TurnInv'
    BY <2>1 DEF TurnInv, Latest, Current, Claimed
  <2> QED
    BY <2>2, <2>3, <2>4, Numbers
<1>2. ASSUME NEW p \in Passes, PassNext(p)
      PROVE  MainHead' = MainHead
  <2>1. ASSUME NEW e \in Entities, Write(p, e)
        PROVE  main' = main
    BY <2>1 DEF Write
  <2>2. main' = main
    BY <1>2, <2>1 DEF PassNext, PassStep, Begin, QueueFirstSeed, Claim, PlanPass, Verify, Mark,
                      Finish, YieldSuperseded, Fail, Crash, LoseLock
  <2> QED
    BY <2>2 DEF MainHead
<1>3. CheckNext \/ EvictNext \/ LoadNext => MainHead' = MainHead
  BY RowMoves DEF MainHead
<1> QED
  BY <1>1, <1>2, <1>3, NextIs, PassTurn, RowTurn

-----------------------------------------------------------------------------
(* What the key holds, as of a row's epoch and what its passes are at      *)

Runs(P) == \E p \in Passes : P[p].pc # "idle"
Owns(P, epoch, p) == P[p].pc \notin {"idle", "read"} /\ P[p].mine = epoch
Overtaken(P, epoch, p) == P[p].pc \notin {"idle", "read"} /\ P[p].mine # epoch
SparedIn(P, epoch, e) == \A p \in Passes : Overtaken(P, epoch, p) => Still(P[p].from, e)
RightIn(k, e) == k.holds[e] = At(MainHead)[e]
TrustedIn(k, P, epoch, n) ==
  \A e \in Entities : Still(n, e) /\ SparedIn(P, epoch, e) =>
    /\ Still(k.marker, e) => RightIn(k, e)
    /\ Runs(P) => Still(k.marker, e)
BroughtIn(k, P, epoch, p) ==
  /\ P[p].pc \in {"write", "heal", "mark", "done"} =>
       \A e \in Entities \ P[p].todo : Still(P[p].to, e) /\ SparedIn(P, epoch, e) => RightIn(k, e)
  /\ P[p].pc = "done" =>
       \A e \in Entities : Still(P[p].to, e) /\ SparedIn(P, epoch, e) => Still(k.marker, e)
MarkedIn(k) == \A e \in Entities : Still(k.marker, e) => RightIn(k, e)
KeyIs(k, s, row, ev, P, st) ==
  /\ st = "no" => MarkedIn(k)
  /\ st # "lost" =>
       /\ MarkedIn(s)
       /\ TrustedIn(k, P, row.epoch, row.projected)
       /\ ev.pc = "check" /\ row.epoch = ev.epoch => TrustedIn(k, P, row.epoch, ev.projected)
       /\ \A p \in Passes : Owns(P, row.epoch, p) => BroughtIn(k, P, row.epoch, p)

LEMMA KeyIsNow ==
  KeyInv <=> KeyIs(key, saved, ps, evictor, pass, stray)
  BY DEF KeyInv, KeyIs, MarkedIn, TrustedTo, TrustedIn, Brought, BroughtIn, Spared, SparedIn, Right,
         RightIn, Superseded, Overtaken, Current, Claimed, Owns, Runs

\* The same, a step later.
LEMMA KeyIsNext ==
  ASSUME main' = main
  PROVE  KeyInv' <=> KeyIs(key', saved', ps', evictor', pass', stray')
<1>1. ASSUME NEW n, NEW e
      PROVE  Still(n, e)' <=> Still(n, e)
  BY DEF Still, MainHead
<1>2. At(MainHead)' = At(MainHead)
  BY DEF At, MainHead
<1> QED
  BY <1>2
     DEF KeyInv, KeyIs, MarkedIn, TrustedTo, TrustedIn, Brought, BroughtIn, Spared, SparedIn, Right,
         RightIn, Superseded, Overtaken, Current, Claimed, Owns, Runs, Still, MainHead

LEMMA StillUp ==
  ASSUME NEW a \in Nat, NEW b \in Nat, a <= b, NEW e, Still(a, e)
  PROVE  Still(b, e)
<1>1. \A m \in b + 1 .. MainHead : m \in a + 1 .. MainHead
  OBVIOUS
<1> QED
  BY <1>1 DEF Still

LEMMA StillNever ==
  ASSUME NEW e
  PROVE  ~Still(0, e)
  BY DEF Still

LEMMA StillAt ==
  ASSUME TypeOK, NEW n \in Nat, n <= MainHead, NEW e \in Entities, Still(n, e)
  PROVE  At(n)[e] = At(MainHead)[e]
  BY AtStable, Heads DEF Still

\* A trusted key remains so when there is less to rely on.
LEMMA TrustKept ==
  ASSUME NEW k, NEW P, NEW Q, NEW epoch, NEW later, NEW n, NEW m,
         TrustedIn(k, P, epoch, n), Runs(Q) => Runs(P),
         \A e \in Entities : Still(m, e) /\ SparedIn(Q, later, e) => Still(n, e) /\ SparedIn(P, epoch, e)
  PROVE  TrustedIn(k, Q, later, m)
  BY DEF TrustedIn

-----------------------------------------------------------------------------
(* The key under the steps of the row, the evictor and FalkorDB            *)

\* Where the row takes another epoch, every pass that has claimed it is overtaken.
LEMMA NobodyOwns ==
  ASSUME TypeOK, EpochInv, NEW n \in Nat, n > ps.epoch
  PROVE  /\ \A p \in Passes : ~Owns(pass, n, p)
         /\ \A e \in Entities : SparedIn(pass, n, e) => SparedIn(pass, ps.epoch, e)
<1>1. \A p \in Passes : pass[p].mine # n
  BY Numbers DEF EpochInv
<1> QED
  BY <1>1 DEF Owns, SparedIn, Overtaken

\* The row, or the evictor, moves; the key stays.
LEMMA RowKey ==
  ASSUME TypeOK, EvictInv, SeqInv, TurnInv, KeyInv, CheckNext \/ EvictNext \/ LoadNext,
         UNCHANGED <<key, saved, stray>>
  PROVE  KeyInv'
<1>1. UNCHANGED <<main, pass>>
  BY RowMoves
<1>2. KeyIs(key, saved, ps, evictor, pass, stray)
  BY KeyIsNow
<1>3. EpochInv
  BY DEF EvictInv
<1> SUFFICES KeyIs(key, saved, ps', evictor', pass, stray)
  BY <1>1, KeyIsNext
<1>4. CASE ps'.epoch = ps.epoch /\ ps'.projected = ps.projected
  <2>1. evictor'.pc = "check" => evictor' = evictor
    BY <1>4, EvictorMoves, EvictBeginEffect, EvictEndEffect, Numbers DEF Zeroed
  <2> QED
    BY <1>2, <1>4, <2>1 DEF KeyIs
<1>5. CASE Lowers
  <2>1. ps'.epoch \in Nat /\ ps'.epoch > ps.epoch /\ ps'.projected \in Nat
        /\ ps'.projected <= ps.projected /\ ps.projected \in Nat
    BY <1>5, Numbers DEF Lowers
  <2>2. ASSUME stray # "lost"
        PROVE  TrustedIn(key, pass, ps'.epoch, ps'.projected)
    <3>1. TrustedIn(key, pass, ps.epoch, ps.projected)
      BY <1>2, <2>2 DEF KeyIs
    <3>2. \A e \in Entities : Still(ps'.projected, e) => Still(ps.projected, e)
      BY <2>1, StillUp
    <3> QED
      BY <1>3, <2>1, <3>1, <3>2, NobodyOwns, TrustKept
  <2>3. ASSUME stray # "lost", evictor'.pc = "check", ps'.epoch = evictor'.epoch
        PROVE  TrustedIn(key, pass, ps'.epoch, evictor'.projected)
    <3>1. evictor'.projected = ps.projected
      BY <1>3, <2>1, <2>3, EvictorMoves, EvictBeginEffect, EvictEndEffect, Numbers DEF EpochInv
    <3>2. TrustedIn(key, pass, ps.epoch, ps.projected)
      BY <1>2, <2>3 DEF KeyIs
    <3> QED
      BY <1>3, <2>1, <3>1, <3>2, NobodyOwns, TrustKept
  <2> QED
    BY <1>2, <1>3, <2>1, <2>2, <2>3, NobodyOwns DEF KeyIs
<1>6. CASE Reverts
  <2>1. ps'.epoch \in Nat /\ ps'.epoch > ps.epoch
    BY <1>6, Numbers DEF Reverts
  <2>2. ASSUME stray # "lost"
        PROVE  TrustedIn(key, pass, ps'.epoch, ps'.projected)
    <3>1. TrustedIn(key, pass, ps.epoch, ps'.projected)
      BY <1>2, <1>6, <2>2 DEF KeyIs, Reverts
    <3> QED
      BY <1>3, <2>1, <3>1, NobodyOwns, TrustKept
  <2>3. ~(evictor'.pc = "check" /\ ps'.epoch = evictor'.epoch)
    BY <1>3, <1>6, <2>1, EvictorMoves, EvictBeginEffect, EvictEndEffect, Numbers
       DEF EpochInv, Reverts
  <2> QED
    BY <1>2, <1>3, <2>1, <2>2, <2>3, NobodyOwns DEF KeyIs
<1> QED
  BY <1>4, <1>5, <1>6, RowMoves

LEMMA SaveKey ==
  ASSUME TypeOK, KeyInv, Save
  PROVE  KeyInv'
<1>1. KeyIs(key, saved, ps, evictor, pass, stray)
  BY KeyIsNow
<1>2. /\ UNCHANGED <<main, ps, key, pass, evictor>> /\ saved' = key
      /\ stray' = IF stray = "key" THEN "lost" ELSE stray
  BY SaveEffect
<1>3. stray \in {"no", "key", "lost"}
  BY TypeParts DEF Strays
<1>4. KeyIs(key, key, ps, evictor, pass, stray')
  BY <1>1, <1>2, <1>3 DEF KeyIs
<1> QED
  BY <1>2, <1>4, KeyIsNext

LEMMA RestartKey ==
  ASSUME TypeOK, Calm, KeyInv, Restart
  PROVE  KeyInv'
<1>1. KeyIs(key, saved, ps, evictor, pass, stray)
  BY KeyIsNow
<1>2. /\ UNCHANGED <<main, ps, saved, pass, evictor, stray>> /\ key' = saved
      /\ \A p \in Passes : pass[p].pc = "idle"
  BY DEF Restart
<1>3. ~Runs(pass) /\ \A p \in Passes : ~Owns(pass, ps.epoch, p)
  BY <1>2 DEF Runs, Owns
<1>4. stray = "no" => stray # "lost"
  OBVIOUS
<1>5. KeyIs(saved, saved, ps, evictor, pass, stray)
  BY <1>1, <1>3, <1>4 DEF KeyIs, MarkedIn, TrustedIn
<1> QED
  BY <1>2, <1>5, KeyIsNext

\* A key is dropped while the graph is out.
LEMMA DropKey ==
  ASSUME TypeOK, EvictInv, KeyInv, DropStale \/ EvictDrop
  PROVE  KeyInv'
<1>1. KeyIs(key, saved, ps, evictor, pass, stray)
  BY KeyIsNow
<1>2. UNCHANGED <<main, ps, saved, pass, stray>> /\ key' = Gone /\ evictor'.pc = "idle"
  BY EvictEndEffect DEF DropStale, EvictDrop
<1>3. ps.status \in Out
  BY DEF EvictInv, DropStale, EvictDrop, Out
<1>4. ps.projected = 0 /\ \A p \in Passes : ~Owns(pass, ps.epoch, p)
  BY <1>3, Numbers DEF EvictInv, OutInv, Owns
<1>5. \A e \in Entities : ~Still(0, e) /\ Gone.marker = 0
  BY StillNever DEF Gone
<1>6. KeyIs(Gone, saved, ps, evictor', pass, stray)
  BY <1>1, <1>2, <1>4, <1>5 DEF KeyIs, MarkedIn, TrustedIn
<1> QED
  BY <1>2, <1>6, KeyIsNext

LEMMA RowsKey ==
  ASSUME TypeOK, Calm, EvictInv, SeqInv, TurnInv, KeyInv, CheckNext \/ EvictNext \/ LoadNext
  PROVE  KeyInv'
<1>1. CASE EvictMark \/ EvictCheck
  <2>1. UNCHANGED <<key, saved, stray>>
    BY <1>1 DEF EvictMark, EvictCheck
  <2> QED
    BY <2>1, RowKey
<1>2. CASE \/ LivenessRead \/ LivenessReset \/ Rebuild \/ ResetWatermarks \/ EvictBegin
           \/ EvictCrash \/ Wait \/ StartLoad \/ SeeLoaded \/ FinishLoad
  <2>1. UNCHANGED <<key, saved, stray>>
    BY <1>2 DEF LivenessRead, LivenessReset, Rebuild, ResetWatermarks, EvictBegin, EvictCrash, Wait,
                StartLoad, SeeLoaded, FinishLoad
  <2> QED
    BY <2>1, RowKey
<1> QED
  BY <1>1, <1>2, SaveKey, RestartKey, DropKey DEF CheckNext, EvictNext, EvictStep, LoadNext

-----------------------------------------------------------------------------
(* The key under the steps of a pass                                       *)

\* What the invariant says of a pass that the row belongs to, and of any that it does not.
LEMMA PassFacts ==
  ASSUME TypeOK, SeqInv, TurnInv, NEW p \in Passes, Claimed(p)
  PROVE  /\ pass[p].from \in Nat /\ pass[p].to \in Nat /\ pass[p].from <= pass[p].to
         /\ pass[p].to <= MainHead
         /\ Owns(pass, ps.epoch, p) =>
              /\ pass[p].from = ps.projected /\ key.marker <= pass[p].to
              /\ \A q \in Passes : Owns(pass, ps.epoch, q) => q = p
         /\ ~Owns(pass, ps.epoch, p) <=> Overtaken(pass, ps.epoch, p)
<1>1. /\ pass[p].from \in Nat /\ pass[p].to \in Nat /\ pass[p].from <= pass[p].to
      /\ pass[p].to <= MainHead
  BY Numbers DEF SeqInv, Claimed
<1>2. ~Owns(pass, ps.epoch, p) <=> Overtaken(pass, ps.epoch, p)
  BY DEF Owns, Overtaken, Claimed
<1>3. Owns(pass, ps.epoch, p) =>
        /\ pass[p].from = ps.projected /\ key.marker <= pass[p].to
        /\ \A q \in Passes : Owns(pass, ps.epoch, q) => q = p
  BY DEF TurnInv, Owns, Current, Claimed, Latest
<1> QED
  BY <1>1, <1>2, <1>3

\* What an overtaken pass writes, marks or has swept is main's where the entity is spared.
LEMMA OvertakenSpares ==
  ASSUME TypeOK, SeqInv, TurnInv, NEW p \in Passes, Overtaken(pass, ps.epoch, p), NEW e \in Entities,
         SparedIn(pass, ps.epoch, e)
  PROVE  Still(pass[p].from, e) /\ Still(pass[p].to, e)
<1>1. Claimed(p)
  BY DEF Overtaken, Claimed
<1>2. Still(pass[p].from, e)
  BY DEF SparedIn
<1> QED
  BY <1>1, <1>2, PassFacts, StillUp

\* Passes that go on stay what they were to each other.
LEMMA SameTurns ==
  ASSUME NEW p \in Passes, NEW pc \in Pcs, NEW n, Steps(p, pc), Carries(p),
         pc \in {"idle", "read"} <=> pass[p].pc \in {"idle", "read"}
  PROVE  /\ \A q \in Passes : /\ Owns(pass', n, q) <=> Owns(pass, n, q)
                              /\ Overtaken(pass', n, q) <=> Overtaken(pass, n, q)
         /\ \A e \in Entities : SparedIn(pass', n, e) <=> SparedIn(pass, n, e)
<1>1. \A q \in Passes : /\ pass'[q].mine = pass[q].mine /\ pass'[q].from = pass[q].from
                        /\ pass'[q].pc \in {"idle", "read"} <=> pass[q].pc \in {"idle", "read"}
  BY DEF Steps, Carries
<1> QED
  BY <1>1 DEF Owns, Overtaken, SparedIn

\* What holds of every pass but p remains.
LEMMA OthersBring ==
  ASSUME NEW p \in Passes, NEW pc, Steps(p, pc), NEW n, NEW k, NEW q \in Passes, q # p,
         BroughtIn(k, pass, n, q),
         \A e \in Entities : SparedIn(pass', n, e) => SparedIn(pass, n, e)
  PROVE  BroughtIn(k, pass', n, q)
<1>1. pass'[q] = pass[q]
  BY DEF Steps
<1> QED
  BY <1>1 DEF BroughtIn

LEMMA BeginKey ==
  ASSUME TypeOK, Calm, SeqInv, TurnInv, KeyInv, NEW p \in Passes, Begin(p)
  PROVE  KeyInv'
<1>1. KeyIs(key, saved, ps, evictor, pass, stray)
  BY KeyIsNow
<1>2. /\ UNCHANGED <<main, ps, key, saved, evictor, stray>> /\ Steps(p, "read")
      /\ pass[p].pc = "idle" /\ lock = Nobody /\ ~Amiss
  BY BeginEffect
<1>3. /\ \A q \in Passes : /\ Owns(pass', ps.epoch, q) <=> Owns(pass, ps.epoch, q)
                           /\ Owns(pass, ps.epoch, q) => q # p
      /\ \A e \in Entities : SparedIn(pass', ps.epoch, e) <=> SparedIn(pass, ps.epoch, e)
  <2>1. \A q \in Passes : /\ q # p => pass'[q] = pass[q]
                          /\ q = p => pass'[q].pc = "read" /\ pass[q].pc = "idle"
    BY <1>2 DEF Steps
  <2> QED
    BY <2>1 DEF Owns, SparedIn, Overtaken
<1>4. evictor.pc = "idle"
  BY <1>2, ProjectionAssumption DEF TurnInv
<1>5. ASSUME stray # "lost"
      PROVE  TrustedIn(key, pass', ps.epoch, ps.projected)
  <2>1. TrustedIn(key, pass, ps.epoch, ps.projected)
    BY <1>1, <1>5 DEF KeyIs
  <2>2. ASSUME NEW e \in Entities, Still(ps.projected, e)
        PROVE  Still(key.marker, e)
    <3>1. ps.projected # 0
      BY <2>2, StillNever
    <3>2. ps.projected <= key.marker
      BY <1>2, <3>1, Numbers DEF SeqInv, Amiss
    <3> QED
      BY <2>2, <3>2, Numbers, StillUp
  <2> QED
    BY <1>3, <2>1, <2>2 DEF TrustedIn
<1>6. KeyIs(key, saved, ps, evictor, pass', stray)
  BY <1>1, <1>2, <1>3, <1>4, <1>5, OthersBring DEF KeyIs
<1> QED
  BY <1>2, <1>6, KeyIsNext

LEMMA ClaimKey ==
  ASSUME TypeOK, EpochInv, KeyInv, NEW p \in Passes, Claim(p), pass'[p].pc = "plan"
  PROVE  KeyInv'
<1>1. KeyIs(key, saved, ps, evictor, pass, stray)
  BY KeyIsNow
<1>2. /\ UNCHANGED <<main, key, saved, evictor, stray>> /\ Steps(p, "plan")
      /\ pass[p].pc = "read" /\ pass'[p].mine = ps.epoch + 1
      /\ ps'.projected = ps.projected /\ ps'.epoch = ps.epoch + 1
  BY ClaimEffect DEF NoPass
<1>3. PICK n \in Nat : n = ps.epoch + 1 /\ n > ps.epoch /\ ps'.epoch = n
  <2>1. ps.epoch + 1 \in Nat /\ ps.epoch + 1 > ps.epoch
    BY Numbers
  <2> QED
    BY <1>2, <2>1
<1>4. \A q \in Passes : q # p => pass'[q] = pass[q] /\ pass[q].mine < n
  BY <1>2, <1>3, Numbers DEF Steps, EpochInv
<1>5. pass'[p].pc = "plan"
  OBVIOUS
<1>6. \A q \in Passes : Owns(pass', n, q) => q = p
  BY <1>3, <1>4, Numbers DEF Owns
<1>7. \A e \in Entities : SparedIn(pass', n, e) => SparedIn(pass, ps.epoch, e)
  BY <1>2, <1>3, <1>4, Numbers DEF SparedIn, Overtaken
<1>8. Runs(pass)
  BY <1>2 DEF Runs
<1>9. evictor.epoch # n
  BY <1>3, Numbers DEF EpochInv
<1>10. BroughtIn(key, pass', n, p)
  BY <1>5 DEF BroughtIn
<1>11. stray # "lost" => TrustedIn(key, pass', n, ps.projected)
  <2>1. stray # "lost" => TrustedIn(key, pass, ps.epoch, ps.projected)
    BY <1>1 DEF KeyIs
  <2> QED
    BY <1>7, <1>8, <2>1, TrustKept
<1>12. KeyIs(key, saved, ps', evictor, pass', stray)
  BY <1>1, <1>2, <1>3, <1>6, <1>9, <1>10, <1>11 DEF KeyIs
<1> QED
  BY <1>2, <1>12, KeyIsNext

\* A pass that goes on and leaves the key's values and its marker as they are.
LEMMA IdleKey ==
  ASSUME TypeOK, KeyInv, NEW p \in Passes, NEW pc \in Pcs, Steps(p, pc), Carries(p),
         pc \in {"idle", "read"} <=> pass[p].pc \in {"idle", "read"}, pc # "idle", pass[p].pc # "idle",
         UNCHANGED <<main, ps, saved, evictor, stray>>,
         key'.holds = key.holds, key'.marker = key.marker,
         Owns(pass, ps.epoch, p) /\ stray # "lost" => BroughtIn(key, pass', ps.epoch, p)
  PROVE  KeyInv'
<1>1. KeyIs(key, saved, ps, evictor, pass, stray)
  BY KeyIsNow
<1>2. /\ \A q \in Passes : Owns(pass', ps.epoch, q) <=> Owns(pass, ps.epoch, q)
      /\ \A e \in Entities : SparedIn(pass', ps.epoch, e) <=> SparedIn(pass, ps.epoch, e)
  BY SameTurns
<1>3. Runs(pass)
  BY DEF Runs
<1>4. ASSUME NEW n, TrustedIn(key, pass, ps.epoch, n)
      PROVE  TrustedIn(key, pass', ps.epoch, n)
  BY <1>2, <1>3, <1>4, TrustKept
<1>5. ASSUME stray # "lost", NEW q \in Passes, Owns(pass', ps.epoch, q)
      PROVE  BroughtIn(key, pass', ps.epoch, q)
  BY <1>1, <1>2, <1>5, OthersBring DEF KeyIs
<1>6. KeyIs(key, saved, ps, evictor, pass', stray)
  BY <1>1, <1>4, <1>5 DEF KeyIs
<1>7. KeyIs(key', saved, ps, evictor, pass', stray)
  BY <1>6 DEF KeyIs, MarkedIn, TrustedIn, BroughtIn, RightIn
<1> QED
  BY <1>7, KeyIsNext

LEMMA PlanKey ==
  ASSUME TypeOK, SeqInv, TurnInv, KeyInv, NEW p \in Passes, PlanPass(p)
  PROVE  KeyInv'
<1>1. KeyIs(key, saved, ps, evictor, pass, stray)
  BY KeyIsNow
<1>2. /\ pass[p].pc = "plan" /\ Steps(p, "write") /\ Carries(p)
      /\ pass'[p].todo = (IF pass[p].from = 0 THEN Diff(pass[p].to)
                          ELSE Window(pass[p].from, pass[p].to))
      /\ key'.holds = key.holds /\ key'.marker = key.marker
      /\ UNCHANGED <<main, ps, saved, evictor, stray>>
  BY PlanEffect
<1>3. PICK from \in Nat, to \in Nat : /\ from = pass[p].from /\ to = pass[p].to /\ from <= to
                                      /\ to <= MainHead
  BY <1>2, PassFacts DEF Claimed
<1>4. ASSUME Owns(pass, ps.epoch, p), stray # "lost", NEW e \in Entities, e \notin pass'[p].todo,
             Still(to, e), SparedIn(pass, ps.epoch, e)
      PROVE  RightIn(key, e)
  <2>1. At(to)[e] = At(MainHead)[e]
    BY <1>3, <1>4, StillAt
  <2>2. CASE from = 0
    BY <1>2, <1>3, <1>4, <2>1, <2>2 DEF Diff, RightIn
  <2>3. CASE from # 0
    <3>1. \A m \in from + 1 .. to : main[m][e] = "keep"
      BY <1>2, <1>3, <1>4, <2>3 DEF Window
    <3>2. Still(from, e)
      <4>1. \A m \in from + 1 .. MainHead : m \in from + 1 .. to \/ m \in to + 1 .. MainHead
        BY <1>3, Numbers
      <4> QED
        BY <1>3, <1>4, <2>3, <3>1, <4>1 DEF Still
    <3>3. from = ps.projected
      BY <1>2, <1>3, <1>4, PassFacts DEF Claimed
    <3>4. TrustedIn(key, pass, ps.epoch, ps.projected) /\ Runs(pass)
      BY <1>1, <1>2, <1>4 DEF KeyIs, Runs
    <3> QED
      BY <1>4, <3>2, <3>3, <3>4 DEF TrustedIn
  <2> QED
    BY <2>2, <2>3
<1>5. \A e \in Entities : SparedIn(pass', ps.epoch, e) <=> SparedIn(pass, ps.epoch, e)
  BY <1>2, SameTurns DEF Pcs
<1>6. Owns(pass, ps.epoch, p) /\ stray # "lost" => BroughtIn(key, pass', ps.epoch, p)
  BY <1>2, <1>3, <1>4, <1>5 DEF BroughtIn, Steps, Carries
<1> QED
  BY <1>2, <1>6, IdleKey DEF Pcs

LEMMA FailKey ==
  ASSUME TypeOK, KeyInv, NEW p \in Passes,
         \/ Fail(p)
         \/ Finish(p) /\ ps.epoch # pass[p].mine
         \/ QueueFirstSeed(p) /\ pass'[p].pc # "idle"
  PROVE  KeyInv'
<1>1. CASE Fail(p)
  <2>1. BroughtIn(key, pass', ps.epoch, p)
    BY <1>1, FailEffect DEF BroughtIn, Steps
  <2> QED
    BY <1>1, <2>1, FailEffect, IdleKey DEF Pcs
<1>2. CASE Finish(p) /\ ps.epoch # pass[p].mine
  <2>1. BroughtIn(key, pass', ps.epoch, p)
    BY <1>2, FinishEffect DEF BroughtIn, Steps
  <2>2. UNCHANGED <<main, ps, saved, evictor, stray, key>>
    BY <1>2, FinishEffect
  <2> QED
    BY <1>2, <2>1, <2>2, FinishEffect, IdleKey DEF Pcs
<1>3. CASE QueueFirstSeed(p) /\ pass'[p].pc # "idle"
  <2>1. /\ Steps(p, "read") /\ Carries(p) /\ pass[p].pc = "read"
        /\ UNCHANGED <<main, ps, saved, evictor, stray, key>>
    BY <1>3, QueueEffect DEF Steps
  <2>2. BroughtIn(key, pass', ps.epoch, p)
    BY <2>1 DEF BroughtIn, Steps
  <2> QED
    BY <2>1, <2>2, IdleKey DEF Pcs
<1> QED
  BY <1>1, <1>2, <1>3

LEMMA WriteKey ==
  ASSUME TypeOK, SeqInv, TurnInv, KeyInv, NEW p \in Passes, NEW e \in Entities, Write(p, e)
  PROVE  KeyInv'
<1>1. KeyIs(key, saved, ps, evictor, pass, stray)
  BY KeyIsNow
<1>2. /\ pass[p].pc \in {"write", "heal"} /\ Steps(p, pass[p].pc) /\ Carries(p)
      /\ e \in pass[p].todo /\ pass'[p].todo = pass[p].todo \ {e}
      /\ key'.marker = key.marker
      /\ stray' = Soiled(p)
      /\ UNCHANGED <<main, ps, saved, evictor>>
  BY WriteEffect
<1>3. key'.holds[e] = At(pass[p].to)[e] /\ \A x \in Entities : x # e => key'.holds[x] = key.holds[x]
  <2>1. key.holds \in [Entities -> Seqs] /\ key'.holds = [key.holds EXCEPT ![e] = At(pass[p].to)[e]]
    BY WriteEffect, RowFields
  <2> QED
    BY <2>1
<1>4. Claimed(p) /\ pass[p].pc \in Pcs
  BY <1>2 DEF Claimed, Pcs
<1>5. PICK to \in Nat : to = pass[p].to /\ to <= MainHead
  BY <1>4, PassFacts
<1>6. /\ \A q \in Passes : Owns(pass', ps.epoch, q) <=> Owns(pass, ps.epoch, q)
      /\ \A x \in Entities : SparedIn(pass', ps.epoch, x) <=> SparedIn(pass, ps.epoch, x)
  BY <1>2, <1>4, SameTurns
\* What is written is right where main has not changed it since.
<1>7. Still(to, e) => RightIn(key', e)
  BY <1>3, <1>5, StillAt DEF RightIn
<1>8. ASSUME NEW x \in Entities, x # e
      PROVE  RightIn(key', x) <=> RightIn(key, x)
  BY <1>3, <1>8 DEF RightIn
<1>9. Owns(pass, ps.epoch, p) /\ Still(key.marker, e) => RightIn(key', e)
  BY <1>4, <1>5, <1>7, PassFacts, StillUp, Numbers
<1>10. ~Owns(pass, ps.epoch, p) /\ SparedIn(pass, ps.epoch, e) => RightIn(key', e)
  BY <1>4, <1>5, <1>7, PassFacts, OvertakenSpares
<1>11. stray' = "no" => MarkedIn(key')
  <2>1. stray' = "no" => stray = "no" /\ Owns(pass, ps.epoch, p)
    BY <1>2, <1>4, SoiledType DEF Superseded, Owns, Claimed
  <2>2. stray' = "no" => MarkedIn(key)
    BY <1>1, <2>1 DEF KeyIs
  <2> QED
    BY <1>2, <1>8, <1>9, <2>1, <2>2 DEF MarkedIn
<1>12. stray' = "lost" <=> stray = "lost"
  BY <1>2, SoiledType
<1>13. ASSUME NEW n, TrustedIn(key, pass, ps.epoch, n)
       PROVE  TrustedIn(key', pass', ps.epoch, n)
  <2>1. ASSUME NEW x \in Entities, Still(n, x), SparedIn(pass', ps.epoch, x)
        PROVE  /\ Still(key'.marker, x) => RightIn(key', x)
               /\ Still(key'.marker, x)
    <3>1. Runs(pass) /\ SparedIn(pass, ps.epoch, x)
      BY <1>2, <1>6, <2>1 DEF Runs
    <3>2. Still(key.marker, x) /\ RightIn(key, x)
      BY <1>13, <2>1, <3>1 DEF TrustedIn
    <3>3. RightIn(key', x)
      BY <1>8, <1>9, <1>10, <3>1, <3>2
    <3> QED
      BY <1>2, <3>2, <3>3
  <2> QED
    BY <2>1 DEF TrustedIn
<1>14. ASSUME stray # "lost", NEW q \in Passes, Owns(pass', ps.epoch, q)
       PROVE  BroughtIn(key', pass', ps.epoch, q)
  <2>1. Owns(pass, ps.epoch, q) /\ BroughtIn(key, pass, ps.epoch, q)
    BY <1>1, <1>6, <1>14 DEF KeyIs
  <2>2. CASE q = p
    <3>1. pass'[p].pc = pass[p].pc /\ pass'[p].to = to
      BY <1>2, <1>5 DEF Steps, Carries
    <3>2. ASSUME NEW x \in Entities, x \notin pass'[p].todo, Still(to, x),
                 SparedIn(pass', ps.epoch, x)
          PROVE  RightIn(key', x)
      <4>1. CASE x = e
        BY <1>7, <3>2, <4>1
      <4>2. CASE x # e
        BY <1>2, <1>5, <1>6, <1>8, <2>1, <2>2, <3>2, <4>2 DEF BroughtIn
      <4> QED
        BY <4>1, <4>2
    <3> QED
      BY <1>2, <2>2, <3>1, <3>2 DEF BroughtIn
  <2>3. CASE q # p
    <3>1. ~Owns(pass, ps.epoch, p) /\ pass'[q] = pass[q]
      BY <1>2, <1>4, <2>1, <2>3, PassFacts DEF Steps
    <3>2. ASSUME NEW x \in Entities, SparedIn(pass', ps.epoch, x), RightIn(key, x)
          PROVE  RightIn(key', x)
      BY <1>6, <1>8, <1>10, <3>1, <3>2
    <3>3. ASSUME NEW x \in Entities, SparedIn(pass', ps.epoch, x)
          PROVE  SparedIn(pass, ps.epoch, x) /\ (x = e => RightIn(key', x))
      BY <1>6, <1>10, <3>1, <3>3
    <3> QED
      BY <1>2, <2>1, <3>1, <3>2, <3>3 DEF BroughtIn
  <2> QED
    BY <2>2, <2>3
<1>15. KeyIs(key', saved, ps, evictor, pass', stray')
  BY <1>1, <1>11, <1>12, <1>13, <1>14 DEF KeyIs
<1> QED
  BY <1>2, <1>15, KeyIsNext

LEMMA VerifyKey ==
  ASSUME TypeOK, SeqInv, TurnInv, KeyInv, NEW p \in Passes, Verify(p)
  PROVE  KeyInv'
<1>1. KeyIs(key, saved, ps, evictor, pass, stray)
  BY KeyIsNow
<1>2. /\ pass[p].pc \in {"write", "heal"} /\ pass[p].todo = {}
      /\ key'.marker = key.marker
      /\ UNCHANGED <<main, ps, saved, evictor>>
  BY VerifyEffect
<1>3. PICK pc \in {"mark", "failed", "heal"} : VerifySteps(p, pc)
  BY VerifyEffect
<1>4. Steps(p, pc) /\ Carries(p) /\ pc \in Pcs
  BY <1>3 DEF VerifySteps, Pcs
<1>5. /\ \A q \in Passes : Owns(pass', ps.epoch, q) <=> Owns(pass, ps.epoch, q)
      /\ \A x \in Entities : SparedIn(pass', ps.epoch, x) <=> SparedIn(pass, ps.epoch, x)
  BY <1>2, <1>3, <1>4, SameTurns
\* What is swept away is what main's head does not hold.
<1>6. \A x \in Entities : RightIn(key, x) => RightIn(key', x)
  BY VerifyEffect DEF RightIn
<1>7. /\ stray' = "no" => stray = "no"
      /\ stray' # "lost" => stray # "lost"
  BY VerifyEffect, SoiledType
<1>8. ASSUME NEW n, TrustedIn(key, pass, ps.epoch, n)
      PROVE  TrustedIn(key', pass', ps.epoch, n)
  <2>1. Runs(pass)
    BY <1>2 DEF Runs
  <2> QED
    BY <1>2, <1>5, <1>6, <1>8, <2>1 DEF TrustedIn
<1>9. ASSUME stray # "lost", NEW q \in Passes, Owns(pass', ps.epoch, q)
      PROVE  BroughtIn(key', pass', ps.epoch, q)
  <2>1. BroughtIn(key, pass, ps.epoch, q)
    BY <1>1, <1>5, <1>9 DEF KeyIs
  <2>2. CASE q = p
    <3>1. ASSUME NEW x \in Entities, Still(pass'[p].to, x), SparedIn(pass', ps.epoch, x)
          PROVE  RightIn(key', x)
      <4>1. pass'[p].to = pass[p].to /\ x \notin pass[p].todo /\ SparedIn(pass, ps.epoch, x)
        BY <1>2, <1>4, <1>5, <3>1 DEF Carries
      <4> QED
        BY <1>2, <1>6, <2>1, <2>2, <3>1, <4>1 DEF BroughtIn
    <3>2. pass'[p].pc # "done"
      BY <1>3, <1>4 DEF Steps
    <3> QED
      BY <2>2, <3>1, <3>2 DEF BroughtIn
  <2>3. CASE q # p
    <3>1. pass'[q] = pass[q]
      BY <1>4, <2>3 DEF Steps
    <3> QED
      BY <1>2, <1>5, <1>6, <2>1, <3>1 DEF BroughtIn
  <2> QED
    BY <2>2, <2>3
<1>10. MarkedIn(key) => MarkedIn(key')
  BY <1>2, <1>6 DEF MarkedIn
<1>11. KeyIs(key', saved, ps, evictor, pass', stray')
  BY <1>1, <1>7, <1>8, <1>9, <1>10 DEF KeyIs
<1> QED
  BY <1>2, <1>11, KeyIsNext

LEMMA MarkKey ==
  ASSUME TypeOK, EvictInv, SeqInv, TurnInv, KeyInv, NEW p \in Passes, Mark(p)
  PROVE  KeyInv'
<1>1. KeyIs(key, saved, ps, evictor, pass, stray)
  BY KeyIsNow
<1>2. /\ pass[p].pc = "mark" /\ Steps(p, "done") /\ Carries(p) /\ pass'[p].todo = pass[p].todo
      /\ key'.holds = key.holds /\ key'.marker = pass[p].to
      /\ (stray' = "lost" <=> stray = "lost")
      /\ stray' = "no" => \A q \in Passes : ~Superseded(q)
      /\ UNCHANGED <<main, ps, saved, evictor>>
  BY MarkEffect
<1>3. Claimed(p) /\ pass[p].todo = {} /\ Runs(pass)
  BY <1>2 DEF Claimed, SeqInv, Runs
<1>4. /\ \A q \in Passes : Owns(pass', ps.epoch, q) <=> Owns(pass, ps.epoch, q)
      /\ \A x \in Entities : SparedIn(pass', ps.epoch, x) <=> SparedIn(pass, ps.epoch, x)
  BY <1>2, SameTurns DEF Pcs
<1>5. \A x \in Entities : RightIn(key', x) <=> RightIn(key, x)
  BY <1>2 DEF RightIn
\* A pass that owns the row has made right what main has not changed since it read main's head.
<1>6. ASSUME stray # "lost", Owns(pass, ps.epoch, p), NEW x \in Entities,
             Still(pass[p].to, x), SparedIn(pass, ps.epoch, x)
      PROVE  RightIn(key, x)
  <2>1. BroughtIn(key, pass, ps.epoch, p)
    BY <1>1, <1>6 DEF KeyIs
  <2> QED
    BY <1>2, <1>3, <1>6, <2>1 DEF BroughtIn
<1>7. stray' = "no" => MarkedIn(key')
  <2>1. SUFFICES ASSUME stray' = "no", NEW x \in Entities, Still(pass[p].to, x)
                 PROVE  RightIn(key, x)
    BY <1>2, <1>5 DEF MarkedIn
  <2>2. \A q \in Passes : ~Overtaken(pass, ps.epoch, q)
    BY <1>2, <2>1 DEF Superseded, Overtaken
  <2>3. Owns(pass, ps.epoch, p) /\ SparedIn(pass, ps.epoch, x)
    BY <1>3, <2>2, PassFacts DEF SparedIn
  <2> QED
    BY <1>2, <1>6, <2>1, <2>3
<1>8. ASSUME NEW n, TrustedIn(key, pass, ps.epoch, n), stray # "lost",
             Owns(pass, ps.epoch, p) => n = ps.projected
      PROVE  TrustedIn(key', pass', ps.epoch, n)
  <2>1. ASSUME NEW x \in Entities, Still(n, x), SparedIn(pass, ps.epoch, x)
        PROVE  Still(pass[p].to, x) /\ RightIn(key, x)
    <3>1. CASE Owns(pass, ps.epoch, p)
      <4>1. Still(pass[p].to, x)
        BY <1>3, <1>8, <2>1, <3>1, PassFacts, StillUp
      <4> QED
        BY <1>6, <1>8, <2>1, <3>1, <4>1
    <3>2. CASE ~Owns(pass, ps.epoch, p)
      <4>1. Still(pass[p].to, x)
        BY <1>3, <2>1, <3>2, PassFacts, OvertakenSpares
      <4>2. RightIn(key, x)
        BY <1>3, <1>8, <2>1 DEF TrustedIn
      <4> QED
        BY <4>1, <4>2
    <3> QED
      BY <3>1, <3>2
  <2> QED
    BY <1>2, <1>4, <1>5, <2>1 DEF TrustedIn
<1>9. evictor.pc = "check" => ~Owns(pass, ps.epoch, p)
  <2>1. evictor.pc = "check" => ps.status \in Out
    BY DEF EvictInv, Out
  <2> QED
    BY <1>2, <2>1, Numbers DEF EvictInv, OutInv, Owns
<1>10. ASSUME stray # "lost", NEW q \in Passes, Owns(pass', ps.epoch, q)
       PROVE  BroughtIn(key', pass', ps.epoch, q)
  <2>1. Owns(pass, ps.epoch, q) /\ BroughtIn(key, pass, ps.epoch, q)
    BY <1>1, <1>4, <1>10 DEF KeyIs
  <2>2. CASE q = p
    <3>1. pass'[p].to = pass[p].to
      BY <1>2 DEF Carries
    <3> QED
      BY <1>2, <1>4, <1>5, <1>6, <1>10, <2>1, <2>2, <3>1 DEF BroughtIn
  <2>3. CASE q # p
    <3>1. pass'[q] = pass[q] /\ Overtaken(pass, ps.epoch, p)
      BY <1>2, <1>3, <2>1, <2>3, PassFacts DEF Steps
    <3>2. \A x \in Entities : SparedIn(pass, ps.epoch, x) => Still(pass[p].to, x)
      BY <3>1, OvertakenSpares
    <3> QED
      BY <1>2, <1>4, <1>5, <2>1, <3>1, <3>2 DEF BroughtIn
  <2> QED
    BY <2>2, <2>3
<1>11. KeyIs(key', saved, ps, evictor, pass', stray')
  BY <1>1, <1>2, <1>7, <1>8, <1>9, <1>10 DEF KeyIs
<1> QED
  BY <1>2, <1>11, KeyIsNext

\* A pass ends and leaves the key as it is. An overtaken one has lowered the watermark over what it
\* wrote, or dies with a lock that shows that nobody began after it.
LEMMA LeavesKey ==
  ASSUME TypeOK, EvictInv, SeqInv, TurnInv, KeyInv, NEW p \in Passes, Leaves(p),
         stray' # "lost" => stray' = stray,
         \/ /\ ps' = ps /\ ~Overtaken(pass, ps.epoch, p)
         \/ /\ ps' = ps /\ Claimed(p) /\ lock = p
         \/ /\ ps' = ps /\ stray' = "lost"
         \/ /\ Lowers /\ (Claimed(p) => ps'.projected <= pass[p].from)
  PROVE  KeyInv'
<1>1. KeyIs(key, saved, ps, evictor, pass, stray)
  BY KeyIsNow
<1>2. /\ Steps(p, "idle") /\ pass'[p].pc = "idle" /\ UNCHANGED <<main, key, saved, evictor>>
      /\ \A q \in Passes : q # p => pass'[q] = pass[q]
      /\ pass[p].pc # "idle"
  BY DEF Leaves, Steps
<1>3. Runs(pass)
  BY <1>2 DEF Runs
<1>4. \A n : \A q \in Passes : Owns(pass', n, q) => q # p /\ Owns(pass, n, q)
  BY <1>2 DEF Owns
<1>5. \A n : \A e \in Entities :
        SparedIn(pass', n, e) /\ (Overtaken(pass, n, p) => Still(pass[p].from, e))
          => SparedIn(pass, n, e)
  BY <1>2 DEF SparedIn, Overtaken
<1> SUFFICES KeyIs(key, saved, ps', evictor, pass', stray')
  BY <1>2, KeyIsNext
<1>6. CASE stray' = "lost"
  BY <1>6 DEF KeyIs
<1>7. CASE stray' = stray /\ stray # "lost" /\ ps' = ps /\ ~Overtaken(pass, ps.epoch, p)
  <2>1. \A e \in Entities : SparedIn(pass', ps.epoch, e) => SparedIn(pass, ps.epoch, e)
    BY <1>5, <1>7
  <2>2. ASSUME NEW n, TrustedIn(key, pass, ps.epoch, n)
        PROVE  TrustedIn(key, pass', ps.epoch, n)
    BY <1>3, <2>1, <2>2, TrustKept
  <2>3. ASSUME NEW q \in Passes, Owns(pass', ps.epoch, q)
        PROVE  BroughtIn(key, pass', ps.epoch, q)
    BY <1>1, <1>2, <1>4, <1>7, <2>1, <2>3, OthersBring DEF KeyIs
  <2> QED
    BY <1>1, <1>7, <2>2, <2>3 DEF KeyIs
<1>8. CASE stray' = stray /\ stray # "lost" /\ ps' = ps /\ Claimed(p) /\ lock = p
  <2>1. ps.projected <= pass[p].from /\ \A q \in Passes : Latest(q) => q = p
    BY <1>8 DEF TurnInv
  <2>2. \A q \in Passes : ~Owns(pass', ps.epoch, q)
    BY <1>4, <2>1 DEF Owns, Latest, Current, Claimed
  <2>3. evictor.pc = "idle"
    BY <1>8, ProjectionAssumption DEF TurnInv
  <2>4. \A e \in Entities : Still(ps.projected, e) => Still(pass[p].from, e)
    BY <2>1, Numbers, StillUp
  <2>5. TrustedIn(key, pass', ps.epoch, ps.projected)
    <3>1. TrustedIn(key, pass, ps.epoch, ps.projected)
      BY <1>1, <1>8 DEF KeyIs
    <3>2. \A e \in Entities : Still(ps.projected, e) /\ SparedIn(pass', ps.epoch, e)
                                => SparedIn(pass, ps.epoch, e)
      BY <1>5, <2>4
    <3> QED
      BY <1>3, <3>1, <3>2, TrustKept
  <2> QED
    BY <1>1, <1>8, <2>2, <2>3, <2>5 DEF KeyIs
<1>9. CASE stray' = stray /\ stray # "lost" /\ Lowers /\ (Claimed(p) => ps'.projected <= pass[p].from)
  <2>1. PICK n \in Nat, m \in Nat : n = ps'.epoch /\ m = ps'.projected
    <3>1. ps'.epoch \in Nat /\ ps'.projected \in Nat
      BY <1>9, Numbers DEF Lowers
    <3> QED
      BY <3>1
  <2>2. n > ps.epoch /\ m <= ps.projected /\ EpochInv
    BY <1>9, <2>1, Numbers DEF Lowers, EvictInv
  <2>3. \A q \in Passes : ~Owns(pass', n, q)
    BY <1>4, <2>2, NobodyOwns
  <2>4. evictor.epoch # n
    BY <2>2, Numbers DEF EpochInv
  <2>5. ASSUME NEW e \in Entities, Still(m, e), SparedIn(pass', n, e)
        PROVE  Still(ps.projected, e) /\ SparedIn(pass, ps.epoch, e)
    <3>1. Still(ps.projected, e)
      BY <2>2, <2>5, Numbers, StillUp
    <3>2. Claimed(p) => Still(pass[p].from, e)
      BY <1>9, <2>1, <2>5, Numbers, StillUp
    <3>3. SparedIn(pass, n, e)
      BY <1>5, <2>5, <3>2 DEF Overtaken, Claimed
    <3> QED
      BY <2>2, <3>1, <3>3, NobodyOwns
  <2>6. TrustedIn(key, pass', n, m)
    <3>1. TrustedIn(key, pass, ps.epoch, ps.projected)
      BY <1>1, <1>9 DEF KeyIs
    <3> QED
      BY <1>3, <2>5, <3>1, TrustKept
  <2> QED
    BY <1>1, <1>9, <2>1, <2>3, <2>4, <2>6 DEF KeyIs
<1> QED
  BY <1>6, <1>7, <1>8, <1>9

\* _finish by the pass that the row belongs to: it publishes its seq, or holds it back.
LEMMA FinishKey ==
  ASSUME TypeOK, EvictInv, SeqInv, TurnInv, KeyInv, NEW p \in Passes, Finish(p),
         ps.epoch = pass[p].mine
  PROVE  KeyInv'
<1>1. KeyIs(key, saved, ps, evictor, pass, stray)
  BY KeyIsNow
<1>2. /\ pass[p].pc \in {"done", "failed"} /\ Steps(p, "idle") /\ pass'[p].pc = "idle"
      /\ ps'.epoch = ps.epoch
      /\ ps'.projected = (IF pass[p].pc = "done" THEN pass[p].to ELSE ps.projected)
      /\ UNCHANGED <<main, key, saved, evictor, stray>>
  BY FinishEffect DEF Steps
<1>3. Owns(pass, ps.epoch, p) /\ Runs(pass) /\ Claimed(p)
  BY <1>2 DEF Owns, Runs, Claimed
<1>4. \A q \in Passes : /\ q # p => pass'[q] = pass[q]
                        /\ ~Owns(pass', ps.epoch, q)
  BY <1>2, <1>3, PassFacts DEF Steps, Owns
<1>5. \A e \in Entities : SparedIn(pass', ps.epoch, e) => SparedIn(pass, ps.epoch, e)
  BY <1>3, <1>4 DEF SparedIn, Overtaken, Owns
<1>6. evictor.pc # "check"
  <2>1. evictor.pc = "check" => ps.status \in Out
    BY DEF EvictInv, Out
  <2> QED
    BY <1>3, <2>1, Numbers DEF EvictInv, OutInv, Owns
<1>7. ASSUME stray # "lost"
      PROVE  TrustedIn(key, pass', ps.epoch, ps'.projected)
  <2>1. CASE pass[p].pc = "done"
    <3>1. BroughtIn(key, pass, ps.epoch, p) /\ pass[p].todo = {}
      BY <1>1, <1>3, <1>7, <2>1 DEF KeyIs, SeqInv
    <3> QED
      BY <1>2, <1>5, <2>1, <3>1 DEF BroughtIn, TrustedIn
  <2>2. CASE pass[p].pc = "failed"
    <3>1. TrustedIn(key, pass, ps.epoch, ps.projected) /\ ps'.projected = ps.projected
      BY <1>1, <1>2, <1>7, <2>2 DEF KeyIs
    <3> QED
      BY <1>3, <1>5, <3>1, TrustKept
  <2> QED
    BY <1>2, <2>1, <2>2
<1>8. KeyIs(key, saved, ps', evictor, pass', stray)
  BY <1>1, <1>2, <1>4, <1>6, <1>7 DEF KeyIs
<1> QED
  BY <1>2, <1>8, KeyIsNext

LEMMA PassKey ==
  ASSUME TypeOK, Calm, EvictInv, SeqInv, TurnInv, KeyInv, NEW p \in Passes, PassNext(p)
  PROVE  KeyInv'
<1>0. EpochInv
  BY DEF EvictInv
<1>1. CASE QueueFirstSeed(p) /\ pass'[p].pc = "idle"
  <2>1. Leaves(p) /\ Lowers /\ ~Claimed(p) /\ stray' = stray
    BY <1>1, QueueEffect DEF Leaves, Lowers, Steps, Claimed
  <2> QED
    BY <2>1, LeavesKey
<1>2. CASE Claim(p)
  <2>1. CASE pass'[p].pc # "plan"
    <3>1. /\ Leaves(p) /\ ps' = ps /\ stray' = stray /\ ~Overtaken(pass, ps.epoch, p)
      BY <1>2, <2>1, ClaimEffect DEF Leaves, Steps, Overtaken
    <3> QED
      BY <3>1, LeavesKey
  <2> QED
    BY <1>0, <1>2, <2>1, ClaimKey
<1>3. CASE YieldSuperseded(p)
  <2>1. Leaves(p) /\ stray' = stray
    BY <1>3, YieldEffect DEF Leaves
  <2>2. pass[p].from # 1 /\ ps.projected # 1
    BY <1>3, YieldEffect DEF SeqInv
  <2>3. Lowers /\ ps'.projected <= pass[p].from
    BY <1>3, <2>2, YieldEffect, Numbers DEF Lowers
  <2> QED
    BY <2>1, <2>3, LeavesKey
<1>4. CASE Crash(p)
  <2>1. /\ Leaves(p) /\ ps' = ps
        /\ stray' = IF Superseded(p) /\ lock # p THEN "lost" ELSE stray
    BY <1>4, CrashEffect DEF Leaves
  <2>2. Superseded(p) <=> Overtaken(pass, ps.epoch, p)
    BY DEF Superseded, Overtaken
  <2>3. Superseded(p) => Claimed(p)
    BY DEF Superseded, Claimed
  <2> QED
    BY <2>1, <2>2, <2>3, LeavesKey
<1>5. CASE LoseLock(p)
  <2>1. UNCHANGED <<main, ps, key, saved, pass, evictor, stray>>
    BY <1>5 DEF LoseLock
  <2> QED
    BY <2>1, KeyIsNow, KeyIsNext
<1> QED
  BY <1>1, <1>2, <1>3, <1>4, <1>5, BeginKey, PlanKey, WriteKey, VerifyKey, MarkKey, FinishKey, FailKey
     DEF PassNext, PassStep

-----------------------------------------------------------------------------
(* The key when main moves on                                              *)

\* The commit that is added leaves e alone.
Unmentioned(e) == main'[MainHead + 1][e] = "keep"
StillThen(n, e) == n > 0 /\ \A m \in n + 1 .. MainHead' : main'[m][e] = "keep"

LEMMA StillPublished ==
  ASSUME TypeOK, NEW x \in Entities, Publish(x), NEW n \in Nat, n <= MainHead, NEW e \in Entities
  PROVE  StillThen(n, e) <=> Still(n, e) /\ Unmentioned(e)
<1>1. /\ MainHead' = MainHead + 1 /\ MainHead \in Nat
      /\ \A m \in 1 .. MainHead : main'[m] = main[m]
  BY PublishEffect, Heads DEF MainHead
<1>2. \A m : m \in n + 1 .. MainHead' <=> m \in n + 1 .. MainHead \/ m = MainHead + 1
  BY <1>1
<1>3. \A m \in n + 1 .. MainHead : main'[m] = main[m]
  BY <1>1
<1> QED
  BY <1>2, <1>3 DEF StillThen, Still, Unmentioned

LEMMA AtPublished ==
  ASSUME TypeOK, NEW x \in Entities, Publish(x), NEW e \in Entities, Unmentioned(e)
  PROVE  At(MainHead)'[e] = At(MainHead)[e]
<1>1. /\ MainHead' = MainHead + 1 /\ MainHead \in Nat
      /\ \A m \in 1 .. MainHead : main'[m] = main[m]
  BY PublishEffect, Heads DEF MainHead
<1>2. PICK T \in SUBSET (0 .. MainHead) : T = Touched(MainHead, e)
  <2>1. Touched(MainHead, e) \in SUBSET (0 .. MainHead)
    BY <1>1 DEF Touched
  <2> QED
    BY <2>1
<1>3. {m \in 1 .. MainHead' : main'[m][e] # "keep"} = T
  BY <1>1, <1>2 DEF Unmentioned, Touched
<1>4. At(MainHead)'[e] = IF T = {} \/ main'[Max(T)][e] = "gone" THEN 0 ELSE Max(T)
  BY <1>3 DEF At
<1>5. At(MainHead)[e] = IF T = {} \/ main[Max(T)][e] = "gone" THEN 0 ELSE Max(T)
  BY <1>2, AtIs
<1>6. CASE T = {}
  BY <1>4, <1>5, <1>6
<1>7. CASE T # {}
  <2>1. Max(T) \in T
    BY <1>1, <1>7, MaxIn
  <2>2. main'[Max(T)] = main[Max(T)]
    BY <1>1, <1>2, <2>1 DEF Touched
  <2> QED
    BY <1>4, <1>5, <2>2
<1> QED
  BY <1>6, <1>7

LEMMA PublishKey ==
  ASSUME TypeOK, SeqInv, KeyInv, NEW x \in Entities, Publish(x)
  PROVE  KeyInv'
<1>1. UNCHANGED <<ps, key, saved, pass, evictor, stray>>
  BY PublishEffect
<1>2. /\ key.marker \in Nat /\ key.marker <= MainHead /\ saved.marker \in Nat
      /\ saved.marker <= MainHead /\ ps.projected \in Nat /\ ps.projected <= MainHead
      /\ evictor.projected \in Nat /\ evictor.projected <= MainHead
      /\ \A p \in Passes : /\ pass[p].from \in Nat /\ pass[p].to \in Nat
                           /\ pass[p].from <= MainHead /\ pass[p].to <= MainHead
  BY Numbers DEF SeqInv
<1>3. \A e \in Entities :
        /\ Still(key.marker, e)' <=> Still(key.marker, e) /\ Unmentioned(e)
        /\ Still(saved.marker, e)' <=> Still(saved.marker, e) /\ Unmentioned(e)
        /\ Still(ps.projected, e)' <=> Still(ps.projected, e) /\ Unmentioned(e)
        /\ Still(evictor.projected, e)' <=> Still(evictor.projected, e) /\ Unmentioned(e)
  <2>1. \A e \in Entities :
          /\ Still(key.marker, e)' <=> StillThen(key.marker, e)
          /\ Still(saved.marker, e)' <=> StillThen(saved.marker, e)
          /\ Still(ps.projected, e)' <=> StillThen(ps.projected, e)
          /\ Still(evictor.projected, e)' <=> StillThen(evictor.projected, e)
    BY <1>1 DEF Still, StillThen
  <2> QED
    BY <1>2, <2>1, StillPublished
<1>4. ASSUME NEW p \in Passes, NEW e \in Entities
      PROVE  /\ Still(pass[p].from, e)' <=> Still(pass[p].from, e) /\ Unmentioned(e)
             /\ Still(pass[p].to, e)' <=> Still(pass[p].to, e) /\ Unmentioned(e)
  <2>1. /\ Still(pass[p].from, e)' <=> StillThen(pass[p].from, e)
        /\ Still(pass[p].to, e)' <=> StillThen(pass[p].to, e)
    BY <1>1 DEF Still, StillThen
  <2> QED
    BY <1>2, <2>1, StillPublished
<1>5. \A p \in Passes : (Superseded(p)' <=> Superseded(p)) /\ (Current(p)' <=> Current(p))
  BY <1>1 DEF Superseded, Current, Claimed
<1>6. ASSUME NEW e \in Entities, Unmentioned(e)
      PROVE  /\ Right(e)' <=> Right(e)
             /\ saved'.holds[e] = At(MainHead)'[e] <=> saved.holds[e] = At(MainHead)[e]
             /\ Spared(e)' <=> Spared(e)
  <2>1. Spared(e)' <=> Spared(e)
    BY <1>4, <1>5, <1>6 DEF Spared
  <2>2. Right(e)' <=> Right(e)
    BY <1>1, <1>6, AtPublished DEF Right
  <2> QED
    BY <1>1, <1>6, <2>1, <2>2, AtPublished
<1>7. stray = "no" => (\A e \in Entities : Still(key.marker, e) => Right(e))'
  BY <1>3, <1>6 DEF KeyInv
<1>8. stray # "lost" =>
        (\A e \in Entities : Still(saved.marker, e) => saved.holds[e] = At(MainHead)[e])'
  BY <1>3, <1>6 DEF KeyInv
<1>9. TrustedTo(ps.projected) => TrustedTo(ps.projected)'
  BY <1>1, <1>3, <1>6 DEF TrustedTo
<1>10. TrustedTo(evictor.projected) => TrustedTo(evictor.projected)'
  BY <1>1, <1>3, <1>6 DEF TrustedTo
<1>11. ASSUME NEW p \in Passes, Brought(p)
       PROVE  Brought(p)'
  BY <1>1, <1>3, <1>4, <1>6, <1>11 DEF Brought
<1> QED
  BY <1>1, <1>5, <1>7, <1>8, <1>9, <1>10, <1>11 DEF KeyInv

-----------------------------------------------------------------------------
(* Reads of main                                                           *)

LEMMA InitKey == Init => KeyInv
<1> SUFFICES ASSUME Init PROVE KeyInv
  OBVIOUS
<1>1. TypeOK /\ MainHead = 2 /\ MainHead \in Nat
  BY InitTypes DEF Init, MainHead
<1>2. /\ key.marker = 2 /\ saved.marker = 0 /\ ps.projected = 2 /\ evictor.pc = "idle"
      /\ \A e \in Entities : key.holds[e] = 2
  BY DEF Init, Gone, NoEvict
<1>3. \A p \in Passes : pass[p].pc = "idle"
  BY DEF Init, NoPass
<1>4. ASSUME NEW e \in Entities
      PROVE  Right(e)
  <2>1. main[1][e] = "keep" /\ main[2][e] = "put"
    BY DEF Init, Kept
  <2>2. Touched(2, e) = {2}
    BY <2>1 DEF Touched
  <2>3. Max({2}) = 2
    <3>1. 2 \in Nat /\ {2} \in SUBSET (0 .. 2) /\ {2} # {}
      OBVIOUS
    <3>2. Max({2}) \in {2}
      BY <3>1, MaxIn
    <3> QED
      BY <3>2
  <2>4. At(2)[e] = 2
    BY <2>1, <2>2, <2>3, AtIs
  <2> QED
    BY <1>1, <1>2, <2>4 DEF Right
<1>5. \A e \in Entities : ~Still(saved.marker, e)
  BY <1>2, StillNever
<1>6. TrustedTo(ps.projected)
  BY <1>2, <1>3, <1>4 DEF TrustedTo
<1> QED
  BY <1>2, <1>3, <1>4, <1>5, <1>6 DEF KeyInv, Current, Claimed

LEMMA InitServe == Init => ServeInv
  BY InitEvict, InitTurn, InitKey DEF ServeInv

LEMMA StepServe ==
  ASSUME TypeOK, Calm, ServeInv, [Next]_vars
  PROVE  ServeInv'
<1>1. MainHead > 1 /\ EvictInv /\ SeqInv /\ TurnInv /\ KeyInv
  BY DEF ServeInv
<1>2. EvictInv' /\ MainHead' > 1 /\ SeqInv' /\ TurnInv'
  BY <1>1, StepEvict, StepTurn
<1>3. KeyInv'
  <2>1. CASE UNCHANGED vars \/ \E r \in Readers : ReadNext(r)
    <3>1. UNCHANGED <<main, ps, key, saved, pass, evictor, stray>>
      BY <2>1, ReadEffect DEF vars
    <3> QED
      BY <1>1, <3>1, KeyIsNow, KeyIsNext
  <2> QED
    BY <1>1, <2>1, NextIs, PublishKey, PassKey, RowsKey
<1> QED
  BY <1>2, <1>3 DEF ServeInv

LEMMA ServeMeans ==
  ASSUME TypeOK, ServeInv
  PROVE  ServesMain
<1> SUFFICES ASSUME ServesHead, ~Amiss, \A p \in Passes : ~Superseded(p), stray # "lost"
             PROVE  key.holds = At(MainHead)
  BY DEF ServesMain
<1>1. MainHead > 1 /\ SeqInv /\ KeyInv
  BY DEF ServeInv
<1>2. ps.projected = MainHead /\ MainHead \in Nat
  BY Numbers DEF ServesHead
<1>3. key.marker = MainHead
  BY <1>1, <1>2, Numbers DEF Amiss, SeqInv
<1>4. \A e \in Entities : Still(MainHead, e)
  BY <1>1, <1>2 DEF Still
<1>5. \A e \in Entities : Spared(e)
  BY DEF Spared
<1>6. \A e \in Entities : Right(e)
  BY <1>1, <1>2, <1>3, <1>4, <1>5 DEF KeyInv, TrustedTo
<1>7. key.holds \in [Entities -> Seqs] /\ At(MainHead) \in [Entities -> Seqs]
  BY <1>2, RowFields, AtSeqs
<1> QED
  BY <1>6, <1>7 DEF Right

(***************************************************************************)
(* Where FalkorDB loses writes only between passes, reads of main that the *)
(* row sends to FalkorDB find main's head there, entity by entity          *)
(* (serves_head in projection.py), outside the windows that the property   *)
(* names: however passes overtake each other, lose their lock, fail or     *)
(* die, and whatever is published, rebuilt, reset, evicted and loaded      *)
(* between any two of their steps.                                         *)
(***************************************************************************)
THEOREM ReadsFindMain ==
  ASSUME Calm
  PROVE  Spec => []ServesMain
<1>1. TypeOK /\ ServeInv /\ [Next]_vars => TypeOK' /\ ServeInv'
  BY StepTypes, StepServe
<1>2. TypeOK /\ ServeInv => ServesMain
  BY ServeMeans
<1> QED
  BY <1>1, <1>2, InitTypes, InitServe, PTL DEF Spec
=============================================================================
