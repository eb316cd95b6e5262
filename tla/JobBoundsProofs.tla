-------------------------- MODULE JobBoundsProofs --------------------------
(***************************************************************************)
(* Two more properties of the lane, for every value of the constants, on   *)
(* top of the inductive invariant of JobLeaseProofs: a job whose workers   *)
(* keep dying is claimed a bounded number of times (PoisonBounded), and    *)
(* the file a completed export names stays whole (ResultIntact).           *)
(***************************************************************************)
EXTENDS JobLeaseProofs

-----------------------------------------------------------------------------
(* What a step does to the slots                                           *)

\* A slot busy afterwards is on the job it was on, and has been told to stop only by a stop.
DrainsStay ==
  \A w \in Slots : lease'[w].pc # "idle" =>
    /\ lease[w].pc # "idle"
    /\ lease'[w].job = lease[w].job /\ lease'[w].epoch = lease[w].epoch
    /\ lease'[w].drain => lease[w].drain \/ stops' = stops + 1

LEMMA LeaseRow ==
  ASSUME Inv, NEW w \in Slots, Busy(w), NEW q, lease' = [lease EXCEPT ![w] = q],
         \/ q = Idle
         \/ /\ q.job = lease[w].job /\ q.epoch = lease[w].epoch
            /\ q.drain => lease[w].drain \/ stops' = stops + 1
  PROVE  DrainsStay
<1>1. lease \in [Slots -> Lease]
  BY DEF Inv, TypeOK
<1>2. lease'[w] = q /\ \A v \in Slots : v # w => lease'[v] = lease[v]
  BY <1>1
<1> QED
  BY <1>2, IdleType DEF DrainsStay, Busy

LEMMA SlotDrains ==
  ASSUME Inv, NEW w \in Slots, Renew(w) \/ Progress(w) \/ Work(w) \/ Mishap(w)
  PROVE  DrainsStay /\ stops' \in {stops, stops + 1}
<1>1. Busy(w)
  BY DEF Renew, Progress, Work, Mishap, Busy, Begin, NextBatch, CommitLands, CommitRefused,
     OpenFile, StoreFile, Finish, Fail, Quiet, Release, CommitInDoubt, Fault, Raise, Stop, Crash
<1>2. PICK l \in Lease : l = lease[w]
  BY <1>1, BusyFacts
<1>3. stops' \in {stops, stops + 1}
  BY DEF Renew, Progress, Work, Mishap, Begin, NextBatch, CommitLands, CommitRefused,
     OpenFile, StoreFile, Finish, Fail, Quiet, Release, CommitInDoubt, Fault, Raise, Stop, Crash
<1> SUFFICES DrainsStay
  BY <1>3
<1>4. CASE lease' = lease
  BY <1>4 DEF DrainsStay
<1>5. CASE Drop(w)
  BY <1>1, <1>5, LeaseRow DEF Drop
<1>6. CASE Renew(w)
  <2>1. PICK q : q = [l EXCEPT !.lost = TRUE]
    OBVIOUS
  <2>2. q.job = l.job /\ q.epoch = l.epoch /\ q.drain = l.drain
    BY <2>1 DEF Lease
  <2>3. lease' = lease \/ lease' = [lease EXCEPT ![w] = q]
    BY <1>2, <1>6, <2>1 DEF Renew
  <2> QED
    BY <1>1, <1>2, <1>4, <2>2, <2>3, LeaseRow
<1>7. CASE Progress(w)
  BY <1>4, <1>5, <1>7 DEF Progress
<1>8. CASE Begin(w)
  <2>1. PICK q : q = [l EXCEPT !.cur = row[l.job].cursor, !.pc = StageOf(row[l.job].cursor)]
    OBVIOUS
  <2>2. q.job = l.job /\ q.epoch = l.epoch /\ q.drain = l.drain
    BY <2>1 DEF Lease
  <2>3. \/ lease' = [lease EXCEPT ![w] = q]
        \/ lease' = [lease EXCEPT ![w] = Idle]
    BY <1>2, <1>8, <2>1 DEF Begin
  <2> QED
    BY <1>1, <1>2, <2>2, <2>3, LeaseRow
<1>9. CASE \E p \in PCs : lease' = [lease EXCEPT ![w].pc = p]
  <2>1. PICK p \in PCs : lease' = [lease EXCEPT ![w].pc = p]
    BY <1>9
  <2>2. PICK q : q = [l EXCEPT !.pc = p]
    OBVIOUS
  <2>3. q.job = l.job /\ q.epoch = l.epoch /\ q.drain = l.drain
    BY <2>2 DEF Lease
  <2>4. lease' = [lease EXCEPT ![w] = q]
    BY <1>2, <2>1, <2>2
  <2> QED
    BY <1>1, <1>2, <2>3, <2>4, LeaseRow
<1>10. CASE NextBatch(w) \/ OpenFile(w) \/ StoreFile(w) \/ Raise(w)
  BY <1>9, <1>10 DEF NextBatch, OpenFile, StoreFile, Raise, PCs
<1>11. CASE CommitLands(w)
  <2>1. PICK p : p = IF l.cur + 1 < Batches THEN "next"
                     ELSE IF l.cur + 1 = Batches THEN "work" ELSE "ready"
    OBVIOUS
  <2>2. PICK n : n = IF l.cur + 1 <= Batches THEN l.tries ELSE 0
    OBVIOUS
  <2>3. PICK u : u = l.cur + 1
    OBVIOUS
  <2>4. PICK q : q = [l EXCEPT !.cur = u, !.pc = p, !.tries = n]
    OBVIOUS
  <2>5. q.job = l.job /\ q.epoch = l.epoch /\ q.drain = l.drain
    BY <2>4 DEF Lease
  <2>6. lease' = [lease EXCEPT ![w] = q]
    BY <1>2, <1>11, <2>1, <2>2, <2>3, <2>4 DEF CommitLands
  <2> QED
    BY <1>1, <1>2, <2>5, <2>6, LeaseRow
<1>12. CASE CommitInDoubt(w) \/ Fault(w)
  <2>1. PICK n : n = l.tries + 1
    OBVIOUS
  <2>2. PICK q : q = [l EXCEPT !.pc = "ready", !.tries = n]
    OBVIOUS
  <2>3. PICK t : t = [l EXCEPT !.pc = "error"]
    OBVIOUS
  <2>4. /\ q.job = l.job /\ q.epoch = l.epoch /\ q.drain = l.drain
        /\ t.job = l.job /\ t.epoch = l.epoch /\ t.drain = l.drain
    BY <2>2, <2>3 DEF Lease
  <2>5. lease' = [lease EXCEPT ![w] = q] \/ lease' = [lease EXCEPT ![w] = t]
    BY <1>2, <1>12, <2>1, <2>2, <2>3 DEF CommitInDoubt, Fault
  <2> QED
    BY <1>1, <1>2, <2>4, <2>5, LeaseRow
<1>13. CASE Stop(w)
  <2>1. PICK q : q = [l EXCEPT !.drain = TRUE]
    OBVIOUS
  <2>2. q.job = l.job /\ q.epoch = l.epoch
    BY <2>1 DEF Lease
  <2>3. lease' = [lease EXCEPT ![w] = q] /\ stops' = stops + 1
    BY <1>2, <1>13, <2>1 DEF Stop
  <2> QED
    BY <1>1, <1>2, <2>2, <2>3, LeaseRow
<1>14. CASE CommitRefused(w) \/ Finish(w) \/ Fail(w) \/ Quiet(w) \/ Release(w) \/ Crash(w)
  BY <1>5, <1>14 DEF CommitRefused, Finish, Fail, Quiet, Release, Crash
<1> QED
  BY <1>6, <1>7, <1>8, <1>10, <1>11, <1>12, <1>13, <1>14 DEF Work, Mishap

-----------------------------------------------------------------------------
(* What a step does to a job's claims                                      *)

\* What ClaimsInv reads of the row of job j becomes s, e, t, x.
Becomes(j, s, e, t, x) ==
  row'[j].status = s /\ row'[j].epoch = e /\ row'[j].takeovers = t /\ row'[j].error = x

RowKept(j) == Becomes(j, row[j].status, row[j].epoch, row[j].takeovers, row[j].error)

\* A job is as it was, is claimed, ends, is handed back by an owner told to stop, is created,
\* or is retried by a person.
ClaimsMove(j) ==
  \/ /\ RowKept(j) /\ requeues'[j] = requeues[j]
     /\ row[j].status = "running" /\ Draining(j)' => Draining(j) \/ stops' = stops + 1
  \/ /\ requeues'[j] = requeues[j]
     /\ \/ \E t \in Nat : /\ Active(j) /\ ~Draining(j)' /\ t <= MaxRetries
                          /\ t = row[j].takeovers + IF row[j].status = "running" THEN 1 ELSE 0
                          /\ Becomes(j, "running", row[j].epoch + 1, t, "none")
        \/ Active(j) /\ \E s \in {"completed", "failed", "cancelled"} :
             Becomes(j, s, row[j].epoch, row[j].takeovers, row'[j].error)
        \/ Active(j) /\ Becomes(j, "failed", row[j].epoch, row'[j].takeovers, "poison")
        \/ /\ row[j].status = "running" /\ Draining(j)
           /\ Becomes(j, "pending", row[j].epoch, row[j].takeovers, row[j].error)
        \/ /\ row[j].status = "absent"
           /\ Becomes(j, "pending", row[j].epoch, row[j].takeovers, row[j].error)
  \/ /\ requeues'[j] = requeues[j] + 1 /\ row[j].status = "failed"
     /\ \/ /\ row[j].error = "never_queued"
           /\ Becomes(j, "pending", row[j].epoch, row[j].takeovers, "none")
        \/ Becomes(j, "pending", row[j].epoch, 0, "none")

LEMMA GrantedMore ==
  ASSUME NEW q \in Nat, NEW m \in Nat
  PROVE  /\ q * (m + 1) \in Nat
         /\ (q + 1) * (m + 1) = q * (m + 1) + m + 1
  OBVIOUS

LEMMA ClaimsKept ==
  ASSUME Inv, Inv', ClaimsInv, stops' \in {stops, stops + 1}, \A j \in Jobs : ClaimsMove(j)
  PROVE  ClaimsInv'
<1> SUFFICES ASSUME NEW j \in Jobs
             PROVE  LET r == row'[j]
                        granted == requeues'[j] * (MaxRetries + 1) IN
                    /\ r.status \in {"absent", "pending"} => r.epoch <= granted + r.takeovers + stops'
                    /\ r.status = "running" =>
                         /\ r.epoch <= granted + r.takeovers + stops' + 1
                         /\ Draining(j)' => r.epoch <= granted + r.takeovers + stops'
                    /\ Ended(j)' => r.epoch <= granted + MaxRetries + 1 + stops'
                    /\ r.status # "failed" \/ r.error = "never_queued" => r.takeovers <= MaxRetries
  BY DEF ClaimsInv
<1>1. /\ MaxRetries \in Nat /\ stops \in Nat /\ requeues[j] \in Nat
      /\ row[j].epoch \in Nat /\ row[j].takeovers \in Nat /\ row'[j].takeovers \in Nat
  BY JobLeaseAssumption, RowFields DEF Inv, TypeOK
<1>2. PICK g \in Nat : g = requeues[j] * (MaxRetries + 1)
  BY <1>1, GrantedMore
<1>3. \/ requeues'[j] = requeues[j] /\ requeues'[j] * (MaxRetries + 1) = g
      \/ requeues'[j] = requeues[j] + 1 /\ requeues'[j] * (MaxRetries + 1) = g + MaxRetries + 1
  BY <1>1, <1>2, GrantedMore DEF ClaimsMove
<1>4. /\ row[j].status \in {"absent", "pending"} => row[j].epoch <= g + row[j].takeovers + stops
      /\ row[j].status = "running" =>
           /\ row[j].epoch <= g + row[j].takeovers + stops + 1
           /\ Draining(j) => row[j].epoch <= g + row[j].takeovers + stops
      /\ Ended(j) => row[j].epoch <= g + MaxRetries + 1 + stops
      /\ row[j].status # "failed" \/ row[j].error = "never_queued" => row[j].takeovers <= MaxRetries
  BY <1>2 DEF ClaimsInv
<1>5. CASE requeues'[j] = requeues[j] /\ RowKept(j)
          /\ (row[j].status = "running" /\ Draining(j)' => Draining(j) \/ stops' = stops + 1)
  BY <1>1, <1>3, <1>4, <1>5 DEF RowKept, Becomes, Ended
<1>6. ASSUME requeues'[j] = requeues[j], NEW t \in Nat, Active(j), ~Draining(j)', t <= MaxRetries,
             t = row[j].takeovers + IF row[j].status = "running" THEN 1 ELSE 0,
             Becomes(j, "running", row[j].epoch + 1, t, "none")
      PROVE  /\ row'[j].epoch <= g + row'[j].takeovers + stops' + 1 /\ ~Draining(j)'
             /\ row'[j].status = "running" /\ ~Ended(j)' /\ row'[j].takeovers <= MaxRetries
  BY <1>1, <1>4, <1>6 DEF Becomes, Active, Ended
<1>7. ASSUME requeues'[j] = requeues[j], Active(j), NEW s \in {"completed", "failed", "cancelled"},
             \/ Becomes(j, s, row[j].epoch, row[j].takeovers, row'[j].error)
             \/ Becomes(j, "failed", row[j].epoch, row'[j].takeovers, "poison")
      PROVE  /\ row'[j].epoch <= g + MaxRetries + 1 + stops'
             /\ row'[j].status \in {"completed", "failed", "cancelled"}
             /\ row'[j].status # "failed" \/ row'[j].error = "never_queued" =>
                  row'[j].takeovers <= MaxRetries
  BY <1>1, <1>4, <1>7 DEF Becomes, Active
<1>8. CASE /\ requeues'[j] = requeues[j]
           /\ \/ row[j].status = "running" /\ Draining(j)
              \/ row[j].status = "absent"
           /\ Becomes(j, "pending", row[j].epoch, row[j].takeovers, row[j].error)
  BY <1>1, <1>3, <1>4, <1>8 DEF Becomes, Ended
<1>9. CASE /\ requeues'[j] = requeues[j] + 1 /\ row[j].status = "failed"
           /\ row[j].error = "never_queued"
           /\ Becomes(j, "pending", row[j].epoch, row[j].takeovers, "none")
  BY <1>1, <1>3, <1>4, <1>9 DEF Becomes, Ended
<1>10. CASE /\ requeues'[j] = requeues[j] + 1 /\ row[j].status = "failed"
            /\ Becomes(j, "pending", row[j].epoch, 0, "none")
  BY <1>1, <1>3, <1>4, <1>10 DEF Becomes, Ended
<1>11. CASE requeues'[j] = requeues[j] /\ row'[j].status = "running" /\ ~Ended(j)'
            /\ ~Draining(j)' /\ row'[j].epoch <= g + row'[j].takeovers + stops' + 1
            /\ row'[j].takeovers <= MaxRetries
  BY <1>1, <1>3, <1>11
<1>12. CASE /\ requeues'[j] = requeues[j]
            /\ row'[j].epoch <= g + MaxRetries + 1 + stops'
            /\ row'[j].status \in {"completed", "failed", "cancelled"}
            /\ row'[j].status # "failed" \/ row'[j].error = "never_queued" =>
                  row'[j].takeovers <= MaxRetries
  BY <1>1, <1>3, <1>12
<1> QED
  BY <1>5, <1>6, <1>7, <1>8, <1>9, <1>10, <1>11, <1>12 DEF ClaimsMove

-----------------------------------------------------------------------------
(* Every action is such a step                                             *)

LEMMA DrainingStays ==
  ASSUME DrainsStay, NEW j \in Jobs, row'[j].epoch = row[j].epoch, Draining(j)'
  PROVE  Draining(j) \/ stops' = stops + 1
  BY DEF DrainsStay, Draining, Busy

LEMMA KeptMoves ==
  ASSUME DrainsStay, NEW j \in Jobs, RowKept(j), requeues'[j] = requeues[j]
  PROVE  ClaimsMove(j)
<1>1. Draining(j)' => Draining(j) \/ stops' = stops + 1
  BY DrainingStays DEF RowKept, Becomes
<1> QED
  BY <1>1 DEF ClaimsMove

\* One row is written, its job's claims moving so.
LEMMA OneRowMoves ==
  ASSUME Inv, DrainsStay, UNCHANGED requeues, NEW i \in Jobs, NEW q, row' = [row EXCEPT ![i] = q],
         row'[i] = q => ClaimsMove(i)
  PROVE  \A j \in Jobs : ClaimsMove(j)
<1>1. row'[i] = q /\ \A j \in Jobs : j # i => row'[j] = row[j]
  BY DEF Inv, TypeOK
<1>2. ASSUME NEW j \in Jobs, j # i PROVE ClaimsMove(j)
  <2>1. RowKept(j)
    BY <1>1, <1>2 DEF RowKept, Becomes
  <2> QED
    BY <2>1, KeptMoves
<1> QED
  BY <1>1, <1>2

LEMMA SameRows ==
  ASSUME DrainsStay, UNCHANGED <<row, requeues>>
  PROVE  \A j \in Jobs : ClaimsMove(j)
<1>1. \A j \in Jobs : RowKept(j)
  BY DEF RowKept, Becomes
<1> QED
  BY <1>1, KeptMoves

LEMMA LandMoves ==
  ASSUME Inv, DrainsStay, UNCHANGED requeues, NEW i \in Jobs, NEW u \in Units, Land(i, u)
  PROVE  \A j \in Jobs : ClaimsMove(j)
<1>1. PICK r \in Row : r = row[i]
  BY DEF Inv, TypeOK
<1>2. PICK q : q = [r EXCEPT !.cursor = u, !.phase = "work"]
  OBVIOUS
<1>3. q.status = r.status /\ q.epoch = r.epoch /\ q.takeovers = r.takeovers /\ q.error = r.error
  BY <1>2 DEF Row
<1>4. row' = [row EXCEPT ![i] = q]
  BY <1>1, <1>2 DEF Land, Write
<1>5. row'[i] = q => ClaimsMove(i)
  BY <1>1, <1>3, KeptMoves DEF RowKept, Becomes
<1> QED
  BY <1>4, <1>5, OneRowMoves

\* The fenced end of a lease: finish, fail or release.
LEMMA SettleMoves ==
  ASSUME Inv, DrainsStay, NEW w \in Slots, Finish(w) \/ Fail(w) \/ Release(w)
  PROVE  \A j \in Jobs : ClaimsMove(j)
<1>1. Busy(w) /\ UNCHANGED requeues
  BY DEF Finish, Fail, Release, Busy
<1>2. PICK i \in Jobs : i = lease[w].job
  BY <1>1, BusyFacts
<1>3. PICK r \in Row : r = row[i]
  BY DEF Inv, TypeOK
<1>4. CASE ~Fenced(w)
  <2>1. row' = row
    BY <1>4 DEF Finish, Fail, Release
  <2> QED
    BY <1>1, <2>1, SameRows
<1>5. CASE Fenced(w) /\ Finish(w)
  <2>1. PICK k : k = IF i \in Exports THEN EpochKey(lease[w].epoch) ELSE 0
    OBVIOUS
  <2>2. PICK q : q = [r EXCEPT !.status = "completed", !.result = k]
    OBVIOUS
  <2>3. q.status = "completed" /\ q.epoch = r.epoch /\ q.takeovers = r.takeovers
    BY <2>2 DEF Row
  <2>4. row' = [row EXCEPT ![i] = q] /\ Active(i)
    BY <1>2, <1>3, <1>5, <2>1, <2>2 DEF Finish, Write, Fenced, Active
  <2>5. row'[i] = q => ClaimsMove(i)
    BY <1>1, <1>3, <2>3, <2>4 DEF ClaimsMove, Becomes
  <2> QED
    BY <1>1, <2>4, <2>5, OneRowMoves
<1>6. CASE Fenced(w) /\ Fail(w)
  <2>1. PICK q : q = [r EXCEPT !.status = "failed", !.error = "raised"]
    OBVIOUS
  <2>2. q.status = "failed" /\ q.epoch = r.epoch /\ q.takeovers = r.takeovers
    BY <2>1 DEF Row
  <2>3. row' = [row EXCEPT ![i] = q] /\ Active(i)
    BY <1>2, <1>3, <1>6, <2>1 DEF Fail, Write, Fenced, Active
  <2>4. row'[i] = q => ClaimsMove(i)
    BY <1>1, <1>3, <2>2, <2>3 DEF ClaimsMove, Becomes
  <2> QED
    BY <1>1, <2>3, <2>4, OneRowMoves
<1>7. CASE Fenced(w) /\ Release(w)
  <2>1. PICK q : q = [r EXCEPT !.status = "pending", !.phase = "queued"]
    OBVIOUS
  <2>2. q.status = "pending" /\ q.epoch = r.epoch /\ q.takeovers = r.takeovers /\ q.error = r.error
    BY <2>1 DEF Row
  <2>3. row' = [row EXCEPT ![i] = q] /\ row[i].status = "running"
    BY <1>2, <1>3, <1>7, <2>1 DEF Release, Released, Write, Fenced
  <2>4. Draining(i)
    BY <1>1, <1>2, <1>7 DEF Draining, Release, Fenced
  <2>5. row'[i] = q => ClaimsMove(i)
    BY <1>1, <1>3, <2>2, <2>3, <2>4 DEF ClaimsMove, Becomes
  <2> QED
    BY <1>1, <2>3, <2>5, OneRowMoves
<1> QED
  BY <1>4, <1>5, <1>6, <1>7

LEMMA SlotMoves ==
  ASSUME Inv, NEW w \in Slots, Renew(w) \/ Progress(w) \/ Work(w) \/ Mishap(w)
  PROVE  (\A j \in Jobs : ClaimsMove(j)) /\ stops' \in {stops, stops + 1}
<1>1. DrainsStay /\ stops' \in {stops, stops + 1}
  BY SlotDrains
<1>2. CASE CommitLands(w)
  <2>1. /\ Busy(w) /\ lease[w].pc = "work" /\ lease[w].job \in Imports /\ UNCHANGED requeues
        /\ Land(lease[w].job, lease[w].cur + 1)
    BY <1>2 DEF CommitLands, Busy
  <2>2. lease[w].cur < Last /\ lease[w].cur \in 0 .. Last /\ lease[w].job \in Jobs
    BY <2>1, BusyFacts DEF Inv, LeaseInv, CursorInv
  <2>3. lease[w].cur + 1 \in Units
    BY <2>2, CursorFacts DEF Units
  <2> QED
    BY <1>1, <2>1, <2>2, <2>3, LandMoves
<1>3. CASE Finish(w) \/ Fail(w) \/ Release(w)
  BY <1>1, <1>3, SettleMoves
<1>4. CASE UNCHANGED <<row, requeues>>
  BY <1>1, <1>4, SameRows
<1> QED
  BY <1>2, <1>3, <1>4 DEF Renew, Progress, Work, Mishap, Begin, NextBatch, CommitRefused, OpenFile,
     StoreFile, Quiet, CommitInDoubt, Fault, Raise, Stop, Crash

LEMMA SameDrains ==
  ASSUME UNCHANGED <<lease, stops>>
  PROVE  DrainsStay
  BY DEF DrainsStay

LEMMA JobMoves ==
  ASSUME Inv, NEW i \in Jobs, GoStale(i) \/ Resolve(i) \/ Request(i) \/ Reaper(i)
  PROVE  (\A j \in Jobs : ClaimsMove(j)) /\ stops' \in {stops, stops + 1}
<1>1. UNCHANGED <<lease, stops>>
  BY DEF GoStale, Resolve, Request, Create, Start, ReclaimImport, RequeueFailed, CancelExport,
     Reaper, FailNeverQueued, FailNotStarted
<1>2. DrainsStay
  BY <1>1, SameDrains
<1> SUFFICES \A j \in Jobs : ClaimsMove(j)
  BY <1>1
<1>3. PICK r \in Row : r = row[i]
  BY DEF Inv, TypeOK
<1>4. CASE GoStale(i)
  BY <1>2, <1>4, SameRows DEF GoStale
<1>5. CASE Resolve(i)
  <2>1. limbo[i] \in Units
    BY <1>5, CursorFacts DEF Resolve, Unlocked, Inv, TypeOK, Units
  <2> QED
    BY <1>2, <1>5, <2>1, SameRows, LandMoves DEF Resolve
<1>6. CASE Create(i)
  <2>1. PICK q : q = [r EXCEPT !.status = "pending"]
    OBVIOUS
  <2>2. q.status = "pending" /\ q.epoch = r.epoch /\ q.takeovers = r.takeovers /\ q.error = r.error
    BY <2>1 DEF Row
  <2>3. row' = [row EXCEPT ![i] = q] /\ row[i].status = "absent" /\ UNCHANGED requeues
    BY <1>3, <1>6, <2>1 DEF Create, Write
  <2>4. row'[i] = q => ClaimsMove(i)
    BY <1>3, <2>2, <2>3 DEF ClaimsMove, Becomes
  <2> QED
    BY <1>2, <2>3, <2>4, OneRowMoves
<1>7. CASE Start(i)
  <2>1. PICK q : q = [r EXCEPT !.phase = "queued"]
    OBVIOUS
  <2>2. q.status = r.status /\ q.epoch = r.epoch /\ q.takeovers = r.takeovers /\ q.error = r.error
    BY <2>1 DEF Row
  <2>3. row' = [row EXCEPT ![i] = q] /\ UNCHANGED requeues
    BY <1>3, <1>7, <2>1 DEF Start, Write
  <2>4. row'[i] = q => ClaimsMove(i)
    BY <1>2, <1>3, <2>2, <2>3, KeptMoves DEF RowKept, Becomes
  <2> QED
    BY <1>2, <2>3, <2>4, OneRowMoves
<1>8. CASE CancelExport(i) \/ Reaper(i)
  <2>1. PICK s \in {"cancelled", "failed"}, x \in Errors :
          row' = [row EXCEPT ![i] = [r EXCEPT !.status = s, !.error = x]]
    <3>1. CASE CancelExport(i)
      <4>1. r.error \in Errors /\ [r EXCEPT !.status = "cancelled"]
                                = [r EXCEPT !.status = "cancelled", !.error = r.error]
        BY <1>3 DEF Row
      <4> QED
        BY <1>3, <3>1, <4>1 DEF CancelExport, Write
    <3>2. CASE Reaper(i)
      BY <1>3, <3>2 DEF Reaper, FailNeverQueued, FailNotStarted, Write, Errors
    <3> QED
      BY <1>8, <3>1, <3>2
  <2>2. PICK q : q = [r EXCEPT !.status = s, !.error = x]
    OBVIOUS
  <2>3. q.status = s /\ q.epoch = r.epoch /\ q.takeovers = r.takeovers
    BY <2>2 DEF Row
  <2>4. row' = [row EXCEPT ![i] = q] /\ Active(i) /\ UNCHANGED requeues
    BY <1>8, <2>1, <2>2 DEF CancelExport, Reaper, FailNeverQueued, FailNotStarted, Active
  <2>5. row'[i] = q => ClaimsMove(i)
    BY <1>3, <2>3, <2>4 DEF ClaimsMove, Becomes
  <2> QED
    BY <1>2, <2>4, <2>5, OneRowMoves
<1>9. CASE ReclaimImport(i) \/ RequeueFailed(i)
  <2>1. PICK q : \/ /\ r.error = "never_queued"
                    /\ q = [r EXCEPT !.status = "pending", !.error = "none"]
                    /\ row' = [row EXCEPT ![i] = q]
                 \/ /\ q = [r EXCEPT !.status = "pending", !.phase = "queued",
                                     !.error = "none", !.takeovers = 0]
                    /\ row' = [row EXCEPT ![i] = q]
    BY <1>3, <1>9 DEF ReclaimImport, RequeueFailed, Write
  <2>2. /\ q.status = "pending" /\ q.epoch = r.epoch /\ q.error = "none"
        /\ \/ r.error = "never_queued" /\ q.takeovers = r.takeovers
           \/ q.takeovers = 0
    BY <2>1 DEF Row
  <2>3. /\ row'[i] = q /\ r.status = "failed" /\ requeues'[i] = requeues[i] + 1
        /\ \A j \in Jobs : j # i => row'[j] = row[j] /\ requeues'[j] = requeues[j]
    BY <1>3, <1>9, <2>1 DEF Inv, TypeOK, ReclaimImport, RequeueFailed
  <2>4. ClaimsMove(i)
    BY <1>3, <2>2, <2>3 DEF ClaimsMove, Becomes
  <2>5. ASSUME NEW j \in Jobs, j # i PROVE ClaimsMove(j)
    <3>1. RowKept(j) /\ requeues'[j] = requeues[j]
      BY <2>3, <2>5 DEF RowKept, Becomes
    <3> QED
      BY <1>2, <3>1, KeptMoves
  <2> QED
    BY <2>4, <2>5
<1> QED
  BY <1>4, <1>5, <1>6, <1>7, <1>8, <1>9 DEF Request

LEMMA TakenClaims ==
  ASSUME NEW j \in Jobs, row[j] \in Row
  PROVE  /\ Taken(j).status = "running" /\ Taken(j).epoch = row[j].epoch + 1
         /\ Taken(j).error = "none"
         /\ Taken(j).takeovers = row[j].takeovers + IF row[j].status = "running" THEN 1 ELSE 0
<1>1. PICK r \in Row : r = row[j]
  OBVIOUS
<1>2. PICK e \in Nat : e = r.epoch + 1
  BY RowFields
<1>3. PICK p \in Phases : p = IF r.phase = "queued" THEN "none" ELSE r.phase
  BY RowFields DEF Phases
<1>4. PICK t \in Nat : t = IF r.status = "running" THEN r.takeovers + 1 ELSE r.takeovers
  BY RowFields
<1>5. Taken(j) = [r EXCEPT !.status = "running", !.error = "none",
                           !.epoch = e, !.phase = p, !.takeovers = t]
  BY <1>1, <1>2, <1>3, <1>4 DEF Taken
<1>6. /\ Taken(j).status = "running" /\ Taken(j).epoch = e /\ Taken(j).error = "none"
      /\ Taken(j).takeovers = t
  BY <1>5 DEF Row
<1>7. t = r.takeovers + IF r.status = "running" THEN 1 ELSE 0
  BY <1>4, RowFields
<1> QED
  BY <1>1, <1>2, <1>6, <1>7

LEMMA FailedClaims ==
  ASSUME NEW j \in Jobs, row[j] \in Row
  PROVE  /\ FailedInPlace(j).status = "failed" /\ FailedInPlace(j).epoch = row[j].epoch
         /\ FailedInPlace(j).takeovers = row[j].takeovers \/ FailedInPlace(j).error = "poison"
<1>1. PICK r \in Row : r = row[j]
  OBVIOUS
<1>2. PICK t \in Nat : t = r.takeovers + 1
  BY RowFields
<1>3. \/ FailedInPlace(j) = [r EXCEPT !.status = "failed", !.error = "interrupted"]
      \/ FailedInPlace(j) = [r EXCEPT !.status = "failed", !.error = "poison", !.takeovers = t]
  BY <1>1, <1>2 DEF FailedInPlace
<1>4. CASE FailedInPlace(j) = [r EXCEPT !.status = "failed", !.error = "interrupted"]
  BY <1>1, <1>4 DEF Row
<1>5. CASE FailedInPlace(j) = [r EXCEPT !.status = "failed", !.error = "poison", !.takeovers = t]
  BY <1>1, <1>5 DEF Row
<1> QED
  BY <1>3, <1>4, <1>5

\* A job failed in place by a claim.
LEMMA FailedMoves ==
  ASSUME Inv, NEW j \in Jobs, Claimable(j), row'[j] = FailedInPlace(j), UNCHANGED requeues
  PROVE  ClaimsMove(j)
<1>1. row[j] \in Row /\ Active(j)
  BY DEF Inv, TypeOK, Claimable, Active
<1> QED
  BY <1>1, FailedClaims DEF ClaimsMove, Becomes

LEMMA ClaimMoves ==
  ASSUME Inv, ClaimsInv, NEW w \in Slots, Claim(w)
  PROVE  (\A j \in Jobs : ClaimsMove(j)) /\ stops' \in {stops, stops + 1}
<1>1. UNCHANGED <<requeues, stops>> /\ ~Busy(w)
  BY DEF Claim
<1>2. \A j \in Jobs : row[j] \in Row /\ row[j].epoch \in Nat /\ row[j].takeovers \in Nat
  BY RowFields DEF Inv, TypeOK
<1> SUFFICES \A j \in Jobs : ClaimsMove(j)
  BY <1>1
<1>3. CASE lease' = lease /\ \A j \in Jobs : \/ row'[j] = row[j]
                                             \/ Claimable(j) /\ row'[j] = FailedInPlace(j)
  <2>1. ASSUME NEW j \in Jobs, row'[j] = row[j] PROVE ClaimsMove(j)
    BY <1>1, <1>3, <2>1, SameDrains, KeptMoves DEF RowKept, Becomes
  <2> QED
    BY <1>1, <1>3, <2>1, FailedMoves
<1>4. CASE \E c \in Jobs :
             /\ Claimable(c) /\ ~Doomed(c) /\ row'[c] = Taken(c)
             /\ \A j \in Jobs : j # c => \/ row'[j] = row[j]
                                         \/ Claimable(j) /\ row'[j] = FailedInPlace(j)
             /\ lease' = [lease EXCEPT ![w] =
                  [Idle EXCEPT !.pc = "ready", !.job = c, !.epoch = Taken(c).epoch]]
  <2>1. PICK c \in Jobs :
          /\ Claimable(c) /\ ~Doomed(c) /\ row'[c] = Taken(c)
          /\ \A j \in Jobs : j # c => \/ row'[j] = row[j]
                                      \/ Claimable(j) /\ row'[j] = FailedInPlace(j)
          /\ lease' = [lease EXCEPT ![w] =
               [Idle EXCEPT !.pc = "ready", !.job = c, !.epoch = Taken(c).epoch]]
    BY <1>4
  <2>2. PICK e \in Nat : e = Taken(c).epoch /\ e = row[c].epoch + 1
    BY <1>2, TakenClaims
  <2>3. PICK q : q = [Idle EXCEPT !.pc = "ready", !.job = c, !.epoch = e]
    OBVIOUS
  <2>4. q.job = c /\ ~q.drain
    BY <2>3 DEF Idle
  <2>5. lease'[w] = q /\ \A v \in Slots : v # w => lease'[v] = lease[v]
    BY <2>1, <2>2, <2>3 DEF Inv, TypeOK
  <2>6. ~Draining(c)'
    <3>1. \A v \in Slots : Busy(v) /\ lease[v].job = c => lease[v].epoch # e
      <4>1. \A v \in Slots : lease[v].epoch \in Nat
        BY LeaseFields DEF Inv, TypeOK
      <4> QED
        BY <1>2, <2>2, <4>1 DEF Inv, LeaseInv, OwnerInv
    <3> QED
      BY <2>1, <2>2, <2>4, <2>5, <3>1 DEF Draining, Busy
  <2>7. ClaimsMove(c)
    <3>1. PICK t \in Nat : t = row[c].takeovers + IF row[c].status = "running" THEN 1 ELSE 0
      BY <1>2
    <3>2. Active(c) /\ t <= MaxRetries
      <4>1. row[c].status # "failed" /\ Active(c)
        BY <2>1 DEF Claimable, Active
      <4>2. row[c].takeovers <= MaxRetries
        BY <4>1 DEF ClaimsInv
      <4>3. row[c].status = "running" => row[c].takeovers + 1 <= MaxRetries
        BY <1>2, <2>1, JobLeaseAssumption DEF Doomed, Poison
      <4> QED
        BY <1>2, <3>1, <4>1, <4>2, <4>3
    <3>3. Becomes(c, "running", row[c].epoch + 1, t, "none")
      BY <1>2, <2>1, <3>1, TakenClaims DEF Becomes
    <3> QED
      BY <1>1, <2>6, <3>1, <3>2, <3>3 DEF ClaimsMove
  <2>8. ASSUME NEW j \in Jobs, j # c, row'[j] = row[j] PROVE ClaimsMove(j)
    <3>1. Draining(j)' => Draining(j)
      BY <2>4, <2>5, <2>8 DEF Draining, Busy
    <3> QED
      BY <1>1, <2>8, <3>1 DEF ClaimsMove, RowKept, Becomes
  <2> QED
    BY <1>1, <2>1, <2>7, <2>8, FailedMoves
<1>5. PICK F \in SUBSET {j \in Jobs : Claimable(j) /\ Doomed(j)} :
       \/ \E c \in {j \in Jobs : Claimable(j) /\ ~Doomed(j)} :
            /\ row' = [j \in Jobs |-> IF j = c THEN Taken(j)
                                      ELSE IF j \in F THEN FailedInPlace(j) ELSE row[j]]
            /\ lease' = [lease EXCEPT ![w] =
                 [Idle EXCEPT !.pc = "ready", !.job = c, !.epoch = Taken(c).epoch]]
       \/ /\ row' = [j \in Jobs |-> IF j \in F THEN FailedInPlace(j) ELSE row[j]]
          /\ lease' = lease
  BY DEF Claim
<1> QED
  BY <1>3, <1>4, <1>5

LEMMA NextClaims ==
  ASSUME Inv, Inv', ClaimsInv, [Next]_vars
  PROVE  ClaimsInv'
<1>1. CASE UNCHANGED vars
  <2>1. DrainsStay /\ UNCHANGED <<row, requeues, stops>>
    BY <1>1, SameDrains DEF vars
  <2> QED
    BY <2>1, SameRows, ClaimsKept
<1>2. ASSUME NEW w \in Slots, Claim(w) PROVE ClaimsInv'
  BY <1>2, ClaimMoves, ClaimsKept
<1>3. ASSUME NEW w \in Slots, Renew(w) \/ Progress(w) \/ Work(w) \/ Mishap(w) PROVE ClaimsInv'
  BY <1>3, SlotMoves, ClaimsKept
<1>4. ASSUME NEW j \in Jobs, GoStale(j) \/ Resolve(j) \/ Request(j) \/ Reaper(j) PROVE ClaimsInv'
  BY <1>4, JobMoves, ClaimsKept
<1> QED
  BY <1>1, <1>2, <1>3, <1>4 DEF Next

LEMMA InitClaims == ASSUME Init PROVE ClaimsInv
<1> SUFFICES ASSUME NEW j \in Jobs
             PROVE  LET r == row[j]
                        granted == requeues[j] * (MaxRetries + 1) IN
                    /\ r.status \in {"absent", "pending"} => r.epoch <= granted + r.takeovers + stops
                    /\ r.status = "running" =>
                         /\ r.epoch <= granted + r.takeovers + stops + 1
                         /\ Draining(j) => r.epoch <= granted + r.takeovers + stops
                    /\ Ended(j) => r.epoch <= granted + MaxRetries + 1 + stops
                    /\ r.status # "failed" \/ r.error = "never_queued" => r.takeovers <= MaxRetries
  BY DEF ClaimsInv
<1>1. /\ row[j].status \in {"absent", "running"} /\ row[j].epoch = 0 /\ row[j].takeovers = 0
      /\ requeues[j] = 0 /\ stops = 0
  BY DEF Init, NoRow
<1>2. requeues[j] * (MaxRetries + 1) = 0 /\ MaxRetries \in Nat
  BY <1>1, JobLeaseAssumption
<1> QED
  BY <1>1, <1>2 DEF Ended

\* _failed_in_place: whatever workers die, are shut down or are taken over, a job is claimed at
\* most max_retries + 1 times per retry by a person, and once more per shutdown.
THEOREM ClaimsBounded == Spec => []PoisonBounded
<1>1. Init => ClaimsInv
  BY InitClaims
<1>2. Inv /\ Inv' /\ ClaimsInv /\ [Next]_vars => ClaimsInv'
  BY NextClaims
<1>3. Inv /\ ClaimsInv => PoisonBounded
  <2> SUFFICES ASSUME Inv, ClaimsInv, NEW j \in Jobs
               PROVE  row[j].epoch <= (requeues[j] + 1) * (MaxRetries + 1) + stops
    BY DEF PoisonBounded
  <2>1. /\ MaxRetries \in Nat /\ stops \in Nat /\ requeues[j] \in Nat
        /\ row[j].epoch \in Nat /\ row[j].takeovers \in Nat /\ row[j].status \in Statuses
    BY JobLeaseAssumption, RowFields DEF Inv, TypeOK
  <2>2. PICK g \in Nat : /\ g = requeues[j] * (MaxRetries + 1)
                         /\ (requeues[j] + 1) * (MaxRetries + 1) = g + MaxRetries + 1
    BY <2>1, GrantedMore
  <2>3. /\ row[j].status \in {"absent", "pending"} => row[j].epoch <= g + row[j].takeovers + stops
        /\ row[j].status = "running" => row[j].epoch <= g + row[j].takeovers + stops + 1
        /\ Ended(j) => row[j].epoch <= g + MaxRetries + 1 + stops
        /\ row[j].status # "failed" => row[j].takeovers <= MaxRetries
    BY <2>2 DEF ClaimsInv
  <2> QED
    BY <2>1, <2>2, <2>3 DEF Ended, Statuses
<1> QED
  BY <1>1, <1>2, <1>3, InductiveInvariant, PTL DEF Spec

-----------------------------------------------------------------------------
(* What a step does to the files of exports                                *)

\* A slot goes on under the ownership it has, an export's reaching its finish with its file
\* whole; or it has just claimed its job.
SlotsFile ==
  \A v \in Slots : lease'[v].pc # "idle" =>
    \/ /\ lease[v].pc # "idle"
       /\ lease'[v].job = lease[v].job /\ lease'[v].epoch = lease[v].epoch
       /\ lease'[v].job \in Exports /\ lease'[v].pc = "finish" =>
            lease[v].pc = "finish" \/ EpochKey(lease[v].epoch) \in files'[lease[v].job]
    \/ /\ lease'[v].pc = "ready" /\ lease'[v].epoch = row[lease'[v].job].epoch + 1
       /\ row'[lease'[v].job].status = "running"

\* A file is truncated or deleted by an attempt it belongs to, which then is not about to finish.
FilesKept ==
  \A j \in Jobs : \A k \in files[j] :
    \/ k \in files'[j]
    \/ \E w \in Slots : /\ Busy(w) /\ lease[w].job = j /\ k = EpochKey(lease[w].epoch)
                        /\ lease'[w].pc # "finish"

\* An export is completed by the owner of its row, in its finish.
RowsFile ==
  \A j \in Exports : row'[j].status = "completed" =>
    \/ row'[j] = row[j]
    \/ \E w \in Slots : /\ Busy(w) /\ lease[w].job = j /\ lease[w].pc = "finish" /\ Fenced(w)
                        /\ lease'[w].pc = "idle" /\ files' = files
                        /\ row'[j].epoch = row[j].epoch
                        /\ row'[j].result = EpochKey(lease[w].epoch)

\* Two attempts write under two keys.
LEMMA KeysDiffer ==
  ASSUME NEW d \in Nat, NEW e \in Nat, 1 <= d, 1 <= e, EpochKey(d) = EpochKey(e)
  PROVE  d = e
  BY DEF EpochKey

LEMMA FilesInv ==
  ASSUME Inv, FileInv, SlotsFile, FilesKept, RowsFile
  PROVE  FileInv'
<1>1. \A v \in Slots : Busy(v) => /\ lease[v].job \in Jobs /\ lease[v].epoch \in Nat
                                  /\ 1 <= lease[v].epoch
                                  /\ lease[v].epoch <= row[lease[v].job].epoch
  BY BusyFacts DEF Inv, LeaseInv, OwnerInv
<1>2. \A j \in Jobs : row[j].epoch \in Nat
  BY RowFields DEF Inv, TypeOK
<1>3. ASSUME NEW v \in Slots, lease'[v].pc # "idle", lease'[v].job \in Exports,
             lease'[v].pc = "finish"
      PROVE  EpochKey(lease'[v].epoch) \in files'[lease'[v].job]
  <2>1. /\ Busy(v) /\ lease'[v].job = lease[v].job /\ lease'[v].epoch = lease[v].epoch
        /\ lease[v].pc = "finish" \/ EpochKey(lease[v].epoch) \in files'[lease[v].job]
    BY <1>3 DEF SlotsFile, Busy
  <2>2. CASE lease[v].pc = "finish" /\ EpochKey(lease[v].epoch) \notin files'[lease[v].job]
    <3>1. EpochKey(lease[v].epoch) \in files[lease[v].job]
      BY <1>3, <2>1, <2>2 DEF FileInv
    <3>2. PICK w \in Slots : /\ Busy(w) /\ lease[w].job = lease[v].job
                             /\ EpochKey(lease[v].epoch) = EpochKey(lease[w].epoch)
                             /\ lease'[w].pc # "finish"
      BY <1>1, <2>1, <2>2, <3>1 DEF FilesKept
    <3>3. lease[w].epoch = lease[v].epoch
      BY <1>1, <2>1, <3>2, KeysDiffer
    <3> QED
      BY <1>3, <2>1, <3>2, <3>3 DEF Inv, LeaseInv, SoleOwner
  <2> QED
    BY <2>1, <2>2
<1>4. ASSUME NEW j \in Exports, row'[j].status = "completed"
      PROVE  Orphan(j)' /\ row'[j].result = EpochKey(row'[j].epoch) /\ row'[j].result \in files'[j]
  <2>0. j \in Jobs
    BY <1>4, ImportsJobs
  <2>1. CASE row'[j] = row[j]
    <3>1. Orphan(j) /\ row[j].result = EpochKey(row[j].epoch) /\ row[j].result \in files[j]
      BY <1>4, <2>1 DEF FileInv
    <3>2. row[j].result \in files'[j]
      <4>1. SUFFICES ASSUME NEW w \in Slots, Busy(w), lease[w].job = j,
                            EpochKey(row[j].epoch) = EpochKey(lease[w].epoch)
                     PROVE  FALSE
        BY <2>0, <3>1 DEF FilesKept
      <4>2. lease[w].epoch = row[j].epoch
        BY <1>1, <1>2, <2>0, <4>1, KeysDiffer
      <4> QED
        BY <3>1, <4>1, <4>2 DEF Orphan
    <3>3. Orphan(j)'
      BY <1>2, <1>4, <2>0, <2>1, <3>1 DEF Orphan, Busy, SlotsFile
    <3> QED
      BY <2>1, <3>1, <3>2, <3>3
  <2>2. CASE \E w \in Slots : /\ Busy(w) /\ lease[w].job = j /\ lease[w].pc = "finish" /\ Fenced(w)
                              /\ lease'[w].pc = "idle" /\ files' = files
                              /\ row'[j].epoch = row[j].epoch
                              /\ row'[j].result = EpochKey(lease[w].epoch)
    <3>1. PICK w \in Slots : /\ Busy(w) /\ lease[w].job = j /\ lease[w].pc = "finish" /\ Fenced(w)
                             /\ lease'[w].pc = "idle" /\ files' = files
                             /\ row'[j].epoch = row[j].epoch
                             /\ row'[j].result = EpochKey(lease[w].epoch)
      BY <2>2
    <3>2. EpochKey(lease[w].epoch) \in files[j]
      BY <1>4, <3>1 DEF FileInv
    <3>3. lease[w].epoch = row[j].epoch
      BY <3>1 DEF Fenced
    <3>4. Orphan(j)'
      <4> SUFFICES ASSUME NEW v \in Slots, lease'[v].pc # "idle", lease'[v].job = j,
                          lease'[v].epoch = row'[j].epoch
                   PROVE  FALSE
        BY DEF Orphan, Busy
      <4>1. Busy(v) /\ lease[v].job = j /\ lease[v].epoch = row[j].epoch
        BY <1>4, <3>1 DEF SlotsFile, Busy
      <4> QED
        BY <3>1, <3>3, <4>1 DEF Inv, LeaseInv, SoleOwner
    <3> QED
      BY <3>1, <3>2, <3>3, <3>4
  <2> QED
    BY <1>4, <2>1, <2>2 DEF RowsFile
<1> QED
  BY <1>3, <1>4 DEF FileInv, Busy, Orphan

LEMMA SameSlots ==
  ASSUME lease' = lease
  PROVE  SlotsFile
  BY DEF SlotsFile

LEMMA SameFiles ==
  ASSUME files' = files
  PROVE  FilesKept
  BY DEF FilesKept

LEMMA NotWholeFiles ==
  ASSUME Inv, NEW w \in Slots, Busy(w), NotWhole(w), lease'[w].pc # "finish"
  PROVE  FilesKept
<1>1. files'[lease[w].job] = files[lease[w].job] \ {EpochKey(lease[w].epoch)}
  BY BusyFacts DEF Inv, TypeOK, NotWhole
<1>2. \A j \in Jobs : j # lease[w].job => files'[j] = files[j]
  BY DEF Inv, TypeOK, NotWhole
<1> QED
  BY <1>1, <1>2 DEF FilesKept

\* Slot w moves on, to an export's finish only with its file whole.
LEMMA SlotFile ==
  ASSUME Inv, DrainsStay, NEW w \in Slots, \A v \in Slots : v # w => lease'[v] = lease[v],
         lease'[w].pc = "finish" /\ lease[w].job \in Exports =>
           lease[w].pc = "finish" \/ EpochKey(lease[w].epoch) \in files'[lease[w].job]
  PROVE  SlotsFile
<1>1. ASSUME NEW v \in Slots, v # w PROVE lease'[v] = lease[v]
  BY <1>1
<1> QED
  BY <1>1 DEF SlotsFile, DrainsStay

LEMMA SlotFiles ==
  ASSUME Inv, NEW w \in Slots, Renew(w) \/ Progress(w) \/ Work(w) \/ Mishap(w)
  PROVE  SlotsFile /\ FilesKept
<1>1. DrainsStay
  BY SlotDrains
<1>2. Busy(w)
  BY DEF Renew, Progress, Work, Mishap, Busy, Begin, NextBatch, CommitLands, CommitRefused,
     OpenFile, StoreFile, Finish, Fail, Quiet, Release, CommitInDoubt, Fault, Raise, Stop, Crash
<1>3. lease \in [Slots -> Lease]
  BY DEF Inv, TypeOK
<1>4. ASSUME Drop(w), files' = files \/ NotWhole(w) PROVE SlotsFile /\ FilesKept
  <2>1. lease'[w].pc = "idle" /\ \A v \in Slots : v # w => lease'[v] = lease[v]
    BY <1>3, <1>4, DropEffect DEF Dropped
  <2> QED
    BY <1>1, <1>2, <1>4, <2>1, SlotFile, SameFiles, NotWholeFiles
<1>5. ASSUME NEW p \in PCs, lease' = [lease EXCEPT ![w].pc = p], p # "finish",
             files' = files \/ NotWhole(w)
      PROVE  SlotsFile /\ FilesKept
  <2>1. lease'[w].pc = p /\ \A v \in Slots : v # w => lease'[v] = lease[v]
    BY <1>3, <1>5, PcEffect DEF Moves
  <2> QED
    BY <1>1, <1>2, <1>5, <2>1, SlotFile, SameFiles, NotWholeFiles
<1>6. CASE Begin(w) \/ CommitLands(w) \/ CommitInDoubt(w) \/ Fault(w)
  <2>1. lease[w].job \notin Exports /\ files' = files
    BY <1>6, JobLeaseAssumption DEF Begin, CommitLands, CommitInDoubt, Fault
  <2>2. \A v \in Slots : v # w => lease'[v] = lease[v]
    BY <1>3, <1>6 DEF Begin, CommitLands, CommitInDoubt, Fault
  <2> QED
    BY <1>1, <2>1, <2>2, SlotFile, SameFiles
<1>7. CASE Renew(w) \/ Stop(w)
  <2>1. lease' = lease \/ Moves(w, lease[w].pc, lease[w].cur)
    BY <1>3, <1>7, FlagEffect DEF Renew, Stop
  <2>2. files' = files
    BY <1>7 DEF Renew, Stop
  <2> QED
    BY <1>1, <2>1, <2>2, SlotFile, SameSlots, SameFiles DEF Moves
<1>8. CASE Progress(w)
  BY <1>4, <1>8, SameSlots, SameFiles DEF Progress
<1>9. CASE CommitRefused(w) \/ Finish(w) \/ Fail(w) \/ Quiet(w) \/ Release(w) \/ Crash(w)
  BY <1>4, <1>9 DEF CommitRefused, Finish, Fail, Quiet, Release, Crash
<1>10. CASE NextBatch(w) \/ OpenFile(w) \/ Raise(w)
  BY <1>5, <1>10 DEF NextBatch, OpenFile, Raise, PCs
<1>11. CASE StoreFile(w)
  <2>1. \A v \in Slots : v # w => lease'[v] = lease[v]
    BY <1>3, <1>11, PcEffect DEF StoreFile, Moves, PCs
  <2>2. /\ files'[lease[w].job] = files[lease[w].job] \cup {EpochKey(lease[w].epoch)}
        /\ \A j \in Jobs : j # lease[w].job => files'[j] = files[j]
    BY <1>2, <1>11, BusyFacts DEF StoreFile, Whole, Inv, TypeOK
  <2>3. FilesKept
    BY <2>2 DEF FilesKept
  <2> QED
    BY <1>1, <2>1, <2>2, <2>3, SlotFile
<1> QED
  BY <1>6, <1>7, <1>8, <1>9, <1>10, <1>11 DEF Work, Mishap

LEMMA ClaimFiles ==
  ASSUME Inv, NEW w \in Slots, Claim(w)
  PROVE  SlotsFile /\ FilesKept
<1>1. FilesKept
  BY SameFiles DEF Claim
<1>2. CASE lease' = lease
  BY <1>1, <1>2, SameSlots
<1>3. ASSUME NEW c \in Jobs, row'[c] = Taken(c),
             lease' = [lease EXCEPT ![w] =
               [Idle EXCEPT !.pc = "ready", !.job = c, !.epoch = Taken(c).epoch]]
      PROVE  SlotsFile
  <2>1. PICK e : e = Taken(c).epoch
    OBVIOUS
  <2>2. row'[c].status = "running" /\ e = row[c].epoch + 1
    BY <1>3, <2>1, TakenClaims DEF Inv, TypeOK
  <2>3. PICK q : q = [Idle EXCEPT !.pc = "ready", !.job = c, !.epoch = e]
    OBVIOUS
  <2>4. q.pc = "ready" /\ q.job = c /\ q.epoch = e
    BY <2>3 DEF Idle
  <2>5. lease'[w] = q /\ \A v \in Slots : v # w => lease'[v] = lease[v]
    BY <1>3, <2>1, <2>3 DEF Inv, TypeOK
  <2> QED
    BY <2>2, <2>4, <2>5 DEF SlotsFile
<1>4. \/ lease' = lease
      \/ \E c \in Jobs : /\ row'[c] = Taken(c)
                         /\ lease' = [lease EXCEPT ![w] =
                              [Idle EXCEPT !.pc = "ready", !.job = c, !.epoch = Taken(c).epoch]]
  BY DEF Claim
<1> QED
  BY <1>1, <1>2, <1>3, <1>4

LEMMA StatusFile ==
  ASSUME NEW i \in Jobs, NEW s, StatusOnly(i, s), s # "completed"
  PROVE  RowsFile
  BY ImportsJobs DEF RowsFile, StatusOnly

LEMMA LandFile ==
  ASSUME Inv, NEW i \in Imports, NEW u \in Units, Land(i, u)
  PROVE  RowsFile
<1>1. \A j \in Exports : row'[j] = row[j]
  BY ImportsJobs, JobLeaseAssumption DEF Land, Write, Inv, TypeOK
<1> QED
  BY <1>1 DEF RowsFile

LEMMA NextRows ==
  ASSUME Inv, [Next]_vars
  PROVE  RowsFile
<1>1. CASE row' = row
  BY <1>1 DEF RowsFile
<1>2. row \in [Jobs -> Row]
  BY DEF Inv, TypeOK
<1>3. ASSUME NEW w \in Slots, Claim(w) PROVE RowsFile
  <2>1. \A j \in Jobs : row'[j] \in {row[j], Taken(j), FailedInPlace(j)}
    BY <1>3 DEF Claim
  <2>2. \A j \in Jobs : Taken(j).status = "running" /\ FailedInPlace(j).status = "failed"
    BY <1>2, TakenClaims, FailedClaims
  <2> QED
    BY <2>1, <2>2, ImportsJobs DEF RowsFile
<1>4. ASSUME NEW w \in Slots, CommitLands(w) PROVE RowsFile
  <2>1. /\ Busy(w) /\ lease[w].pc = "work" /\ lease[w].job \in Imports
        /\ Land(lease[w].job, lease[w].cur + 1)
    BY <1>4 DEF CommitLands, Busy
  <2>2. lease[w].cur < Last /\ lease[w].cur \in 0 .. Last
    BY <2>1, BusyFacts DEF Inv, LeaseInv, CursorInv
  <2>3. lease[w].cur + 1 \in Units
    BY <2>2, CursorFacts DEF Units
  <2> QED
    BY <2>1, <2>3, LandFile
<1>5. ASSUME NEW i \in Jobs, Resolve(i) PROVE RowsFile
  <2>1. limbo[i] \in Units /\ i \in Imports
    BY <1>5, CursorFacts DEF Resolve, Unlocked, Inv, TypeOK, Units, LeaseInv, LimboInv
  <2> QED
    BY <1>1, <1>5, <2>1, LandFile DEF Resolve
<1>6. ASSUME NEW w \in Slots, Fail(w) \/ Release(w), Fenced(w) PROVE RowsFile
  <2>1. Busy(w)
    BY <1>6 DEF Fail, Release, Busy
  <2> QED
    BY <1>2, <1>6, <2>1, BusyFacts, FailEffect, ReleaseEffect, StatusFile
<1>7. ASSUME NEW i \in Jobs, Create(i) \/ Start(i) \/ ReclaimImport(i) \/ RequeueFailed(i)
                             \/ CancelExport(i) \/ Reaper(i)
      PROVE  RowsFile
  BY <1>2, <1>7, RequestEffect, CancelEffect, ReaperEffect, StatusFile
<1>8. ASSUME NEW w \in Slots, Finish(w), Fenced(w) PROVE RowsFile
  <2>1. Busy(w) /\ lease[w].pc = "finish" /\ files' = files /\ lease'[w].pc = "idle"
    BY <1>8, IdleType DEF Finish, Busy, Drop, Inv, TypeOK
  <2>2. PICK i \in Jobs : i = lease[w].job
    BY <2>1, BusyFacts
  <2>3. PICK r \in Row : r = row[i]
    BY <1>2
  <2>4. PICK k : k = IF i \in Exports THEN EpochKey(lease[w].epoch) ELSE 0
    OBVIOUS
  <2>5. PICK q : q = [r EXCEPT !.status = "completed", !.result = k]
    OBVIOUS
  <2>6. q.epoch = r.epoch /\ q.result = k
    BY <2>5 DEF Row
  <2>7. row'[i] = q /\ \A j \in Jobs : j # i => row'[j] = row[j]
    BY <1>2, <1>8, <2>2, <2>3, <2>4, <2>5 DEF Finish, Write
  <2> QED
    BY <1>8, <2>1, <2>2, <2>3, <2>4, <2>6, <2>7, ImportsJobs DEF RowsFile
<1> QED
  BY <1>1, <1>3, <1>4, <1>5, <1>6, <1>7, <1>8, NextWrites

LEMMA NextFiles ==
  ASSUME Inv, FileInv, [Next]_vars
  PROVE  FileInv'
<1>1. CASE UNCHANGED <<lease, files>>
  BY <1>1, SameSlots, SameFiles, NextRows, FilesInv
<1>2. ASSUME NEW w \in Slots, Claim(w) PROVE FileInv'
  BY <1>2, ClaimFiles, NextRows, FilesInv
<1>3. ASSUME NEW w \in Slots, Renew(w) \/ Progress(w) \/ Work(w) \/ Mishap(w) PROVE FileInv'
  BY <1>3, SlotFiles, NextRows, FilesInv
<1>4. ASSUME NEW j \in Jobs, GoStale(j) \/ Resolve(j) \/ Request(j) \/ Reaper(j)
      PROVE  UNCHANGED <<lease, files>>
  BY <1>4 DEF GoStale, Resolve, Request, Create, Start, ReclaimImport, RequeueFailed,
     CancelExport, Reaper, FailNeverQueued, FailNotStarted
<1> QED
  BY <1>1, <1>2, <1>3, <1>4 DEF Next, vars

\* ExportWorker and epoch_key: the file a completed export names is whole, and no superseded
\* attempt ever truncates, overwrites or deletes it.
THEOREM ExportIntact == Spec => []ResultIntact
<1>1. Init => FileInv
  <2>1. ASSUME Init PROVE FileInv
    <3>1. \A w \in Slots : ~Busy(w)
      BY <2>1, IdleType DEF Init, Busy
    <3>2. \A j \in Exports : row[j].status # "completed"
      BY <2>1, ImportsJobs DEF Init, NoRow
    <3> QED
      BY <3>1, <3>2 DEF FileInv
  <2> QED
    BY <2>1
<1>2. Inv /\ FileInv /\ [Next]_vars => FileInv'
  BY NextFiles
<1>3. FileInv => ResultIntact
  BY DEF FileInv, ResultIntact
<1> QED
  BY <1>1, <1>2, <1>3, InductiveInvariant, PTL DEF Spec
=============================================================================
