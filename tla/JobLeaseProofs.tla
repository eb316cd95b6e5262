--------------------------- MODULE JobLeaseProofs ---------------------------
(***************************************************************************)
(* Proofs about JobLease, for every number of jobs, slots, batches and     *)
(* windows and every bound. TypeOK /\ LeaseInv is inductive; the safety    *)
(* properties follow from it.                                              *)
(*                                                                         *)
(* Every action falls into one of four kinds of step: one that writes      *)
(* statuses and moves slots but keeps every epoch and cursor (QuietStep),  *)
(* a claim (ClaimStep), a unit landing (LandStep) and a commit left in     *)
(* doubt (DoubtStep). One lemma per kind shows the invariant preserved,    *)
(* one per action shows which kind it is.                                  *)
(***************************************************************************)
EXTENDS JobLease, TLAPS

\* What the arithmetic of cursors needs of the constants.
LEMMA CursorFacts ==
  Last \in Nat /\ Batches \in Nat \ {0} /\ Batches < Last /\ 1 \in Units
  BY JobLeaseAssumption DEF Last, Units

\* The fields of a row and of a lease, for steps that leave Row and Lease folded.
LEMMA RowFields ==
  ASSUME NEW r \in Row
  PROVE  /\ r.status \in Statuses /\ r.phase \in Phases /\ r.epoch \in Nat
         /\ r.cursor \in 0 .. Last /\ r.takeovers \in Nat /\ r.error \in Errors
         /\ r.result \in Nat
  BY DEF Row

LEMMA LeaseFields ==
  ASSUME NEW l \in Lease
  PROVE  /\ l.pc \in PCs /\ l.job \in Jobs \cup {NoJob} /\ l.epoch \in Nat
         /\ l.cur \in 0 .. Last /\ l.tries \in 0 .. MaxTries
         /\ l.lost \in BOOLEAN /\ l.drain \in BOOLEAN
  BY DEF Lease

LEMMA IdleType == Idle \in Lease /\ Idle.pc = "idle"
  BY CursorFacts, JobLeaseAssumption DEF Idle, Lease, PCs

-----------------------------------------------------------------------------
(* What the actions write                                                  *)

\* A write of job j's row that leaves its epoch and cursor: status s afterwards.
StatusOnly(j, s) ==
  /\ row' \in [Jobs -> Row]
  /\ \A i \in Jobs : i # j => row'[i] = row[i]
  /\ row'[j].status = s /\ row'[j].epoch = row[j].epoch /\ row'[j].cursor = row[j].cursor

\* Slot w goes to program counter p at cursor c under the ownership it has, or goes idle.
Moves(w, p, c) ==
  /\ lease' \in [Slots -> Lease]
  /\ \A v \in Slots : v # w => lease'[v] = lease[v]
  /\ lease'[w].pc = p /\ lease'[w].cur = c
  /\ lease'[w].job = lease[w].job /\ lease'[w].epoch = lease[w].epoch
Dropped(w) ==
  /\ lease' \in [Slots -> Lease]
  /\ \A v \in Slots : v # w => lease'[v] = lease[v]
  /\ lease'[w].pc = "idle"

LEMMA DropEffect ==
  ASSUME lease \in [Slots -> Lease], NEW w \in Slots, Drop(w)
  PROVE  Dropped(w)
  BY IdleType DEF Drop, Dropped

LEMMA PcEffect ==
  ASSUME lease \in [Slots -> Lease], NEW w \in Slots, NEW p \in PCs,
         lease' = [lease EXCEPT ![w].pc = p]
  PROVE  Moves(w, p, lease[w].cur)
  BY DEF Moves, Lease

LEMMA FlagEffect ==
  ASSUME lease \in [Slots -> Lease], NEW w \in Slots,
         \/ lease' = [lease EXCEPT ![w].lost = TRUE]
         \/ lease' = [lease EXCEPT ![w].drain = TRUE]
  PROVE  Moves(w, lease[w].pc, lease[w].cur)
<1>1. CASE lease' = [lease EXCEPT ![w].lost = TRUE]
  BY ZenonT(60), <1>1 DEF Moves, Lease
<1>2. CASE lease' = [lease EXCEPT ![w].drain = TRUE]
  BY <1>2 DEF Moves, Lease
<1> QED
  BY <1>1, <1>2

LEMMA TryEffect ==
  ASSUME lease \in [Slots -> Lease], NEW w \in Slots, lease[w].tries < MaxTries,
         lease' = [lease EXCEPT ![w].pc = "ready", ![w].tries = @ + 1]
  PROVE  Moves(w, "ready", lease[w].cur)
<1>1. PICK l \in Lease : l = lease[w]
  OBVIOUS
<1>2. PICK n \in 0 .. MaxTries : n = l.tries + 1
  BY <1>1, LeaseFields, JobLeaseAssumption
<1>3. PICK q : q = [l EXCEPT !.pc = "ready", !.tries = n]
  OBVIOUS
<1>4. q \in Lease /\ q.pc = "ready" /\ q.job = l.job /\ q.epoch = l.epoch /\ q.cur = l.cur
  BY <1>3 DEF Lease, PCs
<1>5. lease' = [lease EXCEPT ![w] = q]
  BY <1>1, <1>2, <1>3
<1> QED
  BY <1>1, <1>4, <1>5 DEF Moves

LEMMA FinishEffect ==
  ASSUME row \in [Jobs -> Row], NEW w \in Slots, lease[w].job \in Jobs,
         lease[w].epoch \in Nat, Fenced(w), Finish(w)
  PROVE  StatusOnly(lease[w].job, "completed")
<1>1. PICK r \in Row : r = row[lease[w].job]
  OBVIOUS
<1>2. PICK k \in Nat : k = IF lease[w].job \in Exports THEN EpochKey(lease[w].epoch) ELSE 0
  BY DEF EpochKey
<1>3. PICK q : q = [r EXCEPT !.status = "completed", !.result = k]
  OBVIOUS
<1>4. q \in Row /\ q.status = "completed" /\ q.epoch = r.epoch /\ q.cursor = r.cursor
  BY <1>3 DEF Row, Statuses
<1>5. row' = [row EXCEPT ![lease[w].job] = q]
  BY <1>1, <1>2, <1>3 DEF Finish, Write
<1> QED
  BY <1>1, <1>4, <1>5 DEF StatusOnly

LEMMA FailEffect ==
  ASSUME row \in [Jobs -> Row], NEW w \in Slots, lease[w].job \in Jobs, Fenced(w), Fail(w)
  PROVE  StatusOnly(lease[w].job, "failed")
<1>1. PICK r \in Row : r = row[lease[w].job]
  OBVIOUS
<1>2. PICK q : q = [r EXCEPT !.status = "failed", !.error = "raised"]
  OBVIOUS
<1>3. q \in Row /\ q.status = "failed" /\ q.epoch = r.epoch /\ q.cursor = r.cursor
  BY <1>2 DEF Row, Statuses, Errors
<1>4. row' = [row EXCEPT ![lease[w].job] = q]
  BY <1>1, <1>2 DEF Fail, Write
<1> QED
  BY <1>1, <1>3, <1>4 DEF StatusOnly

LEMMA ReleaseEffect ==
  ASSUME row \in [Jobs -> Row], NEW w \in Slots, lease[w].job \in Jobs, Fenced(w), Release(w)
  PROVE  StatusOnly(lease[w].job, "pending")
<1>1. PICK r \in Row : r = row[lease[w].job]
  OBVIOUS
<1>2. PICK q : q = [r EXCEPT !.status = "pending", !.phase = "queued"]
  OBVIOUS
<1>3. q \in Row /\ q.status = "pending" /\ q.epoch = r.epoch /\ q.cursor = r.cursor
  BY <1>2 DEF Row, Statuses, Phases
<1>4. row' = [row EXCEPT ![lease[w].job] = q]
  BY <1>1, <1>2 DEF Release, Released, Write
<1> QED
  BY <1>1, <1>3, <1>4 DEF StatusOnly

LEMMA RequestEffect ==
  ASSUME row \in [Jobs -> Row], NEW j \in Jobs,
         Create(j) \/ Start(j) \/ ReclaimImport(j) \/ RequeueFailed(j)
  PROVE  StatusOnly(j, "pending")
<1>1. PICK r \in Row : r = row[j]
  OBVIOUS
<1>2. CASE Create(j)
  <2>1. PICK q : q = [r EXCEPT !.status = "pending"]
    OBVIOUS
  <2>2. q \in Row /\ q.status = "pending" /\ q.epoch = r.epoch /\ q.cursor = r.cursor
    BY <2>1 DEF Row, Statuses
  <2>3. row' = [row EXCEPT ![j] = q]
    BY <1>1, <1>2, <2>1 DEF Create, Write
  <2> QED
    BY <1>1, <2>2, <2>3 DEF StatusOnly
<1>3. CASE Start(j)
  <2>1. PICK q : q = [r EXCEPT !.phase = "queued"]
    OBVIOUS
  <2>2. q \in Row /\ q.status = r.status /\ q.epoch = r.epoch /\ q.cursor = r.cursor
    BY <2>1 DEF Row, Phases
  <2>3. row' = [row EXCEPT ![j] = q]
    BY <1>1, <1>3, <2>1 DEF Start, Write
  <2>4. r.status = "pending"
    BY <1>1, <1>3 DEF Start
  <2> QED
    BY <1>1, <2>2, <2>3, <2>4 DEF StatusOnly
<1>4. CASE ReclaimImport(j)
  <2>1. PICK q : q = [r EXCEPT !.status = "pending", !.error = "none"]
    OBVIOUS
  <2>2. q \in Row /\ q.status = "pending" /\ q.epoch = r.epoch /\ q.cursor = r.cursor
    BY <2>1 DEF Row, Statuses, Errors
  <2>3. row' = [row EXCEPT ![j] = q]
    BY <1>1, <1>4, <2>1 DEF ReclaimImport, Write
  <2> QED
    BY <1>1, <2>2, <2>3 DEF StatusOnly
<1>5. CASE RequeueFailed(j)
  <2>1. PICK q : q = [r EXCEPT !.status = "pending", !.phase = "queued",
                            !.error = "none", !.takeovers = 0]
    OBVIOUS
  <2>2. q \in Row /\ q.status = "pending" /\ q.epoch = r.epoch /\ q.cursor = r.cursor
    BY <2>1 DEF Row, Statuses, Phases, Errors
  <2>3. row' = [row EXCEPT ![j] = q]
    BY <1>1, <1>5, <2>1 DEF RequeueFailed, Write
  <2> QED
    BY <1>1, <2>2, <2>3 DEF StatusOnly
<1> QED
  BY <1>2, <1>3, <1>4, <1>5

LEMMA CancelEffect ==
  ASSUME row \in [Jobs -> Row], NEW j \in Jobs, CancelExport(j)
  PROVE  StatusOnly(j, "cancelled")
<1>1. PICK r \in Row : r = row[j]
  OBVIOUS
<1>2. PICK q : q = [r EXCEPT !.status = "cancelled"]
  OBVIOUS
<1>3. q \in Row /\ q.status = "cancelled" /\ q.epoch = r.epoch /\ q.cursor = r.cursor
  BY <1>2 DEF Row, Statuses
<1>4. row' = [row EXCEPT ![j] = q]
  BY <1>1, <1>2 DEF CancelExport, Write
<1> QED
  BY <1>1, <1>3, <1>4 DEF StatusOnly

LEMMA ReaperEffect ==
  ASSUME row \in [Jobs -> Row], NEW j \in Jobs, Reaper(j)
  PROVE  StatusOnly(j, "failed")
<1>1. PICK r \in Row : r = row[j]
  OBVIOUS
<1>2. CASE FailNeverQueued(j)
  <2>1. PICK q : q = [r EXCEPT !.status = "failed", !.error = "never_queued"]
    OBVIOUS
  <2>2. q \in Row /\ q.status = "failed" /\ q.epoch = r.epoch /\ q.cursor = r.cursor
    BY <2>1 DEF Row, Statuses, Errors
  <2>3. row' = [row EXCEPT ![j] = q]
    BY <1>1, <1>2, <2>1 DEF FailNeverQueued, Write
  <2> QED
    BY <1>1, <2>2, <2>3 DEF StatusOnly
<1>3. CASE FailNotStarted(j)
  <2>1. PICK q : q = [r EXCEPT !.status = "failed", !.error = "not_started"]
    OBVIOUS
  <2>2. q \in Row /\ q.status = "failed" /\ q.epoch = r.epoch /\ q.cursor = r.cursor
    BY <2>1 DEF Row, Statuses, Errors
  <2>3. row' = [row EXCEPT ![j] = q]
    BY <1>1, <1>3, <2>1 DEF FailNotStarted, Write
  <2> QED
    BY <1>1, <2>2, <2>3 DEF StatusOnly
<1> QED
  BY <1>2, <1>3 DEF Reaper

-----------------------------------------------------------------------------
(* The four kinds of step                                                  *)

\* A slot that is busy afterwards has the ownership it had, at a place CursorInv allows.
SlotsStay ==
  /\ lease' \in [Slots -> Lease]
  /\ \A w \in Slots : lease'[w].pc # "idle" =>
       /\ lease[w].pc # "idle"
       /\ lease'[w].job = lease[w].job /\ lease'[w].epoch = lease[w].epoch
       /\ lease'[w].job \in Imports =>
            /\ lease'[w].pc \in {"next", "work"} => lease'[w].cur < Last
            /\ lease'[w].pc = "finish" => row'[lease'[w].job].cursor = Last

\* Epochs and cursors stay; a commit in doubt keeps its row's status; work is dropped
\* only of a job with no cursor; an import completes only at the last cursor.
QuietStep ==
  /\ SlotsStay
  /\ row' \in [Jobs -> Row] /\ applied' \in [Jobs -> [Units -> Nat]]
  /\ \A j \in Jobs :
       /\ row'[j].epoch = row[j].epoch /\ row'[j].cursor = row[j].cursor
       /\ limbo'[j] \in {0, limbo[j]}
       /\ limbo[j] # 0 => row'[j].status = row[j].status
       /\ \/ applied'[j] = applied[j]
          \/ row[j].cursor = 0 /\ applied'[j] = [u \in Units |-> 0]
       /\ j \in Imports /\ row'[j].status = "completed" =>
            row[j].status = "completed" \/ row[j].cursor = Last

LEMMA QuietKeeps ==
  ASSUME TypeOK, LeaseInv, QuietStep
  PROVE  LeaseInv'
<1>1. OwnerInv'
  BY DEF LeaseInv, OwnerInv, QuietStep, SlotsStay, Busy
<1>2. SoleOwner'
  BY DEF LeaseInv, SoleOwner, QuietStep, SlotsStay, Busy
<1>3. CursorInv'
  BY DEF QuietStep, SlotsStay, CursorInv, Busy
<1>4. LimboInv'
  BY DEF LeaseInv, LimboInv, QuietStep
<1>5. \A j \in Jobs : StagedPreLease(j)' => StagedPreLease(j)
  BY CursorFacts DEF StagedPreLease, QuietStep
<1>6. PreLeaseInv'
  BY ZenonT(60), <1>5 DEF LeaseInv, PreLeaseInv, QuietStep, SlotsStay, Busy
<1>7. ExactlyOnce'
  <2> SUFFICES ASSUME NEW j \in Jobs, NEW u \in Units
               PROVE  /\ u <= row'[j].cursor => applied'[j][u] = 1
                      /\ u > row'[j].cursor =>
                           \/ applied'[j][u] = 0
                           \/ /\ j \in PreLease /\ StagedPreLease(j)'
                              /\ u = 1 /\ applied'[j][u] = 1
    BY DEF ExactlyOnce
  <2>1. CASE applied'[j] = applied[j]
    BY <2>1 DEF LeaseInv, ExactlyOnce, QuietStep, StagedPreLease
  <2>2. CASE row[j].cursor = 0 /\ applied'[j] = [v \in Units |-> 0]
    BY <2>2, CursorFacts DEF QuietStep, Units
  <2> QED
    BY <2>1, <2>2 DEF QuietStep
<1>8. CompletedInv'
  <2>1. Imports \subseteq Jobs
    BY DEF Jobs
  <2> QED
    BY <2>1 DEF LeaseInv, CompletedInv, QuietStep
<1> QED
  BY <1>1, <1>2, <1>3, <1>4, <1>6, <1>7, <1>8 DEF LeaseInv

\* Slot w takes job c at an epoch no lease has; other rows may be failed in place.
ClaimStep(w, c) ==
  /\ row' \in [Jobs -> Row] /\ lease' \in [Slots -> Lease]
  /\ limbo' = limbo /\ applied' = applied
  /\ limbo[c] = 0 /\ ~StagedPreLease(c)
  /\ row'[c].epoch = row[c].epoch + 1 /\ row'[c].status = "running"
  /\ \A j \in Jobs :
       /\ row'[j].cursor = row[j].cursor
       /\ j # c => /\ row'[j].epoch = row[j].epoch
                   /\ row'[j] = row[j] \/ (row'[j].status = "failed" /\ limbo[j] = 0)
  /\ lease'[w].pc = "ready" /\ lease'[w].job = c /\ lease'[w].epoch = row[c].epoch + 1
  /\ \A v \in Slots : v # w => lease'[v] = lease[v]

LEMMA ClaimKeeps ==
  ASSUME TypeOK, LeaseInv, NEW w \in Slots, NEW c \in Jobs, ClaimStep(w, c)
  PROVE  LeaseInv'
<1>a. \A j \in Jobs : row[j].epoch \in Nat /\ row'[j].epoch \in Nat
  BY RowFields DEF TypeOK, ClaimStep
<1>b. \A v \in Slots : lease[v].epoch \in Nat /\ lease'[v].epoch \in Nat
  BY LeaseFields DEF TypeOK, ClaimStep
<1>1. OwnerInv'
  BY <1>a, <1>b DEF LeaseInv, OwnerInv, ClaimStep, Busy
<1>2. SoleOwner'
  BY <1>a, <1>b DEF LeaseInv, OwnerInv, SoleOwner, ClaimStep, Busy
<1>3. CursorInv'
  <2>1. Imports \subseteq Jobs
    BY DEF Jobs
  <2> QED
    BY <2>1 DEF LeaseInv, CursorInv, ClaimStep, Busy
<1>4. LimboInv'
  BY DEF LeaseInv, LimboInv, ClaimStep
<1>5. \A j \in Jobs : StagedPreLease(j)' = StagedPreLease(j)
  BY DEF StagedPreLease, ClaimStep
<1>6. PreLeaseInv'
  BY <1>5 DEF LeaseInv, PreLeaseInv, ClaimStep, Busy
<1>7. ExactlyOnce'
  BY <1>5 DEF LeaseInv, ExactlyOnce, ClaimStep
<1>8. CompletedInv'
  <2>1. Imports \subseteq Jobs
    BY DEF Jobs
  <2> QED
    BY <2>1 DEF LeaseInv, CompletedInv, ClaimStep
<1> QED
  BY <1>1, <1>2, <1>3, <1>4, <1>6, <1>7, <1>8 DEF LeaseInv

\* The next unit of a running job lands together with the cursor.
LandStep(j, u) ==
  /\ SlotsStay
  /\ row' \in [Jobs -> Row]
  /\ row[j].status = "running" /\ ~StagedPreLease(j)
  /\ u \in Units /\ u = row[j].cursor + 1
  /\ row'[j].cursor = u /\ row'[j].epoch = row[j].epoch /\ row'[j].status = row[j].status
  /\ \A i \in Jobs : i # j => row'[i] = row[i] /\ applied'[i] = applied[i]
                                              /\ limbo'[i] = limbo[i]
  /\ limbo'[j] = 0
  /\ applied'[j] = [applied[j] EXCEPT ![u] = @ + 1]

LEMMA LandKeeps ==
  ASSUME TypeOK, LeaseInv, NEW j \in Jobs, NEW u, LandStep(j, u)
  PROVE  LeaseInv'
<1>a. \A i \in Jobs : row[i].cursor \in Nat /\ row[i].epoch \in Nat
  BY RowFields, CursorFacts DEF TypeOK
<1>b. \A i \in Jobs : applied[i] \in [Units -> Nat]
  BY DEF TypeOK
<1>1. OwnerInv'
  BY DEF LeaseInv, OwnerInv, LandStep, SlotsStay, Busy
<1>2. SoleOwner'
  BY DEF LeaseInv, SoleOwner, LandStep, SlotsStay, Busy
<1>3. CursorInv'
  BY DEF LandStep, SlotsStay, CursorInv, Busy
<1>4. LimboInv'
  BY DEF LeaseInv, LimboInv, LandStep
<1>5. \A i \in Jobs : StagedPreLease(i)' => i # j /\ StagedPreLease(i)
  BY <1>a DEF StagedPreLease, LandStep
<1>6. PreLeaseInv'
  BY <1>5 DEF LeaseInv, PreLeaseInv, LandStep, SlotsStay, Busy
<1>7. ExactlyOnce'
  <2> SUFFICES ASSUME NEW i \in Jobs, NEW v \in Units
               PROVE  /\ v <= row'[i].cursor => applied'[i][v] = 1
                      /\ v > row'[i].cursor =>
                           \/ applied'[i][v] = 0
                           \/ /\ i \in PreLease /\ StagedPreLease(i)'
                              /\ v = 1 /\ applied'[i][v] = 1
    BY DEF ExactlyOnce
  <2>1. CASE i # j
    BY <2>1 DEF LeaseInv, ExactlyOnce, LandStep, StagedPreLease
  <2>2. CASE i = j
    <3>1. v \in Nat /\ u \in Nat /\ row[j].cursor \in Nat
      BY <1>a DEF LandStep, Units
    <3>2. v <= row[j].cursor => applied[j][v] = 1
      BY DEF LeaseInv, ExactlyOnce
    <3>3. v > row[j].cursor => applied[j][v] = 0
      BY DEF LeaseInv, ExactlyOnce, LandStep
    <3>4. /\ v = u => applied'[j][v] = applied[j][v] + 1
          /\ v # u => applied'[j][v] = applied[j][v]
      BY <1>b DEF LandStep
    <3>5. row'[j].cursor = u /\ u = row[j].cursor + 1
      BY DEF LandStep
    <3>6. v = u => applied'[j][v] = 1
      BY <3>1, <3>3, <3>4, <3>5
    <3>7. v < u => applied'[j][v] = 1
      BY <3>1, <3>2, <3>4, <3>5
    <3>8. v > u => applied'[j][v] = 0
      BY <3>1, <3>3, <3>4, <3>5
    <3> QED
      BY <2>2, <3>1, <3>5, <3>6, <3>7, <3>8
  <2> QED
    BY <2>1, <2>2
<1>8. CompletedInv'
  <2>1. Imports \subseteq Jobs
    BY DEF Jobs
  <2> QED
    BY <2>1 DEF LeaseInv, CompletedInv, LandStep
<1> QED
  BY <1>1, <1>2, <1>3, <1>4, <1>6, <1>7, <1>8 DEF LeaseInv

\* The commit of a running job's next unit is in doubt; its row is as it was.
DoubtStep(j) ==
  /\ SlotsStay
  /\ row' = row /\ applied' = applied
  /\ j \in Imports /\ row[j].status = "running" /\ ~StagedPreLease(j)
  /\ limbo' = [limbo EXCEPT ![j] = row[j].cursor + 1]

LEMMA DoubtKeeps ==
  ASSUME TypeOK, LeaseInv, NEW j \in Jobs, DoubtStep(j)
  PROVE  LeaseInv'
<1>1. OwnerInv'
  BY DEF LeaseInv, OwnerInv, DoubtStep, SlotsStay, Busy
<1>2. SoleOwner'
  BY DEF LeaseInv, SoleOwner, DoubtStep, SlotsStay, Busy
<1>3. CursorInv'
  BY DEF DoubtStep, SlotsStay, CursorInv, Busy
<1>4. LimboInv'
  BY DEF TypeOK, LeaseInv, LimboInv, DoubtStep
<1>5. \A i \in Jobs : StagedPreLease(i)' = StagedPreLease(i)
  BY DEF StagedPreLease, DoubtStep
<1>6. PreLeaseInv'
  BY <1>5 DEF TypeOK, LeaseInv, PreLeaseInv, DoubtStep, SlotsStay, Busy
<1>7. ExactlyOnce'
  BY <1>5 DEF LeaseInv, ExactlyOnce, DoubtStep
<1>8. CompletedInv'
  BY DEF LeaseInv, CompletedInv, DoubtStep
<1> QED
  BY <1>1, <1>2, <1>3, <1>4, <1>6, <1>7, <1>8 DEF LeaseInv

-----------------------------------------------------------------------------
(* The inductive invariant                                                 *)

Inv == TypeOK /\ LeaseInv

\* The part of the type invariant that the kinds of step say nothing of.
Rest ==
  /\ fresh \in [Jobs -> BOOLEAN] /\ limbo \in [Jobs -> 0 .. Last]
  /\ files \in [Jobs -> SUBSET Nat]
  /\ stops \in 0 .. MaxStops /\ requeues \in [Jobs -> 0 .. MaxRequeues]

LEMMA QuietInv ==
  ASSUME Inv, QuietStep, Rest'
  PROVE  Inv'
<1>1. TypeOK'
  BY DEF QuietStep, SlotsStay, Rest, TypeOK
<1>2. LeaseInv'
  BY QuietKeeps DEF Inv
<1> QED
  BY <1>1, <1>2 DEF Inv

\* A busy slot's lease names a job.
LEMMA BusyFacts ==
  ASSUME Inv, NEW w \in Slots, Busy(w)
  PROVE  /\ lease[w].job \in Jobs /\ lease[w].epoch \in Nat /\ lease[w].cur \in 0 .. Last
         /\ row[lease[w].job] \in Row /\ lease[w] \in Lease
         /\ ~StagedPreLease(lease[w].job)
  BY LeaseFields DEF Inv, TypeOK, LeaseInv, OwnerInv, PreLeaseInv

LEMMA ImportsJobs == Imports \subseteq Jobs /\ Exports \subseteq Jobs
  BY DEF Jobs

\* Every row keeps its cursor.
CursorsStay == \A j \in Jobs : row'[j].cursor = row[j].cursor

LEMMA SameStay ==
  ASSUME Inv, CursorsStay, lease' = lease
  PROVE  SlotsStay
  BY ImportsJobs DEF Inv, TypeOK, LeaseInv, CursorInv, CursorsStay, SlotsStay, Busy

LEMMA DropStay ==
  ASSUME Inv, CursorsStay, NEW w \in Slots, Dropped(w)
  PROVE  SlotsStay
  BY ImportsJobs DEF Inv, TypeOK, LeaseInv, CursorInv, CursorsStay, SlotsStay, Busy, Dropped

LEMMA MoveStay ==
  ASSUME Inv, CursorsStay, NEW w \in Slots, Busy(w), NEW p, NEW c, Moves(w, p, c),
         lease[w].job \in Imports =>
           /\ p \in {"next", "work"} => c < Last
           /\ p = "finish" => row[lease[w].job].cursor = Last
  PROVE  SlotsStay
<1> SUFFICES ASSUME NEW v \in Slots, lease'[v].pc # "idle"
             PROVE  /\ lease[v].pc # "idle"
                    /\ lease'[v].job = lease[v].job /\ lease'[v].epoch = lease[v].epoch
                    /\ lease'[v].job \in Imports =>
                         /\ lease'[v].pc \in {"next", "work"} => lease'[v].cur < Last
                         /\ lease'[v].pc = "finish" => row'[lease'[v].job].cursor = Last
  BY DEF SlotsStay, Moves
<1>1. CASE v # w
  BY <1>1, ImportsJobs DEF Inv, LeaseInv, CursorInv, CursorsStay, Busy, Moves
<1>2. CASE v = w
  BY <1>2, ImportsJobs DEF CursorsStay, Busy, Moves
<1> QED
  BY <1>1, <1>2

LEMMA QuietRow ==
  ASSUME Inv, SlotsStay, row' = row, limbo' = limbo, applied' = applied
  PROVE  QuietStep
  BY DEF Inv, TypeOK, QuietStep

LEMMA QuietStatus ==
  ASSUME Inv, SlotsStay, NEW j \in Jobs, NEW s, StatusOnly(j, s), limbo[j] = 0,
         limbo' = limbo, applied' = applied,
         j \in Imports /\ s = "completed" => row[j].cursor = Last
  PROVE  QuietStep
<1>1. row' \in [Jobs -> Row] /\ applied' \in [Jobs -> [Units -> Nat]]
  BY DEF Inv, TypeOK, StatusOnly
<1> QED
  BY <1>1 DEF QuietStep, StatusOnly

LEMMA StatusCursors ==
  ASSUME NEW j \in Jobs, NEW s, StatusOnly(j, s)
  PROVE  CursorsStay
  BY DEF StatusOnly, CursorsStay

LEMMA FilesType ==
  ASSUME Inv, NEW w \in Slots, Busy(w), NotWhole(w) \/ Whole(w) \/ files' = files
  PROVE  files' \in [Jobs -> SUBSET Nat]
<1>1. EpochKey(lease[w].epoch) \in Nat
  BY BusyFacts DEF EpochKey
<1>2. files \in [Jobs -> SUBSET Nat]
  BY DEF Inv, TypeOK
<1> QED
  BY <1>1, <1>2 DEF NotWhole, Whole

-----------------------------------------------------------------------------
(* One lemma per group of actions                                          *)

\* Slots that go on, or stop, without writing their row.
LEMMA RenewInv ==
  ASSUME Inv, NEW w \in Slots, Renew(w)
  PROVE  Inv'
<1>1. CursorsStay /\ row' = row /\ limbo' = limbo /\ applied' = applied /\ Busy(w)
  BY DEF Renew, CursorsStay
<1>2. SlotsStay
  <2>1. CASE lease' = lease
    BY <1>1, <2>1, SameStay
  <2>2. CASE lease' = [lease EXCEPT ![w].lost = TRUE]
    <3>1. Moves(w, lease[w].pc, lease[w].cur)
      BY <2>2, FlagEffect DEF Inv, TypeOK
    <3> QED
      BY <1>1, <3>1, MoveStay DEF Inv, LeaseInv, CursorInv
  <2> QED
    BY <2>1, <2>2 DEF Renew
<1>3. Rest'
  BY DEF Renew, Rest, Inv, TypeOK
<1> QED
  BY <1>1, <1>2, <1>3, QuietRow, QuietInv

LEMMA StageFacts ==
  ASSUME NEW c \in 0 .. Last
  PROVE  /\ StageOf(c) \in PCs /\ StageOf(c) # "idle"
         /\ StageOf(c) \in {"next", "work"} => c < Last
         /\ StageOf(c) = "finish" => c = Last
  BY CursorFacts DEF StageOf, PCs

LEMMA BeginInv ==
  ASSUME Inv, NEW w \in Slots, Begin(w)
  PROVE  Inv'
<1>1. CursorsStay /\ row' = row /\ limbo' = limbo /\ applied' = applied /\ Busy(w)
  BY DEF Begin, CursorsStay, Busy
<1>2. SlotsStay
  <2>1. CASE Fenced(w)
    <3>1. PICK l \in Lease : l = lease[w]
      BY <1>1, BusyFacts
    <3>2. PICK c \in 0 .. Last : c = row[l.job].cursor
      BY <1>1, <3>1, BusyFacts, RowFields
    <3>3. PICK q : q = [l EXCEPT !.cur = c, !.pc = StageOf(c)]
      OBVIOUS
    <3>4. StageOf(c) \in PCs
      BY StageFacts
    <3>5. /\ q \in Lease /\ q.pc = StageOf(c) /\ q.cur = c
          /\ q.job = l.job /\ q.epoch = l.epoch
      BY <3>3, <3>4 DEF Lease
    <3>6. lease' = [lease EXCEPT ![w] = q]
      BY <2>1, <3>1, <3>2, <3>3 DEF Begin
    <3>7. lease \in [Slots -> Lease]
      BY DEF Inv, TypeOK
    <3>8. Moves(w, StageOf(c), c)
      BY <3>1, <3>5, <3>6, <3>7 DEF Moves
    <3> QED
      BY <1>1, <3>1, <3>2, <3>8, MoveStay, StageFacts
  <2>2. CASE ~Fenced(w)
    <3>1. Drop(w)
      BY <2>2 DEF Begin, Drop
    <3> QED
      BY <1>1, <3>1, DropEffect, DropStay DEF Inv, TypeOK
  <2> QED
    BY <2>1, <2>2
<1>3. Rest'
  BY DEF Begin, Rest, Inv, TypeOK
<1> QED
  BY <1>1, <1>2, <1>3, QuietRow, QuietInv

LEMMA ImportPcInv ==
  ASSUME Inv, NEW w \in Slots, NextBatch(w) \/ Fault(w)
  PROVE  Inv'
<1>1. CursorsStay /\ row' = row /\ limbo' = limbo /\ applied' = applied /\ Busy(w)
  BY DEF NextBatch, Fault, CursorsStay, Busy
<1>2. SlotsStay
  <2>1. CASE NextBatch(w)
    <3>1. Moves(w, "work", lease[w].cur)
      BY <2>1, PcEffect DEF NextBatch, Inv, TypeOK, PCs
    <3> QED
      BY <1>1, <2>1, <3>1, MoveStay DEF NextBatch, Inv, LeaseInv, CursorInv
  <2>2. CASE Fault(w)
    <3>1. Moves(w, "ready", lease[w].cur)
      BY <2>2, TryEffect DEF Fault, Inv, TypeOK
    <3> QED
      BY <1>1, <3>1, MoveStay
  <2> QED
    BY <2>1, <2>2
<1>3. Rest'
  BY DEF NextBatch, Fault, Rest, Inv, TypeOK
<1> QED
  BY <1>1, <1>2, <1>3, QuietRow, QuietInv

\* Exports write files and no cursor.
LEMMA ExportInv ==
  ASSUME Inv, NEW w \in Slots, OpenFile(w) \/ StoreFile(w) \/ Progress(w)
  PROVE  Inv'
<1>1. CursorsStay /\ row' = row /\ limbo' = limbo /\ applied' = applied /\ Busy(w)
  BY DEF OpenFile, StoreFile, Progress, CursorsStay, Busy
<1>2. SlotsStay
  <2>1. lease[w].job \notin Imports
    BY JobLeaseAssumption DEF OpenFile, StoreFile, Progress
  <2>2. CASE OpenFile(w)
    <3>1. Moves(w, "work", lease[w].cur)
      BY <2>2, PcEffect DEF OpenFile, Inv, TypeOK, PCs
    <3> QED
      BY <1>1, <2>1, <3>1, MoveStay
  <2>3. CASE StoreFile(w)
    <3>1. Moves(w, "finish", lease[w].cur)
      BY <2>3, PcEffect DEF StoreFile, Inv, TypeOK, PCs
    <3> QED
      BY <1>1, <2>1, <3>1, MoveStay
  <2>4. CASE Progress(w)
    <3>1. lease' = lease \/ Drop(w)
      BY <2>4 DEF Progress
    <3> QED
      BY <1>1, <3>1, SameStay, DropEffect, DropStay DEF Inv, TypeOK
  <2> QED
    BY <2>2, <2>3, <2>4
<1>3. files' \in [Jobs -> SUBSET Nat]
  BY <1>1, FilesType DEF OpenFile, StoreFile, Progress
<1>4. Rest'
  BY <1>3 DEF OpenFile, StoreFile, Progress, Rest, Inv, TypeOK
<1> QED
  BY <1>1, <1>2, <1>4, QuietRow, QuietInv

\* A slot that stops, is told to, or raises: the row is as it was.
LEMMA StopInv ==
  ASSUME Inv, NEW w \in Slots,
         CommitRefused(w) \/ Quiet(w) \/ Crash(w) \/ Stop(w) \/ Raise(w)
  PROVE  Inv'
<1>1. CursorsStay /\ row' = row /\ limbo' = limbo /\ applied' = applied /\ Busy(w)
  BY DEF CommitRefused, Quiet, Crash, Stop, Raise, CursorsStay, Busy
<1>2. SlotsStay
  <2>1. CASE Stop(w)
    <3>1. Moves(w, lease[w].pc, lease[w].cur)
      BY <2>1, FlagEffect DEF Stop, Inv, TypeOK
    <3> QED
      BY <1>1, <3>1, MoveStay DEF Inv, LeaseInv, CursorInv
  <2>2. CASE Raise(w)
    <3>1. Moves(w, "error", lease[w].cur)
      BY <2>2, PcEffect DEF Raise, Inv, TypeOK, PCs
    <3> QED
      BY <1>1, <3>1, MoveStay
  <2>3. CASE CommitRefused(w) \/ Quiet(w) \/ Crash(w)
    <3>1. Drop(w)
      BY <2>3 DEF CommitRefused, Quiet, Crash
    <3> QED
      BY <1>1, <3>1, DropEffect, DropStay DEF Inv, TypeOK
  <2> QED
    BY <2>1, <2>2, <2>3
<1>3. files' \in [Jobs -> SUBSET Nat]
  BY <1>1, FilesType DEF CommitRefused, Quiet, Crash, Stop, Raise
<1>4. Rest'
  BY <1>3, JobLeaseAssumption DEF CommitRefused, Quiet, Crash, Stop, Raise, Rest, Inv, TypeOK
<1> QED
  BY <1>1, <1>2, <1>4, QuietRow, QuietInv

\* A slot that settles its row: completed only at the last cursor.
LEMMA SettleInv ==
  ASSUME Inv, NEW w \in Slots, Finish(w) \/ Fail(w) \/ Release(w)
  PROVE  Inv'
<1>1. limbo' = limbo /\ applied' = applied /\ Busy(w) /\ Drop(w)
  BY DEF Finish, Fail, Release, Busy
<1>2. Dropped(w)
  BY <1>1, DropEffect DEF Inv, TypeOK
<1>3. limbo[lease[w].job] = 0
  BY DEF Finish, Fail, Release, Unlocked
<1>4. QuietStep
  <2>1. CASE ~Fenced(w)
    <3>1. row' = row
      BY <2>1 DEF Finish, Fail, Release
    <3> QED
      BY <1>1, <1>2, <3>1, DropStay, QuietRow DEF CursorsStay
  <2>2. CASE Fenced(w)
    <3>1. row \in [Jobs -> Row]
      BY DEF Inv, TypeOK
    <3>2. PICK s : /\ StatusOnly(lease[w].job, s)
                   /\ s = "completed" => Finish(w)
      BY <1>1, <2>2, <3>1, BusyFacts, FinishEffect, FailEffect, ReleaseEffect
    <3>3. lease[w].job \in Imports /\ s = "completed" => row[lease[w].job].cursor = Last
      BY <1>1, <3>2 DEF Inv, LeaseInv, CursorInv, Finish
    <3>4. SlotsStay
      BY <1>1, <1>2, <3>2, BusyFacts, StatusCursors, DropStay
    <3> QED
      BY <1>1, <1>3, <3>2, <3>3, <3>4, BusyFacts, QuietStatus
  <2> QED
    BY <2>1, <2>2
<1>5. files' \in [Jobs -> SUBSET Nat]
  BY <1>1, FilesType DEF Finish, Fail, Release
<1>6. Rest'
  BY <1>5 DEF Finish, Fail, Release, Rest, Inv, TypeOK
<1> QED
  BY <1>4, <1>6, QuietInv

\* The API's and the reaper's writes: of rows no commit in doubt holds.
LEMMA RequestInv ==
  ASSUME Inv, NEW j \in Jobs,
         Create(j) \/ Start(j) \/ ReclaimImport(j) \/ CancelExport(j) \/ Reaper(j)
  PROVE  Inv'
<1>1. limbo' = limbo /\ applied' = applied /\ lease' = lease
  BY DEF Create, Start, ReclaimImport, CancelExport, Reaper, FailNeverQueued, FailNotStarted
<1>2. limbo[j] = 0
  BY JobLeaseAssumption
     DEF Inv, LeaseInv, LimboInv, Create, Start, ReclaimImport, CancelExport, Reaper,
         FailNeverQueued, FailNotStarted
<1>3. PICK s : StatusOnly(j, s) /\ s # "completed"
  BY RequestEffect, CancelEffect, ReaperEffect DEF Inv, TypeOK
<1>4. SlotsStay
  BY <1>1, <1>3, StatusCursors, SameStay
<1>5. requeues' \in [Jobs -> 0 .. MaxRequeues]
  BY JobLeaseAssumption
     DEF Inv, TypeOK, Create, Start, ReclaimImport, CancelExport, Reaper,
         FailNeverQueued, FailNotStarted
<1>6. Rest'
  BY <1>5 DEF Rest, Inv, TypeOK, Create, Start, ReclaimImport, CancelExport, Reaper,
              FailNeverQueued, FailNotStarted
<1> QED
  BY <1>1, <1>2, <1>3, <1>4, <1>6, QuietStatus, QuietInv

\* A person's retry keeps the work of a job that has a cursor.
LEMMA RequeueInv ==
  ASSUME Inv, NEW j \in Jobs, RequeueFailed(j)
  PROVE  Inv'
<1>1. StatusOnly(j, "pending")
  BY RequestEffect DEF Inv, TypeOK
<1>2. SlotsStay
  BY <1>1, StatusCursors, SameStay DEF RequeueFailed
<1>3. /\ applied' \in [Jobs -> [Units -> Nat]]
      /\ \A i \in Jobs : \/ applied'[i] = applied[i]
                         \/ row[i].cursor = 0 /\ applied'[i] = [u \in Units |-> 0]
  <2>1. applied \in [Jobs -> [Units -> Nat]]
    BY DEF Inv, TypeOK
  <2>2. CASE row[j].cursor = 0
    BY <2>1, <2>2 DEF RequeueFailed
  <2>3. CASE row[j].cursor # 0
    BY <2>1, <2>3 DEF RequeueFailed
  <2> QED
    BY <2>2, <2>3
<1>4. limbo' = limbo /\ limbo[j] = 0
  BY DEF RequeueFailed, Unlocked
<1>5. QuietStep
  BY <1>1, <1>2, <1>3, <1>4 DEF QuietStep, StatusOnly
<1>6. requeues' \in [Jobs -> 0 .. MaxRequeues]
  BY JobLeaseAssumption DEF Inv, TypeOK, RequeueFailed
<1>7. Rest'
  BY <1>6 DEF Rest, Inv, TypeOK, RequeueFailed
<1> QED
  BY <1>5, <1>7, QuietInv

LEMMA GoStaleInv ==
  ASSUME Inv, NEW j \in Jobs, GoStale(j)
  PROVE  Inv'
<1>1. CursorsStay /\ row' = row /\ limbo' = limbo /\ applied' = applied /\ lease' = lease
  BY DEF GoStale, CursorsStay
<1>2. Rest'
  BY DEF GoStale, Rest, Inv, TypeOK
<1> QED
  BY <1>1, <1>2, SameStay, QuietRow, QuietInv

\* A unit that lands: whoever's commit it was, the row moves by that unit alone.
LEMMA LandEffect ==
  ASSUME Inv, NEW j \in Jobs, NEW u \in Units, Land(j, u)
  PROVE  /\ row' \in [Jobs -> Row] /\ applied' \in [Jobs -> [Units -> Nat]]
         /\ fresh' \in [Jobs -> BOOLEAN]
         /\ row'[j].cursor = u /\ row'[j].epoch = row[j].epoch
         /\ row'[j].status = row[j].status
         /\ \A i \in Jobs : i # j => row'[i] = row[i] /\ applied'[i] = applied[i]
         /\ applied'[j] = [applied[j] EXCEPT ![u] = @ + 1]
<1>1. PICK r \in Row : r = row[j]
  BY DEF Inv, TypeOK
<1>2. PICK q : q = [r EXCEPT !.cursor = u, !.phase = "work"]
  OBVIOUS
<1>3. u \in 0 .. Last
  BY CursorFacts DEF Units
<1>4. q \in Row /\ q.cursor = u /\ q.epoch = r.epoch /\ q.status = r.status
  BY <1>2, <1>3 DEF Row, Phases
<1>5. row' = [row EXCEPT ![j] = q]
  BY <1>1, <1>2 DEF Land, Write
<1>6. row \in [Jobs -> Row] /\ applied \in [Jobs -> [Units -> Nat]]
  BY DEF Inv, TypeOK
<1>7. PICK a : a = [applied[j] EXCEPT ![u] = @ + 1]
  OBVIOUS
<1>8. a \in [Units -> Nat]
  BY <1>6, <1>7
<1>9. applied' = [applied EXCEPT ![j] = a]
  BY <1>7 DEF Land
<1>10. fresh' \in [Jobs -> BOOLEAN]
  BY DEF Land, Inv, TypeOK
<1> QED
  BY <1>1, <1>4, <1>5, <1>6, <1>7, <1>8, <1>9, <1>10

LEMMA CommitLandsInv ==
  ASSUME Inv, NEW w \in Slots, CommitLands(w)
  PROVE  Inv'
<1> DEFINE j == lease[w].job
           u == lease[w].cur + 1
<1>1. /\ Busy(w) /\ lease[w].pc = "work" /\ j \in Imports /\ limbo[j] = 0
      /\ row[j].status = "running" /\ row[j].cursor = lease[w].cur
  BY DEF CommitLands, Busy, Unlocked, Cas, Fenced
<1>2. lease[w].cur < Last /\ lease[w].cur \in 0 .. Last /\ j \in Jobs
  BY <1>1, BusyFacts DEF Inv, LeaseInv, CursorInv
<1>3. u \in Units /\ u \in 0 .. Last /\ u \in Nat
  BY <1>2, CursorFacts DEF Units
<1>4. Land(j, u)
  BY DEF CommitLands
<1>5. /\ row' \in [Jobs -> Row] /\ applied' \in [Jobs -> [Units -> Nat]]
      /\ fresh' \in [Jobs -> BOOLEAN]
      /\ row'[j].cursor = u /\ row'[j].epoch = row[j].epoch
      /\ row'[j].status = row[j].status
      /\ \A i \in Jobs : i # j => row'[i] = row[i] /\ applied'[i] = applied[i]
      /\ applied'[j] = [applied[j] EXCEPT ![u] = @ + 1]
  BY <1>2, <1>3, <1>4, LandEffect
<1>6. PICK p \in PCs : /\ p \in {"next", "work"} => u < Last
                       /\ p # "finish" /\ p # "idle"
                       /\ p = IF u < Batches THEN "next"
                              ELSE IF u = Batches THEN "work" ELSE "ready"
  BY <1>3, CursorFacts DEF PCs
<1>7. Moves(w, p, u)
  <2>1. PICK l \in Lease : l = lease[w]
    BY <1>1, BusyFacts
  <2>2. PICK n \in 0 .. MaxTries : n = IF u <= Batches THEN l.tries ELSE 0
    BY LeaseFields, JobLeaseAssumption
  <2>3. PICK q : q = [l EXCEPT !.cur = u, !.pc = p, !.tries = n]
    OBVIOUS
  <2>4. q \in Lease /\ q.pc = p /\ q.cur = u /\ q.job = l.job /\ q.epoch = l.epoch
    BY <1>3, <2>3 DEF Lease
  <2>5. lease' = [lease EXCEPT ![w] = q]
    BY <1>6, <2>1, <2>2, <2>3 DEF CommitLands
  <2>6. lease \in [Slots -> Lease]
    BY DEF Inv, TypeOK
  <2> QED
    BY <2>1, <2>4, <2>5, <2>6 DEF Moves
<1>8. SlotsStay
  <2> SUFFICES ASSUME NEW v \in Slots, lease'[v].pc # "idle"
               PROVE  /\ lease[v].pc # "idle"
                      /\ lease'[v].job = lease[v].job /\ lease'[v].epoch = lease[v].epoch
                      /\ lease'[v].job \in Imports =>
                           /\ lease'[v].pc \in {"next", "work"} => lease'[v].cur < Last
                           /\ lease'[v].pc = "finish" => row'[lease'[v].job].cursor = Last
    BY <1>7 DEF SlotsStay, Moves
  <2>1. CASE v = w
    BY <1>1, <1>6, <1>7, <2>1 DEF Moves, Busy
  <2>2. CASE v # w
    <3>1. lease'[v] = lease[v] /\ Busy(v)
      BY <1>7, <2>2 DEF Moves, Busy
    <3>2. lease[v].job = j => lease[v].pc # "finish"
      BY <1>1, <1>2, <3>1 DEF Inv, LeaseInv, CursorInv
    <3> QED
      BY <1>5, <3>1, <3>2, ImportsJobs DEF Inv, LeaseInv, CursorInv, Busy
  <2> QED
    BY <2>1, <2>2
<1>9. ~StagedPreLease(j)
  BY <1>1, BusyFacts
<1>10. limbo' = limbo
  BY DEF CommitLands
<1>11. LandStep(j, u)
  BY <1>1, <1>3, <1>5, <1>8, <1>9, <1>10 DEF LandStep
<1>12. TypeOK'
  BY <1>5, <1>7 DEF CommitLands, Moves, Inv, TypeOK
<1> QED
  BY <1>2, <1>11, <1>12, LandKeeps DEF Inv

LEMMA ResolveInv ==
  ASSUME Inv, NEW j \in Jobs, Resolve(j)
  PROVE  Inv'
<1>1. limbo \in [Jobs -> 0 .. Last] /\ limbo[j] # 0 /\ lease' = lease
      /\ limbo' = [limbo EXCEPT ![j] = 0]
  BY DEF Resolve, Unlocked, Inv, TypeOK
<1>2. limbo' \in [Jobs -> 0 .. Last]
  BY <1>1, CursorFacts
<1>3. CASE UNCHANGED <<row, applied, fresh>>
  <2>1. SlotsStay
    BY <1>1, <1>3, SameStay DEF CursorsStay
  <2>2. QuietStep
    BY <1>1, <1>3, <2>1 DEF QuietStep, Inv, TypeOK
  <2>3. Rest'
    BY <1>2, <1>3 DEF Resolve, Rest, Inv, TypeOK
  <2> QED
    BY <2>2, <2>3, QuietInv
<1>4. CASE Land(j, limbo[j])
  <2> DEFINE u == limbo[j]
  <2>1. row[j].status = "running" /\ u = row[j].cursor + 1 /\ u \in Units
    BY <1>1, CursorFacts DEF Inv, LeaseInv, LimboInv, Units
  <2>2. /\ row' \in [Jobs -> Row] /\ applied' \in [Jobs -> [Units -> Nat]]
        /\ fresh' \in [Jobs -> BOOLEAN]
        /\ row'[j].cursor = u /\ row'[j].epoch = row[j].epoch
        /\ row'[j].status = row[j].status
        /\ \A i \in Jobs : i # j => row'[i] = row[i] /\ applied'[i] = applied[i]
        /\ applied'[j] = [applied[j] EXCEPT ![u] = @ + 1]
    BY <1>4, <2>1, LandEffect
  <2>3. row[j].cursor # Last
    BY <1>1, <2>1, CursorFacts DEF Units
  <2>4. SlotsStay
    BY ZenonT(60), <1>1, <2>2, <2>3, ImportsJobs
       DEF SlotsStay, Inv, TypeOK, LeaseInv, CursorInv, Busy
  <2>5. ~StagedPreLease(j)
    BY <1>1 DEF Inv, LeaseInv, PreLeaseInv
  <2>6. LandStep(j, u)
    BY <1>1, <2>1, <2>2, <2>4, <2>5 DEF LandStep
  <2>7. TypeOK'
    BY <1>1, <1>2, <2>2 DEF Resolve, Inv, TypeOK
  <2> QED
    BY <2>6, <2>7, LandKeeps DEF Inv
<1> QED
  BY <1>3, <1>4 DEF Resolve

LEMMA CommitInDoubtInv ==
  ASSUME Inv, NEW w \in Slots, CommitInDoubt(w)
  PROVE  Inv'
<1> DEFINE j == lease[w].job
<1>1. /\ Busy(w) /\ lease[w].pc = "work" /\ j \in Imports
      /\ row[j].status = "running" /\ row[j].cursor = lease[w].cur
      /\ row' = row /\ applied' = applied /\ CursorsStay
  BY DEF CommitInDoubt, Busy, Cas, Fenced, CursorsStay
<1>2. lease[w].cur < Last /\ lease[w].cur \in 0 .. Last /\ j \in Jobs
  BY <1>1, BusyFacts DEF Inv, LeaseInv, CursorInv
<1>3. Moves(w, "ready", lease[w].cur) \/ Moves(w, "error", lease[w].cur)
  <2>1. PICK l \in Lease : l = lease[w]
    BY <1>1, BusyFacts
  <2>2. lease \in [Slots -> Lease]
    BY DEF Inv, TypeOK
  <2>3. CASE l.tries < MaxTries
    <3>1. PICK n \in 0 .. MaxTries : n = l.tries + 1
      BY <2>3, LeaseFields, JobLeaseAssumption
    <3>2. PICK q : q = [l EXCEPT !.pc = "ready", !.tries = n]
      OBVIOUS
    <3>3. q \in Lease /\ q.pc = "ready" /\ q.job = l.job /\ q.epoch = l.epoch /\ q.cur = l.cur
      BY <3>2 DEF Lease, PCs
    <3>4. lease' = [lease EXCEPT ![w] = q]
      BY <2>1, <2>3, <3>1, <3>2 DEF CommitInDoubt
    <3> QED
      BY <2>1, <2>2, <3>3, <3>4 DEF Moves
  <2>4. CASE ~(l.tries < MaxTries)
    <3>1. PICK q : q = [l EXCEPT !.pc = "error"]
      OBVIOUS
    <3>2. q \in Lease /\ q.pc = "error" /\ q.job = l.job /\ q.epoch = l.epoch /\ q.cur = l.cur
      BY <3>1 DEF Lease, PCs
    <3>3. lease' = [lease EXCEPT ![w] = q]
      BY <2>1, <2>4, <3>1 DEF CommitInDoubt
    <3> QED
      BY <2>1, <2>2, <3>2, <3>3 DEF Moves
  <2> QED
    BY <2>3, <2>4
<1>4. SlotsStay
  BY <1>1, <1>3, MoveStay
<1>5. limbo' = [limbo EXCEPT ![j] = row[j].cursor + 1]
  BY <1>1 DEF CommitInDoubt
<1>6. DoubtStep(j)
  BY <1>1, <1>4, <1>5, BusyFacts DEF DoubtStep
<1>7. limbo' \in [Jobs -> 0 .. Last]
  <2>1. row[j].cursor + 1 \in 0 .. Last
    BY <1>1, <1>2, CursorFacts
  <2> QED
    BY <1>5, <2>1 DEF Inv, TypeOK
<1>8. TypeOK'
  BY <1>3, <1>7 DEF CommitInDoubt, Moves, Inv, TypeOK
<1> QED
  BY <1>2, <1>6, <1>8, DoubtKeeps DEF Inv

\* A claim's rows: the one taken, at the next epoch, and the ones failed in place.
LEMMA TakenRow ==
  ASSUME NEW j \in Jobs, row[j] \in Row
  PROVE  /\ Taken(j) \in Row /\ Taken(j).status = "running"
         /\ Taken(j).epoch = row[j].epoch + 1 /\ Taken(j).cursor = row[j].cursor
<1>1. PICK r \in Row : r = row[j]
  OBVIOUS
<1>2. PICK e \in Nat : e = r.epoch + 1
  BY RowFields
<1>3. PICK p \in Phases : p = IF r.phase = "queued" THEN "none" ELSE r.phase
  BY RowFields DEF Phases
<1>4. PICK t \in Nat : t = IF r.status = "running" THEN r.takeovers + 1 ELSE r.takeovers
  BY RowFields
<1>5. Taken(j) = [r EXCEPT !.status = "running", !.error = "none",
                           !.epoch = e, !.phase = p, !.takeovers = t]
  BY <1>1, <1>2, <1>3, <1>4 DEF Taken
<1>6. /\ Taken(j) \in Row /\ Taken(j).status = "running"
      /\ Taken(j).epoch = e /\ Taken(j).cursor = r.cursor
  BY ZenonT(60), <1>5 DEF Row, Statuses, Errors
<1> QED
  BY <1>1, <1>2, <1>6

LEMMA FailedRow ==
  ASSUME NEW j \in Jobs, row[j] \in Row
  PROVE  /\ FailedInPlace(j) \in Row /\ FailedInPlace(j).status = "failed"
         /\ FailedInPlace(j).epoch = row[j].epoch /\ FailedInPlace(j).cursor = row[j].cursor
<1>1. PICK r \in Row : r = row[j]
  OBVIOUS
<1>2. PICK t \in Nat : t = r.takeovers + 1
  BY RowFields
<1>3. \/ FailedInPlace(j) = [r EXCEPT !.status = "failed", !.error = "interrupted"]
      \/ FailedInPlace(j) = [r EXCEPT !.status = "failed", !.error = "poison", !.takeovers = t]
  BY <1>1, <1>2 DEF FailedInPlace
<1>4. /\ FailedInPlace(j) \in Row /\ FailedInPlace(j).status = "failed"
      /\ FailedInPlace(j).epoch = r.epoch /\ FailedInPlace(j).cursor = r.cursor
  <2>1. CASE FailedInPlace(j) = [r EXCEPT !.status = "failed", !.error = "interrupted"]
    BY <2>1 DEF Row, Statuses, Errors
  <2>2. CASE FailedInPlace(j) = [r EXCEPT !.status = "failed", !.error = "poison",
                                          !.takeovers = t]
    BY <2>2 DEF Row, Statuses, Errors
  <2> QED
    BY <1>3, <2>1, <2>2
<1> QED
  BY <1>1, <1>4

LEMMA ClaimInv ==
  ASSUME Inv, NEW w \in Slots, Claim(w)
  PROVE  Inv'
<1>1. PICK F \in SUBSET {j \in Jobs : Claimable(j) /\ Doomed(j)} :
       \/ \E c \in {j \in Jobs : Claimable(j) /\ ~Doomed(j)} :
            /\ row' = [j \in Jobs |-> IF j = c THEN Taken(j)
                                      ELSE IF j \in F THEN FailedInPlace(j) ELSE row[j]]
            /\ fresh' = [fresh EXCEPT ![c] = TRUE]
            /\ lease' = [lease EXCEPT ![w] =
                 [Idle EXCEPT !.pc = "ready", !.job = c, !.epoch = Taken(c).epoch]]
       \/ /\ row' = [j \in Jobs |-> IF j \in F THEN FailedInPlace(j) ELSE row[j]]
          /\ fresh' = fresh /\ lease' = lease
  BY DEF Claim
<1>2. limbo' = limbo /\ applied' = applied /\ files' = files
      /\ stops' = stops /\ requeues' = requeues
  BY DEF Claim
<1>3. \A j \in Jobs : row[j] \in Row
  BY DEF Inv, TypeOK
<1>4. \A j \in F : j \in Jobs /\ limbo[j] = 0
  BY DEF Claimable, Unlocked
<1>5. CASE /\ row' = [j \in Jobs |-> IF j \in F THEN FailedInPlace(j) ELSE row[j]]
           /\ fresh' = fresh /\ lease' = lease
  <2>1. row' \in [Jobs -> Row]
    BY <1>3, <1>5, FailedRow
  <2>2. \A j \in Jobs : /\ row'[j].epoch = row[j].epoch /\ row'[j].cursor = row[j].cursor
                        /\ row'[j] = row[j] \/ (row'[j].status = "failed" /\ limbo[j] = 0)
    BY <1>3, <1>4, <1>5, FailedRow
  <2>3. SlotsStay
    BY <1>5, <2>2, SameStay DEF CursorsStay
  <2>4. QuietStep
    BY <1>2, <2>1, <2>2, <2>3 DEF QuietStep, Inv, TypeOK
  <2>5. Rest'
    BY <1>2, <1>5 DEF Rest, Inv, TypeOK
  <2> QED
    BY <2>4, <2>5, QuietInv
<1>6. CASE \E c \in {j \in Jobs : Claimable(j) /\ ~Doomed(j)} :
             /\ row' = [j \in Jobs |-> IF j = c THEN Taken(j)
                                       ELSE IF j \in F THEN FailedInPlace(j) ELSE row[j]]
             /\ fresh' = [fresh EXCEPT ![c] = TRUE]
             /\ lease' = [lease EXCEPT ![w] =
                  [Idle EXCEPT !.pc = "ready", !.job = c, !.epoch = Taken(c).epoch]]
  <2>1. PICK c \in Jobs :
          /\ Claimable(c) /\ ~Doomed(c)
          /\ row' = [j \in Jobs |-> IF j = c THEN Taken(j)
                                    ELSE IF j \in F THEN FailedInPlace(j) ELSE row[j]]
          /\ fresh' = [fresh EXCEPT ![c] = TRUE]
          /\ lease' = [lease EXCEPT ![w] =
               [Idle EXCEPT !.pc = "ready", !.job = c, !.epoch = Taken(c).epoch]]
    BY <1>6
  <2>2. row' \in [Jobs -> Row]
    BY <1>3, <2>1, FailedRow, TakenRow
  <2>3. /\ row'[c].epoch = row[c].epoch + 1 /\ row'[c].status = "running"
        /\ row'[c].cursor = row[c].cursor
    BY <1>3, <2>1, TakenRow
  <2>4. \A j \in Jobs : j # c =>
          /\ row'[j].epoch = row[j].epoch /\ row'[j].cursor = row[j].cursor
          /\ row'[j] = row[j] \/ (row'[j].status = "failed" /\ limbo[j] = 0)
    BY <1>3, <1>4, <2>1, FailedRow
  <2>5. limbo[c] = 0 /\ ~StagedPreLease(c)
    BY <2>1 DEF Claimable, Unlocked, Doomed
  <2>6. PICK e \in Nat : e = Taken(c).epoch /\ e = row[c].epoch + 1
    BY <1>3, TakenRow, RowFields
  <2>7. PICK q : q = [Idle EXCEPT !.pc = "ready", !.job = c, !.epoch = e]
    OBVIOUS
  <2>8. q \in Lease /\ q.pc = "ready" /\ q.job = c /\ q.epoch = e
    BY <2>7, IdleType DEF Lease, PCs
  <2>9. lease' = [lease EXCEPT ![w] = q] /\ lease \in [Slots -> Lease]
    BY <2>1, <2>6, <2>7 DEF Inv, TypeOK
  <2>10. ClaimStep(w, c)
    BY <1>2, <2>2, <2>3, <2>4, <2>5, <2>6, <2>8, <2>9 DEF ClaimStep
  <2>11. fresh' \in [Jobs -> BOOLEAN]
    BY <2>1 DEF Inv, TypeOK
  <2>12. TypeOK'
    BY <1>2, <2>2, <2>8, <2>9, <2>11 DEF Inv, TypeOK
  <2> QED
    BY <2>10, <2>12, ClaimKeeps DEF Inv
<1> QED
  BY <1>1, <1>5, <1>6

-----------------------------------------------------------------------------
(* The theorems                                                            *)

\* The initial states: nobody holds a lease, and only rows a worker from before the
\* lease staged have work without a cursor.
LEMMA InitInv == Init => Inv
<1> SUFFICES ASSUME Init PROVE Inv
  OBVIOUS
<1>1. \A j \in Jobs : /\ row[j] \in Row /\ row[j].epoch = 0 /\ row[j].cursor = 0
                      /\ row[j].status # "completed"
  <2> TAKE j \in Jobs
  <2>1. PICK r : r = NoRow
    OBVIOUS
  <2>2. r \in Row /\ r.epoch = 0 /\ r.cursor = 0 /\ r.status = "absent"
    BY <2>1, CursorFacts DEF NoRow, Row, Statuses, Phases, Errors
  <2>3. PICK q : q = [r EXCEPT !.status = "running", !.phase = "work"]
    OBVIOUS
  <2>4. q \in Row /\ q.epoch = 0 /\ q.cursor = 0 /\ q.status = "running"
    BY <2>2, <2>3 DEF Row, Statuses, Phases
  <2>5. row[j] = r \/ row[j] = q
    BY <2>1, <2>3 DEF Init
  <2> QED
    BY <2>2, <2>4, <2>5
<1>2. row \in [Jobs -> Row]
  BY <1>1 DEF Init
<1>3. applied \in [Jobs -> [Units -> Nat]]
  BY DEF Init
<1>4. TypeOK
  BY <1>2, <1>3, CursorFacts, IdleType, JobLeaseAssumption DEF Init, TypeOK
<1>5. \A w \in Slots : ~Busy(w)
  BY IdleType DEF Init, Busy
<1>6. \A j \in Jobs : limbo[j] = 0
  BY DEF Init
<1>7. ExactlyOnce
  <2> SUFFICES ASSUME NEW j \in Jobs, NEW u \in Units
               PROVE  /\ u <= row[j].cursor => applied[j][u] = 1
                      /\ u > row[j].cursor =>
                           \/ applied[j][u] = 0
                           \/ /\ j \in PreLease /\ StagedPreLease(j)
                              /\ u = 1 /\ applied[j][u] = 1
    BY DEF ExactlyOnce
  <2>1. ~(u <= row[j].cursor)
    BY <1>1 DEF Units
  <2>2. applied[j][u] = IF j \in PreLease /\ u = 1 THEN 1 ELSE 0
    BY DEF Init
  <2>3. j \in PreLease => StagedPreLease(j)
    <3>1. applied[j][1] = IF j \in PreLease THEN 1 ELSE 0
      BY CursorFacts DEF Init
    <3> QED
      BY <1>1, <3>1 DEF StagedPreLease
  <2> QED
    BY <2>1, <2>2, <2>3
<1>8. LeaseInv
  BY <1>1, <1>5, <1>6, <1>7, ImportsJobs
     DEF LeaseInv, OwnerInv, SoleOwner, CursorInv, LimboInv, PreLeaseInv, CompletedInv
<1> QED
  BY <1>4, <1>8 DEF Inv

LEMMA StepInv == Inv /\ [Next]_vars => Inv'
<1> SUFFICES ASSUME Inv, [Next]_vars PROVE Inv'
  OBVIOUS
<1>1. CASE UNCHANGED vars
  <2>1. SlotsStay
    BY <1>1, SameStay DEF vars, CursorsStay
  <2>2. Rest'
    BY <1>1 DEF vars, Rest, Inv, TypeOK
  <2> QED
    BY <1>1, <2>1, <2>2, QuietRow, QuietInv DEF vars
<1>2. ASSUME NEW w \in Slots,
             Claim(w) \/ Renew(w) \/ Progress(w) \/ Work(w) \/ Mishap(w)
      PROVE  Inv'
  BY <1>2, ClaimInv, RenewInv, BeginInv, ImportPcInv, ExportInv, StopInv, SettleInv,
     CommitLandsInv, CommitInDoubtInv DEF Work, Mishap
<1>3. ASSUME NEW j \in Jobs, GoStale(j) \/ Resolve(j) \/ Request(j) \/ Reaper(j)
      PROVE  Inv'
  BY <1>3, GoStaleInv, ResolveInv, RequestInv, RequeueInv DEF Request
<1> QED
  BY <1>1, <1>2, <1>3 DEF Next

\* TypeOK and LeaseInv hold in every reachable state: the cursors a lease works at stay
\* within the job's units only because of how leases are fenced, so the two go together.
THEOREM InductiveInvariant == Spec => []Inv
  BY InitInv, StepInv, PTL DEF Spec

\* Every variable keeps its type whatever is crashed, retried, stolen or requeued.
THEOREM TypeCorrect == Spec => []TypeOK
<1>1. Inv => TypeOK
  BY DEF Inv
<1> QED
  BY <1>1, InductiveInvariant, PTL

\* The fence of every write through a lease (Lease._fenced, checkpoint, finish) keeps owners,
\* cursors, commits in doubt and the rows from before the lease consistent with the table.
THEOREM LeaseInvariant == Spec => []LeaseInv
<1>1. Inv => LeaseInv
  BY DEF Inv
<1> QED
  BY <1>1, InductiveInvariant, PTL

\* No two slots ever hold the same (job, epoch): job_lease's claim bumps the epoch.
THEOREM SoleOwnership == Spec => []SoleOwner
<1>1. Inv => SoleOwner
  BY DEF Inv, LeaseInv
<1> QED
  BY <1>1, InductiveInvariant, PTL

\* A checkpoint's transaction applies each unit of an import once, in order, however
\* many workers, faults and commits in doubt took part.
THEOREM WorkExactlyOnce == Spec => []ExactlyOnce
<1>1. Inv => ExactlyOnce
  BY DEF Inv, LeaseInv
<1> QED
  BY <1>1, InductiveInvariant, PTL

\* An import that finish() reports completed has all its units on the draft.
THEOREM CompletedWhole == Spec => []CompletedIsWhole
<1>1. Inv => CompletedIsWhole
  BY ImportsJobs, CursorFacts DEF Inv, LeaseInv, CompletedInv, ExactlyOnce, CompletedIsWhole, Units
<1> QED
  BY <1>1, InductiveInvariant, PTL

-----------------------------------------------------------------------------
(* What a step may do to one job                                           *)

\* Epochs only grow, a job starts running only under a new one, a draft's import becomes
\* active only when the draft has no other, an ended job's row and work stay.
RowStep(j) ==
  /\ row'[j].epoch >= row[j].epoch
  /\ row'[j].status = "running" => row[j].status = "running" \/ row'[j].epoch > row[j].epoch
  /\ row[j].status \in {"completed", "cancelled"} => row'[j] = row[j]
  /\ Ended(j) /\ Ended(j)' => applied'[j] = applied[j]
  /\ \/ Active(j)' => Active(j)
     \/ (j \in Imports => ~DraftBusy(j)) /\ \A i \in Jobs : i # j => row'[i] = row[i]

LEMMA SameRowStep ==
  ASSUME Inv, row' = row, applied' = applied, NEW j \in Jobs
  PROVE  RowStep(j)
<1>1. row[j].epoch \in Nat
  BY RowFields DEF Inv, TypeOK
<1> QED
  BY <1>1 DEF RowStep, Active

\* A write of one row's status: not to running, and of a row that is not over.
LEMMA StatusRowStep ==
  ASSUME Inv, NEW i \in Jobs, NEW s, StatusOnly(i, s), s # "running",
         row[i].status \notin {"completed", "cancelled"},
         applied' = applied \/ (s = "pending" /\ \A k \in Jobs : k # i => applied'[k] = applied[k]),
         s = "pending" => Active(i) \/ (i \in Imports => ~DraftBusy(i)),
         NEW j \in Jobs
  PROVE  RowStep(j)
<1>1. row[j].epoch \in Nat
  BY RowFields DEF Inv, TypeOK
<1>2. CASE j # i
  BY <1>1, <1>2 DEF RowStep, StatusOnly, Active, Ended
<1>3. CASE j = i
  <2>1. Active(j)' => s = "pending" \/ Active(j)
    BY <1>3 DEF StatusOnly, Active
  <2>2. Ended(j)' => s # "pending"
    BY <1>3 DEF StatusOnly, Ended
  <2> QED
    BY <1>1, <1>3, <2>1, <2>2 DEF RowStep, StatusOnly
<1> QED
  BY <1>2, <1>3

LEMMA LandRowStep ==
  ASSUME Inv, NEW i \in Jobs, NEW u \in Units, Land(i, u), row[i].status = "running",
         NEW j \in Jobs
  PROVE  RowStep(j)
<1>1. row[j].epoch \in Nat
  BY RowFields DEF Inv, TypeOK
<1>2. /\ row'[i].epoch = row[i].epoch /\ row'[i].status = row[i].status
      /\ j # i => row'[j] = row[j] /\ applied'[j] = applied[j]
  BY LandEffect
<1>3. CASE j # i
  BY <1>1, <1>2, <1>3 DEF RowStep, Active
<1>4. CASE j = i
  BY <1>1, <1>2, <1>4 DEF RowStep, Active, Ended
<1> QED
  BY <1>3, <1>4

LEMMA ClaimRowStep ==
  ASSUME Inv, NEW w \in Slots, Claim(w), NEW j \in Jobs
  PROVE  RowStep(j)
<1>1. applied' = applied
  BY DEF Claim
<1>2. row[j] \in Row /\ row[j].epoch \in Nat
  BY RowFields DEF Inv, TypeOK
<1>3. \/ row'[j] = row[j]
      \/ Claimable(j) /\ (row'[j] = Taken(j) \/ row'[j] = FailedInPlace(j))
  BY DEF Claim
<1>4. Claimable(j) => Active(j)
  BY DEF Claimable, Active
<1>5. CASE row'[j] = row[j]
  BY <1>1, <1>2, <1>5 DEF RowStep, Active
<1>6. CASE Claimable(j) /\ row'[j] = Taken(j)
  <2>1. row'[j].epoch = row[j].epoch + 1
    BY <1>2, <1>6, TakenRow
  <2> QED
    BY <1>1, <1>2, <1>4, <1>6, <2>1 DEF RowStep, Active
<1>7. CASE Claimable(j) /\ row'[j] = FailedInPlace(j)
  <2>1. row'[j].epoch = row[j].epoch /\ row'[j].status = "failed"
    BY <1>2, <1>7, FailedRow
  <2> QED
    BY <1>1, <1>2, <1>4, <1>7, <2>1 DEF RowStep, Active
<1> QED
  BY <1>3, <1>5, <1>6, <1>7

\* A step that writes rows or work is one of these.
LEMMA NextWrites ==
  ASSUME [Next]_vars
  PROVE  \/ row' = row /\ applied' = applied
         \/ \E w \in Slots : \/ Claim(w) \/ CommitLands(w)
                             \/ (Finish(w) \/ Fail(w) \/ Release(w)) /\ Fenced(w)
         \/ \E i \in Jobs : \/ Resolve(i) \/ Create(i) \/ Start(i) \/ ReclaimImport(i)
                            \/ RequeueFailed(i) \/ CancelExport(i) \/ Reaper(i)
<1>1. CASE UNCHANGED vars
  BY <1>1 DEF vars
<1>2. ASSUME NEW w \in Slots,
             \/ Renew(w) \/ Progress(w) \/ Begin(w) \/ NextBatch(w) \/ CommitRefused(w)
             \/ OpenFile(w) \/ StoreFile(w) \/ Quiet(w) \/ Mishap(w)
      PROVE  row' = row /\ applied' = applied
  BY <1>2 DEF Renew, Progress, Begin, NextBatch, CommitRefused, OpenFile, StoreFile, Quiet,
              Mishap, CommitInDoubt, Fault, Raise, Stop, Crash
<1>3. ASSUME NEW w \in Slots, Finish(w) \/ Fail(w) \/ Release(w), ~Fenced(w)
      PROVE  row' = row /\ applied' = applied
  BY <1>3 DEF Finish, Fail, Release
<1>4. ASSUME NEW i \in Jobs, GoStale(i)
      PROVE  row' = row /\ applied' = applied
  BY <1>4 DEF GoStale
<1> QED
  BY <1>1, <1>2, <1>3, <1>4 DEF Next, Work, Request

LEMMA NextRowStep ==
  ASSUME Inv, [Next]_vars, NEW j \in Jobs
  PROVE  RowStep(j)
<1>1. CASE row' = row /\ applied' = applied
  BY <1>1, SameRowStep
<1>2. ASSUME NEW w \in Slots, Claim(w) PROVE RowStep(j)
  BY <1>2, ClaimRowStep
<1>3. ASSUME NEW w \in Slots, CommitLands(w) PROVE RowStep(j)
  <2>1. /\ Busy(w) /\ lease[w].pc = "work" /\ lease[w].job \in Imports
        /\ row[lease[w].job].status = "running" /\ Land(lease[w].job, lease[w].cur + 1)
    BY <1>3 DEF CommitLands, Busy, Cas, Fenced
  <2>2. lease[w].cur < Last /\ lease[w].cur \in 0 .. Last /\ lease[w].job \in Jobs
    BY <2>1, BusyFacts DEF Inv, LeaseInv, CursorInv
  <2>3. lease[w].cur + 1 \in Units
    BY <2>2, CursorFacts DEF Units
  <2> QED
    BY <2>1, <2>2, <2>3, LandRowStep
<1>4. ASSUME NEW w \in Slots, Finish(w) \/ Fail(w) \/ Release(w), Fenced(w) PROVE RowStep(j)
  <2>1. Busy(w) /\ applied' = applied
    BY <1>4 DEF Finish, Fail, Release, Busy
  <2>2. lease[w].job \in Jobs /\ lease[w].epoch \in Nat
    BY <2>1, BusyFacts
  <2>3. PICK s : StatusOnly(lease[w].job, s) /\ s # "running"
    BY <1>4, <2>2, FinishEffect, FailEffect, ReleaseEffect DEF Inv, TypeOK
  <2>4. row[lease[w].job].status = "running" /\ Active(lease[w].job)
    BY <1>4 DEF Fenced, Active
  <2> QED
    BY <2>1, <2>2, <2>3, <2>4, StatusRowStep
<1>5. ASSUME NEW i \in Jobs, Resolve(i) PROVE RowStep(j)
  <2>1. CASE UNCHANGED <<row, applied, fresh>>
    BY <2>1, SameRowStep
  <2>2. CASE Land(i, limbo[i])
    <3>1. limbo[i] \in Units /\ row[i].status = "running"
      BY <1>5, CursorFacts DEF Resolve, Unlocked, Inv, TypeOK, LeaseInv, LimboInv, Units
    <3> QED
      BY <2>2, <3>1, LandRowStep
  <2> QED
    BY <1>5, <2>1, <2>2 DEF Resolve
<1>6. ASSUME NEW i \in Jobs, Create(i) \/ Start(i) \/ ReclaimImport(i) \/ RequeueFailed(i)
      PROVE  RowStep(j)
  <2>1. StatusOnly(i, "pending")
    BY <1>6, RequestEffect DEF Inv, TypeOK
  <2>2. row[i].status \notin {"completed", "cancelled"}
    BY <1>6 DEF Create, Start, ReclaimImport, RequeueFailed
  <2>3. Active(i) \/ (i \in Imports => ~DraftBusy(i))
    BY <1>6 DEF Create, Start, ReclaimImport, RequeueFailed, Active
  <2>4. \A k \in Jobs : k # i => applied'[k] = applied[k]
    BY <1>6 DEF Create, Start, ReclaimImport, RequeueFailed, Inv, TypeOK
  <2> QED
    BY <2>1, <2>2, <2>3, <2>4, StatusRowStep
<1>7. ASSUME NEW i \in Jobs, CancelExport(i) \/ Reaper(i) PROVE RowStep(j)
  <2>1. PICK s : StatusOnly(i, s) /\ s # "running" /\ s # "pending"
    <3>1. StatusOnly(i, "cancelled") \/ StatusOnly(i, "failed")
      BY <1>7, CancelEffect, ReaperEffect DEF Inv, TypeOK
    <3> QED
      BY <3>1
  <2>2. row[i].status \notin {"completed", "cancelled"} /\ applied' = applied
    BY <1>7 DEF CancelExport, Active, Reaper, FailNeverQueued, FailNotStarted
  <2> QED
    BY <2>1, <2>2, StatusRowStep
<1>8. \/ row' = row /\ applied' = applied
      \/ \E w \in Slots : \/ Claim(w) \/ CommitLands(w)
                          \/ (Finish(w) \/ Fail(w) \/ Release(w)) /\ Fenced(w)
      \/ \E i \in Jobs : \/ Resolve(i) \/ Create(i) \/ Start(i) \/ ReclaimImport(i)
                         \/ RequeueFailed(i) \/ CancelExport(i) \/ Reaper(i)
  BY NextWrites
<1> QED
  BY <1>1, <1>2, <1>3, <1>4, <1>5, <1>6, <1>7, <1>8

\* create_import_job, reclaim_import and requeue_failed keep a draft to one import:
\* nothing else makes a row active.
THEOREM OneImport == Spec => []OneImportPerDraft
<1>1. Init => OneImportPerDraft
  <2> SUFFICES ASSUME Init, NEW i \in Imports, NEW j \in Imports, i # j,
                      DraftOf[i] = DraftOf[j]
               PROVE  ~(Active(i) /\ Active(j))
    BY DEF OneImportPerDraft
  <2>1. i \notin PreLease \/ j \notin PreLease
    BY JobLeaseAssumption
  <2>2. \A k \in Jobs : k \notin PreLease => ~Active(k)
    BY DEF Init, Active, NoRow
  <2> QED
    BY <2>1, <2>2, ImportsJobs
<1>2. Inv /\ OneImportPerDraft /\ [Next]_vars => OneImportPerDraft'
  <2> SUFFICES ASSUME Inv, OneImportPerDraft, [Next]_vars,
                      NEW i \in Imports, NEW j \in Imports, i # j, DraftOf[i] = DraftOf[j],
                      Active(i)', Active(j)'
               PROVE  FALSE
    BY DEF OneImportPerDraft
  <2>1. i \in Jobs /\ j \in Jobs
    BY ImportsJobs
  <2>2. RowStep(i) /\ RowStep(j)
    BY <2>1, NextRowStep
  <2>3. Active(i) => ~Active(j)
    BY DEF OneImportPerDraft
  <2>4. CASE ~Active(i)
    <3>1. ~DraftBusy(i) /\ row'[j] = row[j]
      BY <2>1, <2>2, <2>4 DEF RowStep
    <3>2. Active(j)
      BY <3>1 DEF Active
    <3> QED
      BY <3>1, <3>2 DEF DraftBusy
  <2>5. CASE ~Active(j)
    <3>1. ~DraftBusy(j) /\ row'[i] = row[i]
      BY <2>1, <2>2, <2>5 DEF RowStep
    <3>2. Active(i)
      BY <3>1 DEF Active
    <3> QED
      BY <3>1, <3>2 DEF DraftBusy
  <2> QED
    BY <2>3, <2>4, <2>5
<1> QED
  BY <1>1, <1>2, InductiveInvariant, PTL DEF Spec

\* Lease._fenced: a lease that has stopped matching its row stays fenced off for good.
THEOREM FencedForGood == Spec => ZombieStaysFenced
<1>1. Inv /\ [Next]_vars =>
        [\A w \in Slots :
           Busy(w) /\ ~Fenced(w) /\ lease'[w].job = lease[w].job
             /\ lease'[w].epoch = lease[w].epoch => ~Fenced(w)']_vars
  <2> SUFFICES ASSUME Inv, [Next]_vars, NEW w \in Slots, Busy(w), ~Fenced(w),
                      lease'[w].job = lease[w].job, lease'[w].epoch = lease[w].epoch,
                      Fenced(w)'
               PROVE  FALSE
    OBVIOUS
  <2> DEFINE j == lease[w].job
  <2>1. /\ j \in Jobs /\ lease[w].epoch \in Nat /\ row[j].epoch \in Nat
        /\ lease[w].epoch <= row[j].epoch
    BY BusyFacts, RowFields DEF Inv, LeaseInv, OwnerInv
  <2>2. RowStep(j)
    BY <2>1, NextRowStep
  <2>3. row'[j].epoch = lease[w].epoch /\ row'[j].status = "running"
    BY DEF Fenced
  <2>4. row[j].epoch = lease[w].epoch
    BY <2>1, <2>2, <2>3 DEF RowStep
  <2>5. row[j].status = "running"
    BY <2>1, <2>2, <2>3, <2>4 DEF RowStep
  <2> QED
    BY <2>4, <2>5 DEF Fenced
<1> QED
  BY <1>1, InductiveInvariant, PTL DEF Spec, ZombieStaysFenced

\* No checkpoint lands on a job that has ended, and a completed or cancelled row is final.
THEOREM EndedStaysQuiet == Spec => EndedIsQuiet
<1>1. Inv /\ [Next]_vars =>
        [\A j \in Jobs :
           /\ Ended(j) /\ Ended(j)' => applied'[j] = applied[j]
           /\ row[j].status \in {"completed", "cancelled"} => row'[j] = row[j]]_vars
  BY NextRowStep DEF RowStep
<1> QED
  BY <1>1, InductiveInvariant, PTL DEF Spec, EndedIsQuiet
=============================================================================
