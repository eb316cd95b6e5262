------------------------- MODULE JobContractProofs -------------------------
(***************************************************************************)
(* JobLease implements JobContract, for every value of the constants: the  *)
(* initial states map to initial states, and under the inductive invariant *)
(* of JobLeaseProofs every step of the lane is a step of the contract, or  *)
(* one nobody outside can see.                                             *)
(***************************************************************************)
EXTENDS JobLeaseProofs

\* A job as the contract shows it.
Shown(j) == IF Active(j) THEN "active" ELSE row[j].status
States == [j \in Jobs |-> Shown(j)]

\* The first n units done once each, as the contract says it.
Prefix(n) == [u \in Units |-> IF u <= n THEN 1 ELSE 0]

LEMMA ContractUnits == Contract!Units = Units /\ Contract!Jobs = Jobs
  BY DEF Contract!Units, Units, Contract!Jobs, Jobs

LEMMA ContractDone == ASSUME NEW n PROVE Contract!Done(n) = Prefix(n)
  BY ContractUnits DEF Contract!Done, Prefix

-----------------------------------------------------------------------------
(* The work done, as the cursor counts it                                  *)

\* A job with no rows from before the lease has the units up to its cursor done.
LEMMA WorkIsPrefix ==
  ASSUME Inv, NEW j \in Jobs, ~StagedPreLease(j)
  PROVE  applied[j] = Prefix(row[j].cursor)
<1>1. applied[j] \in [Units -> Nat] /\ row[j].cursor \in Nat
  BY RowFields, CursorFacts DEF Inv, TypeOK
<1>2. \A u \in Units : u \in Nat
  BY DEF Units
<1>3. \A u \in Units : applied[j][u] = IF u <= row[j].cursor THEN 1 ELSE 0
  BY <1>1, <1>2 DEF Inv, LeaseInv, ExactlyOnce
<1> QED
  BY <1>1, <1>3 DEF Prefix

\* One with such rows has its first unit done, and is an import that had them from the start.
LEMMA WorkIsStaged ==
  ASSUME Inv, NEW j \in Jobs, StagedPreLease(j)
  PROVE  applied[j] = Prefix(1) /\ j \in PreLease
<1>1. applied[j] \in [Units -> Nat] /\ row[j].cursor = 0 /\ 1 \in Units /\ applied[j][1] > 0
  BY CursorFacts DEF Inv, TypeOK, StagedPreLease
<1>2. \A u \in Units : u \in Nat /\ u >= 1
  BY DEF Units
<1>3. \A u \in Units : applied[j][u] = 0 \/ (j \in PreLease /\ u = 1 /\ applied[j][u] = 1)
  BY <1>1, <1>2 DEF Inv, LeaseInv, ExactlyOnce
<1>4. j \in PreLease /\ applied[j][1] = 1
  BY <1>1, <1>3
<1>5. \A u \in Units : applied[j][u] = IF u <= 1 THEN 1 ELSE 0
  <2> SUFFICES ASSUME NEW u \in Units PROVE applied[j][u] = IF u <= 1 THEN 1 ELSE 0
    OBVIOUS
  <2>1. CASE u = 1
    BY <1>4, <2>1
  <2>2. CASE u # 1
    BY <1>2, <1>3, <2>2
  <2> QED
    BY <2>1, <2>2
<1> QED
  BY <1>1, <1>4, <1>5 DEF Prefix

-----------------------------------------------------------------------------
(* Every step is a step of the contract                                    *)

ContractStep == Contract!Next \/ (States' = States /\ applied' = applied)

\* One row's status is written.
LEMMA OneStatus ==
  ASSUME NEW j \in Jobs, NEW s, StatusOnly(j, s)
  PROVE  States' = [States EXCEPT ![j] = IF s \in {"pending", "running"} THEN "active" ELSE s]
<1>1. \A i \in Jobs : i # j => Shown(i)' = Shown(i)
  BY DEF StatusOnly, Shown, Active
<1>2. Shown(j)' = IF s \in {"pending", "running"} THEN "active" ELSE s
  BY DEF StatusOnly, Shown, Active
<1> QED
  BY <1>1, <1>2 DEF States

LEMMA SameStates ==
  ASSUME row' = row, applied' = applied
  PROVE  ContractStep
  BY DEF ContractStep, States, Shown, Active

LEMMA StillActive ==
  ASSUME NEW j \in Jobs, StatusOnly(j, "pending"), Active(j), applied' = applied
  PROVE  ContractStep
<1>1. States' = [States EXCEPT ![j] = "active"] /\ States[j] = "active"
  BY OneStatus DEF States, Shown
<1> QED
  BY <1>1 DEF ContractStep, States

LEMMA StepSubmits ==
  ASSUME Inv, NEW j \in Jobs, Create(j)
  PROVE  ContractStep
<1>1. States' = [States EXCEPT ![j] = "active"] /\ States[j] = "absent" /\ applied' = applied
  BY OneStatus, RequestEffect DEF Inv, TypeOK, Create, States, Shown, Active
<1>2. Contract!Submit(j)
  BY <1>1 DEF Contract!Submit, Contract!Become, States, Shown
<1> QED
  BY <1>2, ContractUnits DEF ContractStep, Contract!Next

LEMMA StepCompletes ==
  ASSUME Inv, NEW w \in Slots, Finish(w), Fenced(w)
  PROVE  ContractStep
<1>1. Busy(w) /\ lease[w].pc = "finish" /\ applied' = applied
  BY DEF Finish, Busy
<1>2. PICK j \in Jobs : j = lease[w].job
  BY <1>1, BusyFacts
<1>3. StatusOnly(j, "completed")
  BY <1>1, <1>2, FinishEffect, BusyFacts DEF Inv, TypeOK
<1>4. States' = [States EXCEPT ![j] = "completed"] /\ States[j] = "active"
  BY <1>2, <1>3, OneStatus DEF Fenced, States, Shown, Active
<1>5. j \in Imports => applied[j] = Contract!Done(Last)
  <2>1. ~StagedPreLease(j)
    BY <1>1, <1>2, BusyFacts
  <2>2. j \in Imports => row[j].cursor = Last
    BY <1>1, <1>2 DEF Inv, LeaseInv, CursorInv
  <2> QED
    BY <2>1, <2>2, WorkIsPrefix, ContractDone
<1>6. Contract!Complete(j)
  BY <1>1, <1>4, <1>5 DEF Contract!Complete, Contract!Become, States, Shown
<1> QED
  BY <1>6, ContractUnits DEF ContractStep, Contract!Next

LEMMA StepFails ==
  ASSUME Inv, NEW j \in Jobs, StatusOnly(j, "failed"), Active(j), applied' = applied
  PROVE  ContractStep
<1>1. States' = [States EXCEPT ![j] = "failed"] /\ States[j] = "active"
  BY OneStatus DEF States, Shown
<1>2. States' = [i \in Jobs |-> IF i \in {j} THEN "failed" ELSE States[i]]
  BY <1>1 DEF States
<1>3. Contract!Fail({j})
  BY <1>1, <1>2, ContractUnits DEF Contract!Fail, States, Shown
<1>4. {j} \in SUBSET Contract!Jobs
  BY ContractUnits
<1> QED
  BY <1>3, <1>4 DEF ContractStep, Contract!Next

LEMMA StepCancels ==
  ASSUME Inv, NEW j \in Jobs, CancelExport(j)
  PROVE  ContractStep
<1>1. StatusOnly(j, "cancelled") /\ j \in Exports /\ Active(j) /\ applied' = applied
  BY CancelEffect DEF CancelExport, Inv, TypeOK
<1>2. States' = [States EXCEPT ![j] = "cancelled"] /\ States[j] = "active"
  BY <1>1, OneStatus DEF States, Shown
<1>3. Contract!Cancel(j)
  BY <1>1, <1>2 DEF Contract!Cancel, Contract!Become, States, Shown
<1> QED
  BY <1>3, ContractUnits DEF ContractStep, Contract!Next

LEMMA StepRetries ==
  ASSUME Inv, NEW j \in Jobs, ReclaimImport(j) \/ RequeueFailed(j)
  PROVE  ContractStep
<1>1. StatusOnly(j, "pending") /\ j \in Imports /\ row[j].status = "failed"
  BY RequestEffect DEF ReclaimImport, RequeueFailed, Inv, TypeOK
<1>2. States' = [States EXCEPT ![j] = "active"] /\ States[j] = "failed"
  BY <1>1, OneStatus DEF States, Shown, Active
<1>3. \/ applied' = applied
      \/ j \in PreLease /\ applied[j] = Contract!Done(1)
         /\ applied' = [applied EXCEPT ![j] = Contract!Done(0)]
  <2>1. CASE applied' = applied
    BY <2>1
  <2>2. CASE applied' # applied
    <3>1. row[j].cursor = 0 /\ applied' = [applied EXCEPT ![j] = [u \in Units |-> 0]]
      BY <2>2 DEF ReclaimImport, RequeueFailed
    <3>2. Prefix(0) = [u \in Units |-> 0]
      BY DEF Prefix, Units
    <3>3. StagedPreLease(j)
      <4>1. SUFFICES ASSUME ~StagedPreLease(j) PROVE FALSE
        OBVIOUS
      <4>2. applied[j] = [u \in Units |-> 0]
        BY <3>1, <3>2, <4>1, WorkIsPrefix
      <4> QED
        BY <2>2, <3>1, <4>2 DEF Inv, TypeOK
    <3> QED
      BY <3>1, <3>2, <3>3, WorkIsStaged, ContractDone
  <2> QED
    BY <2>1, <2>2
<1>4. Contract!Retry(j)
  BY <1>1, <1>2, <1>3 DEF Contract!Retry, Contract!Become, States, Shown
<1> QED
  BY <1>4, ContractUnits DEF ContractStep, Contract!Next

LEMMA StepAdvances ==
  ASSUME Inv, NEW j \in Imports, NEW u \in Units, Land(j, u), u = row[j].cursor + 1,
         row[j].status = "running", ~StagedPreLease(j)
  PROVE  ContractStep
<1>1. /\ row'[j].status = row[j].status
      /\ \A i \in Jobs : i # j => row'[i] = row[i] /\ applied'[i] = applied[i]
      /\ applied'[j] = [applied[j] EXCEPT ![u] = @ + 1]
      /\ applied' \in [Jobs -> [Units -> Nat]]
  BY LandEffect, ImportsJobs
<1>2. States' = States /\ States[j] = "active"
  BY <1>1, ImportsJobs DEF States, Shown, Active
<1>3. PICK n \in 0 .. Last - 1 : n = row[j].cursor /\ u = n + 1
  BY CursorFacts, RowFields, ImportsJobs DEF Inv, TypeOK, Units
<1>4. applied[j] = Prefix(n)
  BY <1>3, WorkIsPrefix, ImportsJobs
<1>5. applied'[j] = Prefix(n + 1)
  <2>1. \A v \in Units : v \in Nat
    BY DEF Units
  <2>2. \A v \in Units : applied'[j][v] = IF v <= n + 1 THEN 1 ELSE 0
    BY <1>1, <1>3, <1>4, <2>1 DEF Prefix
  <2>3. applied'[j] \in [Units -> Nat]
    BY <1>1, ImportsJobs
  <2> QED
    BY <2>2, <2>3 DEF Prefix
<1>6. applied' = [applied EXCEPT ![j] = Prefix(n + 1)]
  BY <1>1, <1>5 DEF Inv, TypeOK
<1>7. Contract!Advance(j)
  BY <1>2, <1>3, <1>4, <1>6, ContractDone DEF Contract!Advance, States, Shown
<1> QED
  BY <1>7, ContractUnits, ImportsJobs DEF ContractStep, Contract!Next

LEMMA StepClaims ==
  ASSUME Inv, NEW w \in Slots, Claim(w)
  PROVE  ContractStep
<1>1. PICK F \in SUBSET {j \in Jobs : Claimable(j) /\ Doomed(j)} :
       \/ \E c \in {j \in Jobs : Claimable(j) /\ ~Doomed(j)} :
            row' = [j \in Jobs |-> IF j = c THEN Taken(j)
                                   ELSE IF j \in F THEN FailedInPlace(j) ELSE row[j]]
       \/ row' = [j \in Jobs |-> IF j \in F THEN FailedInPlace(j) ELSE row[j]]
  BY DEF Claim
<1>2. \A j \in Jobs : row[j] \in Row
  BY DEF Inv, TypeOK
<1>3. \A j \in F : j \in Jobs /\ Shown(j) = "active" /\ Shown(j)' = "failed"
  BY <1>1, <1>2, FailedRow DEF Claimable, Shown, Active
<1>4. \A j \in Jobs : j \notin F => Shown(j)' = Shown(j)
  BY <1>1, <1>2, TakenRow DEF Claimable, Shown, Active
<1>5. States' = [j \in Jobs |-> IF j \in F THEN "failed" ELSE States[j]]
  BY <1>3, <1>4 DEF States
<1>6. Contract!Fail(F)
  BY <1>3, <1>5, ContractUnits DEF Contract!Fail, Claim, States, Shown
<1>7. F \in SUBSET Contract!Jobs
  BY ContractUnits
<1> QED
  BY <1>6, <1>7 DEF ContractStep, Contract!Next

LEMMA NextContract ==
  ASSUME Inv, [Next]_vars
  PROVE  ContractStep
<1>1. ASSUME NEW w \in Slots, CommitLands(w) PROVE ContractStep
  <2>1. /\ Busy(w) /\ lease[w].pc = "work" /\ lease[w].job \in Imports
        /\ row[lease[w].job].status = "running" /\ row[lease[w].job].cursor = lease[w].cur
        /\ Land(lease[w].job, lease[w].cur + 1)
    BY <1>1 DEF CommitLands, Busy, Cas, Fenced
  <2>2. lease[w].cur < Last /\ lease[w].cur \in 0 .. Last /\ ~StagedPreLease(lease[w].job)
    BY <2>1, BusyFacts DEF Inv, LeaseInv, CursorInv
  <2>3. lease[w].cur + 1 \in Units
    BY <2>2, CursorFacts DEF Units
  <2> QED
    BY <2>1, <2>2, <2>3, StepAdvances
<1>2. ASSUME NEW w \in Slots, Finish(w) \/ Fail(w) \/ Release(w), Fenced(w) PROVE ContractStep
  <2>1. Busy(w) /\ applied' = applied
    BY <1>2 DEF Finish, Fail, Release, Busy
  <2>2. lease[w].job \in Jobs /\ Active(lease[w].job) /\ row \in [Jobs -> Row]
    BY <1>2, <2>1, BusyFacts DEF Fenced, Active, Inv, TypeOK
  <2>3. CASE Finish(w)
    BY <1>2, <2>3, StepCompletes
  <2>4. CASE Fail(w)
    <3>1. StatusOnly(lease[w].job, "failed")
      BY <1>2, <2>2, <2>4, FailEffect
    <3> QED
      BY <2>1, <2>2, <3>1, StepFails
  <2>5. CASE Release(w)
    <3>1. StatusOnly(lease[w].job, "pending")
      BY <1>2, <2>2, <2>5, ReleaseEffect
    <3> QED
      BY <2>1, <2>2, <3>1, StillActive
  <2> QED
    BY <1>2, <2>3, <2>4, <2>5
<1>3. ASSUME NEW i \in Jobs, Resolve(i) PROVE ContractStep
  <2>1. CASE UNCHANGED <<row, applied, fresh>>
    BY <2>1, SameStates
  <2>2. CASE Land(i, limbo[i])
    <3>1. /\ limbo[i] \in Units /\ row[i].status = "running" /\ i \in Imports
          /\ limbo[i] = row[i].cursor + 1 /\ ~StagedPreLease(i)
      BY <1>3, CursorFacts DEF Resolve, Unlocked, Inv, TypeOK, LeaseInv, LimboInv, PreLeaseInv, Units
    <3> QED
      BY <2>2, <3>1, StepAdvances
  <2> QED
    BY <1>3, <2>1, <2>2 DEF Resolve
<1>4. ASSUME NEW i \in Jobs, Start(i) PROVE ContractStep
  <2>1. StatusOnly(i, "pending") /\ Active(i) /\ applied' = applied
    BY <1>4, RequestEffect DEF Start, Active, Inv, TypeOK
  <2> QED
    BY <2>1, StillActive
<1>5. ASSUME NEW i \in Jobs, Reaper(i) PROVE ContractStep
  <2>1. StatusOnly(i, "failed") /\ Active(i) /\ applied' = applied
    BY <1>5, ReaperEffect DEF Reaper, FailNeverQueued, FailNotStarted, Active, Inv, TypeOK
  <2> QED
    BY <2>1, StepFails
<1>6. \/ row' = row /\ applied' = applied
      \/ \E w \in Slots : \/ Claim(w) \/ CommitLands(w)
                          \/ (Finish(w) \/ Fail(w) \/ Release(w)) /\ Fenced(w)
      \/ \E i \in Jobs : \/ Resolve(i) \/ Create(i) \/ Start(i) \/ ReclaimImport(i)
                         \/ RequeueFailed(i) \/ CancelExport(i) \/ Reaper(i)
  BY NextWrites
<1> QED
  BY <1>1, <1>2, <1>3, <1>4, <1>5, <1>6, SameStates, StepClaims, StepSubmits, StepRetries,
     StepCancels

LEMMA InitContract == Init => Contract!Init
<1> SUFFICES ASSUME Init PROVE Contract!Init
  OBVIOUS
<1>1. \A j \in Jobs : Shown(j) = IF j \in PreLease THEN "active" ELSE "absent"
  BY DEF Init, Shown, Active, NoRow
<1>2. \A j \in Jobs : applied[j] = IF j \in PreLease THEN Prefix(1) ELSE Prefix(0)
  <2> SUFFICES ASSUME NEW j \in Jobs
               PROVE  applied[j] = IF j \in PreLease THEN Prefix(1) ELSE Prefix(0)
    OBVIOUS
  <2>1. applied[j] = [u \in Units |-> IF j \in PreLease /\ u = 1 THEN 1 ELSE 0]
    BY DEF Init
  <2>2. \A u \in Units : (u <= 1 <=> u = 1) /\ ~(u <= 0)
    BY DEF Units
  <2> QED
    BY <2>1, <2>2 DEF Prefix
<1>3. States = [j \in Jobs |-> IF j \in PreLease THEN "active" ELSE "absent"]
  BY <1>1 DEF States
<1>4. applied = [j \in Jobs |-> IF j \in PreLease THEN Prefix(1) ELSE Prefix(0)]
  BY <1>2 DEF Init
<1> QED
  BY <1>3, <1>4, ContractUnits, ContractDone DEF Contract!Init, States, Shown

-----------------------------------------------------------------------------
(* The theorem                                                             *)

\* The lease, its fences, takeovers, retries and the reaper implement the contract: to anyone
\* who reads jobs and drafts, an import is worked on a unit at a time, in order, and completes
\* with all of them.
THEOREM LaneImplementsContract == Spec => ImplementsContract
<1>1. Init => Contract!Init
  BY InitContract
<1>2. Inv /\ [Next]_vars => [Contract!Next]_(Contract!vars)
  BY NextContract DEF ContractStep, Contract!vars, States, Shown
<1> QED
  BY <1>1, <1>2, InductiveInvariant, PTL DEF Spec, ImplementsContract, Contract!Spec
=============================================================================
