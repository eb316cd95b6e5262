----------------------------- MODULE Projection -----------------------------
(***************************************************************************)
(* The read copy of one graph's main in FalkorDB: passes that bring the    *)
(* key up to main's head, the row of projection_state they fence each      *)
(* other with, the marker they leave in the key, the liveness check that   *)
(* reads it, the capacity loop that evicts and loads the key, and reads    *)
(* that a lease protects (versioning/projection.py, cache_manager.py,      *)
(* residency.py).                                                          *)
(*                                                                         *)
(* A statement or transaction on Postgres is one step, a batch written to  *)
(* FalkorDB is one step, and a pass may lose its lock, fail or die between *)
(* any two. The graph's key is the platform's and the Graph residency      *)
(* switch is on. What an entity holds is the seq of the commit it is from, *)
(* 0 where it is not in the graph.                                         *)
(***************************************************************************)
EXTENDS Integers, Sequences, FiniteSets, FiniteSetsExt

CONSTANTS
  Entities,
  Passes,         \* callers of project_graph: the worker, a web pod
  Readers,        \* people's reads of main
  Evictor,        \* the capacity loop's evictor
  Nobody,
  Calm,           \* FalkorDB restarts between passes, and liveness looks before the next one
  MaxCommits,     \* bound: main's length
  MaxFaults,      \* bound: locks lost, passes failed or killed, restarts of FalkorDB
  MaxMoves        \* bound: evictions tried, rebuilds and watermark resets asked for

ASSUME ProjectionAssumption ==
  /\ Evictor \notin Passes /\ Nobody \notin Passes \cup {Evictor}
  /\ Calm \in BOOLEAN
  /\ MaxCommits \in Nat /\ MaxCommits > 1      \* main begins past genesis
  /\ MaxFaults \in Nat /\ MaxMoves \in Nat

VARIABLES
  main,       \* main[n][e]: what commit n does to entity e
  ps,         \* the graph's row of projection_state
  key,        \* the graph's key in FalkorDB
  saved,      \* the key as FalkorDB has it on disk
  lock,       \* who holds the projection's advisory lock
  pass,       \* pass[p]: how far a pass has come
  evictor,    \* how far the evictor has come
  dropped,    \* the capacity loop has dropped the old key for a load
  loaded,     \* the watermark at which the capacity loop saw a load done, or 0
  probe,      \* the row as the liveness check read it
  reader,     \* reader[r]: "out", "held" (has its lease) or "routed" (to FalkorDB)
  spent,
  stray       \* writes of a superseded pass: "no", "key" (there since a pass alone last marked it),
              \*   "lost" (saved, or their pass died without its lock before it yielded)

vars == <<main, ps, key, saved, lock, pass, evictor, dropped, loaded, probe, reader, spent, stray>>

-----------------------------------------------------------------------------
Kept == [e \in Entities |-> "keep"]
MainHead == Len(main)

\* main's live state at seq n.
At(n) == [e \in Entities |->
  LET touched == {m \in 1 .. n : main[m][e] # "keep"} IN
  IF touched = {} \/ main[Max(touched)][e] = "gone" THEN 0 ELSE Max(touched)]

Gone == [exists |-> FALSE, holds |-> [e \in Entities |-> 0], marker |-> 0]
Put(k, e, v) == [k EXCEPT !.exists = TRUE, !.holds[e] = v]

NoPass == [pc |-> "idle", from |-> 0, to |-> 0, seen |-> 0, mine |-> 0, first |-> FALSE,
           todo |-> {}]
NoEvict == [pc |-> "idle", projected |-> 0, epoch |-> 0]
NoProbe == [projected |-> 0, epoch |-> 0]

\* serves_head
ServesHead == ps.projected >= MainHead /\ ps.status # "rehydrating"

\* _unless_loading
UnlessLoading(s) == IF ps.status = "rehydrating" THEN "rehydrating" ELSE s

\* What liveness_reset_to finds amiss: the key is gone, or lost the passes after its marker.
Amiss == ps.projected > 1 /\ (~key.exists \/ key.marker < ps.projected)

Spend(what, max) == spent[what] < max /\ spent' = [spent EXCEPT ![what] = @ + 1]

\* The graph past genesis, its key published by a pass.
Init ==
  /\ main = <<Kept, [e \in Entities |-> "put"]>>
  /\ ps = [status |-> "idle", projected |-> 2, epoch |-> 0]
  /\ key = [exists |-> TRUE, holds |-> [e \in Entities |-> 2], marker |-> 2]
  /\ saved = Gone
  /\ lock = Nobody
  /\ pass = [p \in Passes |-> NoPass]
  /\ evictor = NoEvict
  /\ dropped = FALSE /\ loaded = 0
  /\ probe = NoProbe
  /\ reader = [r \in Readers |-> "out"]
  /\ spent = [faults |-> 0, moves |-> 0]
  /\ stray = "no"

\* A publish: main moves on by a commit.
Publish(e) ==
  /\ MainHead < MaxCommits
  /\ \E op \in {"put", IF At(MainHead)[e] = 0 THEN "put" ELSE "gone"} :
       main' = Append(main, [Kept EXCEPT ![e] = op])
  /\ UNCHANGED <<ps, key, saved, lock, pass, evictor, dropped, loaded, probe, reader, spent, stray>>

-----------------------------------------------------------------------------
(* A pass                                                                  *)

Out == {"evicted", "waiting_capacity"}
Goto(p, pc) == pass' = [pass EXCEPT ![p].pc = pc]
End(p) == /\ pass' = [pass EXCEPT ![p] = NoPass]
          /\ lock' = IF lock = p THEN Nobody ELSE lock

\* A pass that has lost the row to another and has still to say so; the key it then writes.
Superseded(p) == pass[p].pc \notin {"idle", "read"} /\ pass[p].mine # ps.epoch
Soiled(p) == IF Superseded(p) /\ stray = "no" THEN "key" ELSE stray

\* project_graph takes the lock and reads the row; project_pending and the nudges ask for it.
LagsIdle == ps.status = "idle" /\ ps.projected < MainHead
Lags == ps.status \notin Out /\ ps.projected < MainHead
Begin(p) ==
  /\ pass[p].pc = "idle" /\ lock = Nobody
  /\ Lags /\ (Calm => ~Amiss)
  /\ lock' = p
  /\ pass' = [pass EXCEPT ![p] = [NoPass EXCEPT !.pc = "read", !.from = ps.projected,
       !.to = MainHead, !.seen = ps.epoch, !.first = ps.projected = 0 /\ ps.status = "idle"]]
  /\ UNCHANGED <<main, ps, key, saved, evictor, dropped, loaded, probe, reader, spent, stray>>

\* _queue_first_seed: a full write of a key at rest takes its turn in the load queue.
QueueFirstSeed(p) ==
  /\ pass[p].pc = "read" /\ pass[p].first
  /\ IF ps.epoch = pass[p].seen /\ ps.projected = 0 /\ ps.status = "idle"
     THEN ps' = [ps EXCEPT !.status = "waiting_capacity", !.epoch = @ + 1] /\ End(p)
     ELSE pass' = [pass EXCEPT ![p].first = FALSE] /\ UNCHANGED <<ps, lock>>
  /\ UNCHANGED <<main, key, saved, evictor, dropped, loaded, probe, reader, spent, stray>>

\* _claim: the row as it was read, or nothing.
UnmovedAny(p) == TRUE
Unmoved(p) == ps.epoch = pass[p].seen /\ ps.projected = pass[p].from
Claim(p) ==
  /\ pass[p].pc = "read" /\ ~pass[p].first
  /\ IF Unmoved(p)
     THEN /\ ps' = [ps EXCEPT !.epoch = @ + 1, !.status =
                      UnlessLoading(IF pass[p].from = 0 THEN "rebuilding" ELSE "projecting")]
          /\ pass' = [pass EXCEPT ![p].pc = "plan", ![p].mine = ps.epoch + 1]
          /\ UNCHANGED lock
     ELSE End(p) /\ UNCHANGED ps
  /\ UNCHANGED <<main, key, saved, evictor, dropped, loaded, probe, reader, spent, stray>>

\* What the key must be given to hold main at seq n (diff_projection), and what a window changed.
Diff(n) == {e \in Entities : key.holds[e] # At(n)[e]}
Window(from, to) == {e \in Entities : \E n \in from + 1 .. to : main[n][e] # "keep"}

\* A full replay probes the key, which creates it, and reconciles it in place; otherwise the
\* changes of the window (from, to].
PlanPass(p) ==
  LET full == pass[p].from = 0 IN
  /\ pass[p].pc = "plan"
  /\ pass' = [pass EXCEPT ![p].pc = "write",
       ![p].todo = IF full THEN Diff(pass[p].to) ELSE Window(pass[p].from, pass[p].to)]
  /\ key' = IF full THEN [key EXCEPT !.exists = TRUE] ELSE key
  /\ UNCHANGED <<main, ps, saved, lock, evictor, dropped, loaded, probe, reader, spent, stray>>

\* _apply: one batch. Every write is a MERGE or a DELETE of the window's final value.
Write(p, e) ==
  /\ pass[p].pc \in {"write", "heal"} /\ e \in pass[p].todo
  /\ key' = Put(key, e, At(pass[p].to)[e])
  /\ pass' = [pass EXCEPT ![p].todo = @ \ {e}]
  /\ stray' = Soiled(p)
  /\ UNCHANGED <<main, ps, saved, lock, evictor, dropped, loaded, probe, reader, spent>>

\* _verify_and_heal, which a main that has moved on, or counts that cannot be had, leave undone.
\* Too many: what main has deleted is swept and the count taken again. Too few: a window's pass
\* reconciles the whole key once. A full replay whose counts match has its content compared.
Live == At(MainHead)
Alive(h) == Cardinality({e \in Entities : h[e] # 0})
Swept(h) == IF Alive(h) <= Alive(Live) THEN h
            ELSE [e \in Entities |-> IF Live[e] = 0 THEN 0 ELSE h[e]]
Drifted(p) == pass[p].from = 0 /\ Alive(key.holds) = Alive(Live) /\ key.holds # Live
Verify(p) ==
  LET healed == pass[p].pc = "heal"
      h == IF healed THEN key.holds ELSE Swept(key.holds) IN
  /\ pass[p].pc \in {"write", "heal"} /\ pass[p].todo = {}
  /\ \/ (MainHead = pass[p].to => ~healed) /\ Goto(p, "mark") /\ UNCHANGED <<key, stray>>
     \/ /\ MainHead = pass[p].to
        /\ key' = [key EXCEPT !.holds = h, !.exists = TRUE]
        /\ stray' = Soiled(p)
        /\ IF Alive(h) = Alive(Live) THEN Goto(p, IF Drifted(p) THEN "failed" ELSE "mark")
           ELSE IF Alive(h) > Alive(Live) \/ pass[p].from = 0 \/ healed THEN Goto(p, "failed")
           ELSE pass' = [pass EXCEPT ![p].pc = "heal",
                                     ![p].todo = {e \in Entities : h[e] # Live[e]}]
  /\ UNCHANGED <<main, ps, saved, lock, evictor, dropped, loaded, probe, reader, spent>>

\* _write_marker: the pass's last write.
Mark(p) ==
  /\ pass[p].pc = "mark"
  /\ key' = [key EXCEPT !.exists = TRUE, !.marker = pass[p].to]
  /\ Goto(p, "done")
  /\ stray' = IF stray = "lost" THEN stray
              ELSE IF \E q \in Passes : Superseded(q) THEN "key" ELSE "no"
  /\ UNCHANGED <<main, ps, saved, lock, evictor, dropped, loaded, probe, reader, spent>>

\* _finish, while the row is still the pass's own: it publishes its seq, or holds it back.
PublishedNext(p) == pass[p].to + 1
Published(p) == pass[p].to
Finish(p) ==
  /\ pass[p].pc \in {"done", "failed"}
  /\ IF ps.epoch = pass[p].mine
     THEN /\ ps' = [ps EXCEPT !.status = UnlessLoading("idle"),
                              !.projected = IF pass[p].pc = "done" THEN Published(p) ELSE @]
          /\ End(p)
     ELSE Goto(p, "yield") /\ UNCHANGED <<ps, lock>>
  /\ UNCHANGED <<main, key, saved, evictor, dropped, loaded, probe, reader, spent, stray>>

\* _yield_superseded: its writes may have landed after those of the pass that overtook it.
LoweredNot(p) == ps.projected
Lowered(p) == Min({ps.projected, pass[p].from})
YieldSuperseded(p) ==
  /\ pass[p].pc = "yield"
  /\ ps' = [ps EXCEPT !.projected = Lowered(p), !.epoch = @ + 1]
  /\ End(p)
  /\ UNCHANGED <<main, key, saved, evictor, dropped, loaded, probe, reader, spent, stray>>

\* An exception of FalkorDB or Postgres, or a caller that gave up.
Fail(p) ==
  /\ pass[p].pc \in {"plan", "write", "heal", "mark"} /\ Spend("faults", MaxFaults)
  /\ Goto(p, "failed")
  /\ UNCHANGED <<main, ps, key, saved, lock, evictor, dropped, loaded, probe, reader, stray>>

\* The process dies, and its lock with it; the row stays as it is.
Crash(p) ==
  /\ pass[p].pc # "idle" /\ Spend("faults", MaxFaults)
  /\ End(p)
  /\ stray' = IF Superseded(p) /\ lock # p THEN "lost" ELSE stray
  /\ UNCHANGED <<main, ps, key, saved, evictor, dropped, loaded, probe, reader>>

\* The lock's own connection breaks while the pass goes on.
LoseLock(p) ==
  /\ lock = p /\ Spend("faults", MaxFaults)
  /\ lock' = Nobody
  /\ UNCHANGED <<main, ps, key, saved, pass, evictor, dropped, loaded, probe, reader, stray>>

-----------------------------------------------------------------------------
(* FalkorDB, and the check of what it holds                                *)

\* The key reaches the disk; a restart brings back what had.
Save ==
  /\ saved # key /\ spent.faults < MaxFaults
  /\ Calm => key.marker # 0
  /\ saved' = key
  /\ stray' = IF stray = "key" THEN "lost" ELSE stray
  /\ UNCHANGED <<main, ps, key, lock, pass, evictor, dropped, loaded, probe, reader, spent>>
Restart ==
  /\ Spend("faults", MaxFaults)
  /\ Calm => ps.status \in Out \cup {"idle"} /\ \A p \in Passes : pass[p].pc = "idle"
  /\ key' = saved
  /\ UNCHANGED <<main, ps, saved, lock, pass, evictor, dropped, loaded, probe, reader, stray>>

\* check_liveness reads the rows at rest ...
LivenessRead ==
  /\ probe = NoProbe
  /\ ps.status = "idle" /\ ps.projected > 1
  /\ probe' = [projected |-> ps.projected, epoch |-> ps.epoch]
  /\ UNCHANGED <<main, ps, key, saved, lock, pass, evictor, dropped, loaded, reader, spent, stray>>

\* ... then each key's marker, and lowers the watermark of a row that has not moved since: a key
\* that is gone is evicted, to be loaded again.
ResetTo == IF ~key.exists THEN 0
           ELSE IF key.marker # 0 /\ key.marker < probe.projected THEN key.marker
           ELSE probe.projected
LivenessReset ==
  /\ probe # NoProbe
  /\ probe' = NoProbe
  /\ IF /\ ResetTo # probe.projected
        /\ ps.epoch = probe.epoch /\ ps.projected = probe.projected /\ ps.status = "idle"
     THEN ps' = [status |-> IF ResetTo = 0 THEN "evicted" ELSE "idle",
                 projected |-> ResetTo, epoch |-> ps.epoch + 1]
     ELSE UNCHANGED ps
  /\ UNCHANGED <<main, key, saved, lock, pass, evictor, dropped, loaded, reader, spent, stray>>

\* request_projection_rebuild: refused while one is under way.
Rebuild ==
  /\ ps.status \notin Out \cup {"rehydrating"}
  /\ ~(ps.status \in {"projecting", "rebuilding"} /\ ps.projected < MainHead)
  /\ Spend("moves", MaxMoves)
  /\ ps' = [status |-> "rebuilding", projected |-> 0, epoch |-> ps.epoch + 1]
  /\ UNCHANGED <<main, key, saved, lock, pass, evictor, dropped, loaded, probe, reader, stray>>

\* reset_projection_watermarks: an operator no longer trusts what FalkorDB holds.
ResetWatermarks ==
  /\ ps.projected > 0 /\ Spend("moves", MaxMoves)
  /\ ps' = [status |-> IF ps.status = "rehydrating" THEN "evicted" ELSE "reseeding",
            projected |-> 0, epoch |-> ps.epoch + 1]
  /\ UNCHANGED <<main, key, saved, lock, pass, evictor, dropped, loaded, probe, reader, stray>>

-----------------------------------------------------------------------------
(* Residency: eviction, load, and the reads they must not disturb          *)

Leased == \E r \in Readers : reader[r] # "out"

\* CacheManager.evict: nobody reads it, no pass runs, and the row is at rest.
EvictBegin ==
  /\ evictor.pc = "idle" /\ ~Leased /\ lock = Nobody
  /\ ps.status = "idle" /\ Spend("moves", MaxMoves)
  /\ lock' = Evictor
  /\ evictor' = [NoEvict EXCEPT !.pc = "mark", !.projected = ps.projected]
  /\ UNCHANGED <<main, ps, key, saved, pass, dropped, loaded, probe, reader, stray>>

EvictEnd == evictor' = NoEvict /\ lock' = Nobody

\* The guarded UPDATE.
EvictMark ==
  /\ evictor.pc = "mark"
  /\ IF ps.status = "idle" /\ ps.projected = evictor.projected
     THEN /\ ps' = [status |-> "evicted", projected |-> 0, epoch |-> ps.epoch + 1]
          /\ evictor' = [evictor EXCEPT !.pc = "check", !.epoch = ps.epoch + 1]
          /\ UNCHANGED lock
     ELSE EvictEnd /\ UNCHANGED ps
  /\ UNCHANGED <<main, key, saved, pass, dropped, loaded, probe, reader, spent, stray>>

\* _read_since: a read that took its lease meanwhile may have been routed to the key.
ReadSinceNot == FALSE
ReadSince == Leased
EvictCheck ==
  /\ evictor.pc = "check"
  /\ IF ReadSince
     THEN /\ ps' = IF ps.status = "evicted" /\ ps.epoch = evictor.epoch
                   THEN [status |-> "idle", projected |-> evictor.projected, epoch |-> ps.epoch + 1]
                   ELSE ps
          /\ EvictEnd
     ELSE evictor' = [evictor EXCEPT !.pc = "drop"] /\ UNCHANGED <<ps, lock>>
  /\ UNCHANGED <<main, key, saved, pass, dropped, loaded, probe, reader, spent, stray>>

EvictDrop ==
  /\ evictor.pc = "drop"
  /\ key' = Gone
  /\ EvictEnd
  /\ UNCHANGED <<main, ps, saved, pass, dropped, loaded, probe, reader, spent, stray>>

EvictCrash ==
  /\ evictor.pc # "idle" /\ Spend("faults", MaxFaults)
  /\ EvictEnd
  /\ UNCHANGED <<main, ps, key, saved, pass, dropped, loaded, probe, reader, stray>>

\* CapacityLoop._act: a load that does not fit waits; for one that does the old key goes
\* (_drop_stale), then the graph is rehydrating at watermark 0 (_start_load). Its evictions come
\* before its loads.
Wait ==
  /\ ps.status = "evicted" /\ ~dropped /\ evictor.pc = "idle"
  /\ ps' = [ps EXCEPT !.status = "waiting_capacity"]
  /\ UNCHANGED <<main, key, saved, lock, pass, evictor, dropped, loaded, probe, reader, spent, stray>>
DropStale ==
  /\ ps.status \in Out /\ ~dropped /\ evictor.pc = "idle"
  /\ key' = Gone
  /\ dropped' = TRUE
  /\ UNCHANGED <<main, ps, saved, lock, pass, evictor, loaded, probe, reader, spent, stray>>
StartLoad ==
  /\ dropped
  /\ dropped' = FALSE
  /\ ps' = IF ps.status \in Out
           THEN [status |-> "rehydrating", projected |-> 0, epoch |-> ps.epoch + 1] ELSE ps
  /\ UNCHANGED <<main, key, saved, lock, pass, evictor, loaded, probe, reader, spent, stray>>

\* _finish_loads: the rows show a seed that has published, its summaries are built, and the row
\* has not moved since.
SeeLoaded ==
  /\ loaded = 0
  /\ ps.status = "rehydrating" /\ ps.projected > 0 /\ ps.projected >= MainHead
  /\ loaded' = ps.projected
  /\ UNCHANGED <<main, ps, key, saved, lock, pass, evictor, dropped, probe, reader, spent, stray>>
FinishLoad ==
  /\ loaded # 0
  /\ loaded' = 0
  /\ ps' = IF ps.status = "rehydrating" /\ ps.projected = loaded
           THEN [ps EXCEPT !.status = "idle"] ELSE ps
  /\ UNCHANGED <<main, key, saved, lock, pass, evictor, dropped, probe, reader, spent, stray>>

\* A person's read: its lease first, then where main is read, then the read.
Hold(r) ==
  /\ reader[r] = "out"
  /\ reader' = [reader EXCEPT ![r] = "held"]
  /\ UNCHANGED <<main, ps, key, saved, lock, pass, evictor, dropped, loaded, probe, spent, stray>>
Route(r) ==
  /\ reader[r] = "held"
  /\ reader' = [reader EXCEPT ![r] = IF ServesHead THEN "routed" ELSE "out"]
  /\ UNCHANGED <<main, ps, key, saved, lock, pass, evictor, dropped, loaded, probe, spent, stray>>
Read(r) ==
  /\ reader[r] = "routed"
  /\ reader' = [reader EXCEPT ![r] = "out"]
  /\ UNCHANGED <<main, ps, key, saved, lock, pass, evictor, dropped, loaded, probe, spent, stray>>

-----------------------------------------------------------------------------
PassStep(p) == \/ QueueFirstSeed(p) \/ Claim(p) \/ PlanPass(p)
               \/ (\E e \in Entities : Write(p, e)) \/ Verify(p) \/ Mark(p)
               \/ Finish(p) \/ YieldSuperseded(p)
EvictStep == EvictMark \/ EvictCheck \/ EvictDrop

Next ==
  \/ \E e \in Entities : Publish(e)
  \/ \E p \in Passes : Begin(p) \/ PassStep(p) \/ Fail(p) \/ Crash(p) \/ LoseLock(p)
  \/ Save \/ Restart \/ LivenessRead \/ LivenessReset \/ Rebuild \/ ResetWatermarks
  \/ EvictBegin \/ EvictStep \/ EvictCrash
  \/ Wait \/ DropStale \/ StartLoad \/ SeeLoaded \/ FinishLoad
  \/ \E r \in Readers : Hold(r) \/ Route(r) \/ Read(r)

Spec == Init /\ [][Next]_vars

(* Fairness: the worker's loops poll for lagging graphs, look at the markers and load what was   *)
(* evicted (an Always graph, or one that is read); a pass or an eviction that runs goes on.      *)
FairSpec ==
  /\ Spec
  /\ \A p \in Passes : WF_vars(PassStep(p))
  /\ WF_vars(\E p \in Passes : Begin(p))
  /\ WF_vars(LivenessRead) /\ WF_vars(LivenessReset)
  /\ WF_vars(EvictStep) /\ WF_vars(DropStale) /\ WF_vars(StartLoad)
  /\ WF_vars(SeeLoaded) /\ WF_vars(FinishLoad)

-----------------------------------------------------------------------------
(* Properties. *)

Statuses == {"idle", "projecting", "rebuilding", "reseeding", "rehydrating"} \cup Out
Seqs == 0 .. MaxCommits
Key == [exists : BOOLEAN, holds : [Entities -> Seqs], marker : Seqs]
\* The state has its types, and no seq is past main's head.
TypeOK ==
  /\ main \in Seq([Entities -> {"keep", "put", "gone"}]) /\ MainHead <= MaxCommits
  /\ ps \in [status : Statuses, projected : 0 .. MainHead, epoch : Nat]
  /\ {key, saved} \subseteq Key
  /\ lock \in Passes \cup {Evictor, Nobody}
  /\ pass \in [Passes -> [pc : {"idle", "read", "plan", "write", "heal", "mark", "done", "failed",
                                "yield"},
                          from : 0 .. MainHead, to : 0 .. MainHead, seen : Nat, mine : Nat,
                          first : BOOLEAN, todo : SUBSET Entities]]
  /\ evictor \in [pc : {"idle", "mark", "check", "drop"}, projected : 0 .. MainHead, epoch : Nat]
  /\ dropped \in BOOLEAN /\ loaded \in 0 .. MainHead
  /\ probe \in [projected : 0 .. MainHead, epoch : Nat]
  /\ reader \in [Readers -> {"out", "held", "routed"}] /\ stray \in {"no", "key", "lost"}

\* Reads of main go to FalkorDB only when the key holds main's head, entity by entity: unless the
\* liveness check is about to find the key amiss, or a superseded pass is about to lower the
\* watermark over what it wrote. (stray: nothing lowers it for what such a pass wrote and FalkorDB
\* saved before the next pass's marker, nor when it dies, its lock lost, before it yields.)
ServesMain == ServesHead => \/ key.holds = At(MainHead)
                            \/ Amiss
                            \/ \E p \in Passes : Superseded(p)
                            \/ stray = "lost"

\* The evictor never drops the key under a read that was routed to it: whichever of the lease and
\* the eviction came first, the other sees it.
EvictionSparesReads == evictor.pc = "drop" => \A r \in Readers : reader[r] # "routed"

\* Whatever became of passes, key and row, reads come back to a key that holds main.
CatchesUp == LET good == ServesHead /\ key.holds = At(MainHead) IN ~good ~> good

-----------------------------------------------------------------------------
(* The inductive strengthening of EvictionSparesReads                      *)

\* The epoch only moves on: nobody remembers one that is ahead of the row.
EpochInv == /\ evictor.epoch <= ps.epoch
            /\ \A p \in Passes : pass[p].seen <= ps.epoch /\ pass[p].mine <= ps.epoch

\* A graph that is out serves nothing, and no pass that began before can publish: the row has
\* moved on since it read or claimed it.
OutInv ==
  ps.status \in Out =>
    /\ ps.projected = 0
    /\ \A p \in Passes : /\ pass[p].pc = "read" => pass[p].seen < ps.epoch
                         /\ pass[p].pc \notin {"idle", "read"} => pass[p].mine < ps.epoch

\* While the evictor is between its mark and its drop the graph stays out.
EvictInv ==
  /\ MainHead > 0 /\ EpochInv /\ OutInv
  /\ dropped => ps.status \in Out
  /\ evictor.pc \in {"check", "drop"} => ps.status = "evicted" /\ ~dropped
  /\ EvictionSparesReads

-----------------------------------------------------------------------------
(* The inductive strengthening of ServesMain, where FalkorDB restarts only *)
(* between passes (Calm)                                                   *)

Claimed(p) == pass[p].pc \notin {"idle", "read"}
Current(p) == Claimed(p) /\ pass[p].mine = ps.epoch
\* The row is as p left it or read it.
Latest(p) == Current(p) \/ (pass[p].pc = "read" /\ pass[p].seen = ps.epoch)

\* What is left of genesis is behind everybody; a pass comes to its mark with nothing more to write.
SeqInv ==
  /\ \A n \in {ps.projected, key.marker, saved.marker, evictor.projected} : n # 1 /\ n <= MainHead
  /\ \A p \in Passes : pass[p].pc # "idle" => /\ pass[p].to > 1 /\ pass[p].from <= pass[p].to
                                             /\ pass[p].from # 1
  /\ \A p \in Passes : pass[p].pc \in {"mark", "done"} => pass[p].todo = {}

\* Passes follow one another: the one the row belongs to began last and from the watermark, and one
\* that still has its lock is the last to have begun.
TurnInv ==
  /\ \A p, q \in Passes : Claimed(p) /\ Claimed(q) /\ pass[p].mine = pass[q].mine => p = q
  /\ \A p \in Passes : Current(p) => pass[p].from = ps.projected
  /\ \A p \in Passes : Latest(p) => /\ key.marker <= pass[p].to
                                   /\ \A q \in Passes : Claimed(q) => pass[q].to <= pass[p].to
  /\ \A p \in Passes : lock = p /\ Claimed(p) => /\ ps.projected <= pass[p].from
                                               /\ \A q \in Passes : Latest(q) => q = p
  /\ evictor.pc # "idle" => lock = Evictor

\* Entity e has not changed since commit n.
Still(n, e) == n > 0 /\ \A m \in n + 1 .. MainHead : main[m][e] = "keep"
Right(e) == key.holds[e] = At(MainHead)[e]
\* No superseded pass is to rewrite e, or have it rewritten.
Spared(e) == \A p \in Passes : Superseded(p) => Still(pass[p].from, e)

\* With watermark n, the key is right where it is not to be written: the marker is not behind, unless
\* FalkorDB lost writes while nothing ran.
TrustedTo(n) ==
  \A e \in Entities : Still(n, e) /\ Spared(e) =>
    /\ Still(key.marker, e) => Right(e)
    /\ (\E p \in Passes : pass[p].pc # "idle") => Still(key.marker, e)

\* What a pass that owns the row has brought about.
Brought(p) ==
  /\ pass[p].pc \in {"write", "heal", "mark", "done"} =>
       \A e \in Entities \ pass[p].todo : Still(pass[p].to, e) /\ Spared(e) => Right(e)
  /\ pass[p].pc = "done" =>
       \A e \in Entities : Still(pass[p].to, e) /\ Spared(e) => Still(key.marker, e)

KeyInv ==
  /\ stray = "no" => \A e \in Entities : Still(key.marker, e) => Right(e)
  /\ stray # "lost" =>
       /\ \A e \in Entities : Still(saved.marker, e) => saved.holds[e] = At(MainHead)[e]
       /\ TrustedTo(ps.projected)
       /\ evictor.pc = "check" /\ ps.epoch = evictor.epoch => TrustedTo(evictor.projected)
       /\ \A p \in Passes : Current(p) => Brought(p)

ServeInv == MainHead > 1 /\ EvictInv /\ SeqInv /\ TurnInv /\ KeyInv
=============================================================================
