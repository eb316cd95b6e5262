----------------------------- MODULE StagedSave -----------------------------
(***************************************************************************)
(* Unsaved canvas edits and their save, in one browser tab: the staged     *)
(* store with its per-draft slices, undo and redo (stagedChangesStore.ts), *)
(* the save under an idempotency key (saveStagedChangesToDraft.ts), the    *)
(* snapshot that carries both over a reload (canvas-drafts/), and the      *)
(* server that applies a batch once per key (apply_ops).                   *)
(*                                                                         *)
(* JavaScript runs to completion: a handler up to its next await is one    *)
(* step. An edit is a number; an entity's value is the number of the last  *)
(* edit of it. A target is one entity: the server derives the id of a      *)
(* create from its temp id, so creating it again names the same entity.    *)
(***************************************************************************)
EXTENDS Integers, Sequences, FiniteSets

CONSTANTS
  Drafts, Targets, Published, NoTarget, NoDraft,
  Parent,         \* Parent[t]: the entity a new t is created under, or NoTarget
  Existing,       \* entities on every draft from the start
  LayoutOnly,     \* targets of layer moves: view layout, never a graph op
  Hasty,          \* may the draft be left with its snapshot write due or its save in flight?
  MaxEdits,       \* bound: edits made
  MaxRedos,       \* bound: changes redone
  MaxFaults,      \* bound: page reloads, requests and answers lost
  MaxOthers,      \* bound: edits by other people
  MaxRefused      \* bound: batches the ontology refuses

Scopes == Drafts \cup {Published}

ASSUME StagedSaveAssumption ==
  /\ IsFiniteSet(Drafts)
  /\ Published \notin Drafts /\ NoDraft \notin Scopes /\ NoTarget \notin Targets
  /\ Existing \subseteq Targets /\ LayoutOnly \subseteq Existing
  /\ Parent \in [Targets -> Targets \cup {NoTarget}]
  /\ Hasty \in BOOLEAN
  /\ {MaxEdits, MaxRedos, MaxFaults, MaxOthers, MaxRefused} \subseteq Nat

VARIABLES
  scope,        \* _scopeKey: the draft on the canvas, or Published
  changes,      \* the active scope's staged changes, oldest first
  redo,         \* redoStack of the active scope
  parked,       \* _byScope: the slices of the other scopes
  applying,     \* applyStatus = 'applying'
  token,        \* token[t]: the version the canvas holds of t, 0 when it has none
  pending,      \* pendingSaves: per scope, the save that may have reached the server
  snap,         \* localStorage: each draft's snapshot
  due,          \* the debounced write of the active scope's snapshot is due
  restoredFor,  \* restoredForKeyRef
  call,         \* the running saveStagedChangesToDraft
  net,          \* requests on their way to the server
  open,         \* drafts still open on the server
  doc,          \* doc[d][t]: entity t on draft d
  commits,      \* the keys applied on each draft, with the batch they applied
  refusals,     \* keys the ontology refused
  edits,        \* edits made so far
  spent,        \* how much of the bounds on faults is used
  minted,       \* temp urns generated: a new entity is created once
  wanted,       \* wanted[d][t]: the user's last edit of t's data on d, 0 once given up
  madeOn        \* madeOn[e]: the draft and the entity edit e was made on

page == <<scope, changes, redo, parked, applying, token, pending, due, restoredFor, call>>
server == <<open, doc, commits, refusals>>
history == <<edits, minted, wanted, madeOn>>
vars == <<page, snap, net, server, spent, history>>

-----------------------------------------------------------------------------
\* How a create names its parent: not at all, by the temp id of a staged create (resolved only
\* inside a batch that carries it), or by its id on the server.
Naming == {"none", "ref", "id"}
Change == [id : Nat, target : Targets, kind : {"create", "update"}, under : Naming, after : Nat,
           base : Nat, conflict : Nat]
Op == [target : Targets, kind : {"create", "update"}, under : Naming, after : Nat, base : Nat]
Body == [ops : Seq(Op), n : Nat]
PendingSave == [key : Nat, body : Body, sent : Seq(Change)]
NoSave == [key |-> 0, body |-> [ops |-> <<>>, n |-> 0], sent |-> <<>>]
NoSnap == [changes |-> <<>>, save |-> NoSave]
EmptySlice == [changes |-> <<>>, redo |-> <<>>]
NoAnswer == [is |-> "none", versions |-> [t \in Targets |-> 0]]
NotSettled == [carried |-> {}, edited |-> {}, versions |-> [t \in Targets |-> 0]]
NoCall == [phase |-> "none", scope |-> Published, batch |-> <<>>, save |-> NoSave,
           settled |-> NotSettled, answer |-> NoAnswer]
Absent == [ver |-> 0, mine |-> 0]
Stored == [ver |-> 1, mine |-> 0]

Init ==
  /\ scope = Published /\ changes = <<>> /\ redo = <<>>
  /\ parked = [s \in Scopes |-> EmptySlice]
  /\ applying = FALSE /\ due = FALSE /\ restoredFor = NoDraft /\ call = NoCall
  /\ token = [t \in Targets |-> 0]
  /\ pending = [s \in Scopes |-> NoSave]
  /\ snap = [d \in Drafts |-> NoSnap]
  /\ net = {}
  /\ open = Drafts
  /\ doc = [d \in Drafts |-> [t \in Targets |-> IF t \in Existing THEN Stored ELSE Absent]]
  /\ commits = [d \in Drafts |-> {}]
  /\ refusals = {} /\ edits = 0 /\ minted = {}
  /\ spent = [faults |-> 0, others |-> 0, refused |-> 0, redos |-> 0]
  /\ wanted = [d \in Drafts |-> [t \in Targets |-> 0]]
  /\ madeOn = [e \in 1 .. MaxEdits |-> [draft |-> NoDraft, target |-> NoTarget]]

Ids(cs) == {cs[i].id : i \in DOMAIN cs}
Staging(cs, t) == {i \in DOMAIN cs : cs[i].target = t}

\* Array.filter and map: the members of cs at the places S, in their order.
InOrder(S) ==
  CHOOSE f \in [1 .. Cardinality(S) -> S] : \A i, j \in DOMAIN f : i < j => f[i] < f[j]
Kept(cs, S) == LET f == InOrder(S) IN [k \in DOMAIN f |-> cs[f[k]]]
Sans(cs, ids) == Kept(cs, {i \in DOMAIN cs : cs[i].id \notin ids})
Map(cs, F(_)) == [i \in DOMAIN cs |-> F(cs[i])]

\* stagedChangesToOps: a layer move makes no op.
Ops(cs) ==
  LET graph == Kept(cs, {i \in DOMAIN cs : cs[i].target \notin LayoutOnly})
  IN  Map(graph, LAMBDA c : [target |-> c.target, kind |-> c.kind, under |-> c.under,
                             after |-> c.after, base |-> c.base])
BodyOf(cs, batch) == [ops |-> Ops(cs), n |-> Len(batch)]

\* The store's subscriber, told that the active list is now cs: an empty list clears the snapshot
\* and the pending save, any other makes a snapshot write due.
Notify(cs, saves, snaps) ==
  IF scope \notin Drafts THEN pending' = saves /\ snap' = snaps /\ due' = due
  ELSE IF cs = <<>>
       THEN /\ due' = FALSE
            /\ snap' = [snaps EXCEPT ![scope] = NoSnap]
            /\ pending' = [saves EXCEPT ![scope] = NoSave]
       ELSE due' = TRUE /\ pending' = saves /\ snap' = snaps

\* What a reload or a switch back brings to the canvas of d.
Held(d) ==
  IF scope = d THEN changes
  ELSE IF snap[d] # NoSnap /\ restoredFor # d THEN snap[d].changes
       ELSE parked[d].changes

-----------------------------------------------------------------------------
(* Editing. The review panel's backdrop covers the canvas while a save runs. *)

Editable == scope \in Drafts /\ ~applying

\* stageOrReplace of a target already staged, patchAfter: same change, same `before`.
Replaced(i, e) == [changes EXCEPT ![i].after = e]

\* The creates of p among cs.
Creating(cs, p) == {i \in Staging(cs, p) : cs[i].kind = "create"}

\* The names under which the canvas shows p: the temp id of its staged create, its own id.
Shown(p) ==
  {u \in {"ref", "id"} :
     IF u = "ref" THEN Creating(changes, p) # {}
     ELSE token[p] > 0 \/ Staging(changes, p) # Creating(changes, p)}

\* stage of a target not staged: a new entity under a parent the canvas shows, or an edit of one
\* it has, at the version it was read.
NewChange(t, u, e) ==
  [id |-> e, target |-> t, kind |-> IF token[t] = 0 THEN "create" ELSE "update", under |-> u,
   after |-> e, base |-> token[t], conflict |-> 0]
MayStage(t, u) ==
  IF token[t] > 0 THEN u = "none"
  ELSE t \notin minted /\ u \in IF Parent[t] = NoTarget THEN {"none"} ELSE Shown(Parent[t])

Edit(t) ==
  /\ Editable /\ edits < MaxEdits
  /\ LET e == edits + 1
         at == Staging(changes, t)
     IN  /\ IF at # {}
            THEN /\ changes' = Replaced(CHOOSE i \in at : TRUE, e)
                 /\ UNCHANGED <<redo, minted>>
            ELSE /\ \E u \in Naming : /\ MayStage(t, u)
                                      /\ changes' = Append(changes, NewChange(t, u, e))
                 /\ redo' = <<>>
                 /\ minted' = IF token[t] = 0 THEN minted \cup {t} ELSE minted
         /\ Notify(changes', pending, snap)
         /\ edits' = e
         /\ wanted' = [wanted EXCEPT ![scope][t] = IF t \in LayoutOnly THEN 0 ELSE e]
         /\ madeOn' = [madeOn EXCEPT ![e] = [draft |-> scope, target |-> t]]
  /\ UNCHANGED <<scope, parked, applying, token, restoredFor, call, net, server, spent>>

\* collectStagedSubtree: the change and the creates staged under it, down the parent links.
Closed(cs, S) == \A i \in DOMAIN cs : \A j \in S :
                   /\ cs[i].kind = "create" /\ cs[j].kind = "create" /\ cs[i].under = "ref"
                   /\ Parent[cs[i].target] = cs[j].target
                   => i \in S
MutantNoCascade(cs, root) == {root}
CollectStagedSubtree(cs, root) ==
  {i \in DOMAIN cs : \A S \in SUBSET DOMAIN cs : root \in S /\ Closed(cs, S) => i \in S}

GivenUp(ts) == [wanted EXCEPT ![scope] = [t \in Targets |-> IF t \in ts THEN 0 ELSE @[t]]]

\* What is undone or discarded goes on the redo stack (not kept once nothing more is redone).
Pushed(c) == IF spent.redos < MaxRedos THEN Append(redo, c) ELSE <<>>

Discard(i) ==
  /\ Editable /\ i \in DOMAIN changes
  /\ LET root == changes[i]
         victims == CollectStagedSubtree(changes, i)
     IN  /\ changes' = Sans(changes, {changes[v].id : v \in victims})
         /\ redo' = IF root.kind = "create" THEN redo ELSE Pushed(root)
         /\ wanted' = GivenUp({changes[v].target : v \in victims})
  /\ Notify(changes', pending, snap)
  /\ UNCHANGED <<scope, parked, applying, token, restoredFor, call, net, server, spent,
                 edits, minted, madeOn>>

DiscardAll ==
  /\ Editable /\ changes # <<>>
  /\ changes' = <<>> /\ redo' = <<>>
  /\ wanted' = GivenUp({changes[i].target : i \in DOMAIN changes})
  /\ Notify(<<>>, pending, snap)
  /\ UNCHANGED <<scope, parked, applying, token, restoredFor, call, net, server, spent,
                 edits, minted, madeOn>>

Undo ==
  /\ Editable /\ changes # <<>>
  /\ LET last == changes[Len(changes)]
     IN  /\ changes' = SubSeq(changes, 1, Len(changes) - 1)
         /\ redo' = Pushed(last)
         /\ wanted' = GivenUp({last.target})
  /\ Notify(changes', pending, snap)
  /\ UNCHANGED <<scope, parked, applying, token, restoredFor, call, net, server, spent,
                 edits, minted, madeOn>>

Redo ==
  /\ Editable /\ redo # <<>> /\ spent.redos < MaxRedos
  /\ spent' = [spent EXCEPT !.redos = @ + 1]
  /\ LET last == redo[Len(redo)]
     IN  /\ changes' = Append(changes, last)
         /\ redo' = SubSeq(redo, 1, Len(redo) - 1)
         /\ wanted' = [wanted EXCEPT ![scope][last.target] =
                        IF last.target \in LayoutOnly THEN 0 ELSE last.after]
  /\ Notify(changes', pending, snap)
  /\ UNCHANGED <<scope, parked, applying, token, restoredFor, call, net, server,
                 edits, minted, madeOn>>

MutantKeepsBase(c) == [c EXCEPT !.conflict = 0]
KeepMine(c) == [c EXCEPT !.base = c.conflict, !.conflict = 0]

\* resolveConflict: "mine" keeps the edit, on the current version; "theirs" drops it.
ResolveConflict(i, mine) ==
  /\ Editable /\ i \in DOMAIN changes /\ changes[i].conflict > 0
  /\ changes' = IF mine
                THEN [changes EXCEPT ![i] = KeepMine(@)]
                ELSE Sans(changes, {changes[i].id})
  /\ wanted' = IF mine THEN wanted ELSE GivenUp({changes[i].target})
  /\ token' = [token EXCEPT ![changes[i].target] = changes[i].conflict]
  /\ Notify(changes', pending, snap)
  /\ UNCHANGED <<scope, redo, parked, applying, restoredFor, call, net, server, spent,
                 edits, minted, madeOn>>

-----------------------------------------------------------------------------
(* The snapshot, the draft on the canvas, the page. *)

Snapshot == [changes |-> changes, save |-> pending[scope]]

\* The debounced write, WRITE_DEBOUNCE_MS after the last change.
WriteSnapshot ==
  /\ due /\ scope \in Drafts
  /\ snap' = [snap EXCEPT ![scope] = Snapshot]
  /\ due' = FALSE
  /\ UNCHANGED <<scope, changes, redo, parked, applying, token, pending, restoredFor, call, net,
                 server, spent, history>>

\* setScope parks the active slice and loads the slice of s; the canvas is hydrated from the
\* server; a draft entered anew (not the last one restored) takes its snapshot, with its save.
Restores(s) == s \in Drafts /\ restoredFor # s /\ snap[s] # NoSnap
MutantNotParked == parked
Parked == [parked EXCEPT ![scope] = [changes |-> changes, redo |-> redo]]
MutantCarriedOver(s) == [changes |-> changes, redo |-> redo]
Loaded(s) ==
  IF Restores(s) THEN [changes |-> snap[s].changes, redo |-> <<>>] ELSE Parked[s]
MutantRestoredAnywhere(s) == s
RestoredFor(s) == IF s \in Drafts THEN s ELSE restoredFor

Activate(s) ==
  /\ scope' = s
  /\ changes' = Loaded(s).changes /\ redo' = Loaded(s).redo
  /\ parked' = [Parked EXCEPT ![s] = EmptySlice]
  /\ pending' = IF Restores(s) /\ snap[s].save # NoSave
                THEN [pending EXCEPT ![s] = snap[s].save] ELSE pending
  /\ restoredFor' = RestoredFor(s)
  /\ token' = [t \in Targets |-> IF s \in Drafts THEN doc[s][t].ver ELSE 0]
  /\ applying' = FALSE
  /\ due' = FALSE                  \* the subscription's cleanup clears the timer
  /\ UNCHANGED <<snap, call, net, server, spent, history>>

\* The branch switcher, a ?branch= link, Back and Forward.
SwitchTo(s) ==
  /\ s # scope /\ (s \in Drafts => s \in open)
  /\ Hasty \/ (~applying /\ ~due)
  /\ Activate(s)

\* useActiveBranchGuard: the draft was merged or abandoned under the user.
Evict ==
  /\ scope \in Drafts \ open
  /\ Activate(Published)

\* A reload: the unload flush writes the active draft's snapshot, everything in memory goes, a
\* request already sent goes on without its page.
Reload ==
  /\ spent.faults < MaxFaults
  /\ spent' = [spent EXCEPT !.faults = @ + 1]
  /\ snap' = IF scope \in Drafts /\ changes # <<>> THEN [snap EXCEPT ![scope] = Snapshot] ELSE snap
  /\ scope' = Published /\ changes' = <<>> /\ redo' = <<>>
  /\ parked' = [s \in Scopes |-> EmptySlice]
  /\ applying' = FALSE /\ due' = FALSE /\ restoredFor' = NoDraft /\ call' = NoCall
  /\ token' = [t \in Targets |-> 0]
  /\ pending' = [s \in Scopes |-> NoSave]
  /\ net' = {[m EXCEPT !.live = FALSE] : m \in net}
  /\ UNCHANGED <<server, history>>

-----------------------------------------------------------------------------
(* The save. *)

Request(save, d) == [key |-> save.key, draft |-> d, ops |-> save.body.ops, live |-> TRUE]

\* clearSaved: the changes a save carried leave the active list, by id.
Cleared(ids) == Sans(changes, ids)

\* newRequestId: a key nobody holds (one that is nowhere any more stands for a new one).
KeysHeld ==
  {m.key : m \in net} \cup refusals \cup {call.save.key} \cup {pending[s].key : s \in Scopes}
    \cup UNION {{r.key : r \in commits[d]} \cup {snap[d].save.key} : d \in Drafts}
NewRequestId == CHOOSE k \in 1 .. Cardinality(KeysHeld) + 1 : k \notin KeysHeld

\* The key of the next request: the pending save's own when it is that very body.
KeyFor(body, prior) == IF prior.key # 0 /\ prior.body = body THEN prior.key ELSE NewRequestId

\* One atomic commit of `rest`: the pending save is recorded, in the snapshot too (if there is
\* one), before the request leaves. `saves`: the pending saves as the call has left them.
Send(rest, batch, d, saves, settled) ==
  LET body == BodyOf(rest, batch)
      save == [key |-> KeyFor(body, saves[d]), body |-> body, sent |-> rest]
  IN  /\ pending' = [saves EXCEPT ![d] = save]
      /\ snap' = IF snap[d] = NoSnap THEN snap ELSE [snap EXCEPT ![d].save = save]
      /\ net' = net \cup {Request(save, d)}
      /\ call' = [phase |-> "send", scope |-> d, batch |-> batch, save |-> save,
                  settled |-> settled, answer |-> NoAnswer]

\* Must the pending save be settled before this batch goes?
MustSettle(save, cs) == save # NoSave /\ save.body # BodyOf(cs, cs)

\* handleConfirm, up to the first await.
Save ==
  /\ Editable /\ changes # <<>> /\ call = NoCall
  /\ IF Ops(changes) = <<>>
     THEN /\ changes' = <<>> /\ redo' = <<>>
          /\ Notify(<<>>, pending, snap)
          /\ UNCHANGED <<applying, net, call>>
     ELSE /\ applying' = TRUE
          /\ IF MustSettle(pending[scope], changes)
             THEN /\ net' = net \cup {Request(pending[scope], scope)}
                  /\ call' = [NoCall EXCEPT !.phase = "settle", !.scope = scope, !.batch = changes,
                                           !.save = pending[scope]]
                  /\ UNCHANGED <<pending, snap>>
             ELSE Send(changes, changes, scope, pending, NotSettled)
          /\ UNCHANGED <<changes, redo, due>>
  /\ UNCHANGED <<scope, parked, token, restoredFor, server, spent, history>>

\* rebase: the entity as the settled save left it, at the version the server returned.
MutantStillCreate(c, versions) == [c EXCEPT !.base = versions[c.target]]
Rebase(c, versions) == [c EXCEPT !.kind = "update", !.under = "none", !.base = versions[c.target]]

\* `finally`: the status goes back to idle, which the subscriber sees.
Done(cs, saves, snaps) ==
  /\ changes' = cs
  /\ applying' = FALSE
  /\ call' = NoCall
  /\ IF cs # changes \/ applying THEN Notify(cs, saves, snaps)
     ELSE pending' = saves /\ snap' = snaps /\ due' = due
  /\ UNCHANGED net

\* reconcileSaved: the canvas takes the versions the server answered.
Reconcile(d, cs, versions) ==
  token' = IF scope # d THEN token
           ELSE [t \in Targets |-> IF Staging(cs, t) # {} /\ t \notin LayoutOnly
                                   THEN versions[t] ELSE token[t]]

\* The changes of the settled save that were edited since it went out.
EditedSince(batch, sent) ==
  {batch[i].id : i \in {k \in DOMAIN batch : \E j \in DOMAIN sent :
                          sent[j].id = batch[k].id /\ sent[j].after # batch[k].after}}

Answered(phase, is) == call.phase = phase /\ call.answer.is \in is

\* No answer, or a server error: the key is kept, the error reaches the user.
SettleLost ==
  /\ Answered("settle", {"lost"})
  /\ Done(changes, pending, snap)
  /\ UNCHANGED <<scope, redo, parked, token, restoredFor, server, spent, history>>

\* Refused: it was not applied, so the whole batch goes under a key of its own.
SettleRefused ==
  /\ Answered("settle", {"refused", "conflict"})
  /\ Send(call.batch, call.batch, call.scope, [pending EXCEPT ![call.scope] = NoSave],
          NotSettled)
  /\ UNCHANGED <<scope, changes, redo, parked, applying, token, due, restoredFor, server, spent,
                 history>>

\* resolve: what goes next names by its id a parent the settled save created. Only the request
\* does; the staged change keeps the temp id.
Created(ops) == {ops[i].target : i \in {j \in DOMAIN ops : ops[j].kind = "create"}}
Resolve(c, created) ==
  IF c.under = "ref" /\ Parent[c.target] \in created THEN [c EXCEPT !.under = "id"] ELSE c

\* Applied, now or before: only what it did not carry, or was edited since, is left to send.
SettleApplied ==
  /\ Answered("settle", {"ok"})
  /\ LET d == call.scope
         saves == [pending EXCEPT ![d] = NoSave]
         carried == Ids(call.save.sent)
         edited == EditedSince(call.batch, call.save.sent)
         Rebased(c) == IF c.id \in edited THEN Rebase(c, call.answer.versions) ELSE c
         Sent(c) == Resolve(Rebased(c), Created(call.save.body.ops))
         rest == Kept(Map(call.batch, Sent),
                      {i \in DOMAIN call.batch :
                         call.batch[i].id \in edited \/ call.batch[i].id \notin carried})
     IN  IF Ops(rest) = <<>>
         THEN /\ Done(Cleared(Ids(call.batch)), saves, snap)
              /\ redo' = <<>>
              /\ Reconcile(d, call.batch, call.answer.versions)
         ELSE /\ changes' = Map(changes, Rebased)
              /\ due' = (due \/ (changes' # changes /\ scope \in Drafts))
              /\ Send(rest, call.batch, d, saves,
                      [carried |-> carried, edited |-> edited, versions |-> call.answer.versions])
              /\ UNCHANGED <<redo, token, applying>>
  /\ UNCHANGED <<scope, parked, restoredFor, server, spent, history>>

\* The save is in: what it carried is no longer staged.
SendApplied ==
  /\ Answered("send", {"ok"})
  /\ Done(Cleared(Ids(call.batch)), [pending EXCEPT ![call.scope] = NoSave], snap)
  /\ redo' = <<>>
  /\ Reconcile(call.scope, call.batch, call.answer.versions)
  /\ UNCHANGED <<scope, parked, restoredFor, server, spent, history>>

\* A failure: a refusal drops the pending save; what a settled save carried, unedited, is no
\* longer staged; a conflict is put on the changes that met it (markConflicts).
SendFailed ==
  /\ Answered("send", {"refused", "conflict", "lost"})
  /\ LET saves == IF call.answer.is = "lost" THEN pending
                  ELSE [pending EXCEPT ![call.scope] = NoSave]
         left == Cleared(call.settled.carried \ call.settled.edited)
         Marked(c) == IF /\ call.answer.is = "conflict" /\ c.kind = "update"
                         /\ c.target \notin LayoutOnly /\ c.id \in Ids(call.save.sent)
                         /\ c.base # call.answer.versions[c.target]
                      THEN [c EXCEPT !.conflict = call.answer.versions[c.target]] ELSE c
     IN  Done(Map(left, Marked), saves, snap)
  /\ IF call.settled = NotSettled THEN UNCHANGED <<redo, token>>
     ELSE /\ redo' = <<>>
          /\ Reconcile(call.scope,
                       Kept(call.batch, {i \in DOMAIN call.batch : call.batch[i].id \in
                                           call.settled.carried \ call.settled.edited}),
                       call.settled.versions)
  /\ UNCHANGED <<scope, parked, restoredFor, server, spent, history>>

-----------------------------------------------------------------------------
(* The server: apply_ops under the draft's row lock. *)

Applied(d) == {r.key : r \in commits[d]}
Written(ops) == {ops[i].target : i \in DOMAIN ops}
Conflicts(d, ops) ==
  \E i \in DOMAIN ops : ops[i].kind = "update" /\ ops[i].base # doc[d][ops[i].target].ver
There(d) == {t \in Targets : doc[d][t].ver > 0}

\* EntityExists: an entity of that id is there already.
Exists(d, ops) == Created(ops) \cap There(d) # {}

\* An edge to the parent that would dangle: only this batch's own temp ids are resolved, and an id
\* must be there.
Unresolved(d, ops) ==
  \E i \in DOMAIN ops :
    LET p == Parent[ops[i].target]
    IN  /\ ops[i].kind = "create"
        /\ \/ ops[i].under = "ref" /\ p \notin Created(ops)
           \/ ops[i].under = "id" /\ p \notin There(d)

Written1(e, op) == [ver |-> e.ver + 1, mine |-> op.after]
After(d, ops) ==
  [t \in Targets |-> IF t \in Written(ops)
                     THEN Written1(doc[d][t], ops[CHOOSE i \in DOMAIN ops : ops[i].target = t])
                     ELSE doc[d][t]]

\* The answer reaches the page that waits for it, or is lost on the way.
Answer(m, is, entities) ==
  /\ net' = net \ {m}
  /\ IF ~m.live THEN UNCHANGED <<call, spent>>
     ELSE \/ /\ call' = [call EXCEPT !.answer = [is |-> is, versions |-> [t \in Targets |-> entities[t].ver]]]
             /\ UNCHANGED spent
          \/ /\ spent.faults < MaxFaults
             /\ spent' = [spent EXCEPT !.faults = @ + 1]
             /\ call' = [call EXCEPT !.answer = [NoAnswer EXCEPT !.is = "lost"]]

ServerUnchanged == UNCHANGED <<scope, changes, redo, parked, applying, token, pending, due,
                               restoredFor, snap, history>>

\* A retry of a save that landed answers with its commit, before the draft is found closed.
Replay(m) ==
  /\ m.key \in Applied(m.draft)
  /\ Answer(m, "ok", doc[m.draft])
  /\ ServerUnchanged /\ UNCHANGED server

Accepts(m) == /\ m.key \notin Applied(m.draft) /\ m.draft \in open /\ m.key \notin refusals
              /\ ~Exists(m.draft, m.ops) /\ ~Conflicts(m.draft, m.ops)
              /\ ~Unresolved(m.draft, m.ops)

Apply(m) ==
  /\ Accepts(m)
  /\ doc' = [doc EXCEPT ![m.draft] = After(m.draft, m.ops)]
  /\ commits' = [commits EXCEPT ![m.draft] = @ \cup {[key |-> m.key, ops |-> m.ops]}]
  /\ Answer(m, "ok", After(m.draft, m.ops))
  /\ ServerUnchanged /\ UNCHANGED <<open, refusals>>

Refuse(m) ==
  /\ m.key \notin Applied(m.draft) /\ ~Accepts(m)
  /\ LET conflict == /\ m.draft \in open /\ ~Exists(m.draft, m.ops)
                     /\ Conflicts(m.draft, m.ops)
     IN  Answer(m, IF conflict THEN "conflict" ELSE "refused", doc[m.draft])
  /\ ServerUnchanged /\ UNCHANGED server

\* An ontology violation: the same batch is refused each time it comes.
Violate(m) ==
  /\ Accepts(m) /\ spent.refused < MaxRefused
  /\ refusals' = refusals \cup {m.key}
  /\ spent' = [spent EXCEPT !.refused = @ + 1]
  /\ net' = net \ {m}
  /\ call' = IF m.live THEN [call EXCEPT !.answer = [NoAnswer EXCEPT !.is = "refused"]] ELSE call
  /\ ServerUnchanged /\ UNCHANGED <<open, doc, commits>>

\* The request never arrives, or the server fails before it writes.
Drop(m) ==
  /\ spent.faults < MaxFaults
  /\ spent' = [spent EXCEPT !.faults = @ + 1]
  /\ net' = net \ {m}
  /\ call' = IF m.live THEN [call EXCEPT !.answer = [NoAnswer EXCEPT !.is = "lost"]] ELSE call
  /\ ServerUnchanged /\ UNCHANGED server

\* Someone else edits an entity of a shared draft, or publishes or discards the draft.
OtherEdit(d, t) ==
  /\ d \in open /\ t \in There(d) \ LayoutOnly /\ spent.others < MaxOthers
  /\ spent' = [spent EXCEPT !.others = @ + 1]
  /\ doc' = [doc EXCEPT ![d][t].ver = @ + 1]
  /\ UNCHANGED <<page, snap, net, open, commits, refusals, history>>

CloseDraft(d) ==
  /\ d \in open /\ spent.others < MaxOthers
  /\ spent' = [spent EXCEPT !.others = @ + 1]
  /\ open' = open \ {d}
  /\ UNCHANGED <<page, snap, net, doc, commits, refusals, history>>

-----------------------------------------------------------------------------
Respond(m) == Replay(m) \/ Apply(m) \/ Refuse(m) \/ Violate(m) \/ Drop(m)
MutantUnhandled == SettleLost \/ SettleRefused \/ SettleApplied \/ SendApplied
Continue == SettleLost \/ SettleRefused \/ SettleApplied \/ SendApplied \/ SendFailed

Next ==
  \/ \E t \in Targets : Edit(t)
  \/ \E i \in DOMAIN changes : Discard(i) \/ \E mine \in BOOLEAN : ResolveConflict(i, mine)
  \/ DiscardAll \/ Undo \/ Redo
  \/ WriteSnapshot \/ Reload \/ Evict \/ \E s \in Scopes : SwitchTo(s)
  \/ Save \/ Continue
  \/ \E m \in net : Respond(m)
  \/ \E d \in Drafts : CloseDraft(d) \/ \E t \in Targets : OtherEdit(d, t)

Spec == Init /\ [][Next]_vars

-----------------------------------------------------------------------------
(* Fairness: a request is answered or times out; the page runs its continuations and its timers;  *)
(* the user keeps opening the draft, settling conflicts and pressing Save.                        *)
FairSpec ==
  /\ Spec
  /\ WF_vars(\E m \in net : Respond(m))
  /\ WF_vars(Continue) /\ WF_vars(WriteSnapshot) /\ SF_vars(Save)
  /\ SF_vars(\E i \in DOMAIN changes : ResolveConflict(i, TRUE))
  /\ \A d \in Drafts : WF_vars(SwitchTo(d))

-----------------------------------------------------------------------------
(* Properties. *)

\* The state has its types.
TypeOK ==
  /\ scope \in Scopes /\ restoredFor \in Drafts \cup {NoDraft}
  /\ changes \in Seq(Change) /\ redo \in Seq(Change)
  /\ parked \in [Scopes -> [changes : Seq(Change), redo : Seq(Change)]]
  /\ {applying, due} \subseteq BOOLEAN
  /\ token \in [Targets -> Nat]
  /\ pending \in [Scopes -> PendingSave]
  /\ snap \in [Drafts -> [changes : Seq(Change), save : PendingSave]]
  /\ call \in [phase : {"none", "settle", "send"}, scope : Scopes, batch : Seq(Change),
               save : PendingSave,
               settled : [carried : SUBSET Nat, edited : SUBSET Nat, versions : [Targets -> Nat]],
               answer : [is : {"none", "ok", "refused", "conflict", "lost"},
                         versions : [Targets -> Nat]]]
  /\ net \subseteq [key : Nat, draft : Drafts, ops : Seq(Op), live : BOOLEAN]
  /\ open \subseteq Drafts
  /\ doc \in [Drafts -> [Targets -> [ver : Nat, mine : Nat]]]
  /\ commits \in [Drafts -> SUBSET [key : Nat, ops : Seq(Op)]]
  /\ refusals \subseteq Nat /\ edits \in Nat /\ minted \subseteq Targets
  /\ spent \in [{"faults", "others", "refused", "redos"} -> Nat]
  /\ wanted \in [Drafts -> [Targets -> Nat]]
  /\ madeOn \in [1 .. MaxEdits -> [draft : Drafts \cup {NoDraft}, target : Targets \cup {NoTarget}]]

\* The page never sends a create of an entity the draft has, under a key the server has not seen:
\* the server would refuse it as existing, and refuse every retry of its batch (settle and rebase,
\* "so a committed create is never sent a second time under a new key").
NeverResent ==
  \A m \in net : m.live /\ m.key \notin Applied(m.draft) => ~Exists(m.draft, m.ops)

\* The user's last edit of an entity, unless given up, is what the server has of theirs or is
\* still staged for them to save: switching drafts, reloading, a failed save and a save of something
\* else never drop it, and no retry puts an older edit over it.
NothingLost ==
  \A d \in open, t \in Targets :
    wanted[d][t] # 0 =>
      \/ doc[d][t].mine = wanted[d][t]
      \/ \E i \in DOMAIN Held(d) : Held(d)[i].target = t /\ Held(d)[i].after = wanted[d][t]

\* A draft is isolated: an edit is only ever sent to the draft, and for the entity, it was made on.
On(d, t) == [draft |-> d, target |-> t]
DraftIsolated ==
  /\ \A d \in Drafts, t \in Targets : doc[d][t].mine # 0 => madeOn[doc[d][t].mine] = On(d, t)
  /\ \A m \in net : \A i \in DOMAIN m.ops :
       madeOn[m.ops[i].after] = On(m.draft, m.ops[i].target)

\* The server can resolve the parent a staged create names: by its id it is on the draft, by its
\* temp id it is created in the same batch.
Resolvable(d, cs, c) ==
  LET p == Parent[c.target]
  IN  /\ c.under = "id" => p \in There(d)
      /\ c.under = "ref" => Creating(cs, p) # {}

\* A create left behind by a save that settled the parent's and then failed: it names by a temp id
\* a parent that is on the draft.
Stranded(d, cs, c) ==
  c.under = "ref" /\ Parent[c.target] \in There(d) /\ Creating(cs, Parent[c.target]) = {}

\* A staged create can be saved with what is staged beside it, unless it is stranded: neither the
\* cascade of a discard nor a settled save leaves a child of a parent that is nowhere.
NoOrphan ==
  scope \in Drafts =>
    \A i \in DOMAIN changes :
      changes[i].kind = "create" =>
        Resolvable(scope, changes, changes[i]) \/ Stranded(scope, changes, changes[i])

\* What the save promises of a failure: the staged changes stay put for a clean retry. With no
\* save left to settle, every staged create names a parent the server can find.
CleanRetry ==
  scope \in open /\ ~applying /\ pending[scope] = NoSave =>
    \A i \in DOMAIN changes :
      changes[i].kind = "create" => Resolvable(scope, changes, changes[i])

\* A save ends: the panel, which cannot be closed while one runs, is handed back.
SaveEnds == applying ~> ~applying

\* With the faults over, a user who keeps saving gets every staged edit of an open draft saved,
\* or holds a stranded one, which no retry saves.
EverythingSaved ==
  <>[](\A d \in open :
         \/ Held(d) = <<>>
         \/ \E i \in DOMAIN Held(d) :
              Held(d)[i].kind = "create" /\ Stranded(d, Held(d), Held(d)[i]))
=============================================================================
