------------------------ MODULE DraftPublishProofs ------------------------
(***************************************************************************)
(* Drafts, reviews and publishes: the safety properties of DraftPublish    *)
(* proved for any number of drafts, edits, reviews, jobs, requests and     *)
(* slots, and any values of the bounds.                                    *)
(*                                                                         *)
(* Each action is first reduced to what it does to each table (Moves), one *)
(* lemma per action; then each part of the inductive invariant PublishInv  *)
(* is shown to survive every such step.                                    *)
(***************************************************************************)
EXTENDS DraftPublish, TLAPS

-----------------------------------------------------------------------------
(* Rows and their fields                                                   *)

LEMMA PutEffect ==
  ASSUME draft \in [Drafts -> Draft], NEW d \in Drafts, NEW r \in Draft, Put(d, r)
  PROVE  /\ draft' \in [Drafts -> Draft] /\ draft'[d] = r
         /\ \A c \in Drafts : c # d => draft'[c] = draft[c]
  BY DEF Put

LEMMA CommittedFields ==
  ASSUME NEW r \in Draft, NEW E \in SUBSET Edits
  PROVE  LET q == Committed(r, E) IN
         /\ q \in Draft /\ q.status = r.status /\ q.base = r.base /\ q.rev = r.rev
         /\ q.pending = r.pending /\ q.own = r.own \cup E
         /\ q.head = r.head + 1 /\ q.content = r.head + 1
<1>1. r.head \in Nat /\ r.own \in SUBSET Edits
  BY DEF Draft
<1>2. PICK n \in Nat : n = r.head + 1
  BY <1>1
<1>3. PICK o \in SUBSET Edits : o = r.own \cup E
  BY <1>1
<1>4. Committed(r, E) = [r EXCEPT !.own = o, !.head = n, !.content = n, !.idle = FALSE]
  BY <1>2, <1>3 DEF Committed
<1> QED
  BY <1>2, <1>3, <1>4 DEF Draft

LEMMA InitialFields ==
  /\ NoApproval \in Approval /\ NoApproval.seq = -1
  /\ NewDraft \in Draft /\ NewPR \in PR /\ NewJob \in Job /\ Idle \in Pub
  /\ NewPR.status = "absent" /\ NewJob.status = "absent" /\ Idle.pc = "idle"
  /\ NewPR.approval = NoApproval /\ ~NewPR.reviewed
  /\ Idle.pr = NoPR /\ Idle.job = NoJob /\ Idle.copy = NewPR
  BY DEF NoApproval, Approval, NewDraft, Draft, NewPR, PR, NewJob, Job, Idle, Pub, PCs

-----------------------------------------------------------------------------
(* What the actions write                                                  *)

\* Draft d alone is written.
Only(d) ==
  /\ draft' \in [Drafts -> Draft]
  /\ \A c \in Drafts : c # d => draft'[c] = draft[c]

\* Draft d's status becomes s, its changes and its base as they are.
Restated(d, s) ==
  /\ Only(d)
  /\ draft'[d].status = s
  /\ draft'[d].base = draft[d].base /\ draft'[d].head = draft[d].head
  /\ draft'[d].content = draft[d].content /\ draft'[d].rev = draft[d].rev
  /\ draft'[d].own = draft[d].own /\ draft'[d].pending = draft[d].pending

\* Draft d is opened on main as it is.
OpenedOn(d) ==
  /\ Only(d)
  /\ draft'[d].status = "open" /\ draft'[d].base = Len(main)
  /\ draft'[d].head = 0 /\ draft'[d].content = 0 /\ draft'[d].rev = 0
  /\ draft'[d].own = {} /\ draft'[d].pending = {}

\* Draft d is pulled onto main as it is; a pull that rewrites edits is a content commit.
PulledOn(d) ==
  /\ Only(d)
  /\ draft'[d].status = draft[d].status /\ draft'[d].base = Len(main)
  /\ draft'[d].own = draft[d].own /\ draft'[d].pending = draft[d].pending
  /\ draft'[d].head = draft[d].head + 1
  /\ \/ draft'[d].content = draft[d].content /\ draft'[d].rev = draft[d].rev
     \/ draft'[d].content = draft[d].head + 1

\* Draft d has e staged.
StagedOn(d, e) ==
  /\ Only(d)
  /\ draft'[d].status = draft[d].status /\ draft'[d].base = draft[d].base
  /\ draft'[d].head = draft[d].head /\ draft'[d].content = draft[d].content
  /\ draft'[d].rev = draft[d].rev
  /\ draft'[d].own = draft[d].own /\ draft'[d].pending = draft[d].pending \cup {e}

\* Draft d has e committed.
CommittedOn(d, e) ==
  /\ Only(d)
  /\ draft'[d].status = draft[d].status /\ draft'[d].base = draft[d].base
  /\ draft'[d].head = draft[d].head + 1 /\ draft'[d].content = draft[d].head + 1
  /\ draft'[d].rev = draft[d].rev
  /\ draft'[d].own = draft[d].own \cup {e} /\ draft'[d].pending = draft[d].pending

\* Draft d has K of what was staged committed and W deleted.
FoldedOn(d, K, W) ==
  /\ Only(d)
  /\ draft'[d].status = draft[d].status /\ draft'[d].base = draft[d].base
  /\ draft'[d].rev = draft[d].rev
  /\ draft'[d].own = draft[d].own \cup K /\ draft'[d].pending = draft[d].pending \ (K \cup W)
  /\ K = {} => draft'[d].head = draft[d].head /\ draft'[d].content = draft[d].content
  /\ K # {} => draft'[d].head = draft[d].head + 1 /\ draft'[d].content = draft[d].head + 1

\* Draft d, with nothing staged and based on main as it is, is merged.
MergedOn(d) ==
  /\ draft[d].pending = {} /\ draft[d].base >= Len(main)
  /\ Only(d)
  /\ draft'[d].status = "merged" /\ draft'[d].base = Len(main')
  /\ draft'[d].head = draft[d].head /\ draft'[d].content = draft[d].content
  /\ draft'[d].rev = draft[d].rev
  /\ draft'[d].own = draft[d].own /\ draft'[d].pending = draft[d].pending

\* Its own edits, if any, are main's next commit, and what a review approved of them.
LandedOn(d) ==
  \/ draft[d].own = {} /\ main' = main
  \/ \E c \in Commit :
       /\ draft[d].own # {} /\ main' = Append(main, c)
       /\ c.from = d /\ c.base = draft[d].base /\ c.edits = draft[d].own
       /\ c.reviewed => c.saw.seq >= 0 /\ c.saw.own = c.edits /\ c.saw.rev = c.rev

LEMMA RestatedEffect ==
  ASSUME draft \in [Drafts -> Draft], NEW d \in Drafts, NEW i \in BOOLEAN,
         NEW s \in {"open", "publishing", "abandoned"},
         Put(d, [draft[d] EXCEPT !.status = s, !.idle = i])
  PROVE  Restated(d, s)
<1>1. PICK r \in Draft : r = draft[d]
  OBVIOUS
<1>2. PICK q : q = [r EXCEPT !.status = s, !.idle = i]
  OBVIOUS
<1>3. /\ q \in Draft /\ q.status = s /\ q.base = r.base /\ q.head = r.head /\ q.content = r.content
      /\ q.rev = r.rev /\ q.own = r.own /\ q.pending = r.pending
  BY <1>2 DEF Draft
<1>4. Put(d, q)
  BY <1>1, <1>2
<1> QED
  BY <1>1, <1>3, <1>4, PutEffect DEF Restated, Only

LEMMA AbandonEffect ==
  ASSUME draft \in [Drafts -> Draft], NEW d \in Drafts, Put(d, Abandoned(d))
  PROVE  Restated(d, "abandoned")
  BY RestatedEffect DEF Abandoned

LEMMA ReopenEffect ==
  ASSUME draft \in [Drafts -> Draft], NEW d \in Drafts, Put(d, Reopened(d))
  PROVE  Restated(d, "open")
  BY RestatedEffect DEF Reopened

LEMMA QueueEffect ==
  ASSUME draft \in [Drafts -> Draft], NEW d \in Drafts,
         Put(d, [draft[d] EXCEPT !.status = "publishing", !.idle = FALSE])
  PROVE  Restated(d, "publishing")
  BY RestatedEffect

LEMMA IdleEffect ==
  ASSUME draft \in [Drafts -> Draft], NEW d \in Drafts, GoIdle(d)
  PROVE  Restated(d, "open")
<1>1. PICK r \in Draft : r = draft[d]
  OBVIOUS
<1>2. PICK q : q = [r EXCEPT !.idle = TRUE]
  OBVIOUS
<1>3. /\ q \in Draft /\ q.status = r.status /\ q.base = r.base /\ q.head = r.head
      /\ q.content = r.content /\ q.rev = r.rev /\ q.own = r.own /\ q.pending = r.pending
  BY <1>2 DEF Draft
<1>4. Put(d, q) /\ r.status = "open"
  BY <1>1, <1>2 DEF GoIdle, Open
<1> QED
  BY <1>1, <1>3, <1>4, PutEffect DEF Restated, Only

LEMMA OpenEffect ==
  ASSUME draft \in [Drafts -> Draft], main \in Seq(Commit), NEW d \in Drafts, OpenDraft(d)
  PROVE  OpenedOn(d)
<1>1. PICK n \in Nat : n = Len(main)
  OBVIOUS
<1>2. PICK q : q = [NewDraft EXCEPT !.status = "open", !.base = n]
  OBVIOUS
<1>3. /\ q \in Draft /\ q.status = "open" /\ q.base = n /\ q.head = 0 /\ q.content = 0
      /\ q.rev = 0 /\ q.own = {} /\ q.pending = {}
  BY <1>2 DEF NewDraft, Draft
<1>4. Put(d, q)
  BY <1>1, <1>2 DEF OpenDraft
<1> QED
  BY <1>1, <1>3, <1>4, PutEffect DEF Only, OpenedOn

LEMMA StageEffect ==
  ASSUME draft \in [Drafts -> Draft], NEW d \in Drafts, NEW e \in Edits, Stage(d, e)
  PROVE  StagedOn(d, e)
<1>1. PICK r \in Draft : r = draft[d]
  OBVIOUS
<1>2. PICK q : q = [r EXCEPT !.pending = @ \cup {e}]
  OBVIOUS
<1>3. /\ q \in Draft /\ q.status = r.status /\ q.base = r.base /\ q.head = r.head
      /\ q.content = r.content /\ q.rev = r.rev /\ q.own = r.own /\ q.pending = r.pending \cup {e}
  BY <1>2 DEF Draft
<1>4. Put(d, q)
  BY <1>1, <1>2 DEF Stage
<1> QED
  BY <1>1, <1>3, <1>4, PutEffect DEF Only, StagedOn

\* A save and an import's window commit one new edit.
LEMMA CommitEffect ==
  ASSUME draft \in [Drafts -> Draft], NEW d \in Drafts, NEW e \in Edits,
         Put(d, Committed(draft[d], {e}))
  PROVE  CommittedOn(d, e)
<1>1. PICK r \in Draft : r = draft[d]
  OBVIOUS
<1>2. PICK q : q = Committed(r, {e})
  OBVIOUS
<1>3. /\ q \in Draft /\ q.status = r.status /\ q.base = r.base /\ q.head = r.head + 1
      /\ q.content = r.head + 1 /\ q.rev = r.rev /\ q.own = r.own \cup {e} /\ q.pending = r.pending
  BY <1>2, CommittedFields
<1>4. Put(d, q)
  BY <1>1, <1>2
<1> QED
  BY <1>1, <1>3, <1>4, PutEffect DEF Only, CommittedOn

LEMMA FoldEffect ==
  ASSUME draft \in [Drafts -> Draft], NEW d \in Drafts, NEW K \in SUBSET Edits,
         NEW W \in SUBSET Edits, Put(d, Folded(draft[d], K, W))
  PROVE  FoldedOn(d, K, W)
<1>1. PICK r \in Draft : r = draft[d]
  OBVIOUS
<1>2. PICK s : s = [r EXCEPT !.pending = @ \ (K \cup W)]
  OBVIOUS
<1>3. /\ s \in Draft /\ s.status = r.status /\ s.base = r.base /\ s.rev = r.rev /\ s.own = r.own
      /\ s.head = r.head /\ s.content = r.content /\ s.pending = r.pending \ (K \cup W)
  BY <1>2 DEF Draft
<1>4. Put(d, IF K = {} THEN s ELSE Committed(s, K))
  BY <1>1, <1>2 DEF Folded
<1>5. CASE K = {}
  <2>1. Put(d, s)
    BY <1>4, <1>5
  <2>2. Only(d) /\ draft'[d] = s
    BY <1>3, <2>1, PutEffect DEF Only
  <2>3. r.own = r.own \cup K
    BY <1>5
  <2> QED
    BY <1>1, <1>3, <1>5, <2>2, <2>3 DEF FoldedOn
<1>6. CASE K # {}
  <2>1. PICK q : q = Committed(s, K)
    OBVIOUS
  <2>2. /\ q \in Draft /\ q.status = s.status /\ q.base = s.base /\ q.head = s.head + 1
        /\ q.content = s.head + 1 /\ q.rev = s.rev /\ q.own = s.own \cup K /\ q.pending = s.pending
    BY <1>3, <2>1, CommittedFields
  <2>3. Put(d, q)
    BY <1>4, <1>6, <2>1
  <2>4. Only(d) /\ draft'[d] = q
    BY <2>2, <2>3, PutEffect DEF Only
  <2> QED
    BY <1>1, <1>3, <1>6, <2>2, <2>4 DEF FoldedOn
<1> QED
  BY <1>5, <1>6

LEMMA PullEffect ==
  ASSUME draft \in [Drafts -> Draft], main \in Seq(Commit), NEW d \in Drafts, Pull(d)
  PROVE  PulledOn(d)
<1>1. PICK r \in Draft : r = draft[d]
  OBVIOUS
<1>2. PICK n \in Nat : n = Len(main)
  OBVIOUS
<1>3. PICK w \in BOOLEAN :
        Put(d, [r EXCEPT !.base = n, !.head = @ + 1, !.idle = FALSE,
                               !.content = IF w THEN r.head + 1 ELSE @,
                               !.rev = IF w THEN @ + 1 ELSE @])
  BY <1>1, <1>2 DEF Pull
<1>4. PICK q : q = [r EXCEPT !.base = n, !.head = @ + 1, !.idle = FALSE,
                               !.content = IF w THEN r.head + 1 ELSE @,
                               !.rev = IF w THEN @ + 1 ELSE @]
  OBVIOUS
<1>5. /\ q \in Draft /\ q.status = r.status /\ q.base = n /\ q.own = r.own /\ q.pending = r.pending
      /\ q.head = r.head + 1
      /\ \/ q.content = r.content /\ q.rev = r.rev
         \/ q.content = r.head + 1
  <2>1. r.head \in Nat /\ r.content \in Nat /\ r.rev \in Nat
    BY DEF Draft
  <2>2. PICK m \in Nat : m = r.head + 1
    BY <2>1
  <2>3. PICK c \in Nat : c = IF w THEN m ELSE r.content
    BY <2>1, <2>2
  <2>4. PICK v \in Nat : v = IF w THEN r.rev + 1 ELSE r.rev
    BY <2>1
  <2>5. q = [r EXCEPT !.base = n, !.head = m, !.idle = FALSE, !.content = c, !.rev = v]
    BY <1>4, <2>2, <2>3, <2>4
  <2>6. /\ q \in Draft /\ q.status = r.status /\ q.base = n /\ q.own = r.own
        /\ q.pending = r.pending /\ q.head = m /\ q.content = c /\ q.rev = v
    BY <2>5 DEF Draft
  <2> QED
    BY <2>2, <2>3, <2>4, <2>6
<1>6. Put(d, q)
  BY <1>3, <1>4
<1> QED
  BY <1>1, <1>2, <1>5, <1>6, PutEffect DEF Only, PulledOn

\* A fold of nothing leaves the row as it is.
LEMMA EmptyFold ==
  ASSUME draft \in [Drafts -> Draft], NEW d \in Drafts, NEW W \in SUBSET draft[d].pending,
         draft[d].pending = {}, Put(d, Folded(draft[d], draft[d].pending \ W, W))
  PROVE  draft' = draft /\ W = {}
<1>1. PICK r \in Draft : r = draft[d]
  OBVIOUS
<1>2. draft[d].pending \ W = {} /\ W = {}
  OBVIOUS
<1>3. PICK s : s = [r EXCEPT !.pending = @ \ ({} \cup {})]
  OBVIOUS
<1>4. s = r
  <2>1. s = [r EXCEPT !.pending = {}]
    BY <1>1, <1>3
  <2> QED
    BY <1>1, <2>1 DEF Draft
<1>5. Put(d, s)
  BY <1>1, <1>2, <1>3 DEF Folded
<1> QED
  BY <1>1, <1>2, <1>4, <1>5 DEF Put

LEMMA MergeEffect ==
  ASSUME draft \in [Drafts -> Draft], main' \in Seq(Commit), NEW d \in Drafts,
         draft[d].pending = {}, draft[d].base >= Len(main),
         Put(d, [draft[d] EXCEPT !.status = "merged", !.base = Len(main'), !.idle = FALSE])
  PROVE  MergedOn(d)
<1>1. PICK r \in Draft : r = draft[d]
  OBVIOUS
<1>2. PICK n \in Nat : n = Len(main')
  OBVIOUS
<1>3. PICK q : q = [r EXCEPT !.status = "merged", !.base = n, !.idle = FALSE]
  OBVIOUS
<1>4. /\ q \in Draft /\ q.status = "merged" /\ q.base = n /\ q.head = r.head /\ q.content = r.content
      /\ q.rev = r.rev /\ q.own = r.own /\ q.pending = r.pending
  BY <1>3 DEF Draft
<1>5. Put(d, q)
  BY <1>1, <1>2, <1>3
<1> QED
  BY <1>1, <1>2, <1>4, <1>5, PutEffect DEF Only, MergedOn

-----------------------------------------------------------------------------
(* What a step may do to each table                                        *)

Good == TypeOK /\ PublishInv

Writable(d) == draft[d].status \in {"open", "publishing"}
Real == {"live", "merged", "closed"}

\* Drafts, main and the record of what was given and withdrawn.
DraftMoves ==
  \/ UNCHANGED <<main, draft, given, withdrawn>>
  \/ \E d \in Drafts :
       /\ UNCHANGED <<main, given, withdrawn>>
       /\ \/ draft[d].status = "absent" /\ OpenedOn(d)
          \/ Writable(d) /\ PulledOn(d)
          \/ Writable(d) /\ \E s \in {"open", "publishing", "abandoned"} : Restated(d, s)
  \/ \E d \in Drafts, e \in Edits :
       /\ Writable(d) /\ e \in Fresh
       /\ StagedOn(d, e) \/ CommittedOn(d, e)
       /\ given' = [given EXCEPT ![d] = @ \cup {e}]
       /\ UNCHANGED <<main, withdrawn>>
  \/ \E d \in Drafts : \E K, W \in SUBSET draft[d].pending :
       /\ Writable(d) /\ K \cap W = {}
       /\ FoldedOn(d, K, W) /\ withdrawn' = withdrawn \cup W
       /\ UNCHANGED <<main, given>>
  \/ \E d \in Drafts :
       Writable(d) /\ MergedOn(d) /\ LandedOn(d) /\ UNCHANGED <<given, withdrawn>>
  \/ /\ \E c \in Commit : /\ main' = Append(main, c)
                          /\ c.from = NoDraft /\ c.base = Len(main) /\ ~c.reviewed
     /\ UNCHANGED <<draft, given, withdrawn>>

\* Reviews: a row that was inserted stays on its draft, and an approval is kept, or none, or of
\* the draft as it is.
PRMoves ==
  /\ pr' \in [PRs -> PR]
  /\ \A i \in PRs :
       /\ pr'[i].status # "absent" => pr'[i].draft \in Drafts
       /\ pr[i].status \in Real => pr'[i].status \in Real /\ pr'[i].draft = pr[i].draft
       /\ pr'[i].status # "absent" =>
            \/ pr'[i].approval.seq = -1
            \/ /\ pr[i].status # "absent" /\ pr'[i].draft = pr[i].draft
               /\ pr'[i].approval = pr[i].approval
            \/ /\ draft' = draft
               /\ pr'[i].approval.seq = draft[pr'[i].draft].head
               /\ pr'[i].approval.own = draft[pr'[i].draft].own
               /\ pr'[i].approval.rev = draft[pr'[i].draft].rev

\* Publish jobs: a job stays on its draft and its review, and completes once that is merged.
JobMoves ==
  /\ job' \in [PubJobs -> Job]
  /\ \A j \in PubJobs :
       \/ job'[j] = job[j]
       \/ /\ job[j].status # "absent" /\ job'[j].status # "absent"
          /\ job'[j].draft = job[j].draft /\ job'[j].pr = job[j].pr
          /\ job'[j].status = "completed" => draft[job[j].draft].status = "merged"
       \/ /\ job[j].status = "absent" /\ job'[j].status = "pending" /\ job'[j].draft \in Drafts
          /\ job'[j].pr # NoPR =>
               pr[job'[j].pr].status \in Real /\ pr[job'[j].pr].draft = job'[j].draft

\* Process p goes on with the publish it has begun.
Advanced(p) ==
  /\ pub[p].pc # "idle"
  /\ pub'[p].draft = pub[p].draft /\ pub'[p].pr = pub[p].pr /\ pub'[p].job = pub[p].job
  /\ \/ /\ pub'[p].copy = pub[p].copy
        /\ pub'[p].pc \in {"flush", "squash", "refused", "failing", "release", "done"}
        /\ pub'[p].pc \in {"refused", "failing", "release", "done"} => pub[p].job # NoJob
        /\ pub'[p].pc = "done" => draft'[pub[p].draft].status = "merged"
     \/ /\ pub'[p].pc = "merge" /\ pub[p].pr # NoPR /\ pub'[p].copy = pr[pub[p].pr]
        /\ pr[pub[p].pr].status = "live" /\ draft' = draft

\* Process p begins one.
Begun(p) ==
  /\ pub'[p].pc \in {"flush", "start"} /\ pub'[p].draft \in Drafts /\ pub'[p].copy = NewPR
  /\ pub'[p].pr # NoPR =>
       pr[pub'[p].pr].status \in Real /\ pr[pub'[p].pr].draft = pub'[p].draft
  /\ pub'[p].job # NoJob =>
       job[pub'[p].job].status # "absent" /\ job[pub'[p].job].draft = pub'[p].draft
  /\ pub'[p].pc = "start" => pub'[p].job # NoJob

PubMoves ==
  /\ pub' \in [Procs -> Pub]
  /\ \A p \in Procs : pub'[p] = pub[p] \/ pub'[p] = Idle \/ Advanced(p) \/ Begun(p)

\* Locks, snapshots and imports.
RestMoves ==
  /\ glock' \in Procs \cup {Nobody}
  /\ imp' \in [Drafts -> {"none", "live", "overdue", "late"}]
  /\ sweeping' \in SUBSET Drafts /\ stuck' \in SUBSET Drafts

Moves == DraftMoves /\ PRMoves /\ JobMoves /\ PubMoves /\ RestMoves /\ OneLivePR' /\ ImportHoldsDraft'

-----------------------------------------------------------------------------
(* Tables a step leaves alone                                              *)

LEMMA SamePR ==
  ASSUME Good, UNCHANGED pr
  PROVE  PRMoves /\ OneLivePR'
<1>1. pr \in [PRs -> PR] /\ \A i \in PRs : pr[i].status # "absent" => pr[i].draft \in Drafts
  BY DEF Good, TypeOK, PublishInv, NamesInv
<1>2. OneLivePR'
  BY DEF Good, PublishInv, OneLivePR
<1> QED
  BY <1>1, <1>2 DEF PRMoves

LEMMA SameJob ==
  ASSUME Good, UNCHANGED job
  PROVE  JobMoves
  BY DEF Good, TypeOK, JobMoves

LEMMA SamePub ==
  ASSUME Good, UNCHANGED pub
  PROVE  PubMoves
  BY DEF Good, TypeOK, PubMoves

LEMMA SameRest ==
  ASSUME Good, UNCHANGED <<glock, imp, sweeping, stuck>>
  PROVE  RestMoves
  BY DEF Good, TypeOK, RestMoves

\* No draft comes to be publishing or merged under an import.
LEMMA SameImports ==
  ASSUME Good, UNCHANGED imp,
         \A d \in Drafts : draft'[d].status = draft[d].status
                           \/ draft'[d].status \notin {"publishing", "merged"}
  PROVE  ImportHoldsDraft'
  BY DEF Good, PublishInv, ImportHoldsDraft

LEMMA Typed ==
  ASSUME Good
  PROVE  /\ draft \in [Drafts -> Draft] /\ pr \in [PRs -> PR] /\ job \in [PubJobs -> Job]
         /\ pub \in [Procs -> Pub] /\ main \in Seq(Commit) /\ given \in [Drafts -> SUBSET Edits]
         /\ withdrawn \in SUBSET Edits
  BY DEF Good, TypeOK

LEMMA QuitMoves ==
  ASSUME Good, NEW p \in Procs, Quit(p)
  PROVE  PubMoves
  BY Typed, InitialFields DEF Quit, PubMoves

LEMMA GotoMoves ==
  ASSUME Good, NEW p \in Procs, pub[p].pc # "idle",
         NEW c \in {"flush", "squash", "refused", "failing", "release", "done"}, Goto(p, c),
         c \in {"refused", "failing", "release", "done"} => pub[p].job # NoJob,
         c = "done" => draft'[pub[p].draft].status = "merged"
  PROVE  PubMoves
<1>1. PICK r \in Pub : r = pub[p]
  BY Typed
<1>2. PICK q : q = [r EXCEPT !.pc = c]
  OBVIOUS
<1>3. /\ q \in Pub /\ q.pc = c /\ q.draft = r.draft /\ q.pr = r.pr /\ q.job = r.job
      /\ q.copy = r.copy
  BY <1>2 DEF Pub, PCs
<1>4. pub' = [pub EXCEPT ![p] = q]
  BY <1>1, <1>2 DEF Goto
<1>5. pub' \in [Procs -> Pub] /\ pub'[p] = q /\ \A o \in Procs : o # p => pub'[o] = pub[o]
  BY <1>3, <1>4, Typed
<1>6. Advanced(p)
  BY <1>1, <1>3, <1>5 DEF Advanced
<1> QED
  BY <1>5, <1>6 DEF PubMoves

LEMMA RefusalMoves ==
  ASSUME Good, NEW p \in Procs, pub[p].pc # "idle", Refusal(p)
  PROVE  PubMoves
<1>1. CASE pub[p].job = NoJob
  BY <1>1, QuitMoves DEF Refusal
<1>2. CASE pub[p].job # NoJob
  BY <1>2, GotoMoves DEF Refusal
<1> QED
  BY <1>1, <1>2

LEMMA FreeTyped ==
  ASSUME Good, NEW p \in Procs, Free(p)
  PROVE  glock' \in Procs \cup {Nobody}
  BY DEF Good, TypeOK, Free

-----------------------------------------------------------------------------
(* Every action is such a step: drafts                                     *)

StatusKept ==
  \A d \in Drafts : \/ draft'[d].status = draft[d].status
                    \/ draft'[d].status \notin {"publishing", "merged"}

LEMMA DraftOnly ==
  ASSUME Good, DraftMoves, StatusKept, UNCHANGED <<pr, imp>>, JobMoves, PubMoves, RestMoves
  PROVE  Moves
  BY SamePR, SameImports DEF Moves, StatusKept

LEMMA AbsentMoves ==
  ASSUME Good, NEW d \in Drafts, OpenDraft(d)
  PROVE  Moves
<1>1. OpenedOn(d) /\ draft[d].status = "absent"
  BY OpenEffect, Typed DEF OpenDraft
<1>2. DraftMoves /\ StatusKept
  BY <1>1 DEF OpenDraft, DraftMoves, StatusKept, OpenedOn, Only
<1> QED
  BY <1>2, DraftOnly, SameJob, SamePub, SameRest DEF OpenDraft

LEMMA StageMoves ==
  ASSUME Good, NEW d \in Drafts, NEW e \in Edits, Stage(d, e)
  PROVE  Moves
<1>1. StagedOn(d, e)
  BY StageEffect, Typed
<1>2. DraftMoves
  BY <1>1 DEF Stage, DraftMoves, Writable, Open
<1>3. StatusKept
  BY <1>1 DEF StatusKept, StagedOn, Only
<1> QED
  BY <1>2, <1>3, DraftOnly, SameJob, SamePub, SameRest DEF Stage

LEMMA SaveMoves ==
  ASSUME Good, NEW d \in Drafts, NEW e \in Edits, Save(d, e)
  PROVE  Moves
<1>1. CommittedOn(d, e)
  BY CommitEffect, Typed DEF Save
<1>2. DraftMoves
  BY <1>1 DEF Save, DraftMoves, Writable, Open
<1>3. StatusKept
  BY <1>1 DEF StatusKept, CommittedOn, Only
<1> QED
  BY <1>2, <1>3, DraftOnly, SameJob, SamePub, SameRest DEF Save

LEMMA CheckpointMoves ==
  ASSUME Good, NEW d \in Drafts, Checkpoint(d)
  PROVE  Moves
<1>1. PICK K \in SUBSET draft[d].pending, W \in SUBSET draft[d].pending :
        K \cap W = {} /\ Put(d, Folded(draft[d], K, W)) /\ withdrawn' = withdrawn \cup W
  BY DEF Checkpoint
<1>2. K \in SUBSET Edits /\ W \in SUBSET Edits
  BY Typed DEF Draft
<1>3. FoldedOn(d, K, W)
  BY <1>1, <1>2, FoldEffect, Typed
<1>4. DraftMoves
  BY <1>1, <1>3 DEF Checkpoint, DraftMoves, Writable, Open
<1>5. StatusKept
  BY <1>3 DEF StatusKept, FoldedOn, Only
<1> QED
  BY <1>4, <1>5, DraftOnly, SameJob, SamePub, SameRest DEF Checkpoint

LEMMA PullMoves ==
  ASSUME Good, NEW d \in Drafts, Pull(d)
  PROVE  Moves
<1>1. PulledOn(d)
  BY PullEffect, Typed
<1>2. DraftMoves
  BY <1>1 DEF Pull, DraftMoves, Writable, Open
<1>3. StatusKept
  BY <1>1 DEF StatusKept, PulledOn, Only
<1> QED
  BY <1>2, <1>3, DraftOnly, SameJob, SamePub, SameRest DEF Pull

LEMMA RestatedMoves ==
  ASSUME Good, NEW d \in Drafts, NEW s \in {"open", "abandoned"}, Writable(d), Restated(d, s),
         UNCHANGED <<main, given, withdrawn>>
  PROVE  DraftMoves /\ StatusKept
<1>1. DraftMoves
  BY DEF DraftMoves
<1>2. StatusKept
  BY DEF StatusKept, Restated, Only
<1> QED
  BY <1>1, <1>2

LEMMA SameDraft ==
  ASSUME Good, UNCHANGED <<main, draft, given, withdrawn>>
  PROVE  DraftMoves /\ StatusKept
  BY DEF DraftMoves, StatusKept

LEMMA AbandonMoves ==
  ASSUME Good, NEW d \in Drafts, Abandon(d) \/ GoIdle(d)
  PROVE  Moves
<1>1. CASE Abandon(d)
  <2>1. Restated(d, "abandoned") /\ Writable(d)
    BY <1>1, AbandonEffect, Typed DEF Abandon, Writable, Open
  <2> QED
    BY <1>1, <2>1, RestatedMoves, DraftOnly, SameJob, SamePub, SameRest DEF Abandon
<1>2. CASE GoIdle(d)
  <2>1. Restated(d, "open") /\ Writable(d)
    BY <1>2, IdleEffect, Typed DEF GoIdle, Writable, Open
  <2> QED
    BY <1>2, <2>1, RestatedMoves, DraftOnly, SameJob, SamePub, SameRest DEF GoIdle
<1> QED
  BY <1>1, <1>2

LEMMA SweepMoves ==
  ASSUME Good, NEW d \in Drafts, SweepWrite(d)
  PROVE  Moves
<1>1. DraftMoves /\ StatusKept
  <2>1. CASE StillSwept(d)
    <3>1. Restated(d, "abandoned") /\ Writable(d)
      BY <2>1, AbandonEffect, Typed DEF SweepWrite, StillSwept, Writable, Open
    <3> QED
      BY <3>1, RestatedMoves DEF SweepWrite
  <2>2. CASE ~StillSwept(d)
    BY <2>2, SameDraft DEF SweepWrite
  <2> QED
    BY <2>1, <2>2
<1>2. RestMoves
  BY DEF SweepWrite, RestMoves, Good, TypeOK
<1> QED
  BY <1>1, <1>2, DraftOnly, SameJob, SamePub DEF SweepWrite

LEMMA ReleaseMoves ==
  ASSUME Good, NEW d \in Drafts, ReleaseWrite(d)
  PROVE  Moves
<1>1. DraftMoves /\ StatusKept
  <2>1. CASE StillStuck(d)
    <3>1. Restated(d, "open") /\ Writable(d)
      BY <2>1, ReopenEffect, Typed DEF ReleaseWrite, StillStuck, Writable
    <3> QED
      BY <3>1, RestatedMoves DEF ReleaseWrite
  <2>2. CASE ~StillStuck(d)
    BY <2>2, SameDraft DEF ReleaseWrite
  <2> QED
    BY <2>1, <2>2
<1>2. RestMoves
  BY DEF ReleaseWrite, RestMoves, Good, TypeOK
<1> QED
  BY <1>1, <1>2, DraftOnly, SameJob, SamePub DEF ReleaseWrite

LEMMA ReleaseOwnMoves ==
  ASSUME Good, NEW p \in Procs, ReleaseOwn(p)
  PROVE  Moves
<1>1. PICK d \in Drafts : d = pub[p].draft
  BY Typed DEF ReleaseOwn, Good, PublishInv, NamesInv
<1>2. DraftMoves /\ StatusKept
  <2>1. CASE Stuck(d)
    <3>1. Restated(d, "open") /\ Writable(d)
      BY <1>1, <2>1, ReopenEffect, Typed DEF ReleaseOwn, Stuck, Writable
    <3> QED
      BY <3>1, RestatedMoves DEF ReleaseOwn
  <2>2. CASE ~Stuck(d)
    BY <1>1, <2>2, SameDraft DEF ReleaseOwn
  <2> QED
    BY <2>1, <2>2
<1> QED
  BY <1>2, DraftOnly, SameJob, QuitMoves, SameRest DEF ReleaseOwn

LEMMA FlushMoves ==
  ASSUME Good, NEW p \in Procs, Flush(p)
  PROVE  Moves
<1>1. PICK d \in Drafts : d = pub[p].draft
  BY Typed DEF Flush, Good, PublishInv, NamesInv
<1>2. CASE draft[d].pending # {} /\ ~OpenTo(p)
  <2>1. UNCHANGED <<draft, withdrawn>> /\ Refusal(p) /\ pub[p].pc # "idle"
    BY <1>1, <1>2 DEF Flush
  <2> QED
    BY <2>1, SameDraft, DraftOnly, SameJob, RefusalMoves, SameRest DEF Flush
<1>3. CASE ~(draft[d].pending # {} /\ ~OpenTo(p))
  <2>1. PICK W \in SUBSET draft[d].pending :
          /\ Put(d, Folded(draft[d], draft[d].pending \ W, W))
          /\ withdrawn' = withdrawn \cup W /\ Goto(p, "squash")
    BY <1>1, <1>3 DEF Flush
  <2>2. PubMoves
    BY <2>1, GotoMoves DEF Flush
  <2>3. DraftMoves /\ StatusKept
    <3>1. CASE draft[d].pending = {}
      <4>1. draft' = draft /\ W = {}
        BY <2>1, <3>1, EmptyFold, Typed
      <4>2. withdrawn' = withdrawn
        BY <2>1, <4>1
      <4> QED
        BY <4>1, <4>2, SameDraft DEF Flush
    <3>2. CASE draft[d].pending # {}
      <4>1. Writable(d)
        BY <1>1, <1>3, <3>2 DEF OpenTo, Writable
      <4>2. PICK K \in SUBSET draft[d].pending : K = draft[d].pending \ W
        OBVIOUS
      <4>3. K \in SUBSET Edits /\ W \in SUBSET Edits /\ K \cap W = {}
        BY <4>2, Typed DEF Draft
      <4>4. FoldedOn(d, K, W)
        BY <2>1, <4>2, <4>3, FoldEffect, Typed
      <4>5. DraftMoves
        BY <2>1, <4>1, <4>3, <4>4 DEF Flush, DraftMoves
      <4>6. StatusKept
        BY <4>4 DEF StatusKept, FoldedOn, Only
      <4> QED
        BY <4>5, <4>6
    <3> QED
      BY <3>1, <3>2
  <2> QED
    BY <2>2, <2>3, DraftOnly, SameJob, SameRest DEF Flush
<1> QED
  BY <1>2, <1>3

LEMMA WindowMoves ==
  ASSUME Good, NEW d \in Drafts, NEW e \in Edits, ImportWindow(d, e)
  PROVE  Moves
<1>1. CASE Open(d)
  <2>1. CommittedOn(d, e)
    BY <1>1, CommitEffect, Typed DEF ImportWindow
  <2>2. DraftMoves
    BY <1>1, <2>1 DEF ImportWindow, DraftMoves, Writable, Open
  <2>3. StatusKept
    BY <2>1 DEF StatusKept, CommittedOn, Only
  <2> QED
    BY <1>1, <2>2, <2>3, DraftOnly, SameJob, SamePub, SameRest DEF ImportWindow
<1>2. CASE ~Open(d)
  <2>1. imp' = [imp EXCEPT ![d] = "none"] /\ UNCHANGED <<main, draft, given, withdrawn>>
    BY <1>2 DEF ImportWindow
  <2>2. ImportHoldsDraft' /\ RestMoves
    BY <2>1 DEF ImportWindow, ImportHoldsDraft, RestMoves, Good, TypeOK, PublishInv
  <2> QED
    BY <2>1, <2>2, SameDraft, SamePR, SameJob, SamePub DEF ImportWindow, Moves
<1> QED
  BY <1>1, <1>2

LEMMA ImportMovesMoves ==
  ASSUME Good, NEW d \in Drafts, StartImport(d) \/ ImportMoves(d)
  PROVE  Moves
<1>1. /\ UNCHANGED <<main, glock, draft, pr, job, pub, sweeping, stuck, given, withdrawn>>
      /\ ImportHoldsDraft' /\ RestMoves
  BY DEF StartImport, ImportMoves, Open, ImportHoldsDraft, RestMoves, Good, TypeOK, PublishInv
<1> QED
  BY <1>1, SameDraft, SamePR, SameJob, SamePub DEF Moves

-----------------------------------------------------------------------------
(* Every action is such a step: reviews                                    *)

\* Row i becomes q.
LEMMA RowMoves ==
  ASSUME Good, NEW i \in PRs, NEW q \in PR, PutPR(i, q), UNCHANGED draft,
         q.status # "absent" => q.draft \in Drafts,
         pr[i].status \in Real => q.status \in Real /\ q.draft = pr[i].draft,
         q.status # "absent" =>
           \/ q.approval.seq = -1
           \/ pr[i].status # "absent" /\ q.draft = pr[i].draft /\ q.approval = pr[i].approval
           \/ /\ q.approval.seq = draft[q.draft].head /\ q.approval.own = draft[q.draft].own
              /\ q.approval.rev = draft[q.draft].rev,
         q.status = "live" => \/ pr[i].status = "live" /\ q.draft = pr[i].draft
                              \/ ~Live(q.draft)
  PROVE  PRMoves /\ OneLivePR'
<1>1. pr' \in [PRs -> PR] /\ pr'[i] = q /\ \A k \in PRs : k # i => pr'[k] = pr[k]
  BY Typed DEF PutPR
<1>2. \A k \in PRs : pr[k].status # "absent" => pr[k].draft \in Drafts
  BY DEF Good, PublishInv, NamesInv
<1>3. PRMoves
  BY <1>1, <1>2 DEF PRMoves
<1>4. OneLivePR'
  BY <1>1 DEF Good, PublishInv, OneLivePR, Live
<1> QED
  BY <1>3, <1>4

LEMMA ReviewMoves ==
  ASSUME Good, NEW i \in PRs, Review(i)
  PROVE  Moves
<1>1. PICK r \in PR : r = pr[i]
  BY Typed
<1>2. r.status # "absent" => r.draft \in Drafts
  BY <1>1 DEF Good, PublishInv, NamesInv
<1>3. UNCHANGED <<main, glock, draft, job, imp, pub, sweeping, stuck, given, withdrawn>>
  BY DEF Review, InsertPR, Approve, SetReviewers, ClosePR, OpenPR
<1>4. SUFFICES PRMoves /\ OneLivePR'
  BY <1>3, SameDraft, SameJob, SamePub, SameRest, SameImports DEF Moves, StatusKept
<1>5. CASE InsertPR(i)
  <2>1. CASE Duplicate(i)
    <3>1. PutPR(i, NewPR) /\ r.status = "opening"
      BY <1>1, <1>5, <2>1 DEF InsertPR
    <3> QED
      BY <1>1, <1>3, <3>1, InitialFields, RowMoves DEF Real
  <2>2. CASE ~Duplicate(i)
    <3>1. PICK q : q = [r EXCEPT !.status = "live"]
      OBVIOUS
    <3>2. q \in PR /\ q.status = "live" /\ q.draft = r.draft /\ q.approval = r.approval
      BY <3>1 DEF PR
    <3>3. PutPR(i, q) /\ r.status = "opening" /\ ~Live(q.draft)
      BY <1>1, <1>5, <2>2, <3>1, <3>2 DEF InsertPR, Duplicate
    <3> QED
      BY <1>1, <1>2, <1>3, <3>2, <3>3, RowMoves DEF Real
  <2> QED
    BY <2>1, <2>2
<1>6. CASE Approve(i)
  <2>1. PICK t \in Draft : t = draft[r.draft]
    BY <1>1, <1>2, <1>6, Typed DEF Approve
  <2>2. PICK a : a = [seq |-> t.head, own |-> t.own, rev |-> t.rev]
    OBVIOUS
  <2>3. a \in Approval /\ a.seq = t.head /\ a.own = t.own /\ a.rev = t.rev
    BY <2>1, <2>2 DEF Draft, Approval
  <2>4. PICK q : q = [r EXCEPT !.approval = a]
    OBVIOUS
  <2>5. q \in PR /\ q.status = r.status /\ q.draft = r.draft /\ q.approval = a
    BY <2>3, <2>4 DEF PR
  <2>6. PutPR(i, q) /\ r.status = "live"
    BY <1>1, <1>6, <2>1, <2>2, <2>4 DEF Approve
  <2> QED
    BY <1>1, <1>2, <1>3, <2>1, <2>3, <2>5, <2>6, RowMoves DEF Real
<1>7. CASE SetReviewers(i)
  <2>1. PICK q : q = [r EXCEPT !.reviewed = ~@]
    OBVIOUS
  <2>2. q \in PR /\ q.status = r.status /\ q.draft = r.draft /\ q.approval = r.approval
    BY <2>1 DEF PR
  <2>3. PutPR(i, q) /\ r.status = "live"
    BY <1>1, <1>7, <2>1 DEF SetReviewers
  <2> QED
    BY <1>1, <1>2, <1>3, <2>2, <2>3, RowMoves DEF Real
<1>8. CASE ClosePR(i)
  <2>1. PICK q : q = [r EXCEPT !.status = "closed"]
    OBVIOUS
  <2>2. q \in PR /\ q.status = "closed" /\ q.draft = r.draft /\ q.approval = r.approval
    BY <2>1 DEF PR
  <2>3. PutPR(i, q) /\ r.status = "live"
    BY <1>1, <1>8, <2>1 DEF ClosePR
  <2> QED
    BY <1>1, <1>2, <1>3, <2>2, <2>3, RowMoves DEF Real
<1>9. ASSUME NEW d \in Drafts, OpenPR(i, d)
      PROVE  PRMoves /\ OneLivePR'
  <2>1. PICK b \in BOOLEAN :
          PutPR(i, [NewPR EXCEPT !.status = "opening", !.draft = d, !.reviewed = b])
    BY <1>9 DEF OpenPR
  <2>2. PICK q : q = [NewPR EXCEPT !.status = "opening", !.draft = d, !.reviewed = b]
    OBVIOUS
  <2>3. q \in PR /\ q.status = "opening" /\ q.draft = d /\ q.approval = NoApproval
    BY <2>2, InitialFields DEF PR, NewPR
  <2>4. PutPR(i, q) /\ r.status = "absent"
    BY <1>1, <1>9, <2>1, <2>2 DEF OpenPR
  <2> QED
    BY <1>1, <1>3, <2>3, <2>4, InitialFields, RowMoves DEF Real
<1> QED
  BY <1>5, <1>6, <1>7, <1>8, <1>9 DEF Review

-----------------------------------------------------------------------------
(* Every action is such a step: publishes and their jobs                   *)

\* The row of job j becomes q.
LEMMA JobRowMoves ==
  ASSUME Good, NEW j \in PubJobs, NEW q \in Job, job' = [job EXCEPT ![j] = q],
         job[j].status # "absent", q.status # "absent", q.draft = job[j].draft, q.pr = job[j].pr,
         q.status = "completed" => draft[job[j].draft].status = "merged"
  PROVE  JobMoves
  BY Typed DEF JobMoves

LEMMA JobStatusMoves ==
  ASSUME Good, NEW j \in PubJobs, NEW s \in {"pending", "running", "completed", "failed"},
         job' = [job EXCEPT ![j] = [job[j] EXCEPT !.status = s]], job[j].status # "absent",
         s = "completed" => draft[job[j].draft].status = "merged"
  PROVE  JobMoves
<1>1. PICK r \in Job : r = job[j]
  BY Typed
<1>2. PICK q : q = [r EXCEPT !.status = s]
  OBVIOUS
<1>3. q \in Job /\ q.status = s /\ q.draft = r.draft /\ q.pr = r.pr
  BY <1>2 DEF Job
<1>4. job' = [job EXCEPT ![j] = q]
  BY <1>1, <1>2
<1> QED
  BY <1>1, <1>3, <1>4, JobRowMoves

\* An attempt's job is a job, and is on the attempt's draft.
LEMMA AttemptJob ==
  ASSUME Good, NEW p \in Procs, pub[p].job # NoJob
  PROVE  /\ pub[p].job \in PubJobs /\ job[pub[p].job].status # "absent"
         /\ job[pub[p].job].draft = pub[p].draft
  BY Typed DEF Good, PublishInv, AttemptInv, Pub

\* A step that leaves drafts, main and reviews alone.
LEMMA PubOnly ==
  ASSUME Good, UNCHANGED <<main, draft, pr, imp, given, withdrawn>>, JobMoves, PubMoves, RestMoves
  PROVE  Moves
  BY SameDraft, DraftOnly

LEMMA FreeMoves ==
  ASSUME Good, NEW p \in Procs, Free(p), UNCHANGED <<imp, sweeping, stuck>>
  PROVE  RestMoves
  BY FreeTyped DEF RestMoves, Good, TypeOK

LEMMA PublishMoves ==
  ASSUME Good, NEW p \in Procs, NEW d \in Drafts, Publish(p, d)
  PROVE  Moves
<1>1. PICK q : q = [Idle EXCEPT !.pc = "flush", !.draft = d]
  OBVIOUS
<1>2. q \in Pub /\ q.pc = "flush" /\ q.draft = d /\ q.pr = NoPR /\ q.job = NoJob /\ q.copy = NewPR
  BY <1>1, InitialFields DEF Pub, PCs, Idle
<1>3. pub' = [pub EXCEPT ![p] = q]
  BY <1>1 DEF Publish
<1>4. pub' \in [Procs -> Pub] /\ pub'[p] = q /\ \A o \in Procs : o # p => pub'[o] = pub[o]
  BY <1>2, <1>3, Typed
<1>5. PubMoves
  BY <1>2, <1>4 DEF PubMoves, Begun
<1> QED
  BY <1>5, PubOnly, SameJob, SameRest DEF Publish

LEMMA MergeMoves ==
  ASSUME Good, NEW p \in Procs, NEW i \in PRs, Merge(p, i)
  PROVE  Moves
<1>1. PICK d \in Drafts : d = pr[i].draft
  BY DEF Merge, Good, PublishInv, NamesInv
<1>2. PICK q : q = [Idle EXCEPT !.pc = "flush", !.draft = d, !.pr = i]
  OBVIOUS
<1>3. q \in Pub /\ q.pc = "flush" /\ q.draft = d /\ q.pr = i /\ q.job = NoJob /\ q.copy = NewPR
  BY <1>2, InitialFields DEF Pub, PCs, Idle
<1>4. pub' = [pub EXCEPT ![p] = q]
  BY <1>1, <1>2 DEF Merge
<1>5. pub' \in [Procs -> Pub] /\ pub'[p] = q /\ \A o \in Procs : o # p => pub'[o] = pub[o]
  BY <1>3, <1>4, Typed
<1>6. PubMoves
  BY <1>1, <1>3, <1>5 DEF PubMoves, Begun, Merge, Real
<1> QED
  BY <1>6, PubOnly, SameJob, SameRest DEF Merge

LEMMA ReadMoves ==
  ASSUME Good, NEW p \in Procs, ReadPR(p)
  PROVE  Moves
<1>1. PICK r \in Pub : r = pub[p]
  BY Typed
<1>2. r.pr \in PRs /\ r.pr # NoPR /\ r.pc = "squash"
  BY <1>1 DEF ReadPR, Pub
<1>3. PICK c \in PR : c = pr[r.pr]
  BY <1>2, Typed
<1>4. CASE c.status = "live"
  <2>1. PICK q : q = [r EXCEPT !.pc = "merge", !.copy = c]
    OBVIOUS
  <2>2. /\ q \in Pub /\ q.pc = "merge" /\ q.draft = r.draft /\ q.pr = r.pr /\ q.job = r.job
        /\ q.copy = c
    BY <2>1 DEF Pub, PCs
  <2>3. pub' = [pub EXCEPT ![p] = q] /\ glock' = p
    BY <1>1, <1>3, <1>4, <2>1 DEF ReadPR
  <2>4. pub' \in [Procs -> Pub] /\ pub'[p] = q /\ \A o \in Procs : o # p => pub'[o] = pub[o]
    BY <2>2, <2>3, Typed
  <2>5. Advanced(p)
    BY <1>1, <1>2, <1>3, <1>4, <2>2, <2>4 DEF Advanced, ReadPR
  <2>6. RestMoves
    BY <2>3 DEF RestMoves, ReadPR, Good, TypeOK
  <2>7. PubMoves
    BY <2>4, <2>5 DEF PubMoves
  <2> QED
    BY <2>6, <2>7, PubOnly, SameJob DEF ReadPR
<1>5. CASE c.status # "live"
  <2>1. Refusal(p) /\ UNCHANGED glock
    BY <1>1, <1>3, <1>5 DEF ReadPR
  <2> QED
    BY <1>1, <1>2, <2>1, RefusalMoves, PubOnly, SameJob, SameRest DEF ReadPR
<1> QED
  BY <1>4, <1>5

LEMMA AgainMoves ==
  ASSUME Good, NEW p \in Procs, SquashAgain(p) \/ SquashRefused(p) \/ Refuse(p)
  PROVE  Moves
<1>1. pub[p].pc # "idle"
  BY DEF SquashAgain, SquashRefused, Refuse, AtSquash
<1>2. PubMoves
  BY <1>1, GotoMoves, RefusalMoves DEF SquashAgain, SquashRefused, Refuse
<1>3. RestMoves
  BY FreeMoves DEF SquashAgain, SquashRefused, Refuse
<1> QED
  BY <1>2, <1>3, PubOnly, SameJob DEF SquashAgain, SquashRefused, Refuse

LEMMA RunMoves ==
  ASSUME Good, NEW p \in Procs, RunPublish(p)
  PROVE  Moves
<1>1. pub[p].pc # "idle" /\ pub[p].job # NoJob
  BY DEF RunPublish, Good, PublishInv, AttemptInv
<1>2. UNCHANGED <<main, glock, draft, pr, job, imp, sweeping, stuck, given, withdrawn>>
  BY DEF RunPublish
<1>3. PubMoves
  <2>1. CASE LandedAlready(p)
    <3>1. Goto(p, "done")
      BY <2>1 DEF RunPublish
    <3>2. draft'[pub[p].draft].status = "merged"
      BY <1>2, <2>1 DEF LandedAlready
    <3> QED
      BY <1>1, <3>1, <3>2, GotoMoves
  <2>2. CASE ~LandedAlready(p)
    BY <1>1, <2>2, GotoMoves DEF RunPublish
  <2> QED
    BY <2>1, <2>2
<1> QED
  BY <1>2, <1>3, PubOnly, SameJob, SameRest

LEMMA FinishMoves ==
  ASSUME Good, NEW p \in Procs, FinishJob(p)
  PROVE  Moves
<1>1. /\ pub[p].pc \in {"done", "failing"} /\ pub[p].job # NoJob
      /\ pub[p].pc = "done" => draft[pub[p].draft].status = "merged"
  BY DEF FinishJob, Good, PublishInv, AttemptInv
<1>2. PICK j \in PubJobs : /\ j = pub[p].job /\ job[j].status # "absent"
                           /\ job[j].draft = pub[p].draft
  BY <1>1, AttemptJob
<1>3. JobMoves /\ PubMoves
  <2>1. CASE FencedJob(p) /\ pub[p].pc = "done"
    <3>1. job' = [job EXCEPT ![j] = [job[j] EXCEPT !.status = "completed"]] /\ Quit(p)
      BY <1>2, <2>1 DEF FinishJob
    <3> QED
      BY <1>1, <1>2, <2>1, <3>1, JobStatusMoves, QuitMoves
  <2>2. CASE FencedJob(p) /\ pub[p].pc # "done"
    <3>1. job' = [job EXCEPT ![j] = [job[j] EXCEPT !.status = "failed"]] /\ Goto(p, "release")
      BY <1>2, <2>2 DEF FinishJob
    <3> QED
      BY <1>1, <1>2, <3>1, JobStatusMoves, GotoMoves
  <2>3. CASE ~FencedJob(p)
    BY <2>3, SameJob, QuitMoves DEF FinishJob
  <2> QED
    BY <2>1, <2>2, <2>3
<1> QED
  BY <1>3, PubOnly, SameRest DEF FinishJob

LEMMA EndMoves ==
  ASSUME Good, NEW p \in Procs, Raise(p) \/ Drain(p) \/ Crash(p)
  PROVE  Moves
<1>1. /\ Quit(p) /\ Free(p)
      /\ UNCHANGED <<main, draft, pr, imp, sweeping, stuck, given, withdrawn>>
  BY DEF Raise, Drain, Crash
<1>2. JobMoves
  <2>1. CASE Crash(p)
    BY <2>1, SameJob DEF Crash
  <2>2. CASE Raise(p)
    BY <2>2, SameJob, JobStatusMoves, AttemptJob DEF Raise
  <2>3. CASE Drain(p)
    BY <2>3, JobStatusMoves, AttemptJob DEF Drain
  <2> QED
    BY <2>1, <2>2, <2>3
<1> QED
  BY <1>1, <1>2, QuitMoves, FreeMoves, PubOnly

LEMMA ClaimMoves ==
  ASSUME Good, NEW p \in Procs, NEW j \in PubJobs, ClaimJob(p, j)
  PROVE  Moves
<1>1. PICK r \in Job : r = job[j]
  BY Typed
<1>2. /\ r.status \in {"pending", "running"} /\ r.draft \in Drafts
      /\ r.epoch \in Nat /\ r.takeovers \in Nat /\ r.pr \in PRs \cup {NoPR}
      /\ r.pr # NoPR => pr[r.pr].status \in Real /\ pr[r.pr].draft = r.draft
  BY <1>1 DEF ClaimJob, Job, Good, PublishInv, NamesInv, AttemptInv, Real
<1>3. PICK t \in Nat : t = r.takeovers + (IF r.status = "running" THEN 1 ELSE 0)
  BY <1>2
<1>4. PICK n \in Nat : n = r.epoch + 1
  BY <1>2
<1>5. JobMoves /\ PubMoves
  <2>1. CASE t > MaxRetries
    <3>1. PICK q : q = [r EXCEPT !.status = "failed", !.takeovers = t]
      OBVIOUS
    <3>2. q \in Job /\ q.status = "failed" /\ q.draft = r.draft /\ q.pr = r.pr
      BY <3>1 DEF Job
    <3>3. job' = [job EXCEPT ![j] = q] /\ UNCHANGED pub
      BY <1>1, <1>3, <2>1, <3>1 DEF ClaimJob
    <3> QED
      BY <1>1, <1>2, <3>2, <3>3, JobRowMoves, SamePub
  <2>2. CASE ~(t > MaxRetries)
    <3>1. PICK q : q = [r EXCEPT !.status = "running", !.epoch = n, !.takeovers = t]
      OBVIOUS
    <3>2. q \in Job /\ q.status = "running" /\ q.draft = r.draft /\ q.pr = r.pr /\ q.epoch = n
      BY <3>1 DEF Job
    <3>3. q = [r EXCEPT !.status = "running", !.epoch = @ + 1, !.takeovers = t]
      BY <1>4, <3>1
    <3>4. PICK u : u = [Idle EXCEPT !.pc = "start", !.draft = r.draft, !.pr = r.pr, !.job = j,
                                    !.epoch = n]
      OBVIOUS
    <3>5. /\ u \in Pub /\ u.pc = "start" /\ u.draft = r.draft /\ u.pr = r.pr /\ u.job = j
          /\ u.copy = NewPR
      BY <1>2, <3>4, InitialFields DEF Pub, PCs, Idle
    <3>6. job' = [job EXCEPT ![j] = q] /\ pub' = [pub EXCEPT ![p] = u]
      BY <1>1, <1>3, <2>2, <3>2, <3>3, <3>4 DEF ClaimJob
    <3>7. JobMoves
      BY <1>1, <1>2, <3>2, <3>6, JobRowMoves
    <3>8. pub' \in [Procs -> Pub] /\ pub'[p] = u /\ \A o \in Procs : o # p => pub'[o] = pub[o]
      BY <3>5, <3>6, Typed
    <3>9. NoJob # j
      BY DraftPublishAssumption
    <3>10. Begun(p)
      BY <1>1, <1>2, <3>5, <3>8, <3>9 DEF Begun
    <3>11. PubMoves
      BY <3>8, <3>10 DEF PubMoves
    <3> QED
      BY <3>7, <3>11
  <2> QED
    BY <2>1, <2>2
<1> QED
  BY <1>5, PubOnly, SameRest DEF ClaimJob

LEMMA FailMoves ==
  ASSUME Good, NEW j \in PubJobs, FailNotStarted(j)
  PROVE  Moves
<1>1. JobMoves
  BY JobStatusMoves DEF FailNotStarted
<1> QED
  BY <1>1, PubOnly, SamePub, SameRest DEF FailNotStarted

LEMMA QueueMoves ==
  ASSUME Good, NEW j \in PubJobs, NEW d \in Drafts, NEW i \in PRs \cup {NoPR}, Queue(j, d, i)
  PROVE  Moves
<1>1. Restated(d, "publishing") /\ Writable(d) /\ imp[d] # "live"
  BY QueueEffect, Typed DEF Queue, Writable, Open, ImportOn
<1>2. DraftMoves
  BY <1>1 DEF DraftMoves, Queue
<1>3. ImportHoldsDraft'
  BY <1>1 DEF ImportHoldsDraft, Queue, Restated, Only, Good, PublishInv
<1>4. PICK q : q = [NewJob EXCEPT !.status = "pending", !.draft = d, !.pr = i]
  OBVIOUS
<1>5. q \in Job /\ q.status = "pending" /\ q.draft = d /\ q.pr = i
  BY <1>4, InitialFields DEF Job, NewJob
<1>6. job' = [job EXCEPT ![j] = q] /\ job[j].status = "absent"
  BY <1>4 DEF Queue
<1>7. i # NoPR => pr[i].status \in Real /\ pr[i].draft = d
  BY DEF Queue, Real
<1>8. JobMoves
  BY <1>5, <1>6, <1>7, Typed DEF JobMoves
<1> QED
  BY <1>2, <1>3, <1>8, SamePR, SamePub, SameRest DEF Queue, Moves

LEMMA ReadsMoves ==
  ASSUME Good, SweepRead \/ ReleaseRead
  PROVE  Moves
<1>1. RestMoves
  BY DEF SweepRead, ReleaseRead, RestMoves, Good, TypeOK
<1> QED
  BY <1>1, PubOnly, SameJob, SamePub DEF SweepRead, ReleaseRead

LEMMA MainMoves ==
  ASSUME Good, MainWrite
  PROVE  Moves
<1>1. PICK n \in Nat : n = Len(main)
  BY Typed
<1>2. PICK c : c = [from |-> NoDraft, base |-> n, edits |-> {}, rev |-> 0,
                    reviewed |-> FALSE, saw |-> NoApproval]
  OBVIOUS
<1>3. c \in Commit /\ c.from = NoDraft /\ c.base = n /\ ~c.reviewed
  BY <1>2, InitialFields DEF Commit
<1>4. main' = Append(main, c)
  BY <1>1, <1>2 DEF MainWrite
<1>5. DraftMoves
  BY <1>1, <1>3, <1>4 DEF DraftMoves, MainWrite
<1> QED
  BY <1>5, DraftOnly, SameJob, SamePub, SameRest DEF MainWrite, StatusKept

\* What a squash lands under a review is what the review approved.
LEMMA ApprovedLanding ==
  ASSUME Good, NEW p \in Procs, AtSquash(p), Gated(p), pub[p].copy.reviewed,
         pub[p].draft \in Drafts
  PROVE  /\ pub[p].copy.approval.seq >= 0
         /\ pub[p].copy.approval.own = draft[pub[p].draft].own
         /\ pub[p].copy.approval.rev = draft[pub[p].draft].rev
<1>1. pub[p].pr # NoPR /\ pub[p].pc = "merge"
  BY DEF Good, PublishInv, ReviewInv, AtSquash
<1>2. pub[p].copy.draft = pub[p].draft /\ Covers(pub[p].copy.approval, pub[p].draft)
  BY <1>1 DEF Good, PublishInv, ReviewInv
<1>3. pub[p].copy.approval.seq >= draft[pub[p].draft].content
  BY <1>1, <1>2 DEF Gated, Approved
<1>4. pub[p].copy.approval.seq \in Int /\ draft[pub[p].draft].content \in Nat
  BY Typed DEF Pub, PR, Approval, Draft
<1> QED
  BY <1>2, <1>3, <1>4 DEF Covers

LEMMA SquashLands ==
  ASSUME Good, NEW p \in Procs, Squash(p), pub[p].draft \in Drafts
  PROVE  LandedOn(pub[p].draft) /\ main' \in Seq(Commit)
<1>1. PICK d \in Drafts : d = pub[p].draft
  OBVIOUS
<1>2. PICK r \in Draft : r = draft[d]
  BY Typed
<1>3. CASE r.own = {}
  BY <1>1, <1>2, <1>3, Typed DEF Squash, Squashed, LandedOn
<1>4. CASE r.own # {}
  <2>1. PICK u \in PR : u = pub[p].copy
    BY Typed DEF Pub
  <2>2. PICK c : c = [from |-> d, base |-> r.base, edits |-> r.own, rev |-> r.rev,
                      reviewed |-> u.reviewed, saw |-> u.approval]
    OBVIOUS
  <2>3. /\ c \in Commit /\ c.from = d /\ c.base = r.base /\ c.edits = r.own /\ c.rev = r.rev
        /\ c.reviewed = u.reviewed /\ c.saw = u.approval
    BY <2>2 DEF Commit, Draft, PR
  <2>4. main' = Append(main, c)
    BY <1>1, <1>2, <1>4, <2>1, <2>2 DEF Squash, Squashed
  <2>5. c.reviewed => c.saw.seq >= 0 /\ c.saw.own = c.edits /\ c.saw.rev = c.rev
    BY <1>1, <1>2, <2>1, <2>3, ApprovedLanding DEF Squash
  <2> QED
    BY <1>1, <1>2, <1>4, <2>3, <2>4, <2>5, Typed DEF LandedOn
<1> QED
  BY <1>3, <1>4

LEMMA SettledMoves ==
  ASSUME Good, NEW p \in Procs, pub[p].draft \in Drafts, pr' = Settled(p)
  PROVE  PRMoves /\ OneLivePR'
<1>1. ASSUME NEW i \in PRs
      PROVE  /\ pr'[i] \in PR /\ pr'[i].draft = pr[i].draft /\ pr'[i].approval = pr[i].approval
             /\ pr'[i].status = "live" => pr[i].status = "live"
             /\ pr'[i].status # "absent" => pr[i].status # "absent"
             /\ pr[i].status \in Real => pr'[i].status \in Real
  <2>1. PICK r \in PR : r = pr[i]
    BY Typed
  <2>2. PICK q : q = [r EXCEPT !.status = "merged"]
    OBVIOUS
  <2>3. q \in PR /\ q.status = "merged" /\ q.draft = r.draft /\ q.approval = r.approval
    BY <2>2 DEF PR
  <2>4. CASE i = pub[p].pr \/ (pr[i].status = "live" /\ pr[i].draft = pub[p].draft)
    <3>1. pr'[i] = q
      BY <2>1, <2>2, <2>4 DEF Settled
    <3>2. i = pub[p].pr => pr[i].status \in Real
      BY DraftPublishAssumption DEF Good, PublishInv, AttemptInv, Real
    <3> QED
      BY <2>1, <2>3, <2>4, <3>1, <3>2 DEF Real
  <2>5. CASE ~(i = pub[p].pr \/ (pr[i].status = "live" /\ pr[i].draft = pub[p].draft))
    BY <2>5, Typed DEF Settled
  <2> QED
    BY <2>4, <2>5
<1>2. pr' \in [PRs -> PR]
  BY <1>1 DEF Settled
<1>3. \A i \in PRs : pr[i].status # "absent" => pr[i].draft \in Drafts
  BY DEF Good, PublishInv, NamesInv
<1>4. PRMoves
  BY <1>1, <1>2, <1>3 DEF PRMoves
<1>5. OneLivePR'
  BY <1>1 DEF Good, PublishInv, OneLivePR
<1> QED
  BY <1>4, <1>5

LEMMA SquashMoves ==
  ASSUME Good, NEW p \in Procs, Squash(p)
  PROVE  Moves
<1>1. PICK d \in Drafts : d = pub[p].draft
  BY DEF Squash, AtSquash, Good, PublishInv, NamesInv
<1>2. LandedOn(d) /\ main' \in Seq(Commit)
  BY <1>1, SquashLands
<1>3. Writable(d) /\ draft[d].pending = {} /\ draft[d].base >= Len(main) /\ imp[d] # "live"
  BY <1>1 DEF Squash, Admitted, OpenTo, Writable, ImportOn, Staged, Gated, UpToDate
<1>4. MergedOn(d)
  <2>1. Put(d, [draft[d] EXCEPT !.status = "merged", !.base = Len(main'), !.idle = FALSE])
    BY <1>1 DEF Squash
  <2> QED
    BY <1>2, <1>3, <2>1, MergeEffect, Typed
<1>5. DraftMoves
  BY <1>2, <1>3, <1>4 DEF DraftMoves, Squash
<1>6. PRMoves /\ OneLivePR'
  BY <1>1, SettledMoves DEF Squash
<1>7. PubMoves
  <2>1. CASE pub[p].job = NoJob
    BY <2>1, QuitMoves DEF Squash
  <2>2. CASE pub[p].job # NoJob
    <3>1. draft'[pub[p].draft].status = "merged" /\ pub[p].pc # "idle" /\ Goto(p, "done")
      BY <1>1, <1>4, <2>2 DEF Squash, AtSquash, MergedOn
    <3> QED
      BY <2>2, <3>1, GotoMoves
  <2> QED
    BY <2>1, <2>2
<1>8. ImportHoldsDraft'
  BY <1>3, <1>4 DEF ImportHoldsDraft, Squash, MergedOn, Only, Good, PublishInv
<1> QED
  BY <1>5, <1>6, <1>7, <1>8, SameJob, FreeMoves DEF Squash, Moves

LEMMA StutterMoves ==
  ASSUME Good, UNCHANGED vars
  PROVE  Moves
  BY SameDraft, DraftOnly, SameJob, SamePub, SameRest DEF vars

LEMMA NextMoves ==
  ASSUME Good, [Next]_vars
  PROVE  Moves
<1>1. ASSUME NEW d \in Drafts, Edit(d) \/ ReleaseWrite(d)
      PROVE  Moves
  BY <1>1, AbsentMoves, CheckpointMoves, PullMoves, AbandonMoves, SweepMoves, ImportMovesMoves,
     StageMoves, SaveMoves, WindowMoves, ReleaseMoves DEF Edit
<1>2. ASSUME NEW p \in Procs, Step(p)
      PROVE  Moves
  BY <1>2, FlushMoves, ReadMoves, SquashMoves, AgainMoves, RunMoves, FinishMoves, ReleaseOwnMoves
     DEF Step
<1>3. ASSUME NEW p \in Procs, NEW d \in Drafts, Publish(p, d)
      PROVE  Moves
  BY <1>3, PublishMoves
<1>4. ASSUME NEW p \in Procs, NEW i \in PRs, Merge(p, i)
      PROVE  Moves
  BY <1>4, MergeMoves
<1>5. ASSUME NEW p \in Procs, NEW j \in PubJobs, ClaimJob(p, j)
      PROVE  Moves
  BY <1>5, ClaimMoves
<1>6. ASSUME NEW j \in PubJobs, NEW d \in Drafts, NEW i \in PRs \cup {NoPR}, Queue(j, d, i)
      PROVE  Moves
  BY <1>6, QueueMoves
<1>7. ASSUME NEW p \in Procs, Raise(p) \/ Drain(p) \/ Crash(p)
      PROVE  Moves
  BY <1>7, EndMoves
<1> QED
  BY <1>1, <1>2, <1>3, <1>4, <1>5, <1>6, <1>7, ReviewMoves, FailMoves, ReadsMoves, MainMoves,
     StutterMoves DEF Next

-----------------------------------------------------------------------------
(* Every such step preserves the invariant                                 *)

\* A closed draft stays as it is, and an open one stays a draft.
LEMMA ClosedStays ==
  ASSUME Good, DraftMoves
  PROVE  /\ draft' \in [Drafts -> Draft]
         /\ \A d \in Drafts : draft[d].status \in {"merged", "abandoned"} => draft'[d] = draft[d]
  BY ZenonT(60), Typed DEF DraftMoves, Writable, OpenedOn, PulledOn, Restated, StagedOn,
     CommittedOn, FoldedOn,
     MergedOn, Only

\* Main is as it was, or has one commit more: of no draft, or of one merged by this step.
LEMMA MainAfter ==
  ASSUME Good, DraftMoves
  PROVE  \/ main' = main
         \/ \E c \in Commit :
              /\ main' = Append(main, c) /\ c.base = Len(main)
              /\ c.reviewed => c.saw.seq >= 0 /\ c.saw.own = c.edits /\ c.saw.rev = c.rev
              /\ \/ c.from = NoDraft
                 \/ /\ c.from \in Drafts /\ draft[c.from].status # "merged"
                    /\ draft'[c.from].status = "merged" /\ c.edits = draft[c.from].own
<1>1. ASSUME NEW d \in Drafts, Writable(d), MergedOn(d), LandedOn(d), main' # main
      PROVE  \E c \in Commit :
               /\ main' = Append(main, c) /\ c.base = Len(main)
               /\ c.reviewed => c.saw.seq >= 0 /\ c.saw.own = c.edits /\ c.saw.rev = c.rev
               /\ c.from \in Drafts /\ draft[c.from].status # "merged"
               /\ draft'[c.from].status = "merged" /\ c.edits = draft[c.from].own
  <2>1. PICK c \in Commit :
          /\ main' = Append(main, c)
          /\ c.from = d /\ c.base = draft[d].base /\ c.edits = draft[d].own
          /\ c.reviewed => c.saw.seq >= 0 /\ c.saw.own = c.edits /\ c.saw.rev = c.rev
    BY <1>1 DEF LandedOn
  <2>2. draft[d].base = Len(main)
    <3>1. draft[d].base \in Nat /\ Len(main) \in Nat
      BY Typed DEF Draft
    <3> QED
      BY <1>1, <3>1 DEF MergedOn, Good, PublishInv, BaseInv
  <2> QED
    BY <1>1, <2>1, <2>2 DEF MergedOn, Writable
<1> QED
  BY <1>1 DEF DraftMoves

LEMMA TypeKept ==
  ASSUME Good, Moves
  PROVE  TypeOK'
<1>1. draft' \in [Drafts -> Draft]
  BY ClosedStays DEF Moves
<1>2. main' \in Seq(Commit)
  BY SMTT(30), MainAfter, Typed DEF Moves
<1>3. given' \in [Drafts -> SUBSET Edits]
  BY Typed DEF Moves, DraftMoves
<1>4. withdrawn' \in SUBSET Edits
  <2>1. \A d \in Drafts : draft[d].pending \in SUBSET Edits
    BY Typed DEF Draft
  <2> QED
    BY <2>1, Typed DEF Moves, DraftMoves
<1> QED
  BY <1>1, <1>2, <1>3, <1>4 DEF Moves, PRMoves, JobMoves, PubMoves, RestMoves, TypeOK

LEMMA NamesKept ==
  ASSUME Good, Moves
  PROVE  NamesInv'
<1>1. \A i \in PRs : pr'[i].status # "absent" => pr'[i].draft \in Drafts
  BY DEF Moves, PRMoves
<1>2. \A j \in PubJobs : job'[j].status # "absent" => job'[j].draft \in Drafts
  BY DEF Moves, JobMoves, Good, PublishInv, NamesInv
<1>3. \A p \in Procs : pub'[p].pc # "idle" => pub'[p].draft \in Drafts
  BY InitialFields DEF Moves, PubMoves, Advanced, Begun, Good, PublishInv, NamesInv
<1> QED
  BY <1>1, <1>2, <1>3 DEF NamesInv

LEMMA BaseKept ==
  ASSUME Good, Moves
  PROVE  BaseInv'
<1>1. Len(main) \in Nat /\ Len(main') \in Nat /\ Len(main') >= Len(main)
  BY MainAfter, Typed DEF Moves
<1>2. \A d \in Drafts : draft'[d].base \in Nat /\ draft[d].base \in Nat
  BY ClosedStays, Typed DEF Moves, Draft
<1>3. \A d \in Drafts : draft'[d].base \in {draft[d].base, Len(main), Len(main')}
  BY DEF Moves, DraftMoves, OpenedOn, PulledOn, Restated, StagedOn, CommittedOn, FoldedOn,
         MergedOn, Only
<1> QED
  BY <1>1, <1>2, <1>3 DEF Good, PublishInv, BaseInv

LEMMA CommitFrom ==
  ASSUME Good
  PROVE  \A n \in 1 .. Len(main) : main[n].from \in Drafts \cup {NoDraft}
<1>1. \A n \in 1 .. Len(main) : main[n] \in Commit
  BY Typed
<1> QED
  BY <1>1 DEF Commit

LEMMA LandingsKept ==
  ASSUME Good, Moves
  PROVE  LandsOnItsBase' /\ LandsWhatWasApproved' /\ SquashedOnce'
<1>1. LandsOnItsBase /\ LandsWhatWasApproved /\ SquashedOnce
  BY DEF Good, PublishInv
<1>2. \A n \in 1 .. Len(main) : main[n].from \in Drafts \cup {NoDraft}
  BY CommitFrom
<1>3. \A d \in Drafts : draft[d].status = "merged" => draft'[d].status = "merged"
  BY ClosedStays DEF Moves
<1>4. CASE main' = main
  <2>1. LandsOnItsBase' /\ LandsWhatWasApproved'
    BY <1>1, <1>4 DEF LandsOnItsBase, LandsWhatWasApproved
  <2>2. SquashedOnce'
    BY <1>1, <1>2, <1>3, <1>4 DEF SquashedOnce
  <2> QED
    BY <2>1, <2>2
<1>5. CASE main' # main
  <2>1. PICK c \in Commit :
          /\ main' = Append(main, c) /\ c.base = Len(main)
          /\ c.reviewed => c.saw.seq >= 0 /\ c.saw.own = c.edits /\ c.saw.rev = c.rev
          /\ \/ c.from = NoDraft
             \/ /\ c.from \in Drafts /\ draft[c.from].status # "merged"
                /\ draft'[c.from].status = "merged" /\ c.edits = draft[c.from].own
    BY <1>5, MainAfter DEF Moves
  <2>2. /\ Len(main) \in Nat /\ Len(main') = Len(main) + 1 /\ main'[Len(main) + 1] = c
        /\ \A n \in 1 .. Len(main) : main'[n] = main[n]
    BY <2>1, Typed
  <2>3. LandsOnItsBase'
    BY <1>1, <2>1, <2>2 DEF LandsOnItsBase
  <2>4. LandsWhatWasApproved'
    BY <1>1, <2>1, <2>2 DEF LandsWhatWasApproved
  <2>5. SquashedOnce'
    BY <1>1, <1>2, <1>3, <2>1, <2>2 DEF SquashedOnce
  <2> QED
    BY <2>3, <2>4, <2>5
<1> QED
  BY <1>4, <1>5

\* Main has of draft d what its commits have.
LEMMA OnMainElements ==
  ASSUME NEW d, NEW e
  PROVE  /\ e \in OnMain(d) <=>
              \E n \in 1 .. Len(main) : main[n].from = d /\ e \in main[n].edits
         /\ (e \in OnMain(d))' <=>
              \E n \in 1 .. Len(main') : main'[n].from = d /\ e \in main'[n].edits
  BY DEF OnMain

LEMMA MergedKept ==
  ASSUME Good, Moves
  PROVE  MergedInv'
<1>1. SUFFICES ASSUME NEW d \in Drafts, draft'[d].status = "merged"
               PROVE  draft'[d].pending = {} /\ draft'[d].own = OnMain(d)'
  BY DEF MergedInv
<1>2. CASE draft[d].status = "merged"
  <2>1. draft'[d] = draft[d] /\ draft[d].pending = {} /\ draft[d].own = OnMain(d)
    BY <1>2, ClosedStays DEF Moves, Good, PublishInv, MergedInv
  <2>2. OnMain(d)' = OnMain(d)
    <3>1. CASE main' = main
      BY <3>1 DEF OnMain
    <3>2. CASE main' # main
      <4>1. PICK c \in Commit : main' = Append(main, c) /\ c.from # d
        BY <1>2, <3>2, MainAfter, DraftPublishAssumption DEF Moves
      <4>2. /\ Len(main) \in Nat /\ Len(main') = Len(main) + 1 /\ main'[Len(main) + 1] = c
            /\ \A n \in 1 .. Len(main) : main'[n] = main[n]
        BY <4>1, Typed
      <4>3. ASSUME NEW e PROVE e \in OnMain(d)' <=> e \in OnMain(d)
        BY <4>1, <4>2, OnMainElements
      <4> QED
        BY <4>3
    <3> QED
      BY <3>1, <3>2
  <2> QED
    BY <2>1, <2>2
<1>3. CASE draft[d].status # "merged"
  <2>1. MergedOn(d) /\ LandedOn(d)
    BY <1>1, <1>3 DEF Moves, DraftMoves, OpenedOn, PulledOn, Restated, StagedOn, CommittedOn,
       FoldedOn, MergedOn, Only
  <2>2. \A n \in 1 .. Len(main) : main[n].from # d
    BY <1>3, DraftPublishAssumption DEF Good, PublishInv, SquashedOnce
  <2>3. CASE draft[d].own = {} /\ main' = main
    <3>1. \A e : e \notin OnMain(d)'
      BY <2>2, <2>3, OnMainElements
    <3> QED
      BY <2>1, <2>3, <3>1 DEF MergedOn
  <2>4. CASE ~(draft[d].own = {} /\ main' = main)
    <3>1. PICK c \in Commit : main' = Append(main, c) /\ c.from = d /\ c.edits = draft[d].own
      BY <2>1, <2>4 DEF LandedOn
    <3>2. /\ Len(main) \in Nat /\ Len(main') = Len(main) + 1 /\ main'[Len(main) + 1] = c
          /\ \A n \in 1 .. Len(main) : main'[n] = main[n]
      BY <3>1, Typed
    <3>3. ASSUME NEW e PROVE e \in OnMain(d)' <=> e \in draft[d].own
      BY <2>2, <3>1, <3>2, OnMainElements
    <3> QED
      BY <2>1, <3>3 DEF MergedOn
  <2> QED
    BY <2>3, <2>4
<1> QED
  BY <1>2, <1>3

\* Nothing is given or withdrawn, and each draft has the changes it had.
LEMMA GivenSame ==
  ASSUME Good, UNCHANGED <<given, withdrawn>>,
         \A d \in Drafts : /\ draft'[d].own = draft[d].own /\ draft'[d].pending = draft[d].pending
                           /\ draft'[d].status = "absent" => draft'[d] = draft[d]
  PROVE  GivenInv'
  BY DEF Good, PublishInv, GivenInv

LEMMA GivenAdded ==
  ASSUME Good, NEW d \in Drafts, NEW e \in Edits, Writable(d), e \in Fresh,
         StagedOn(d, e) \/ CommittedOn(d, e), given' = [given EXCEPT ![d] = @ \cup {e}],
         UNCHANGED withdrawn
  PROVE  GivenInv'
<1>1. GivenInv
  BY DEF Good, PublishInv
<1>2. \A c \in Drafts : e \notin given[c]
  BY DEF Fresh
<1>3. e \notin withdrawn
  BY <1>1, <1>2 DEF GivenInv
<1>4. /\ given'[d] = given[d] \cup {e}
      /\ \A c \in Drafts : c # d => given'[c] = given[c] /\ draft'[c] = draft[c]
  BY Typed DEF StagedOn, CommittedOn, Only
<1>5. /\ draft'[d].status # "absent"
      /\ \/ draft'[d].own = draft[d].own /\ draft'[d].pending = draft[d].pending \cup {e}
         \/ draft'[d].own = draft[d].own \cup {e} /\ draft'[d].pending = draft[d].pending
  BY DEF StagedOn, CommittedOn, Writable
<1>6. e \notin draft[d].own /\ e \notin draft[d].pending
  BY <1>1, <1>2 DEF GivenInv
<1>7. \A c \in Drafts :
        /\ draft'[c].own \cup draft'[c].pending = given'[c] \ withdrawn'
        /\ draft'[c].own \cap draft'[c].pending = {}
        /\ draft'[c].status = "absent" => draft'[c] = NewDraft
  <2>1. SUFFICES ASSUME NEW c \in Drafts
                 PROVE  /\ draft'[c].own \cup draft'[c].pending = given'[c] \ withdrawn'
                        /\ draft'[c].own \cap draft'[c].pending = {}
                        /\ draft'[c].status = "absent" => draft'[c] = NewDraft
    OBVIOUS
  <2>2. CASE c # d
    BY <1>1, <1>4, <2>2 DEF GivenInv
  <2>3. CASE c = d
    <3>1. /\ draft[d].own \cup draft[d].pending = given[d] \ withdrawn
          /\ draft[d].own \cap draft[d].pending = {}
      BY <1>1 DEF GivenInv
    <3> QED
      BY <1>3, <1>4, <1>5, <1>6, <2>3, <3>1
  <2> QED
    BY <2>2, <2>3
<1>8. \A b, c \in Drafts : b # c => given'[b] \cap given'[c] = {}
  BY <1>1, <1>2, <1>4 DEF GivenInv
<1>9. withdrawn' \subseteq UNION {given'[c] : c \in Drafts}
  <2>1. SUFFICES ASSUME NEW x \in withdrawn
                 PROVE  \E c \in Drafts : x \in given'[c]
    OBVIOUS
  <2>2. PICK c \in Drafts : x \in given[c]
    BY <1>1 DEF GivenInv
  <2> QED
    BY <1>4, <2>2
<1> QED
  BY <1>7, <1>8, <1>9 DEF GivenInv

LEMMA GivenFolded ==
  ASSUME Good, NEW d \in Drafts, NEW K \in SUBSET draft[d].pending,
         NEW W \in SUBSET draft[d].pending, Writable(d), K \cap W = {}, FoldedOn(d, K, W),
         withdrawn' = withdrawn \cup W, UNCHANGED given
  PROVE  GivenInv'
<1>1. GivenInv
  BY DEF Good, PublishInv
<1>2. /\ draft[d].own \cup draft[d].pending = given[d] \ withdrawn
      /\ draft[d].own \cap draft[d].pending = {}
  BY <1>1 DEF GivenInv
<1>3. W \subseteq given[d]
  BY <1>2
<1>4. \A c \in Drafts :
        /\ draft'[c].own \cup draft'[c].pending = given'[c] \ withdrawn'
        /\ draft'[c].own \cap draft'[c].pending = {}
        /\ draft'[c].status = "absent" => draft'[c] = NewDraft
  <2>1. SUFFICES ASSUME NEW c \in Drafts
                 PROVE  /\ draft'[c].own \cup draft'[c].pending = given'[c] \ withdrawn'
                        /\ draft'[c].own \cap draft'[c].pending = {}
                        /\ draft'[c].status = "absent" => draft'[c] = NewDraft
    OBVIOUS
  <2>2. CASE c # d
    <3>1. draft'[c] = draft[c] /\ given'[c] = given[c]
      BY <2>2 DEF FoldedOn, Only
    <3>2. given[c] \cap W = {}
      BY <1>1, <1>3, <2>2 DEF GivenInv
    <3>3. given[c] \ withdrawn' = given[c] \ withdrawn
      BY <3>2
    <3> QED
      BY <1>1, <3>1, <3>3 DEF GivenInv
  <2>3. CASE c = d
    <3>1. /\ draft'[d].own = draft[d].own \cup K
          /\ draft'[d].pending = draft[d].pending \ (K \cup W) /\ draft'[d].status # "absent"
      BY DEF FoldedOn, Writable
    <3> QED
      BY <1>2, <2>3, <3>1
  <2> QED
    BY <2>2, <2>3
<1>5. \A b, c \in Drafts : b # c => given'[b] \cap given'[c] = {}
  BY <1>1 DEF GivenInv
<1>6. withdrawn' \subseteq UNION {given'[c] : c \in Drafts}
  <2>1. UNION {given'[c] : c \in Drafts} = UNION {given[c] : c \in Drafts}
    OBVIOUS
  <2> QED
    BY <1>1, <1>3, <2>1 DEF GivenInv
<1> QED
  BY <1>4, <1>5, <1>6 DEF GivenInv

LEMMA GivenKept ==
  ASSUME Good, Moves
  PROVE  GivenInv'
<1>1. \A d \in Drafts : draft[d].status = "absent" => draft[d].own = {} /\ draft[d].pending = {}
  BY DEF Good, PublishInv, GivenInv, NewDraft
<1>2. CASE UNCHANGED <<main, draft, given, withdrawn>>
  BY <1>2, GivenSame
<1>3. ASSUME NEW d \in Drafts, UNCHANGED <<given, withdrawn>>,
             \/ draft[d].status = "absent" /\ OpenedOn(d)
             \/ Writable(d) /\ PulledOn(d)
             \/ Writable(d) /\ \E s \in {"open", "publishing", "abandoned"} : Restated(d, s)
             \/ Writable(d) /\ MergedOn(d)
      PROVE  GivenInv'
  <2>1. /\ draft'[d].own = draft[d].own /\ draft'[d].pending = draft[d].pending
        /\ draft'[d].status # "absent"
        /\ \A c \in Drafts : c # d => draft'[c] = draft[c]
    BY <1>1, <1>3 DEF OpenedOn, PulledOn, Restated, MergedOn, Writable, Only
  <2> QED
    BY <1>3, <2>1, GivenSame
<1>4. CASE UNCHANGED <<draft, given, withdrawn>>
  BY <1>4, GivenSame
<1> QED
  BY <1>2, <1>3, <1>4, GivenAdded, GivenFolded DEF Moves, DraftMoves

LEMMA AttemptKept ==
  ASSUME Good, Moves
  PROVE  AttemptInv'
<1>1. ASSUME NEW i \in PRs, pr[i].status \in Real
      PROVE  pr'[i].status \in Real /\ pr'[i].draft = pr[i].draft
  BY <1>1 DEF Moves, PRMoves
<1>2. /\ \A j \in PubJobs : job'[j].pr \in PRs \cup {NoPR} /\ job[j].pr \in PRs \cup {NoPR}
      /\ \A p \in Procs : /\ pub'[p].pr \in PRs \cup {NoPR} /\ pub[p].pr \in PRs \cup {NoPR}
                          /\ pub'[p].job \in PubJobs \cup {NoJob}
                          /\ pub[p].job \in PubJobs \cup {NoJob}
  BY Typed DEF Moves, JobMoves, PubMoves, Job, Pub
<1>3. ASSUME NEW j \in PubJobs, job[j].status # "absent"
      PROVE  job'[j].status # "absent" /\ job'[j].draft = job[j].draft
  BY <1>3 DEF Moves, JobMoves
<1>4. \A j \in PubJobs : job'[j].pr # NoPR =>
        pr'[job'[j].pr].status \in Real /\ pr'[job'[j].pr].draft = job'[j].draft
  <2>1. \A j \in PubJobs : job'[j].pr # NoPR =>
          pr[job'[j].pr].status \in Real /\ pr[job'[j].pr].draft = job'[j].draft
    BY DEF Moves, JobMoves, Good, PublishInv, AttemptInv, Real
  <2> QED
    BY <1>1, <1>2, <2>1
<1>5. \A p \in Procs : pub'[p].pr # NoPR =>
        pr'[pub'[p].pr].status \in Real /\ pr'[pub'[p].pr].draft = pub'[p].draft
  <2>1. \A p \in Procs : pub'[p].pr # NoPR =>
          pr[pub'[p].pr].status \in Real /\ pr[pub'[p].pr].draft = pub'[p].draft
    BY InitialFields DEF Moves, PubMoves, Advanced, Begun, Good, PublishInv, AttemptInv, Real
  <2> QED
    BY <1>1, <1>2, <2>1
<1>6. \A p \in Procs : pub'[p].job # NoJob =>
        job'[pub'[p].job].status # "absent" /\ job'[pub'[p].job].draft = pub'[p].draft
  <2>1. \A p \in Procs : pub'[p].job # NoJob =>
          job[pub'[p].job].status # "absent" /\ job[pub'[p].job].draft = pub'[p].draft
    BY InitialFields DEF Moves, PubMoves, Advanced, Begun, Good, PublishInv, AttemptInv
  <2> QED
    BY <1>2, <1>3, <2>1
<1>7. \A p \in Procs :
        pub'[p].pc \in {"start", "refused", "done", "failing", "release"} => pub'[p].job # NoJob
  BY InitialFields DEF Moves, PubMoves, Advanced, Begun, Good, PublishInv, AttemptInv
<1>8. \A p \in Procs : pub'[p].pc = "done" => draft'[pub'[p].draft].status = "merged"
  <2>1. SUFFICES ASSUME NEW p \in Procs, pub'[p].pc = "done"
                 PROVE  draft'[pub'[p].draft].status = "merged"
    OBVIOUS
  <2>2. CASE pub'[p] = pub[p]
    <3>1. draft[pub[p].draft].status = "merged" /\ pub[p].draft \in Drafts
      BY <2>1, <2>2 DEF Good, PublishInv, AttemptInv, NamesInv
    <3> QED
      BY <2>2, <3>1, ClosedStays DEF Moves
  <2>3. CASE pub'[p] # pub[p]
    BY <2>1, <2>3, InitialFields DEF Moves, PubMoves, Advanced, Begun
  <2> QED
    BY <2>2, <2>3
<1> QED
  BY <1>4, <1>5, <1>6, <1>7, <1>8 DEF AttemptInv, Real

LEMMA CompletedKept ==
  ASSUME Good, Moves
  PROVE  CompletedLanded'
<1>1. SUFFICES ASSUME NEW j \in PubJobs, job'[j].status = "completed"
               PROVE  draft'[job'[j].draft].status = "merged"
  BY DEF CompletedLanded
<1>2. draft[job'[j].draft].status = "merged" /\ job'[j].draft \in Drafts
  BY <1>1 DEF Moves, JobMoves, Good, PublishInv, CompletedLanded, NamesInv
<1> QED
  BY <1>2, ClosedStays DEF Moves

\* A draft's commits count up: a step leaves what approvals are compared with as it is, or
\* makes a content commit past every approval, or one that changes no content.
LEMMA ContentAfter ==
  ASSUME Good, Moves, NEW d \in Drafts
  PROVE  /\ draft[d].head \in Nat /\ draft[d].content \in Nat /\ draft'[d].head \in Nat
         /\ draft'[d].content \in Nat
         /\ \/ /\ draft'[d].head \in {draft[d].head, draft[d].head + 1}
               /\ draft'[d].content = draft[d].content
               /\ draft'[d].own = draft[d].own /\ draft'[d].rev = draft[d].rev
            \/ draft'[d].head = draft[d].head + 1 /\ draft'[d].content = draft[d].head + 1
<1>1. /\ draft[d].head \in Nat /\ draft[d].content \in Nat /\ draft'[d].head \in Nat
      /\ draft'[d].content \in Nat
  BY ClosedStays, Typed DEF Moves, Draft
<1>2. draft[d].status = "absent" =>
        draft[d].own = {} /\ draft[d].head = 0 /\ draft[d].content = 0 /\ draft[d].rev = 0
  BY DEF Good, PublishInv, GivenInv, NewDraft
<1>3. \A K : draft[d].own \cup K = draft[d].own \/ K # {}
  OBVIOUS
<1> QED
  BY ZenonT(60), <1>1, <1>2, <1>3 DEF Moves, DraftMoves, OpenedOn, PulledOn, Restated, StagedOn,
     CommittedOn,
     FoldedOn, MergedOn, Only

\* So an approval that covers its draft still does.
LEMMA CoversKept ==
  ASSUME Good, Moves, NEW d \in Drafts, NEW a \in Approval, Covers(a, d)
  PROVE  /\ a.seq <= draft'[d].head
         /\ a.seq >= draft'[d].content => a.own = draft'[d].own /\ a.rev = draft'[d].rev
<1>1. a.seq \in Int
  BY DEF Approval
<1> QED
  BY <1>1, ContentAfter DEF Covers

LEMMA ReviewKept ==
  ASSUME Good, Moves
  PROVE  ReviewInv'
<1>1. ReviewInv
  BY DEF Good, PublishInv
<1>2. \A d \in Drafts : draft'[d].content <= draft'[d].head
  BY <1>1, ContentAfter DEF ReviewInv
<1>3. \A d \in Drafts : draft[d].head \in Nat /\ draft[d].content \in Nat
  BY Typed DEF Draft
<1>4. \A i \in PRs : pr'[i].status # "absent" => Covers(pr[i].approval, pr[i].draft)'
  <2>1. SUFFICES ASSUME NEW i \in PRs, pr'[i].status # "absent"
                 PROVE  Covers(pr[i].approval, pr[i].draft)'
    OBVIOUS
  <2>2. PICK d \in Drafts : d = pr'[i].draft
    BY <2>1 DEF Moves, PRMoves
  <2>3. PICK a \in Approval : a = pr'[i].approval
    BY DEF Moves, PRMoves, PR
  <2>4. SUFFICES /\ a.seq <= draft'[d].head
                 /\ a.seq >= draft'[d].content => a.own = draft'[d].own /\ a.rev = draft'[d].rev
    BY <2>2, <2>3 DEF Covers
  <2>5. CASE a.seq = -1
    BY <2>5, ContentAfter
  <2>6. CASE /\ pr[i].status # "absent" /\ pr'[i].draft = pr[i].draft
             /\ pr'[i].approval = pr[i].approval
    BY <1>1, <2>2, <2>3, <2>6, CoversKept DEF ReviewInv
  <2>7. CASE draft' = draft /\ a.seq = draft[d].head /\ a.own = draft[d].own /\ a.rev = draft[d].rev
    BY <1>3, <2>7
  <2> QED
    BY <2>1, <2>2, <2>3, <2>5, <2>6, <2>7 DEF Moves, PRMoves
<1>5. \A p \in Procs : pub'[p].pr = NoPR => ~pub'[p].copy.reviewed
  BY <1>1, InitialFields DEF Moves, PubMoves, Advanced, Begun, ReviewInv
<1>6. ASSUME NEW p \in Procs, pub'[p].pc = "merge"
      PROVE  /\ pub'[p].pr # NoPR /\ pub'[p].copy.draft = pub'[p].draft
             /\ Covers(pub[p].copy.approval, pub[p].draft)'
  <2>1. CASE pub'[p] = pub[p]
    <3>1. PICK d \in Drafts : d = pub[p].draft
      BY <1>6, <2>1 DEF Good, PublishInv, NamesInv
    <3>2. PICK a \in Approval : a = pub[p].copy.approval
      BY Typed DEF Pub, PR
    <3>3. pub[p].pr # NoPR /\ pub[p].copy.draft = d /\ Covers(a, d)
      BY <1>1, <1>6, <2>1, <3>1, <3>2 DEF ReviewInv
    <3>4. /\ a.seq <= draft'[d].head
          /\ a.seq >= draft'[d].content => a.own = draft'[d].own /\ a.rev = draft'[d].rev
      BY <3>3, CoversKept
    <3> QED
      BY <2>1, <3>1, <3>2, <3>3, <3>4 DEF Covers
  <2>2. CASE pub'[p] # pub[p]
    <3>1. /\ pub[p].pr # NoPR /\ pub'[p].pr = pub[p].pr /\ pub'[p].draft = pub[p].draft
          /\ pub'[p].copy = pr[pub[p].pr] /\ pr[pub[p].pr].status = "live" /\ draft' = draft
      BY <1>6, <2>2, InitialFields DEF Moves, PubMoves, Advanced, Begun
    <3>2. PICK i \in PRs : i = pub[p].pr
      BY <3>1, Typed DEF Pub
    <3>3. pr[i].draft = pub[p].draft /\ Covers(pr[i].approval, pr[i].draft)
      BY <1>1, <3>1, <3>2 DEF Good, PublishInv, AttemptInv, ReviewInv
    <3> QED
      BY <3>1, <3>2, <3>3 DEF Covers
  <2> QED
    BY <2>1, <2>2
<1> QED
  BY <1>2, <1>4, <1>5, <1>6 DEF ReviewInv

-----------------------------------------------------------------------------
(* The theorems                                                            *)

LEMMA InitGood ==
  ASSUME Init
  PROVE  Good
<1>1. TypeOK
  BY InitialFields, DraftPublishAssumption DEF Init, TypeOK, Procs
<1>2. /\ \A d \in Drafts : draft[d] = NewDraft /\ given[d] = {} /\ imp[d] = "none"
      /\ \A i \in PRs : pr[i] = NewPR
      /\ \A j \in PubJobs : job[j] = NewJob
      /\ \A p \in Procs : pub[p] = Idle
      /\ main = <<>> /\ Len(main) = 0 /\ withdrawn = {}
  BY DEF Init
<1>3. NamesInv /\ OneLivePR /\ CompletedLanded /\ ImportHoldsDraft
  BY <1>2, InitialFields DEF NamesInv, OneLivePR, CompletedLanded, ImportHoldsDraft
<1>4. BaseInv /\ GivenInv /\ MergedInv
  BY <1>2 DEF BaseInv, GivenInv, MergedInv, NewDraft
<1>5. AttemptInv /\ ReviewInv
  BY <1>2, InitialFields DEF AttemptInv, ReviewInv, NewDraft, NewJob
<1>6. LandsOnItsBase /\ SquashedOnce /\ LandsWhatWasApproved
  BY <1>2 DEF LandsOnItsBase, SquashedOnce, LandsWhatWasApproved
<1> QED
  BY <1>1, <1>3, <1>4, <1>5, <1>6 DEF Good, PublishInv

LEMMA NextGood ==
  ASSUME Good, [Next]_vars
  PROVE  Good'
<1>1. Moves
  BY NextMoves
<1> QED
  BY <1>1, TypeKept, NamesKept, BaseKept, GivenKept, MergedKept, AttemptKept, ReviewKept,
     LandingsKept, CompletedKept DEF Moves, Good, PublishInv

LEMMA AlwaysGood == Spec => []Good
  BY InitGood, NextGood, PTL DEF Spec

\* The inductive invariant: rows name drafts, a draft's changes are what it was given, an attempt
\* stays on its job, draft and review, and an approval up to date covers its draft.
THEOREM PublishInvariant == Spec => []PublishInv
<1>1. Good => PublishInv
  BY DEF Good
<1> QED
  BY <1>1, AlwaysGood, PTL

\* Every table keeps its type, whatever publishes, reviews, imports and sweeps race.
THEOREM PublishTypes == Spec => []TypeOK
<1>1. Good => TypeOK
  BY DEF Good
<1> QED
  BY <1>1, AlwaysGood, PTL

\* publish and merge_mr drop no change: all a merged draft ever accepted is on main, save what
\* was withdrawn with its author's access.
THEOREM PublishLosesNothing == Spec => []NothingLost
<1>1. Good => NothingLost
  BY DEF Good, PublishInv, GivenInv, MergedInv, NothingLost
<1> QED
  BY <1>1, AlwaysGood, PTL

\* run_publish: however many requests, attempts and takeovers race for a draft, it lands once,
\* and then it is merged.
THEOREM PublishOnce == Spec => []SquashedOnce
<1>1. Good => SquashedOnce
  BY DEF Good, PublishInv
<1> QED
  BY <1>1, AlwaysGood, PTL

\* The require-up-to-date gate: a squash lands directly on the main its draft was based on.
THEOREM PublishOnBase == Spec => []LandsOnItsBase
<1>1. Good => LandsOnItsBase
  BY DEF Good, PublishInv
<1> QED
  BY <1>1, AlwaysGood, PTL

\* _require_approvals: what a review with reviewers lands is what its approval was of, though
\* merge_mr reads the review without its lock.
THEOREM ReviewBinds == Spec => []LandsWhatWasApproved
<1>1. Good => LandsWhatWasApproved
  BY DEF Good, PublishInv
<1> QED
  BY <1>1, AlwaysGood, PTL

\* uq_mr_live_source_branch: a draft has one live review at a time.
THEOREM OneLiveReview == Spec => []OneLivePR
<1>1. Good => OneLivePR
  BY DEF Good, PublishInv
<1> QED
  BY <1>1, AlwaysGood, PTL

\* run_publish: a publish job reported completed has its draft merged.
THEOREM CompletedMeansLanded == Spec => []CompletedLanded
<1>1. Good => CompletedLanded
  BY DEF Good, PublishInv
<1> QED
  BY <1>1, AlwaysGood, PTL

\* _require_no_import: a draft is not closed for publishing, or merged, under a live import.
THEOREM ImportHolds == Spec => []ImportHoldsDraft
<1>1. Good => ImportHoldsDraft
  BY DEF Good, PublishInv
<1> QED
  BY <1>1, AlwaysGood, PTL

\* _require_open: no step of any actor writes a draft that is merged or abandoned.
THEOREM ClosedDraftsInert == Spec => ClosedIsInert
<1>1. Good /\ [Next]_vars =>
        [\A d \in Drafts :
           draft[d].status \in {"merged", "abandoned"} => draft'[d] = draft[d]]_vars
  BY NextMoves, ClosedStays DEF Moves
<1> QED
  BY <1>1, AlwaysGood, PTL DEF Spec, ClosedIsInert
=============================================================================
