--------------------------- MODULE SessionRefresh ---------------------------
(***************************************************************************)
(* One browser's session, kept alive by its tabs: the silent refresh with  *)
(* its in-flight call, cross-tab lock, one retry and session-lost latch    *)
(* (fetchWithTimeout.ts), the proactive renewal (sessionKeepalive.ts), the *)
(* sign-in state and the sign-out broadcast (store/auth.ts,                *)
(* permissionChangeBus.ts), and the server's rotation of refresh tokens    *)
(* with its grace window (auth_service).                                   *)
(*                                                                         *)
(* Tokens are numbered in the order they are minted. The cookies are the   *)
(* browser's, not a tab's; the published expiry identifies its access      *)
(* token. Time is the events it brings: an access token falls due and      *)
(* expires, the grace window of a consumed refresh token closes.           *)
(***************************************************************************)
EXTENDS Integers, Sequences, FiniteSets

CONSTANTS
  Tabs, NoTab,
  Locks,        \* has the browser Web Locks?
  MaxSignIns,   \* bound: sessions signed in to
  MaxTicks,     \* bound: access tokens of a live session falling due, expiring or revoked
  MaxFaults,    \* bound: requests and answers lost or late, and pages reloaded
  MaxEnds       \* bound: sign-outs, and sessions the server ends

ASSUME SessionAssumption ==
  /\ NoTab \notin Tabs /\ Locks \in BOOLEAN
  /\ {MaxSignIns, MaxTicks, MaxFaults, MaxEnds} \subseteq Nat /\ MaxSignIns > 0

VARIABLES
  jar,        \* the cookies: nx_access (with its published expiry) and nx_refresh, 0 when absent
  lock,       \* who holds the Web Lock nx-session-refresh
  status,     \* status[t]: the auth store's
  booting,    \* booting[t]: bootstrap's GET /auth/me is not answered yet
  latch,      \* sessionLostAt # null
  asked,      \* asked[t]: a request of t on its way, with the access cookie it carries
  chain,      \* chain[t]: the refresh in flight, refreshInFlight
  joined,     \* joined[t]: a request that took a 401 waits for the refresh
  told,       \* the other tab's "signed-out" broadcast is on its way
  net,        \* /auth/refresh and /auth/logout on their way to the server, and their answers
  rows,       \* refresh_tokens, by jti
  access,     \* access tokens minted, each with a sid of its own: young, due or expired
  tombstones, \* revoked sids
  ended,      \* families past a ceiling or a revocation cutoff
  alarms,     \* families revoked as stolen (reuse_detected)
  torn,       \* a page was left during a refresh of its own, or both tries of one went unanswered:
              \*   the browser may have lost the successor of a token it still holds
  spent       \* how much of the bounds is used

tabvars == <<status, booting, latch, asked, chain, joined, told, torn>>
server == <<rows, access, tombstones, ended, alarms>>
vars == <<jar, lock, tabvars, net, server, spent>>

-----------------------------------------------------------------------------
NoCookies == [access |-> 0, refresh |-> 0]
Idle == [phase |-> "idle", before |-> 0]
Posting == {"first", "pause", "second"}
NotAsked == -1
Row(f) == [family |-> f, consumed |-> "no", successor |-> 0, revoked |-> FALSE]

\* Signed in, in every tab.
Init ==
  /\ jar = [access |-> 1, refresh |-> 1]
  /\ lock = NoTab
  /\ status = [t \in Tabs |-> "authenticated"]
  /\ booting = [t \in Tabs |-> FALSE]
  /\ latch = [t \in Tabs |-> FALSE]
  /\ asked = [t \in Tabs |-> NotAsked]
  /\ chain = [t \in Tabs |-> Idle]
  /\ joined = [t \in Tabs |-> FALSE] /\ told = [t \in Tabs |-> FALSE] /\ torn = FALSE
  /\ net = {}
  /\ rows = <<Row(1)>> /\ access = <<"young">>
  /\ tombstones = {} /\ ended = {} /\ alarms = {}
  /\ spent = [signins |-> 1, ticks |-> 0, faults |-> 0, ends |-> 0]

Spend(what, bound) == spent[what] < bound /\ spent' = [spent EXCEPT ![what] = @ + 1]

\* get_current_user, GET /auth/me: the token itself, and its sid's tombstone.
Accepts(a) == a > 0 /\ access[a] # "expired" /\ a \notin tombstones
RevokedFamily(f) == [j \in DOMAIN rows |-> IF rows[j].family = f
                                          THEN [rows[j] EXCEPT !.revoked = TRUE] ELSE rows[j]]
Alive(f) == f \notin ended /\ \E j \in DOMAIN rows : rows[j].family = f /\ ~rows[j].revoked
SessionLive == \E j \in DOMAIN rows : Alive(rows[j].family)

-----------------------------------------------------------------------------
(* The refresh: tryRefresh, refreshWithCrossTabLock, refreshChain. *)

\* One POST, with the refresh cookie as it is now.
Post(t) == [kind |-> "refresh", tab |-> t, token |-> jar.refresh, access |-> 0, live |-> TRUE]

\* notifySessionLost, and handleSessionLost with it.
MutantStaysIn(t) == status' = status
SignedOut(t) == status' = [status EXCEPT ![t] = "unauthenticated"]

\* A request of t is settled. Only the bootstrap's changes the tab's status, whatever it has become.
Settled(t, ok) ==
  /\ booting' = [booting EXCEPT ![t] = FALSE]
  /\ status' = [status EXCEPT ![t] = IF ~booting[t] THEN @
                                     ELSE IF ok THEN "authenticated" ELSE "unauthenticated"]

MutantKeepsLock(t) == lock' = lock
Release(t) == lock' = IF lock = t THEN NoTab ELSE lock

\* The end of a refresh: the lock is released, the promise resolves.
Finish(t, outcome, cookies) ==
  /\ chain' = [chain EXCEPT ![t] = Idle]
  /\ joined' = [joined EXCEPT ![t] = FALSE]
  /\ Release(t)
  /\ jar' = cookies
  /\ latch' = [latch EXCEPT ![t] = outcome # "ok" /\ (outcome = "expired" \/ @)]
  /\ IF outcome = "expired" THEN SignedOut(t) /\ booting' = [booting EXCEPT ![t] = @ /\ ~joined[t]]
     ELSE IF joined[t] THEN Settled(t, outcome = "ok" /\ Accepts(cookies.access))
          ELSE UNCHANGED <<status, booting>>

\* tryRefresh: joins the refresh in flight, or starts one.
TryRefresh(t, call) ==
  /\ joined' = [joined EXCEPT ![t] = @ \/ call]
  /\ IF chain[t].phase # "idle" THEN UNCHANGED <<chain, net>>
     ELSE IF Locks THEN /\ chain' = [chain EXCEPT ![t] = [phase |-> "queued", before |-> jar.access]]
                        /\ UNCHANGED net
          ELSE /\ chain' = [chain EXCEPT ![t] = [phase |-> "first", before |-> jar.access]]
               /\ net' = net \cup {Post(t)}

\* The lock is ours: a moved expiry means another tab did it.
Moved(t) == jar.access > 0 /\ jar.access # chain[t].before
Free == lock = NoTab
Acquire(t) ==
  /\ chain[t].phase = "queued" /\ Free
  /\ IF Moved(t)
     THEN Finish(t, "ok", jar) /\ UNCHANGED net
     ELSE /\ lock' = t
          /\ chain' = [chain EXCEPT ![t].phase = "first"]
          /\ net' = net \cup {Post(t)}
          /\ UNCHANGED <<jar, status, booting, latch, joined>>
  /\ UNCHANGED <<asked, told, torn, server, spent>>

\* No answer: one retry, after a pause.
Waiting(t) == {m \in net : m.tab = t /\ m.live /\ m.kind \in {"refresh", "rotated", "refused"}}
MutantGivesUp(t) ==
  chain[t].phase \in {"first", "second"} /\ Finish(t, "expired", jar) /\ UNCHANGED torn
NoAnswer(t) ==
  \/ /\ chain[t].phase = "first"
     /\ chain' = [chain EXCEPT ![t].phase = "pause"]
     /\ UNCHANGED <<jar, lock, status, booting, latch, joined, torn>>
  \/ /\ chain[t].phase = "second"
     /\ Finish(t, "retryable", jar)
     /\ torn' = TRUE

\* Nobody waits for these any more: the requests among them may still be served.
Unheard(ms) == (net \ ms) \cup
  {[m EXCEPT !.live = FALSE] : m \in {q \in ms : q.kind \in {"refresh", "logout"}}}

\* The request never arrives, is refused by a limiter or a server error, or its answer is lost.
Lose(t) ==
  /\ \E m \in Waiting(t) : net' = net \ {m}
  /\ Spend("faults", MaxFaults)
  /\ NoAnswer(t)
  /\ UNCHANGED <<asked, told, server>>

\* REFRESH_TIMEOUT_MS: the fetch is aborted; the server may still serve the request.
Abort(t) ==
  /\ \E m \in Waiting(t) : m.kind = "refresh" /\ net' = Unheard({m})
  /\ Spend("faults", MaxFaults)
  /\ NoAnswer(t)
  /\ UNCHANGED <<asked, told, server>>

Retry(t) ==
  /\ chain[t].phase = "pause"
  /\ chain' = [chain EXCEPT ![t].phase = "second"]
  /\ net' = net \cup {Post(t)}
  /\ UNCHANGED <<jar, lock, status, booting, latch, asked, joined, told, torn, server, spent>>

\* The answer: its cookies go in the jar, or it clears them.
Cookies(m) == IF m.kind = "rotated" THEN [access |-> m.access, refresh |-> m.token] ELSE NoCookies
Answered(t) ==
  /\ \E m \in Waiting(t) :
       /\ m.kind # "refresh"
       /\ net' = net \ {m}
       /\ Finish(t, IF m.kind = "rotated" THEN "ok" ELSE "expired", Cookies(m))
  /\ UNCHANGED <<asked, told, torn, server, spent>>

-----------------------------------------------------------------------------
(* The tab: requests, proactive renewal, sign-in, sign-out, reload. *)

\* A request leaves with the cookies of the moment; bootstrap's GET /auth/me is the first.
Ask(t) ==
  /\ asked[t] = NotAsked /\ ~joined[t]
  /\ booting[t] \/ (status[t] = "authenticated" /\ ~Accepts(jar.access))
  /\ asked' = [asked EXCEPT ![t] = jar.access]
  /\ UNCHANGED <<jar, lock, status, booting, latch, chain, joined, told, torn, net, server, spent>>

\* Its answer: on a 401 the tab refreshes, unless the session is known to be gone.
Reply(t) ==
  /\ asked[t] # NotAsked
  /\ asked' = [asked EXCEPT ![t] = NotAsked]
  /\ \/ Accepts(asked[t]) /\ Settled(t, TRUE) /\ UNCHANGED <<chain, joined, net>>
     \/ /\ ~Accepts(asked[t]) /\ latch[t]
        /\ SignedOut(t) /\ booting' = [booting EXCEPT ![t] = FALSE]
        /\ UNCHANGED <<chain, joined, net>>
     \/ ~Accepts(asked[t]) /\ ~latch[t] /\ TryRefresh(t, TRUE) /\ UNCHANGED <<status, booting>>
  /\ UNCHANGED <<jar, lock, latch, told, torn, server, spent>>

\* No answer, or a server error. Bootstrap takes any failure for no session.
Unanswered(t) ==
  /\ asked[t] # NotAsked /\ Spend("faults", MaxFaults)
  /\ asked' = [asked EXCEPT ![t] = NotAsked]
  /\ Settled(t, FALSE)
  /\ UNCHANGED <<jar, lock, latch, chain, joined, told, torn, net, server>>

\* The keepalive's timer: the published expiry is near, or past. When it fires is not settled: a
\* reload, a probe interval or a hidden tab puts it off by half a minute or more.
Due == jar.access > 0 /\ access[jar.access] # "young"
Renew(t) ==
  /\ status[t] = "authenticated" /\ chain[t].phase = "idle" /\ ~latch[t] /\ Due
  /\ TryRefresh(t, FALSE)
  /\ UNCHANGED <<jar, lock, status, booting, latch, asked, told, torn, server, spent>>

\* logout: POST /auth/logout with both cookies, outside the refresh lock.
Logout(t) ==
  /\ status[t] = "authenticated" /\ Spend("ends", MaxEnds)
  /\ \A m \in net : m.kind \notin {"logout", "cleared"}
  /\ net' = net \cup {[kind |-> "logout", tab |-> t, token |-> jar.refresh, access |-> jar.access,
                       live |-> TRUE]}
  /\ UNCHANGED <<jar, lock, tabvars, server>>

\* Answered or not, the tab is signed out and tells the others. (MaxEnds bounds this fault.)
LogoutDone(t) ==
  /\ \E m \in net :
       /\ m.tab = t /\ m.kind \in {"logout", "cleared"} /\ m.live
       /\ \/ m.kind = "cleared" /\ net' = net \ {m} /\ jar' = NoCookies /\ UNCHANGED spent
          \/ net' = Unheard({m}) /\ spent' = [spent EXCEPT !.faults = @ + 1] /\ UNCHANGED jar
  /\ SignedOut(t)
  /\ told' = [u \in Tabs |-> u # t]
  /\ UNCHANGED <<lock, booting, latch, asked, chain, joined, torn, server>>

SignOutLocal(t) ==
  /\ told[t]
  /\ told' = [told EXCEPT ![t] = FALSE]
  /\ SignedOut(t)
  /\ UNCHANGED <<jar, lock, booting, latch, asked, chain, joined, torn, net, server, spent>>

\* A sign-in: a family of its own. (The round trip is one step.)
Login(t) ==
  /\ status[t] = "unauthenticated" /\ Spend("signins", MaxSignIns)
  /\ rows' = Append(rows, Row(spent.signins + 1))
  /\ access' = Append(access, "young")
  /\ jar' = [access |-> Len(access) + 1, refresh |-> Len(rows) + 1]
  /\ status' = [status EXCEPT ![t] = "authenticated"]
  /\ latch' = [latch EXCEPT ![t] = FALSE]
  /\ UNCHANGED <<lock, booting, asked, chain, joined, told, torn, net, tombstones, ended, alarms>>

\* A reload: module state and calls in flight go, the cookies stay, the page boots, showing the
\* cached user of a signed-in tab meanwhile.
Reload(t) ==
  /\ Spend("faults", MaxFaults)
  /\ torn' = (torn \/ chain[t].phase \in Posting)
  /\ status' = [status EXCEPT ![t] = IF @ = "authenticated" THEN @ ELSE "loading"]
  /\ booting' = [booting EXCEPT ![t] = TRUE]
  /\ latch' = [latch EXCEPT ![t] = FALSE]
  /\ asked' = [asked EXCEPT ![t] = NotAsked]
  /\ chain' = [chain EXCEPT ![t] = Idle]
  /\ joined' = [joined EXCEPT ![t] = FALSE] /\ told' = [told EXCEPT ![t] = FALSE]
  /\ Release(t)
  /\ net' = Unheard({m \in net : m.tab = t})
  /\ UNCHANGED <<jar, server>>

-----------------------------------------------------------------------------
(* The server. *)

\* A fresh access token rides with the refresh token numbered j.
MutantAccessAhead(m, j) == [m EXCEPT !.kind = "rotated", !.token = j, !.access = Len(access) + 2]
Rotated(m, j) == [m EXCEPT !.kind = "rotated", !.token = j, !.access = Len(access) + 1]
Refused(m) == [m EXCEPT !.kind = "refused"]
Answer(m, a) == net' = (net \ {m}) \cup {x \in {a} : m.live}

\* consume: the conditional update, on the row as it is now.
MutantConsumesTwice(j) == ~rows[j].revoked
Consumable(j) == rows[j].consumed = "no" /\ ~rows[j].revoked
\* Consumed a moment ago: a racer or a retry, answered with the successor already minted.
MutantNoGrace(j) == FALSE
InGrace(j) == rows[j].consumed = "justnow" /\ ~rows[j].revoked

\* claimed: the row is consumed and its successor's is written, in one transaction.
Claim(m) ==
  /\ m.kind = "refresh" /\ m.token > 0 /\ Consumable(m.token) /\ rows[m.token].family \notin ended
  /\ rows' = Append([rows EXCEPT ![m.token].consumed = "justnow",
                                 ![m.token].successor = Len(rows) + 1],
                    Row(rows[m.token].family))
  /\ access' = Append(access, "young")
  /\ Answer(m, Rotated(m, Len(rows) + 1))
  /\ UNCHANGED <<tombstones, ended, alarms>>

Replay(m) ==
  /\ m.kind = "refresh" /\ m.token > 0 /\ ~Consumable(m.token) /\ InGrace(m.token)
  /\ rows[m.token].family \notin ended
  /\ access' = Append(access, "young")
  /\ Answer(m, Rotated(m, rows[m.token].successor))
  /\ UNCHANGED <<rows, tombstones, ended, alarms>>

\* A session past a ceiling or cutoff, or an old token presented again: the family is revoked,
\* in a transaction of its own.
Reuse(j) == ~Consumable(j) /\ ~InGrace(j) /\ ~rows[j].revoked
Reject(m) ==
  /\ m.kind = "refresh" /\ m.token > 0
  /\ LET f == rows[m.token].family
     IN  /\ Reuse(m.token) \/ (f \in ended /\ ~rows[m.token].revoked)
         /\ rows' = RevokedFamily(f)
         /\ alarms' = IF Reuse(m.token) THEN alarms \cup {f} ELSE alarms
  /\ Answer(m, Refused(m))
  /\ UNCHANGED <<access, tombstones, ended>>

\* No cookie, or a family already revoked: refused, and the cookies cleared.
Unknown(m) ==
  /\ m.kind = "refresh" /\ (m.token > 0 => rows[m.token].revoked)
  /\ Answer(m, Refused(m))
  /\ UNCHANGED server

\* svc.logout: the sid is tombstoned, the family revoked, the cookies cleared.
ServeLogout(m) ==
  /\ m.kind = "logout"
  /\ tombstones' = IF Accepts(m.access) THEN tombstones \cup {m.access} ELSE tombstones
  /\ rows' = IF m.token > 0 THEN RevokedFamily(rows[m.token].family) ELSE rows
  /\ Answer(m, [m EXCEPT !.kind = "cleared"])
  /\ UNCHANGED <<access, ended, alarms>>

Serve(m) ==
  /\ Claim(m) \/ Replay(m) \/ Reject(m) \/ Unknown(m) \/ ServeLogout(m)
  /\ UNCHANGED <<jar, lock, tabvars, spent>>

\* Time passes for the access token in the jar. (Bounded while its session can be renewed.)
Tick ==
  /\ jar.access > 0 /\ access[jar.access] # "expired"
  /\ IF SessionLive THEN Spend("ticks", MaxTicks) ELSE UNCHANGED spent
  /\ access' = [access EXCEPT ![jar.access] = IF @ = "young" THEN "due" ELSE "expired"]
  /\ UNCHANGED <<jar, lock, tabvars, net, rows, tombstones, ended, alarms>>

\* A role change tombstones the sid: the next request renews, with new claims.
RoleChange ==
  /\ Accepts(jar.access) /\ SessionLive /\ Spend("ticks", MaxTicks)
  /\ tombstones' = tombstones \cup {jar.access}
  /\ UNCHANGED <<jar, lock, tabvars, net, rows, access, ended, alarms>>

\* The grace window (30 s) closes. It outlives a request on its way and the one retry behind it: a
\* POST is given up after 20 s, and the retry leaves within the next 5. A free lock is granted at
\* once. It waits for no timer and no boot: whoever else presents the token may come late.
Refreshing(j) ==
  \/ \E m \in net : m.kind = "refresh" /\ m.token = j
  \/ /\ jar.refresh = j
     /\ \E t \in Tabs : \/ chain[t].phase \in {"first", "pause"}
                        \/ chain[t].phase = "queued" /\ Free
\* (A token no cookie and no message holds is never presented again.)
Held(j) == jar.refresh = j \/ \E m \in net : m.token = j
GraceEnds(j) ==
  /\ rows[j].consumed = "justnow" /\ Held(j) /\ ~Refreshing(j)
  /\ rows' = [rows EXCEPT ![j].consumed = "longago"]
  /\ UNCHANGED <<jar, lock, tabvars, net, access, tombstones, ended, alarms, spent>>

\* The account is disabled, its sessions revoked, or a ceiling passes.
EndSession(f) ==
  /\ Alive(f) /\ Spend("ends", MaxEnds)
  /\ ended' = ended \cup {f}
  /\ UNCHANGED <<jar, lock, tabvars, net, rows, access, tombstones, alarms>>

-----------------------------------------------------------------------------
Next ==
  \/ \E t \in Tabs : \/ Acquire(t) \/ Lose(t) \/ Abort(t) \/ Retry(t) \/ Answered(t)
                     \/ Ask(t) \/ Reply(t) \/ Unanswered(t) \/ Renew(t)
                     \/ Logout(t) \/ LogoutDone(t) \/ SignOutLocal(t) \/ Login(t) \/ Reload(t)
  \/ \E m \in net : Serve(m)
  \/ Tick \/ RoleChange
  \/ \E j \in DOMAIN rows : GraceEnds(j)
  \/ \E f \in 1 .. MaxSignIns : EndSession(f)

Spec == Init /\ [][Next]_vars

(* Fairness: time passes, the server serves, a tab runs its timers and continuations. Ask is     *)
(* fair because a tab in view polls its permissions every minute, and on coming back into view   *)
(* (permissionPoller.ts); a tab that stays hidden for ever is outside what is claimed.           *)
FairSpec ==
  /\ Spec
  /\ WF_vars(Tick) /\ WF_vars(\E m \in net : Serve(m))
  /\ \A t \in Tabs :
       /\ WF_vars(Acquire(t)) /\ WF_vars(Retry(t)) /\ WF_vars(Answered(t))
       /\ WF_vars(Reply(t)) /\ WF_vars(Renew(t))
       /\ WF_vars(LogoutDone(t)) /\ WF_vars(SignOutLocal(t))
       /\ WF_vars(Ask(t))

-----------------------------------------------------------------------------
(* Properties. *)

Tokens == 0 .. Len(rows)
\* The state has its types.
TypeOK ==
  /\ jar \in [access : 0 .. Len(access), refresh : Tokens]
  /\ lock \in Tabs \cup {NoTab}
  /\ status \in [Tabs -> {"loading", "authenticated", "unauthenticated"}]
  /\ {booting, latch, joined, told} \subseteq [Tabs -> BOOLEAN] /\ torn \in BOOLEAN
  /\ asked \in [Tabs -> {NotAsked} \cup 0 .. Len(access)]
  /\ chain \in [Tabs -> [phase : {"idle", "queued", "first", "pause", "second"},
                         before : 0 .. Len(access)]]
  /\ net \subseteq [kind : {"refresh", "rotated", "refused", "logout", "cleared"}, tab : Tabs,
                    token : Tokens, access : 0 .. Len(access), live : BOOLEAN]
  /\ rows \in Seq([family : 1 .. MaxSignIns, consumed : {"no", "justnow", "longago"},
                   successor : Tokens, revoked : BOOLEAN])
  /\ access \in Seq({"young", "due", "expired"})
  /\ tombstones \subseteq 1 .. Len(access)
  /\ ended \cup alarms \subseteq 1 .. MaxSignIns
  /\ spent \in [{"signins", "ticks", "faults", "ends"} -> Nat]

\* A family has one token to rotate: however many tabs and retries present it, consume lets one of
\* them through, and the others converge on its successor.
OneActiveToken ==
  \A i, j \in DOMAIN rows :
    /\ rows[i].consumed = "no" /\ rows[j].consumed = "no" /\ ~rows[i].revoked /\ ~rows[j].revoked
    /\ rows[i].family = rows[j].family
    => i = j

\* Reuse detection does not fire on the browser's own tabs: racing tabs, a lost or late answer and
\* its retry, a request served after its tab gave it up, a late 401 are told from a stolen token.
\* (Until somebody signs out or the server ends a session. torn: a page left during a refresh, or two
\* tries unanswered, loses the successor, and the next renewal may come after the grace window.)
NoFalseAlarm == alarms # {} => torn \/ spent.ends > 0

\* What refresh.py:20-23 says: a rotation whose Set-Cookie never reached the browser is no attack.
\* (The code breaks it: FindReload.cfg.)
NoneIsAnAttack == alarms # {} => spent.ends > 0

\* A signed-in tab loses its session only once somebody signs out or the server ends it: no lost
\* answer, race or role change does it. (A boot may: bootstrap takes any failure for no session.)
StaysSignedIn ==
  [][\A t \in Tabs : status[t] = "authenticated" /\ ~booting[t] /\ status'[t] = "unauthenticated"
       => spent.ends > 0 \/ torn]_vars

\* A refresh ends, and with it every request that waits for it.
RefreshEnds == \A t \in Tabs : chain[t].phase # "idle" ~> chain[t].phase = "idle"

\* Once no session is left, every tab that is looked at finds out, whichever of them asked first and
\* took the cookies away.
EndReachesEveryTab ==
  ~SessionLive ~> (SessionLive \/ \A t \in Tabs : status[t] = "unauthenticated")

-----------------------------------------------------------------------------
(* The inductive strengthening of OneActiveToken, NoFalseAlarm and         *)
(* StaysSignedIn                                                           *)

\* A family is as old as its sign-in.
FamilyInv == \A j \in DOMAIN rows : rows[j].family <= spent.signins

Undisturbed == ~torn /\ spent.ends = 0

\* Nothing has ended the session, and nothing that would is on its way.
LiveInv ==
  /\ ended = {} /\ alarms = {} /\ \A j \in DOMAIN rows : ~rows[j].revoked
  /\ jar.refresh > 0 /\ jar.access > 0
  /\ \A t \in Tabs : ~latch[t] /\ ~told[t]
  /\ \A m \in net : /\ m.kind \in {"refresh", "rotated"} /\ m.token > 0
                    /\ m.kind = "rotated" => m.live /\ m.access > 0

\* The tab that holds the lock is the one that posts, and waits for one answer at a time.
LockInv ==
  /\ \A t \in Tabs : /\ chain[t].phase \in Posting => lock = t
                     /\ chain[t].phase = "idle" => ~joined[t]
  /\ \A m \in net : m.live => lock = m.tab /\ chain[m.tab].phase \in {"first", "second"}
  /\ \A m, n \in net : m.live /\ n.live => m = n

\* A token nobody has presented yet, nor can: it is not in the jar.
Unused(s) ==
  /\ s \in DOMAIN rows /\ rows[s].consumed = "no" /\ s # jar.refresh
  /\ \A m \in net : m.kind = "refresh" => m.token # s

\* What is or may be presented is inside its grace window, and the answer a tab can get, or has
\* got, is a token still unused.
TokenInv ==
  /\ \A m \in net : m.kind = "refresh" => rows[m.token].consumed # "longago"
  /\ rows[jar.refresh].consumed = "justnow" => Unused(rows[jar.refresh].successor)
  /\ \A m \in net : /\ m.live /\ m.kind = "refresh" /\ rows[m.token].consumed = "justnow" =>
                         Unused(rows[m.token].successor)
                    /\ m.kind = "rotated" => Unused(m.token)

\* The token in the jar has been presented, or is on its way: by the tab that waits for its answer.
\* Only a second try may see the window close behind it.
Presented == \/ rows[jar.refresh].consumed # "no"
             \/ \E m \in net : m.kind = "refresh" /\ m.token = jar.refresh
ChaseInv ==
  /\ Presented => \E t \in Tabs : chain[t].phase \in Posting
  /\ rows[jar.refresh].consumed = "longago" => \E t \in Tabs : chain[t].phase = "second"

RefreshInv == Undisturbed => LiveInv /\ LockInv /\ TokenInv /\ ChaseInv
=============================================================================
