------------------------ MODULE SessionRefreshProofs ------------------------
(***************************************************************************)
(* Proofs about SessionRefresh, for every number of tabs and every bound.  *)
(***************************************************************************)
EXTENDS SessionRefresh, SequenceTheorems, TLAPS

-----------------------------------------------------------------------------
(* The types, with the number n of refresh tokens and k of access tokens   *)

Jars(n, k) == [access : 0 .. k, refresh : 0 .. n]
Phases == {"idle", "queued", "first", "pause", "second"}
Chain(k) == [phase : Phases, before : 0 .. k]
Kinds == {"refresh", "rotated", "refused", "logout", "cleared"}
Message(n, k) == [kind : Kinds, tab : Tabs, token : 0 .. n, access : 0 .. k, live : BOOLEAN]
Token(n) == [family : 1 .. MaxSignIns, consumed : {"no", "justnow", "longago"},
             successor : 0 .. n, revoked : BOOLEAN]
Ages == {"young", "due", "expired"}
Statuses == {"loading", "authenticated", "unauthenticated"}
Flags == [Tabs -> BOOLEAN]
Spents == [{"signins", "ticks", "faults", "ends"} -> Nat]

LEMMA TypeParts ==
  LET n == Len(rows)
      k == Len(access) IN
  TypeOK <=> /\ jar \in Jars(n, k) /\ lock \in Tabs \cup {NoTab} /\ status \in [Tabs -> Statuses]
             /\ booting \in Flags /\ latch \in Flags /\ joined \in Flags /\ told \in Flags
             /\ torn \in BOOLEAN
             /\ asked \in [Tabs -> {NotAsked} \cup 0 .. k] /\ chain \in [Tabs -> Chain(k)]
             /\ net \subseteq Message(n, k)
             /\ rows \in Seq(Token(n)) /\ access \in Seq(Ages) /\ tombstones \subseteq 1 .. k
             /\ ended \subseteq 1 .. MaxSignIns /\ alarms \subseteq 1 .. MaxSignIns
             /\ spent \in Spents
  BY DEF TypeOK, Tokens, Jars, Chain, Phases, Message, Kinds, Flags, Statuses, Token, Ages, Spents

\* The same, a step later.
LEMMA TypePartsNext ==
  LET n == Len(rows')
      k == Len(access') IN
  TypeOK' <=> /\ jar' \in Jars(n, k) /\ lock' \in Tabs \cup {NoTab}
              /\ status' \in [Tabs -> Statuses]
              /\ booting' \in Flags /\ latch' \in Flags /\ joined' \in Flags /\ told' \in Flags
              /\ torn' \in BOOLEAN
              /\ asked' \in [Tabs -> {NotAsked} \cup 0 .. k] /\ chain' \in [Tabs -> Chain(k)]
              /\ net' \subseteq Message(n, k)
              /\ rows' \in Seq(Token(n)) /\ access' \in Seq(Ages) /\ tombstones' \subseteq 1 .. k
              /\ ended' \subseteq 1 .. MaxSignIns /\ alarms' \subseteq 1 .. MaxSignIns
              /\ spent' \in Spents
  BY DEF TypeOK, Tokens, Jars, Chain, Phases, Message, Kinds, Flags, Statuses, Token, Ages, Spents

LEMMA Lengths ==
  ASSUME TypeOK
  PROVE  /\ Len(rows) \in Nat /\ Len(access) \in Nat
         /\ DOMAIN rows = 1 .. Len(rows) /\ DOMAIN access = 1 .. Len(access)
         /\ rows \in [1 .. Len(rows) -> Token(Len(rows))]
         /\ access \in [1 .. Len(access) -> Ages]
  BY TypeParts, LenProperties

LEMMA TokenGrows ==
  ASSUME NEW n \in Nat, NEW m \in Nat, n <= m
  PROVE  Token(n) \subseteq Token(m)
<1>1. 0 .. n \subseteq 0 .. m
  OBVIOUS
<1> QED
  BY <1>1 DEF Token

LEMMA MessageGrows ==
  ASSUME NEW n \in Nat, NEW m \in Nat, NEW k \in Nat, NEW l \in Nat, n <= m, k <= l
  PROVE  /\ Message(n, k) \subseteq Message(m, l) /\ Chain(k) \subseteq Chain(l)
         /\ Jars(n, k) \subseteq Jars(m, l)
<1>1. 0 .. n \subseteq 0 .. m /\ 0 .. k \subseteq 0 .. l
  OBVIOUS
<1> QED
  BY <1>1 DEF Message, Chain, Jars

\* A function on 1 .. n is a sequence of length n.
LEMMA FunctionSeq ==
  ASSUME NEW S, NEW n \in Nat, NEW f \in [1 .. n -> S]
  PROVE  f \in Seq(S) /\ Len(f) = n
<1>1. f \in Seq(S)
  BY SeqDef
<1>2. Len(f) \in Nat /\ 1 .. Len(f) = 1 .. n
  BY <1>1, LenProperties
<1>3. ASSUME NEW a \in Nat, NEW b \in Nat, a < b, 1 .. a = 1 .. b PROVE FALSE
  <2>1. b \in 1 .. b /\ b \notin 1 .. a
    BY <1>3
  <2> QED
    BY <1>3, <2>1
<1> QED
  BY <1>1, <1>2, <1>3

-----------------------------------------------------------------------------
(* What the shared parts of the actions write                              *)

LEMMA PostType ==
  ASSUME TypeOK, NEW t \in Tabs
  PROVE  Post(t) \in Message(Len(rows), Len(access))
<1>1. PICK n \in Nat, k \in Nat : n = Len(rows) /\ k = Len(access)
  BY Lengths
<1>2. jar \in [access : 0 .. k, refresh : 0 .. n]
  BY <1>1, TypeParts DEF Jars
<1>3. jar.refresh \in 0 .. n /\ 0 \in 0 .. k
  BY <1>2
<1> QED
  BY <1>1, <1>3 DEF Post, Message, Kinds

LEMMA SettledTypes ==
  ASSUME TypeOK, NEW t \in Tabs, NEW ok \in BOOLEAN, Settled(t, ok)
  PROVE  booting' \in Flags /\ status' \in [Tabs -> Statuses]
<1>1. booting \in Flags /\ status \in [Tabs -> Statuses]
  BY TypeParts
<1>2. PICK s \in Statuses : s = IF ~booting[t] THEN status[t]
                                ELSE IF ok THEN "authenticated" ELSE "unauthenticated"
  BY <1>1 DEF Statuses
<1>3. status' = [status EXCEPT ![t] = s] /\ booting' = [booting EXCEPT ![t] = FALSE]
  BY <1>2 DEF Settled
<1> QED
  BY <1>1, <1>2, <1>3 DEF Flags

LEMMA FinishTypes ==
  ASSUME TypeOK, NEW t \in Tabs, NEW outcome, NEW cookies \in Jars(Len(rows), Len(access)),
         Finish(t, outcome, cookies)
  PROVE  /\ chain' \in [Tabs -> Chain(Len(access))] /\ joined' \in Flags /\ latch' \in Flags
         /\ lock' \in Tabs \cup {NoTab} /\ jar' \in Jars(Len(rows), Len(access))
         /\ status' \in [Tabs -> Statuses] /\ booting' \in Flags
<1>0. PICK n \in Nat, k \in Nat : n = Len(rows) /\ k = Len(access)
  BY Lengths
<1>1. /\ chain \in [Tabs -> Chain(k)] /\ joined \in Flags /\ latch \in Flags /\ booting \in Flags
      /\ lock \in Tabs \cup {NoTab} /\ status \in [Tabs -> Statuses]
  BY <1>0, TypeParts
<1>2. Idle \in Chain(k)
  BY <1>0 DEF Idle, Chain, Phases
<1>3. chain' \in [Tabs -> Chain(k)] /\ joined' \in Flags
  <2>1. chain' = [chain EXCEPT ![t] = Idle] /\ joined' = [joined EXCEPT ![t] = FALSE]
    BY DEF Finish
  <2> QED
    BY <1>1, <1>2, <2>1 DEF Flags
<1>4. lock' \in Tabs \cup {NoTab} /\ jar' \in Jars(Len(rows), Len(access))
  BY <1>1 DEF Finish, Release
<1>5. latch' \in Flags
  <2>1. PICK b \in BOOLEAN : b = (outcome # "ok" /\ (outcome = "expired" \/ latch[t]))
    BY <1>1 DEF Flags
  <2>2. latch' = [latch EXCEPT ![t] = b]
    BY <2>1 DEF Finish
  <2> QED
    BY <1>1, <2>1, <2>2 DEF Flags
<1>6. status' \in [Tabs -> Statuses] /\ booting' \in Flags
  <2>1. CASE outcome = "expired"
    <3>1. PICK b \in BOOLEAN : b = (booting[t] /\ ~joined[t])
      BY <1>1 DEF Flags
    <3>2. status' = [status EXCEPT ![t] = "unauthenticated"] /\ booting' = [booting EXCEPT ![t] = b]
      BY <2>1, <3>1 DEF Finish, SignedOut
    <3>3. "unauthenticated" \in Statuses
      BY DEF Statuses
    <3> QED
      BY <1>1, <3>1, <3>2, <3>3 DEF Flags
  <2>2. CASE outcome # "expired" /\ joined[t]
    <3>1. PICK b \in BOOLEAN : b = (outcome = "ok" /\ Accepts(cookies.access))
      OBVIOUS
    <3>2. Settled(t, b)
      BY <2>2, <3>1 DEF Finish
    <3> QED
      BY <3>2, SettledTypes
  <2>3. CASE outcome # "expired" /\ ~joined[t]
    BY <1>1, <2>3 DEF Finish
  <2> QED
    BY <2>1, <2>2, <2>3
<1> QED
  BY <1>0, <1>3, <1>4, <1>5, <1>6

LEMMA TryTypes ==
  ASSUME TypeOK, NEW t \in Tabs, NEW call \in BOOLEAN, TryRefresh(t, call)
  PROVE  /\ chain' \in [Tabs -> Chain(Len(access))] /\ joined' \in Flags
         /\ net' \subseteq Message(Len(rows), Len(access))
<1>0. PICK n \in Nat, k \in Nat : n = Len(rows) /\ k = Len(access)
  BY Lengths
<1>1. /\ chain \in [Tabs -> Chain(k)] /\ joined \in Flags /\ net \subseteq Message(n, k)
      /\ jar \in [access : 0 .. k, refresh : 0 .. n]
  BY <1>0, TypeParts DEF Jars
<1>2. joined' \in Flags
  <2>1. PICK b \in BOOLEAN : b = (joined[t] \/ call)
    BY <1>1 DEF Flags
  <2>2. joined' = [joined EXCEPT ![t] = b]
    BY <2>1 DEF TryRefresh
  <2> QED
    BY <1>1, <2>1, <2>2 DEF Flags
<1>3. jar.access \in 0 .. k
  BY <1>1
<1>4. /\ [phase |-> "queued", before |-> jar.access] \in Chain(k)
      /\ [phase |-> "first", before |-> jar.access] \in Chain(k)
  BY <1>3 DEF Chain, Phases
<1>5. Post(t) \in Message(n, k)
  BY <1>0, PostType
<1>6. chain' \in [Tabs -> Chain(k)] /\ net' \subseteq Message(n, k)
  BY <1>1, <1>4, <1>5 DEF TryRefresh
<1> QED
  BY <1>0, <1>2, <1>6

LEMMA UnheardType ==
  ASSUME TypeOK, NEW ms \in SUBSET net
  PROVE  Unheard(ms) \subseteq Message(Len(rows), Len(access))
<1>0. PICK n \in Nat, k \in Nat : n = Len(rows) /\ k = Len(access)
  BY Lengths
<1>1. net \subseteq Message(n, k)
  BY <1>0, TypeParts
<1>2. ASSUME NEW m \in net PROVE [m EXCEPT !.live = FALSE] \in Message(n, k)
  <2>1. m \in Message(n, k)
    BY <1>1
  <2> QED
    BY <2>1 DEF Message
<1> QED
  BY <1>0, <1>1, <1>2 DEF Unheard

\* The bounds only count up.
LEMMA SpendType ==
  ASSUME TypeOK, NEW what \in {"signins", "ticks", "faults", "ends"}, NEW bound, Spend(what, bound)
  PROVE  spent' \in Spents
<1>1. spent \in Spents
  BY TypeParts
<1>2. PICK n \in Nat : n = spent[what] + 1
  BY <1>1 DEF Spents
<1>3. spent' = [spent EXCEPT ![what] = n]
  BY <1>2 DEF Spend
<1> QED
  BY <1>1, <1>2, <1>3 DEF Spents

-----------------------------------------------------------------------------
(* Every action keeps the types                                            *)

\* A step of the browser mints nothing.
LEMMA BrowserTyped ==
  ASSUME TypeOK, UNCHANGED server,
         jar' \in Jars(Len(rows), Len(access)), lock' \in Tabs \cup {NoTab},
         status' \in [Tabs -> Statuses], booting' \in Flags, latch' \in Flags, joined' \in Flags,
         told' \in Flags, torn' \in BOOLEAN,
         asked' \in [Tabs -> {NotAsked} \cup 0 .. Len(access)], chain' \in [Tabs -> Chain(Len(access))],
         net' \subseteq Message(Len(rows), Len(access)), spent' \in Spents
  PROVE  TypeOK'
  BY TypeParts, TypePartsNext DEF server

LEMMA NoAnswerTypes ==
  ASSUME TypeOK, NEW t \in Tabs, NoAnswer(t)
  PROVE  /\ chain' \in [Tabs -> Chain(Len(access))] /\ joined' \in Flags /\ latch' \in Flags
         /\ lock' \in Tabs \cup {NoTab} /\ jar' \in Jars(Len(rows), Len(access))
         /\ status' \in [Tabs -> Statuses] /\ booting' \in Flags /\ torn' \in BOOLEAN
<1>1. CASE chain[t].phase = "second" /\ Finish(t, "retryable", jar) /\ torn' = TRUE
  <2>1. jar \in Jars(Len(rows), Len(access))
    BY TypeParts
  <2> QED
    BY <1>1, <2>1, FinishTypes
<1>2. CASE /\ chain' = [chain EXCEPT ![t].phase = "pause"]
           /\ UNCHANGED <<jar, lock, status, booting, latch, joined, torn>>
  <2>1. PICK c \in Chain(Len(access)) : c = chain[t]
    BY TypeParts
  <2>2. [c EXCEPT !.phase = "pause"] \in Chain(Len(access))
    BY <2>1 DEF Chain, Phases
  <2>3. chain' = [chain EXCEPT ![t] = [c EXCEPT !.phase = "pause"]]
    BY <1>2, <2>1
  <2> QED
    BY <1>2, <2>2, <2>3, TypeParts
<1> QED
  BY <1>1, <1>2 DEF NoAnswer

LEMMA AcquireTyped ==
  ASSUME TypeOK, NEW t \in Tabs, Acquire(t)
  PROVE  TypeOK'
<1>1. jar \in Jars(Len(rows), Len(access)) /\ net \subseteq Message(Len(rows), Len(access))
  BY TypeParts
<1>2. CASE Moved(t)
  BY <1>1, <1>2, FinishTypes, BrowserTyped, TypeParts DEF Acquire
<1>3. CASE ~Moved(t)
  <2>1. PICK c \in Chain(Len(access)) : c = chain[t]
    BY TypeParts
  <2>2. [c EXCEPT !.phase = "first"] \in Chain(Len(access))
    BY <2>1 DEF Chain, Phases
  <2>3. chain' = [chain EXCEPT ![t] = [c EXCEPT !.phase = "first"]]
    BY <1>3, <2>1 DEF Acquire
  <2>4. chain' \in [Tabs -> Chain(Len(access))]
    BY <2>2, <2>3, TypeParts
  <2> QED
    BY <1>1, <1>3, <2>4, PostType, BrowserTyped, TypeParts DEF Acquire
<1> QED
  BY <1>2, <1>3

LEMMA LoseTyped ==
  ASSUME TypeOK, NEW t \in Tabs, Lose(t) \/ Abort(t)
  PROVE  TypeOK'
<1>1. spent' \in Spents
  BY SpendType DEF Lose, Abort
<1>2. net' \subseteq Message(Len(rows), Len(access))
  <2>1. net \subseteq Message(Len(rows), Len(access))
    BY TypeParts
  <2>2. \E m \in net : net' = net \ {m} \/ net' = Unheard({m})
    BY DEF Lose, Abort, Waiting
  <2> QED
    BY <2>1, <2>2, UnheardType
<1>3. NoAnswer(t) /\ UNCHANGED <<asked, told, server>>
  BY DEF Lose, Abort
<1> QED
  BY <1>1, <1>2, <1>3, NoAnswerTypes, BrowserTyped, TypeParts

LEMMA RetryTyped ==
  ASSUME TypeOK, NEW t \in Tabs, Retry(t)
  PROVE  TypeOK'
<1>1. PICK c \in Chain(Len(access)) : c = chain[t]
  BY TypeParts
<1>2. [c EXCEPT !.phase = "second"] \in Chain(Len(access))
  BY <1>1 DEF Chain, Phases
<1>3. chain' = [chain EXCEPT ![t] = [c EXCEPT !.phase = "second"]]
  BY <1>1 DEF Retry
<1>4. chain' \in [Tabs -> Chain(Len(access))]
  BY <1>2, <1>3, TypeParts
<1> QED
  BY <1>4, PostType, BrowserTyped, TypeParts DEF Retry

LEMMA AnsweredTyped ==
  ASSUME TypeOK, NEW t \in Tabs, Answered(t)
  PROVE  TypeOK'
<1>0. PICK n \in Nat, k \in Nat : n = Len(rows) /\ k = Len(access)
  BY Lengths
<1>1. PICK m \in net : /\ net' = net \ {m}
                       /\ Finish(t, IF m.kind = "rotated" THEN "ok" ELSE "expired", Cookies(m))
  BY DEF Answered, Waiting
<1>2. m \in Message(n, k)
  BY <1>0, TypeParts
<1>3. Cookies(m) \in Jars(n, k)
  <2>1. m.access \in 0 .. k /\ m.token \in 0 .. n
    BY <1>2 DEF Message
  <2> QED
    BY <1>0, <2>1 DEF Cookies, NoCookies, Jars
<1> QED
  BY <1>0, <1>1, <1>3, FinishTypes, BrowserTyped, TypeParts DEF Answered

LEMMA AskTyped ==
  ASSUME TypeOK, NEW t \in Tabs, Ask(t)
  PROVE  TypeOK'
<1>0. PICK n \in Nat, k \in Nat : n = Len(rows) /\ k = Len(access)
  BY Lengths
<1>1. jar.access \in 0 .. k
  BY <1>0, TypeParts DEF Jars
<1>2. asked' \in [Tabs -> {NotAsked} \cup 0 .. k]
  BY <1>0, <1>1, TypeParts DEF Ask
<1> QED
  BY <1>0, <1>2, BrowserTyped, TypeParts DEF Ask

LEMMA ReplyTyped ==
  ASSUME TypeOK, NEW t \in Tabs, Reply(t)
  PROVE  TypeOK'
<1>1. asked' \in [Tabs -> {NotAsked} \cup 0 .. Len(access)]
  BY TypeParts DEF Reply
<1>2. /\ status' \in [Tabs -> Statuses] /\ booting' \in Flags
      /\ chain' \in [Tabs -> Chain(Len(access))] /\ joined' \in Flags
      /\ net' \subseteq Message(Len(rows), Len(access))
  <2>1. CASE Settled(t, TRUE) /\ UNCHANGED <<chain, joined, net>>
    BY <2>1, SettledTypes, TypeParts
  <2>2. CASE /\ SignedOut(t) /\ booting' = [booting EXCEPT ![t] = FALSE]
             /\ UNCHANGED <<chain, joined, net>>
    <3>1. "unauthenticated" \in Statuses
      BY DEF Statuses
    <3>2. status \in [Tabs -> Statuses] /\ booting \in Flags
      BY TypeParts
    <3> QED
      BY <2>2, <3>1, <3>2, TypeParts DEF SignedOut, Flags
  <2>3. CASE TryRefresh(t, TRUE) /\ UNCHANGED <<status, booting>>
    BY <2>3, TryTypes, TypeParts
  <2> QED
    BY <2>1, <2>2, <2>3 DEF Reply
<1> QED
  BY <1>1, <1>2, BrowserTyped, TypeParts DEF Reply

LEMMA UnansweredTyped ==
  ASSUME TypeOK, NEW t \in Tabs, Unanswered(t)
  PROVE  TypeOK'
<1>1. asked' \in [Tabs -> {NotAsked} \cup 0 .. Len(access)]
  BY TypeParts DEF Unanswered
<1>2. status' \in [Tabs -> Statuses] /\ booting' \in Flags
  BY SettledTypes DEF Unanswered
<1>3. spent' \in Spents
  BY SpendType DEF Unanswered
<1> QED
  BY <1>1, <1>2, <1>3, BrowserTyped, TypeParts DEF Unanswered

LEMMA RenewTyped ==
  ASSUME TypeOK, NEW t \in Tabs, Renew(t)
  PROVE  TypeOK'
  BY TryTypes, BrowserTyped, TypeParts DEF Renew

LEMMA LogoutTyped ==
  ASSUME TypeOK, NEW t \in Tabs, Logout(t)
  PROVE  TypeOK'
<1>0. PICK n \in Nat, k \in Nat : n = Len(rows) /\ k = Len(access)
  BY Lengths
<1>1. jar.access \in 0 .. k /\ jar.refresh \in 0 .. n
  BY <1>0, TypeParts DEF Jars
<1>2. [kind |-> "logout", tab |-> t, token |-> jar.refresh, access |-> jar.access,
       live |-> TRUE] \in Message(n, k)
  BY <1>1 DEF Message, Kinds
<1>3. net' \subseteq Message(n, k)
  BY <1>0, <1>2, TypeParts DEF Logout
<1>4. spent' \in Spents
  BY SpendType DEF Logout
<1> QED
  BY <1>0, <1>3, <1>4, BrowserTyped, TypeParts DEF Logout, tabvars

LEMMA LogoutDoneTyped ==
  ASSUME TypeOK, NEW t \in Tabs, LogoutDone(t)
  PROVE  TypeOK'
<1>0. PICK n \in Nat, k \in Nat : n = Len(rows) /\ k = Len(access)
  BY Lengths
<1>1. net \subseteq Message(n, k) /\ jar \in Jars(n, k) /\ spent \in Spents
  BY <1>0, TypeParts
<1>2. PICK m \in net :
        \/ net' = net \ {m} /\ jar' = NoCookies /\ UNCHANGED spent
        \/ net' = Unheard({m}) /\ spent' = [spent EXCEPT !.faults = @ + 1] /\ UNCHANGED jar
  BY DEF LogoutDone
<1>3. net' \subseteq Message(n, k)
  BY <1>0, <1>1, <1>2, UnheardType
<1>4. jar' \in Jars(n, k)
  BY <1>0, <1>1, <1>2 DEF NoCookies, Jars
<1>5. spent' \in Spents
  <2>1. PICK c \in Nat : c = spent["faults"] + 1
    BY <1>1 DEF Spents
  <2>2. spent' = spent \/ spent' = [spent EXCEPT !["faults"] = c]
    BY <1>2, <2>1
  <2> QED
    BY <1>1, <2>1, <2>2 DEF Spents
<1>6. status' \in [Tabs -> Statuses] /\ told' \in Flags
  <2>1. status \in [Tabs -> Statuses]
    BY TypeParts
  <2> QED
    BY <2>1 DEF LogoutDone, SignedOut, Statuses, Flags
<1> QED
  BY <1>0, <1>3, <1>4, <1>5, <1>6, BrowserTyped, TypeParts DEF LogoutDone

LEMMA SignOutLocalTyped ==
  ASSUME TypeOK, NEW t \in Tabs, SignOutLocal(t)
  PROVE  TypeOK'
<1>1. status \in [Tabs -> Statuses] /\ told \in Flags
  BY TypeParts
<1>2. status' \in [Tabs -> Statuses] /\ told' \in Flags
  BY <1>1 DEF SignOutLocal, SignedOut, Statuses, Flags
<1> QED
  BY <1>2, BrowserTyped, TypeParts DEF SignOutLocal

LEMMA ReloadTyped ==
  ASSUME TypeOK, NEW t \in Tabs, Reload(t)
  PROVE  TypeOK'
<1>0. PICK n \in Nat, k \in Nat : n = Len(rows) /\ k = Len(access)
  BY Lengths
<1>1. /\ status \in [Tabs -> Statuses] /\ booting \in Flags /\ latch \in Flags /\ told \in Flags
      /\ joined \in Flags /\ asked \in [Tabs -> {NotAsked} \cup 0 .. k]
      /\ chain \in [Tabs -> Chain(k)] /\ lock \in Tabs \cup {NoTab} /\ torn \in BOOLEAN
  BY <1>0, TypeParts
<1>2. Idle \in Chain(k)
  BY <1>0 DEF Idle, Chain, Phases
<1>3. chain' \in [Tabs -> Chain(k)] /\ asked' \in [Tabs -> {NotAsked} \cup 0 .. k]
  BY <1>1, <1>2 DEF Reload
<1>4. booting' \in Flags /\ latch' \in Flags /\ told' \in Flags /\ joined' \in Flags
  BY <1>1 DEF Reload, Flags
<1>5. status' \in [Tabs -> Statuses]
  <2>1. PICK s \in Statuses : s = IF status[t] = "authenticated" THEN status[t] ELSE "loading"
    BY <1>1 DEF Statuses
  <2>2. status' = [status EXCEPT ![t] = s]
    BY <2>1 DEF Reload
  <2> QED
    BY <1>1, <2>1, <2>2
<1>6. torn' \in BOOLEAN /\ lock' \in Tabs \cup {NoTab}
  BY <1>1 DEF Reload, Release
<1>7. net' \subseteq Message(n, k)
  BY <1>0, UnheardType DEF Reload
<1>8. spent' \in Spents
  BY SpendType DEF Reload
<1> QED
  BY <1>0, <1>3, <1>4, <1>5, <1>6, <1>7, <1>8, BrowserTyped, TypeParts DEF Reload

\* A step that mints or writes tokens.
LEMMA ServerTyped ==
  ASSUME TypeOK, NEW n \in Nat, NEW k \in Nat, Len(rows) <= n, Len(access) <= k,
         rows' \in Seq(Token(n)), Len(rows') = n, access' \in Seq(Ages), Len(access') = k,
         jar' \in Jars(n, k), net' \subseteq Message(n, k), tombstones' \subseteq 1 .. k,
         ended' \subseteq 1 .. MaxSignIns, alarms' \subseteq 1 .. MaxSignIns,
         status' \in [Tabs -> Statuses], latch' \in Flags, spent' \in Spents,
         UNCHANGED <<lock, booting, asked, chain, joined, told, torn>>
  PROVE  TypeOK'
<1>1. PICK m \in Nat, l \in Nat : m = Len(rows) /\ l = Len(access)
  BY Lengths
<1>2. 0 .. l \subseteq 0 .. k /\ Chain(l) \subseteq Chain(k)
  <2>1. m <= n /\ l <= k
    BY <1>1
  <2> QED
    BY <2>1, MessageGrows
<1>3. asked \in [Tabs -> {NotAsked} \cup 0 .. l] /\ chain \in [Tabs -> Chain(l)]
  BY <1>1, TypeParts
<1>4. asked' \in [Tabs -> {NotAsked} \cup 0 .. k] /\ chain' \in [Tabs -> Chain(k)]
  BY <1>2, <1>3
<1>5. /\ lock' \in Tabs \cup {NoTab} /\ torn' \in BOOLEAN
      /\ booting' \in Flags /\ joined' \in Flags /\ told' \in Flags
  BY TypeParts
<1> QED
  BY <1>4, <1>5, TypePartsNext

\* A row is written at the end of the table.
LEMMA RowAdded ==
  ASSUME NEW S, NEW n \in Nat, NEW q \in [1 .. n -> S], NEW r \in S
  PROVE  /\ Append(q, r) \in Seq(S) /\ Len(Append(q, r)) = n + 1
         /\ \A i \in 1 .. n : Append(q, r)[i] = q[i]
         /\ Append(q, r)[n + 1] = r
<1>1. q \in Seq(S) /\ Len(q) = n
  BY FunctionSeq
<1> QED
  BY <1>1, AppendProperties

\* A token is minted.
LEMMA AccessMinted ==
  ASSUME TypeOK, NEW k \in Nat, k = Len(access), access' = Append(access, "young")
  PROVE  /\ access' \in Seq(Ages) /\ Len(access') = k + 1
         /\ \A i \in 1 .. k : access'[i] = access[i]
         /\ access'[k + 1] = "young"
<1>1. access \in [1 .. k -> Ages] /\ "young" \in Ages
  BY Lengths DEF Ages
<1> QED
  BY <1>1, RowAdded

\* The table of refresh tokens keeps its length, or grows by one.
LEMMA RevokedRows ==
  ASSUME TypeOK, NEW f
  PROVE  /\ RevokedFamily(f) \in Seq(Token(Len(rows)))
         /\ Len(RevokedFamily(f)) = Len(rows)
<1>1. PICK n \in Nat : n = Len(rows)
  BY Lengths
<1>2. rows \in [1 .. n -> Token(n)] /\ DOMAIN rows = 1 .. n
  BY <1>1, Lengths
<1>3. ASSUME NEW j \in 1 .. n PROVE [rows[j] EXCEPT !.revoked = TRUE] \in Token(n)
  <2>1. rows[j] \in Token(n)
    BY <1>2
  <2> QED
    BY <2>1 DEF Token
<1>4. RevokedFamily(f) \in [1 .. n -> Token(n)]
  BY <1>2, <1>3 DEF RevokedFamily
<1> QED
  BY <1>1, <1>4, FunctionSeq

LEMMA LoginTyped ==
  ASSUME TypeOK, SessionAssumption, NEW t \in Tabs, Login(t)
  PROVE  TypeOK'
<1>0. PICK n \in Nat, k \in Nat : n = Len(rows) /\ k = Len(access)
  BY Lengths
<1>1. PICK f \in Nat : f = spent.signins + 1
  BY TypeParts DEF Spents
<1>2. f \in 1 .. MaxSignIns
  <2>1. spent.signins \in Nat /\ spent.signins < MaxSignIns /\ MaxSignIns \in Nat
    BY TypeParts DEF Spents, Login, Spend, SessionAssumption
  <2> QED
    BY <1>1, <2>1
<1>3. Row(f) \in Token(n + 1)
  BY <1>0, <1>2 DEF Row, Token
<1>4. rows' \in Seq(Token(n + 1)) /\ Len(rows') = n + 1
  <2>1. rows \in [1 .. n -> Token(n)]
    BY <1>0, Lengths
  <2>2. Token(n) \subseteq Token(n + 1)
    BY <1>0, TokenGrows
  <2>3. rows \in [1 .. n -> Token(n + 1)]
    BY <2>1, <2>2
  <2>4. rows' = Append(rows, Row(f))
    BY <1>1 DEF Login
  <2> DEFINE S == Token(n + 1)
             r == Row(f)
  <2>5. r \in S /\ rows \in [1 .. n -> S]
    BY <1>3, <2>3
  <2>6. Append(rows, r) \in Seq(S) /\ Len(Append(rows, r)) = n + 1
    <3> HIDE DEF S, r
    <3> QED
      BY <2>5, RowAdded
  <2> QED
    BY <2>4, <2>6
<1>5. access' \in Seq(Ages) /\ Len(access') = k + 1
  BY <1>0, AccessMinted DEF Login
<1>6. jar' \in Jars(n + 1, k + 1)
  BY <1>0 DEF Login, Jars
<1>7. net' \subseteq Message(n + 1, k + 1)
  <2>1. net' \subseteq Message(n, k)
    BY <1>0, TypeParts DEF Login
  <2>2. Message(n, k) \subseteq Message(n + 1, k + 1)
    BY <1>0, MessageGrows
  <2> QED
    BY <2>1, <2>2
<1>8. tombstones' \subseteq 1 .. k + 1
  BY <1>0, TypeParts DEF Login
<1>9. status' \in [Tabs -> Statuses] /\ latch' \in Flags
  <2>1. status \in [Tabs -> Statuses] /\ latch \in Flags
    BY TypeParts
  <2> QED
    BY <2>1 DEF Login, Statuses, Flags
<1>10. spent' \in Spents
  BY SpendType DEF Login
<1>11. /\ ended' \subseteq 1 .. MaxSignIns /\ alarms' \subseteq 1 .. MaxSignIns
       /\ UNCHANGED <<lock, booting, asked, chain, joined, told, torn>>
  BY TypeParts DEF Login
<1>12. n + 1 \in Nat /\ k + 1 \in Nat /\ Len(rows) <= n + 1 /\ Len(access) <= k + 1
  BY <1>0
<1> QED
  BY <1>4, <1>5, <1>6, <1>7, <1>8, <1>9, <1>10, <1>11, <1>12, ServerTyped

\* An answer names a token and the access token minted with it.
LEMMA RotatedType ==
  ASSUME NEW n \in Nat, NEW k \in Nat, NEW m \in Message(n, k), NEW s \in 0 .. n,
         NEW a \in 0 .. k, a = Len(access) + 1
  PROVE  Rotated(m, s) \in Message(n, k)
<1>1. Rotated(m, s) = [m EXCEPT !.kind = "rotated", !.token = s, !.access = a]
  BY DEF Rotated
<1> QED
  BY <1>1 DEF Message, Kinds

\* A row consumed, with its successor.
LEMMA ClaimedType ==
  ASSUME NEW n \in Nat, NEW r \in Token(n), NEW s \in 0 .. n
  PROVE  /\ [r EXCEPT !.consumed = "justnow", !.successor = s] \in Token(n)
         /\ Row(r.family) \in Token(n)
<1>1. PICK q : q = [r EXCEPT !.consumed = "justnow", !.successor = s]
  OBVIOUS
<1>2. q \in Token(n)
  BY <1>1 DEF Token
<1>3. r.family \in 1 .. MaxSignIns /\ 0 \in 0 .. n
  BY DEF Token
<1>4. Row(r.family) \in Token(n)
  BY <1>3 DEF Token, Row
<1> QED
  BY <1>1, <1>2, <1>4

\* What a server step leaves alone.
LEMMA ServeKeeps ==
  ASSUME TypeOK, UNCHANGED <<jar, lock, tabvars, spent>>
  PROVE  /\ status' \in [Tabs -> Statuses] /\ latch' \in Flags /\ spent' \in Spents
         /\ jar' \in Jars(Len(rows), Len(access))
         /\ UNCHANGED <<lock, booting, asked, chain, joined, told, torn>>
  BY TypeParts DEF tabvars

LEMMA ClaimTyped ==
  ASSUME TypeOK, NEW m \in net, Claim(m), UNCHANGED <<jar, lock, tabvars, spent>>
  PROVE  TypeOK'
<1>0. PICK n \in Nat, k \in Nat : n = Len(rows) /\ k = Len(access)
  BY Lengths
<1>1. m \in Message(n, k) /\ net \subseteq Message(n, k)
  BY <1>0, TypeParts
<1>2. PICK j \in 1 .. n : j = m.token
  BY <1>0, <1>1 DEF Claim, Message
<1>3. rows \in [1 .. n -> Token(n)] /\ Token(n) \subseteq Token(n + 1)
  BY <1>0, Lengths, TokenGrows
<1>4. PICK r \in Token(n) : r = rows[j]
  BY <1>3
<1>5. r \in Token(n + 1) /\ r.family \in 1 .. MaxSignIns
  BY <1>3, <1>4 DEF Token
<1>6. PICK q : q = [r EXCEPT !.consumed = "justnow", !.successor = n + 1]
  OBVIOUS
<1>7. q \in Token(n + 1) /\ Row(r.family) \in Token(n + 1)
  <2>1. n + 1 \in Nat /\ n + 1 \in 0 .. n + 1
    BY <1>0
  <2> QED
    BY <1>5, <1>6, <2>1, ClaimedType
<1>8. [rows EXCEPT ![j] = q] \in [1 .. n -> Token(n + 1)]
  BY <1>3, <1>7
<1>9. rows' = Append([rows EXCEPT ![j] = q], Row(r.family))
  BY <1>0, <1>2, <1>4, <1>6 DEF Claim
<1>10. rows' \in Seq(Token(n + 1)) /\ Len(rows') = n + 1
  <2>1. PICK w \in [1 .. n -> Token(n + 1)] : w = [rows EXCEPT ![j] = q]
    BY <1>8
  <2>2. PICK x \in Token(n + 1) : x = Row(r.family)
    BY <1>7
  <2>3. rows' = Append(w, x)
    BY <1>9, <2>1, <2>2
  <2> QED
    BY <1>0, <2>3, RowAdded
<1>11. access' \in Seq(Ages) /\ Len(access') = k + 1
  BY <1>0, AccessMinted DEF Claim
<1>12. Message(n, k) \subseteq Message(n + 1, k + 1) /\ Jars(n, k) \subseteq Jars(n + 1, k + 1)
  BY <1>0, MessageGrows
<1>13. net' \subseteq Message(n + 1, k + 1)
  <2>1. m \in Message(n + 1, k + 1)
    BY <1>1, <1>12
  <2>2. Rotated(m, n + 1) \in Message(n + 1, k + 1)
    <3>1. n + 1 \in Nat /\ k + 1 \in Nat /\ n + 1 \in 0 .. n + 1 /\ k + 1 \in 0 .. k + 1
      BY <1>0
    <3> QED
      BY <1>0, <2>1, <3>1, RotatedType
  <2> QED
    BY <1>0, <1>1, <1>12, <2>2 DEF Claim, Answer
<1>14. /\ tombstones' \subseteq 1 .. k + 1
       /\ ended' \subseteq 1 .. MaxSignIns /\ alarms' \subseteq 1 .. MaxSignIns
  BY <1>0, TypeParts DEF Claim
<1>15. jar' \in Jars(n + 1, k + 1)
  BY <1>0, <1>12, ServeKeeps
<1>16. n + 1 \in Nat /\ k + 1 \in Nat /\ Len(rows) <= n + 1 /\ Len(access) <= k + 1
  BY <1>0
<1> QED
  BY <1>10, <1>11, <1>13, <1>14, <1>15, <1>16, ServeKeeps, ServerTyped

LEMMA ReplayTyped ==
  ASSUME TypeOK, NEW m \in net, Replay(m), UNCHANGED <<jar, lock, tabvars, spent>>
  PROVE  TypeOK'
<1>0. PICK n \in Nat, k \in Nat : n = Len(rows) /\ k = Len(access)
  BY Lengths
<1>1. m \in Message(n, k) /\ net \subseteq Message(n, k)
  BY <1>0, TypeParts
<1>2. PICK j \in 1 .. n : j = m.token
  BY <1>0, <1>1 DEF Replay, Message
<1>3. PICK s \in 0 .. n : s = rows[j].successor
  <2>1. rows[j] \in Token(n)
    BY <1>0, Lengths
  <2> QED
    BY <2>1 DEF Token
<1>4. access' \in Seq(Ages) /\ Len(access') = k + 1
  BY <1>0, AccessMinted DEF Replay
<1>5. Message(n, k) \subseteq Message(n, k + 1) /\ Jars(n, k) \subseteq Jars(n, k + 1)
  BY <1>0, MessageGrows
<1>6. net' \subseteq Message(n, k + 1)
  <2>1. m \in Message(n, k + 1)
    BY <1>1, <1>5
  <2>2. Rotated(m, s) \in Message(n, k + 1)
    <3>1. k + 1 \in Nat /\ k + 1 \in 0 .. k + 1
      BY <1>0
    <3> QED
      BY <1>0, <1>3, <2>1, <3>1, RotatedType
  <2> QED
    BY <1>1, <1>2, <1>3, <1>5, <2>2 DEF Replay, Answer
<1>7. /\ tombstones' \subseteq 1 .. k + 1 /\ ended' \subseteq 1 .. MaxSignIns
      /\ alarms' \subseteq 1 .. MaxSignIns /\ rows' \in Seq(Token(n)) /\ Len(rows') = n
  BY <1>0, TypeParts DEF Replay
<1>8. jar' \in Jars(n, k + 1)
  BY <1>0, <1>5, ServeKeeps
<1>9. k + 1 \in Nat /\ Len(rows) <= n /\ Len(access) <= k + 1
  BY <1>0
<1> QED
  BY <1>0, <1>4, <1>6, <1>7, <1>8, <1>9, ServeKeeps, ServerTyped

\* A refusal, a sign-out served: the rows change in place.
LEMMA RefusalTyped ==
  ASSUME TypeOK, NEW m \in net, Reject(m) \/ Unknown(m) \/ ServeLogout(m),
         UNCHANGED <<jar, lock, tabvars, spent>>
  PROVE  TypeOK'
<1>0. PICK n \in Nat, k \in Nat : n = Len(rows) /\ k = Len(access)
  BY Lengths
<1>1. m \in Message(n, k) /\ net \subseteq Message(n, k)
  BY <1>0, TypeParts
<1>2. rows' \in Seq(Token(n)) /\ Len(rows') = n
  <2>1. rows' = rows \/ \E f : rows' = RevokedFamily(f)
    BY DEF Reject, Unknown, ServeLogout, server
  <2> QED
    BY <1>0, <2>1, RevokedRows, TypeParts
<1>3. access' = access /\ ended' = ended
  BY DEF Reject, Unknown, ServeLogout, server
<1>4. tombstones' \subseteq 1 .. k
  <2>1. tombstones \subseteq 1 .. k
    BY <1>0, TypeParts
  <2>2. tombstones' = tombstones \/ (m.access > 0 /\ tombstones' = tombstones \cup {m.access})
    BY DEF Reject, Unknown, ServeLogout, server, Accepts
  <2>3. m.access \in 0 .. k
    BY <1>1 DEF Message
  <2>4. m.access > 0 => m.access \in 1 .. k
    BY <1>0, <2>3
  <2> QED
    BY <2>1, <2>2, <2>4
<1>5. alarms' \subseteq 1 .. MaxSignIns
  <2>1. alarms \subseteq 1 .. MaxSignIns
    BY TypeParts
  <2>2. CASE m.token > 0
    <3>1. m.token \in 1 .. n
      BY <1>0, <1>1, <2>2 DEF Message
    <3>2. rows[m.token] \in Token(n)
      BY <1>0, <3>1, Lengths
    <3>3. rows[m.token].family \in 1 .. MaxSignIns
      BY <3>2 DEF Token
    <3> QED
      BY <2>1, <3>3 DEF Reject, Unknown, ServeLogout, server
  <2>3. CASE ~(m.token > 0)
    BY <2>1, <2>3 DEF Reject, Unknown, ServeLogout, server
  <2> QED
    BY <2>2, <2>3
<1>6. net' \subseteq Message(n, k)
  <2>1. Refused(m) \in Message(n, k) /\ [m EXCEPT !.kind = "cleared"] \in Message(n, k)
    BY <1>1 DEF Refused, Message, Kinds
  <2>2. Answer(m, Refused(m)) \/ Answer(m, [m EXCEPT !.kind = "cleared"])
    BY DEF Reject, Unknown, ServeLogout
  <2> QED
    BY <1>1, <2>1, <2>2 DEF Answer
<1>7. access' \in Seq(Ages) /\ Len(access') = k /\ ended' \subseteq 1 .. MaxSignIns
  BY <1>0, <1>3, TypeParts
<1> QED
  BY <1>0, <1>2, <1>4, <1>5, <1>6, <1>7, ServeKeeps, ServerTyped

LEMMA TickTyped ==
  ASSUME TypeOK, Tick
  PROVE  TypeOK'
<1>0. PICK n \in Nat, k \in Nat : n = Len(rows) /\ k = Len(access)
  BY Lengths
<1>1. access \in [1 .. k -> Ages]
  BY <1>0, Lengths
<1>2. PICK a \in Ages : a = IF access[jar.access] = "young" THEN "due" ELSE "expired"
  BY DEF Ages
<1>3. access' = [access EXCEPT ![jar.access] = a]
  BY <1>2 DEF Tick
<1>4. access' \in [1 .. k -> Ages]
  BY <1>1, <1>2, <1>3
<1>5. access' \in Seq(Ages) /\ Len(access') = k
  BY <1>0, <1>4, FunctionSeq
<1>6. spent' \in Spents
  BY SpendType, TypeParts DEF Tick
<1> QED
  BY <1>0, <1>5, <1>6, TypeParts, TypePartsNext DEF Tick, tabvars

LEMMA RoleChangeTyped ==
  ASSUME TypeOK, RoleChange
  PROVE  TypeOK'
<1>0. PICK n \in Nat, k \in Nat : n = Len(rows) /\ k = Len(access)
  BY Lengths
<1>1. jar.access \in 1 .. k
  <2>1. jar.access \in 0 .. k /\ jar.access > 0
    BY <1>0, TypeParts DEF Jars, RoleChange, Accepts
  <2> QED
    BY <1>0, <2>1
<1>2. tombstones' \subseteq 1 .. k
  BY <1>0, <1>1, TypeParts DEF RoleChange
<1>3. spent' \in Spents
  BY SpendType DEF RoleChange
<1> QED
  BY <1>0, <1>2, <1>3, TypeParts, TypePartsNext DEF RoleChange, tabvars

LEMMA GraceEndsTyped ==
  ASSUME TypeOK, NEW j \in DOMAIN rows, GraceEnds(j)
  PROVE  TypeOK'
<1>0. PICK n \in Nat : n = Len(rows)
  BY Lengths
<1>1. rows \in [1 .. n -> Token(n)] /\ j \in 1 .. n
  BY <1>0, Lengths
<1>2. PICK r \in Token(n) : r = rows[j]
  BY <1>1
<1>3. [r EXCEPT !.consumed = "longago"] \in Token(n)
  BY <1>2 DEF Token
<1>4. rows' = [rows EXCEPT ![j] = [r EXCEPT !.consumed = "longago"]]
  BY <1>2 DEF GraceEnds
<1>5. rows' \in [1 .. n -> Token(n)]
  BY <1>1, <1>3, <1>4
<1>6. rows' \in Seq(Token(n)) /\ Len(rows') = n
  BY <1>0, <1>5, FunctionSeq
<1> QED
  BY <1>0, <1>6, TypeParts, TypePartsNext DEF GraceEnds, tabvars

LEMMA EndSessionTyped ==
  ASSUME TypeOK, NEW f \in 1 .. MaxSignIns, EndSession(f)
  PROVE  TypeOK'
<1>1. spent' \in Spents
  BY SpendType DEF EndSession
<1>2. ended' \subseteq 1 .. MaxSignIns
  BY TypeParts DEF EndSession
<1> QED
  BY <1>1, <1>2, TypeParts, TypePartsNext DEF EndSession, tabvars

LEMMA InitTyped ==
  ASSUME SessionAssumption, Init
  PROVE  TypeOK
<1>1. Row(1) \in Token(1) /\ "young" \in Ages
  BY DEF Row, Token, Ages, SessionAssumption
<1>2. rows \in Seq(Token(1)) /\ Len(rows) = 1 /\ access \in Seq(Ages) /\ Len(access) = 1
  BY <1>1 DEF Init
<1>3. jar \in Jars(1, 1) /\ Idle \in Chain(1)
  BY DEF Init, Jars, Idle, Chain, Phases
<1>4. chain \in [Tabs -> Chain(1)]
  BY <1>3 DEF Init
<1>5. spent \in Spents
  BY DEF Init, Spents
<1>6. status \in [Tabs -> Statuses]
  BY DEF Init, Statuses
<1> QED
  BY <1>2, <1>3, <1>4, <1>5, <1>6, TypeParts DEF Init, Flags

LEMMA NextTyped ==
  ASSUME SessionAssumption, TypeOK, [Next]_vars
  PROVE  TypeOK'
<1>1. ASSUME NEW t \in Tabs, Acquire(t) \/ Lose(t) \/ Abort(t) \/ Retry(t) \/ Answered(t) PROVE TypeOK'
  BY <1>1, AcquireTyped, LoseTyped, RetryTyped, AnsweredTyped
<1>2. ASSUME NEW t \in Tabs, Ask(t) \/ Reply(t) \/ Unanswered(t) \/ Renew(t) PROVE TypeOK'
  BY <1>2, AskTyped, ReplyTyped, UnansweredTyped, RenewTyped
<1>3. ASSUME NEW t \in Tabs, Logout(t) \/ LogoutDone(t) \/ SignOutLocal(t) \/ Login(t) \/ Reload(t)
      PROVE  TypeOK'
  BY <1>3, LogoutTyped, LogoutDoneTyped, SignOutLocalTyped, LoginTyped, ReloadTyped
<1>4. ASSUME NEW m \in net, Serve(m) PROVE TypeOK'
  <2>1. UNCHANGED <<jar, lock, tabvars, spent>>
    BY <1>4 DEF Serve
  <2>2. Claim(m) \/ Replay(m) \/ Reject(m) \/ Unknown(m) \/ ServeLogout(m)
    BY <1>4 DEF Serve
  <2> QED
    BY <2>1, <2>2, ClaimTyped, ReplyTyped, ReplayTyped, RefusalTyped
<1>5. CASE UNCHANGED vars
  BY <1>5, TypeParts, TypePartsNext DEF vars, tabvars, server
<1> QED
  BY <1>1, <1>2, <1>3, <1>4, <1>5, TickTyped, RoleChangeTyped, GraceEndsTyped, EndSessionTyped DEF Next

\* The state of the tabs, the cookies, the messages and the server's tables keep their types: a
\* token presented, a successor replayed and a cookie stored always name a row of the table.
THEOREM SessionTypes == Spec => []TypeOK
<1>1. Init => TypeOK
  BY SessionAssumption, InitTyped
<1>2. TypeOK /\ [Next]_vars => TypeOK'
  BY SessionAssumption, NextTyped
<1> QED
  BY <1>1, <1>2, PTL DEF Spec

-----------------------------------------------------------------------------
(* One token to rotate                                                     *)

\* A sign-in adds the row of a new family.
LEMMA LoginRows ==
  ASSUME TypeOK, NEW t \in Tabs, Login(t), NEW n \in Nat, n = Len(rows)
  PROVE  /\ DOMAIN rows' = 1 .. n + 1 /\ \A i \in 1 .. n : rows'[i] = rows[i]
         /\ rows'[n + 1] = Row(spent.signins + 1)
<1>1. PICK x : x = Row(spent.signins + 1)
  OBVIOUS
<1>2. rows \in [1 .. n -> Token(n) \cup {x}]
  BY Lengths
<1>3. rows' = Append(rows, x)
  BY <1>1 DEF Login
<1>4. /\ rows' \in Seq(Token(n) \cup {x}) /\ Len(rows') = n + 1
      /\ \A i \in 1 .. n : rows'[i] = rows[i]
      /\ rows'[n + 1] = x
  BY <1>2, <1>3, RowAdded
<1>5. DOMAIN rows' = 1 .. n + 1
  BY <1>4, LenProperties
<1> QED
  BY <1>1, <1>4, <1>5

\* A claim consumes one row and adds its successor's, of the same family.
LEMMA ClaimRows ==
  ASSUME TypeOK, NEW m \in net, Claim(m), NEW n \in Nat, n = Len(rows), NEW j, j = m.token
  PROVE  /\ j \in 1 .. n /\ DOMAIN rows' = 1 .. n + 1
         /\ \A i \in 1 .. n : i # j => rows'[i] = rows[i]
         /\ rows'[n + 1] = Row(rows[j].family)
         /\ rows'[j].consumed = "justnow" /\ rows'[j].successor = n + 1
         /\ rows'[j].family = rows[j].family /\ rows'[j].revoked = rows[j].revoked
<1>1. j \in 1 .. n
  <2>1. m \in Message(n, Len(access))
    BY TypeParts
  <2> QED
    BY <2>1 DEF Claim, Message
<1>2. PICK r \in Token(n) : r = rows[j]
  BY <1>1, Lengths
<1>3. PICK s \in Nat : s = n + 1
  OBVIOUS
<1>4. PICK q : q = [r EXCEPT !.consumed = "justnow", !.successor = s]
  OBVIOUS
<1>5. q.consumed = "justnow" /\ q.successor = s /\ q.family = r.family /\ q.revoked = r.revoked
  BY <1>4 DEF Token
<1>6. PICK x : x = Row(r.family)
  OBVIOUS
<1>7. PICK w : w = [rows EXCEPT ![j] = q]
  OBVIOUS
<1>8. /\ w \in [1 .. n -> Token(n) \cup {q, x}] /\ w[j] = q
      /\ \A i \in 1 .. n : i # j => w[i] = rows[i]
  BY <1>1, <1>7, Lengths
<1>9. rows' = Append(w, x)
  BY <1>2, <1>3, <1>4, <1>6, <1>7 DEF Claim
<1>10. /\ rows' \in Seq(Token(n) \cup {q, x}) /\ Len(rows') = n + 1
       /\ \A i \in 1 .. n : rows'[i] = w[i]
       /\ rows'[n + 1] = x
  BY <1>8, <1>9, RowAdded
<1>11. DOMAIN rows' = 1 .. n + 1
  BY <1>10, LenProperties
<1> QED
  BY <1>1, <1>2, <1>3, <1>5, <1>6, <1>8, <1>10, <1>11

\* The window of one row closes.
LEMMA GraceRows ==
  ASSUME TypeOK, NEW j \in DOMAIN rows, GraceEnds(j)
  PROVE  /\ DOMAIN rows' = DOMAIN rows
         /\ \A i \in DOMAIN rows : i # j => rows'[i] = rows[i]
         /\ rows'[j].consumed = "longago" /\ rows'[j].successor = rows[j].successor
         /\ rows'[j].family = rows[j].family /\ rows'[j].revoked = rows[j].revoked
<1>1. PICK r \in Token(Len(rows)) : r = rows[j]
  BY Lengths
<1>2. PICK q : q = [r EXCEPT !.consumed = "longago"]
  OBVIOUS
<1>3. q.consumed = "longago" /\ q.successor = r.successor /\ q.family = r.family /\ q.revoked = r.revoked
  BY <1>2 DEF Token
<1>4. rows' = [rows EXCEPT ![j] = q]
  BY <1>1, <1>2 DEF GraceEnds
<1> QED
  BY <1>1, <1>3, <1>4

\* The rows of a family are revoked, and nothing else of them changes.
LEMMA RevokeRows ==
  ASSUME TypeOK, NEW f, rows' = RevokedFamily(f)
  PROVE  /\ DOMAIN rows' = DOMAIN rows
         /\ \A i \in DOMAIN rows : /\ rows'[i].consumed = rows[i].consumed
                                   /\ rows'[i].family = rows[i].family
                                   /\ rows[i].revoked => rows'[i].revoked
<1>1. DOMAIN rows' = DOMAIN rows
  BY DEF RevokedFamily
<1>2. ASSUME NEW i \in DOMAIN rows
      PROVE  /\ rows'[i].consumed = rows[i].consumed /\ rows'[i].family = rows[i].family
             /\ rows[i].revoked => rows'[i].revoked
  <2>1. PICK r \in Token(Len(rows)) : r = rows[i]
    BY Lengths
  <2>2. rows'[i] = IF r.family = f THEN [r EXCEPT !.revoked = TRUE] ELSE r
    BY <2>1 DEF RevokedFamily
  <2> QED
    BY <2>1, <2>2 DEF Token
<1> QED
  BY <1>1, <1>2

Active(j) == rows[j].consumed = "no" /\ ~rows[j].revoked

\* A row keeps its family, and one that is consumed or revoked stays so.
Settling ==
  \A i \in DOMAIN rows : rows'[i].family = rows[i].family /\ (Active(i)' => Active(i))
\* A row is added: of a family nobody had, or as successor of a row consumed with it.
Added(x) ==
  /\ DOMAIN rows' = DOMAIN rows \cup {x} /\ x \notin DOMAIN rows
  /\ \/ rows'[x].family = spent.signins + 1 /\ spent'.signins = spent.signins + 1
     \/ \E j \in DOMAIN rows : rows'[x].family = rows[j].family /\ Active(j) /\ ~Active(j)'
RowsStep == Settling /\ (DOMAIN rows' = DOMAIN rows \/ \E x : Added(x))

\* The bounds count up, one at a time.
Counted(what) == spent' = [spent EXCEPT ![what] = @ + 1]

LEMMA SpentStep ==
  ASSUME TypeOK, [Next]_vars
  PROVE  /\ spent.signins \in Nat /\ spent'.signins \in Nat /\ spent.signins <= spent'.signins
         /\ spent.ends \in Nat /\ spent'.ends \in Nat /\ spent.ends <= spent'.ends
<1>1. spent \in Spents
  BY TypeParts
<1>2. spent' = spent \/ \E what \in {"signins", "ticks", "faults", "ends"} : Counted(what)
  <2>1. ASSUME NEW t \in Tabs, \/ Acquire(t) \/ Retry(t) \/ Answered(t) \/ Ask(t) \/ Reply(t)
                              \/ Renew(t) \/ SignOutLocal(t)
        PROVE  spent' = spent
    BY <2>1 DEF Acquire, Retry, Answered, Ask, Reply, Renew, SignOutLocal
  <2>2. ASSUME NEW t \in Tabs, Lose(t) \/ Abort(t) \/ Unanswered(t) \/ Reload(t)
        PROVE  Counted("faults")
    BY <2>2 DEF Lose, Abort, Unanswered, Reload, Spend, Counted
  <2>3. ASSUME NEW t \in Tabs, Logout(t) PROVE Counted("ends")
    BY <2>3 DEF Logout, Spend, Counted
  <2>4. ASSUME NEW t \in Tabs, Login(t) PROVE Counted("signins")
    BY <2>4 DEF Login, Spend, Counted
  <2>5. ASSUME NEW t \in Tabs, LogoutDone(t) PROVE spent' = spent \/ Counted("faults")
    BY <2>5 DEF LogoutDone, Counted
  <2>6. ASSUME NEW m \in net, Serve(m) PROVE spent' = spent
    BY <2>6 DEF Serve
  <2>7. ASSUME Tick \/ RoleChange PROVE spent' = spent \/ Counted("ticks")
    BY <2>7 DEF Tick, RoleChange, Spend, Counted
  <2>8. ASSUME NEW f \in 1 .. MaxSignIns, EndSession(f) PROVE Counted("ends")
    BY <2>8 DEF EndSession, Spend, Counted
  <2>9. ASSUME NEW j \in DOMAIN rows, GraceEnds(j) PROVE spent' = spent
    BY <2>9 DEF GraceEnds
  <2>10. CASE UNCHANGED vars
    BY <2>10 DEF vars
  <2> QED
    BY <2>1, <2>2, <2>3, <2>4, <2>5, <2>6, <2>7, <2>8, <2>9, <2>10 DEF Next
<1>3. ASSUME NEW what \in {"signins", "ticks", "faults", "ends"}, Counted(what)
      PROVE  /\ spent'["signins"] \in {spent["signins"], spent["signins"] + 1}
             /\ spent'["ends"] \in {spent["ends"], spent["ends"] + 1}
  BY <1>1, <1>3 DEF Counted, Spents
<1>4. spent["signins"] \in Nat /\ spent["ends"] \in Nat
  BY <1>1 DEF Spents
<1> QED
  BY <1>2, <1>3, <1>4

LEMMA NextRows ==
  ASSUME SessionAssumption, TypeOK, [Next]_vars
  PROVE  RowsStep
<1>0. PICK n \in Nat : n = Len(rows) /\ DOMAIN rows = 1 .. n
  BY Lengths
<1>1. CASE rows' = rows
  BY <1>1 DEF RowsStep, Settling, Active
<1>2. ASSUME NEW t \in Tabs, Login(t) PROVE RowsStep
  <2>1. /\ DOMAIN rows' = 1 .. n + 1 /\ \A i \in 1 .. n : rows'[i] = rows[i]
        /\ rows'[n + 1] = Row(spent.signins + 1)
    BY <1>0, <1>2, LoginRows
  <2>2. Settling
    BY <1>0, <2>1 DEF Settling, Active
  <2>3. rows'[n + 1].family = spent.signins + 1
    BY <2>1 DEF Row
  <2>4. spent'.signins = spent.signins + 1
    <3>1. spent \in Spents /\ spent' = [spent EXCEPT !["signins"] = @ + 1]
      BY <1>2, TypeParts DEF Login, Spend
    <3> QED
      BY <3>1 DEF Spents
  <2>5. 1 .. n + 1 = 1 .. n \cup {n + 1} /\ n + 1 \notin 1 .. n
    BY <1>0
  <2>6. Added(n + 1)
    BY <1>0, <2>1, <2>3, <2>4, <2>5 DEF Added
  <2> QED
    BY <2>2, <2>6 DEF RowsStep
<1>3. ASSUME NEW m \in net, Claim(m) PROVE RowsStep
  <2>0. PICK j : j = m.token
    OBVIOUS
  <2>1. /\ j \in 1 .. n /\ DOMAIN rows' = 1 .. n + 1
        /\ \A i \in 1 .. n : i # j => rows'[i] = rows[i]
        /\ rows'[n + 1] = Row(rows[j].family)
        /\ rows'[j].consumed = "justnow"
        /\ rows'[j].family = rows[j].family
    BY <1>0, <1>3, <2>0, ClaimRows
  <2>2. Active(j) /\ ~Active(j)'
    BY <1>3, <2>0, <2>1 DEF Active, Claim, Consumable
  <2>3. Settling
    BY <1>0, <2>1, <2>2 DEF Settling, Active
  <2>4. rows'[n + 1].family = rows[j].family
    BY <2>1 DEF Row
  <2>5. 1 .. n + 1 = 1 .. n \cup {n + 1} /\ n + 1 \notin 1 .. n
    BY <1>0
  <2>6. Added(n + 1)
    BY <1>0, <2>1, <2>2, <2>4, <2>5 DEF Added
  <2> QED
    BY <2>3, <2>6 DEF RowsStep
<1>4. ASSUME NEW f, rows' = RevokedFamily(f) PROVE RowsStep
  BY <1>4, RevokeRows DEF RowsStep, Settling, Active
<1>5. ASSUME NEW j \in DOMAIN rows, GraceEnds(j) PROVE RowsStep
  <2>1. /\ DOMAIN rows' = DOMAIN rows
        /\ \A i \in DOMAIN rows : i # j => rows'[i] = rows[i]
        /\ rows'[j].consumed = "longago" /\ rows'[j].family = rows[j].family
    BY <1>5, GraceRows
  <2> QED
    BY <2>1 DEF RowsStep, Settling, Active
<1>6. ASSUME NEW m \in net, Serve(m) PROVE RowsStep
  <2>1. ASSUME Replay(m) \/ Unknown(m) PROVE RowsStep
    BY <1>1, <2>1 DEF Replay, Unknown, server
  <2>2. ASSUME Reject(m) \/ ServeLogout(m) PROVE RowsStep
    BY <1>1, <1>4, <2>2 DEF Reject, ServeLogout
  <2> QED
    BY <1>3, <1>6, <2>1, <2>2 DEF Serve
<1>7. ASSUME NEW t \in Tabs, \/ Acquire(t) \/ Retry(t) \/ Answered(t) \/ Ask(t) \/ Reply(t)
                            \/ Renew(t) \/ SignOutLocal(t) \/ Lose(t) \/ Abort(t) \/ Reload(t)
                            \/ Logout(t) \/ LogoutDone(t) \/ Unanswered(t)
      PROVE  rows' = rows
  BY <1>7 DEF Acquire, Retry, Answered, Ask, Reply, Unanswered, Renew, SignOutLocal, Lose, Abort,
     Reload, Logout, LogoutDone, server
<1>8. ASSUME \/ Tick \/ RoleChange \/ (\E f \in 1 .. MaxSignIns : EndSession(f)) \/ UNCHANGED vars
      PROVE  rows' = rows
  BY <1>8 DEF Tick, RoleChange, EndSession, vars, server
<1> QED
  BY <1>1, <1>2, <1>5, <1>6, <1>7, <1>8 DEF Next

LEMMA OneActiveStep ==
  ASSUME SessionAssumption, TypeOK, TypeOK', FamilyInv, OneActiveToken, [Next]_vars
  PROVE  FamilyInv' /\ OneActiveToken'
<1>1. RowsStep
  BY NextRows
<1>2. PICK c \in Nat, d \in Nat : c = spent.signins /\ d = spent'.signins /\ c <= d
  BY SpentStep
<1>3. ASSUME NEW i \in DOMAIN rows PROVE rows[i].family \in Nat /\ rows[i].family <= c
  <2>1. rows[i] \in Token(Len(rows))
    BY Lengths
  <2>2. rows[i].family \in Nat
    BY <2>1 DEF Token
  <2> QED
    BY <1>2, <2>2 DEF FamilyInv
<1>4. ASSUME NEW i \in DOMAIN rows, NEW j \in DOMAIN rows, Active(i)', Active(j)',
             rows'[i].family = rows'[j].family
      PROVE  i = j
  BY <1>1, <1>4 DEF RowsStep, Settling, OneActiveToken, Active
<1>5. CASE DOMAIN rows' = DOMAIN rows
  <2>1. FamilyInv'
    <3>1. ASSUME NEW i \in DOMAIN rows PROVE rows'[i].family <= d
      <4>1. rows'[i].family = rows[i].family
        BY <1>1 DEF RowsStep, Settling
      <4> QED
        BY <1>2, <1>3, <4>1
    <3> QED
      BY <1>2, <1>5, <3>1 DEF FamilyInv
  <2> QED
    BY <1>4, <1>5, <2>1 DEF OneActiveToken, Active
<1>6. ASSUME NEW x, Added(x) PROVE FamilyInv' /\ OneActiveToken'
  <2>1. DOMAIN rows' = DOMAIN rows \cup {x} /\ x \notin DOMAIN rows
    BY <1>6 DEF Added
  <2>2. rows'[x].family <= d
    BY <1>2, <1>3, <1>6 DEF Added
  <2>3. ASSUME NEW i \in DOMAIN rows PROVE rows'[i].family <= d
    <3>1. rows'[i].family = rows[i].family
      BY <1>1 DEF RowsStep, Settling
    <3> QED
      BY <1>2, <1>3, <3>1
  <2>4. FamilyInv'
    BY <1>2, <2>1, <2>2, <2>3 DEF FamilyInv
  <2>5. ASSUME NEW i \in DOMAIN rows, Active(i)' PROVE rows'[i].family # rows'[x].family
    <3>1. rows'[i].family = rows[i].family /\ Active(i)
      BY <1>1, <2>5 DEF RowsStep, Settling
    <3>2. CASE rows'[x].family = spent.signins + 1
      BY <1>2, <1>3, <3>1, <3>2
    <3>3. ASSUME NEW j \in DOMAIN rows, rows'[x].family = rows[j].family, Active(j), ~Active(j)'
          PROVE  rows'[i].family # rows'[x].family
      <4>1. i # j
        BY <2>5, <3>3
      <4> QED
        BY <3>1, <3>3, <4>1 DEF OneActiveToken, Active
    <3> QED
      BY <1>6, <3>2, <3>3 DEF Added
  <2>6. OneActiveToken'
    BY <1>4, <2>1, <2>5 DEF OneActiveToken, Active
  <2> QED
    BY <2>4, <2>6
<1> QED
  BY <1>1, <1>5, <1>6 DEF RowsStep

\* However many tabs, retries and late requests present a token, at most one row of a family can
\* still be consumed: consume lets one of them through, and the others get its successor.
THEOREM RotationIsSingle == Spec => []OneActiveToken
<1>1. Init => TypeOK /\ FamilyInv /\ OneActiveToken
  <2>1. ASSUME Init PROVE FamilyInv /\ OneActiveToken
    <3>1. DOMAIN rows = {1} /\ rows[1] = Row(1) /\ spent.signins = 1
      BY <2>1 DEF Init
    <3> QED
      BY <3>1 DEF FamilyInv, OneActiveToken, Row
  <2> QED
    BY <2>1, SessionAssumption, InitTyped
<1>2. TypeOK /\ FamilyInv /\ OneActiveToken /\ [Next]_vars => (TypeOK /\ FamilyInv /\ OneActiveToken)'
  BY SessionAssumption, NextTyped, OneActiveStep
<1> QED
  BY <1>1, <1>2, PTL DEF Spec

-----------------------------------------------------------------------------
(* The browser's own tabs raise no alarm                                   *)

Calm == LiveInv /\ LockInv /\ TokenInv /\ ChaseInv

\* What every action of the undisturbed session needs to know of the types.
LEMMA CalmTypes ==
  ASSUME SessionAssumption, TypeOK, LiveInv
  PROVE  /\ NoTab \notin Tabs /\ Len(rows) \in Nat /\ DOMAIN rows = 1 .. Len(rows)
         /\ jar.refresh \in 1 .. Len(rows) /\ jar.access \in 1 .. Len(access)
         /\ \A m \in net : m.token \in 1 .. Len(rows) /\ m.tab \in Tabs /\ m.live \in BOOLEAN
         /\ \A j \in DOMAIN rows : rows[j].consumed \in {"no", "justnow", "longago"}
<1>1. PICK n \in Nat, k \in Nat : n = Len(rows) /\ k = Len(access)
  BY Lengths
<1>2. jar.refresh \in 0 .. n /\ jar.access \in 0 .. k
  BY <1>1, TypeParts DEF Jars
<1>3. ASSUME NEW m \in net PROVE m.token \in 1 .. n /\ m.tab \in Tabs /\ m.live \in BOOLEAN
  <2>1. m \in Message(n, k)
    BY <1>1, TypeParts
  <2>2. m.token \in 0 .. n /\ m.tab \in Tabs /\ m.live \in BOOLEAN
    BY <2>1 DEF Message
  <2> QED
    BY <1>1, <2>2 DEF LiveInv
<1>4. ASSUME NEW j \in DOMAIN rows PROVE rows[j].consumed \in {"no", "justnow", "longago"}
  <2>1. rows[j] \in Token(n)
    BY <1>1, Lengths
  <2> QED
    BY <2>1 DEF Token
<1>5. jar.refresh \in 1 .. n /\ jar.access \in 1 .. k
  BY <1>1, <1>2 DEF LiveInv
<1> QED
  BY <1>1, <1>3, <1>4, <1>5, Lengths DEF SessionAssumption

\* No message is added, and those nobody waits for any more are requests.
Muted(m) == \E q \in net : /\ q.kind = "refresh" /\ m.kind = "refresh" /\ m.token = q.token
                           /\ m.live = FALSE
Fewer == \A m \in net' : m \in net \/ Muted(m)

LEMMA UnheardFewer ==
  ASSUME TypeOK, LiveInv, NEW ms \in SUBSET net, net' = Unheard(ms)
  PROVE  Fewer /\ \A m \in net' : m.live => m \in net \ ms
<1>1. ASSUME NEW m \in net', m \notin net \ ms PROVE Muted(m) /\ ~m.live
  <2>1. PICK q \in ms : m = [q EXCEPT !.live = FALSE]
    BY <1>1 DEF Unheard
  <2>2. q \in net /\ q \in Message(Len(rows), Len(access)) /\ q.kind \in {"refresh", "rotated"}
    BY TypeParts DEF LiveInv
  <2>3. q.kind = "refresh"
    <3>1. m \in {[c EXCEPT !.live = FALSE] : c \in {q2 \in ms : q2.kind \in {"refresh", "logout"}}}
      BY <1>1 DEF Unheard
    <3>2. PICK c \in ms : c.kind \in {"refresh", "logout"} /\ m = [c EXCEPT !.live = FALSE]
      BY <3>1
    <3>3. c \in Message(Len(rows), Len(access))
      BY TypeParts
    <3>4. m.kind = c.kind /\ m.kind = q.kind
      BY <2>1, <2>2, <3>2, <3>3 DEF Message
    <3> QED
      BY <2>2, <3>2, <3>4
  <2>4. m.kind = "refresh" /\ m.token = q.token /\ m.live = FALSE
    BY <2>1, <2>2, <2>3 DEF Message
  <2> QED
    BY <2>2, <2>3, <2>4 DEF Muted
<1> QED
  BY <1>1 DEF Fewer

LEMMA FewerKinds ==
  ASSUME LiveInv, Fewer
  PROVE  \A q \in net' : /\ q.kind \in {"refresh", "rotated"} /\ q.token > 0
                         /\ q.kind = "rotated" => q.live /\ q.access > 0
<1> SUFFICES ASSUME NEW q \in net'
             PROVE  /\ q.kind \in {"refresh", "rotated"} /\ q.token > 0
                    /\ q.kind = "rotated" => q.live /\ q.access > 0
  OBVIOUS
<1>1. CASE q \in net
  BY <1>1 DEF LiveInv
<1>2. CASE Muted(q)
  BY <1>2 DEF LiveInv, Muted
<1> QED
  BY <1>1, <1>2 DEF Fewer

LEMMA FewerTokens ==
  ASSUME TokenInv, LiveInv, Fewer, UNCHANGED <<rows, jar>>
  PROVE  TokenInv' /\ (Presented' => Presented)
<1>1. ASSUME NEW m \in net', m.kind = "refresh"
      PROVE  \E q \in net : q.kind = "refresh" /\ q.token = m.token
  BY <1>1 DEF Fewer, Muted
<1>2. ASSUME NEW x, Unused(x) PROVE Unused(x)'
  BY <1>1, <1>2 DEF Unused
<1>3. ASSUME NEW m \in net', m.live \/ m.kind = "rotated" PROVE m \in net
  BY <1>3 DEF Fewer, Muted
<1>4. TokenInv'
  BY <1>1, <1>2, <1>3 DEF TokenInv
<1>5. Presented' => Presented
  BY <1>1 DEF Presented
<1> QED
  BY <1>4, <1>5

\* The token in the jar is posted.
LEMMA PostTokens ==
  ASSUME SessionAssumption, TypeOK, Calm, NEW t \in Tabs, net' = net \cup {Post(t)},
         UNCHANGED <<rows, jar>>, rows[jar.refresh].consumed # "longago"
  PROVE  TokenInv'
<1>0. /\ Post(t).kind = "refresh" /\ Post(t).token = jar.refresh
  BY DEF Post
<1>1. ASSUME NEW x, Unused(x) PROVE Unused(x)'
  BY <1>0, <1>1 DEF Unused
<1> QED
  BY <1>0, <1>1 DEF TokenInv, Calm

\* A refresh that ends well, in the tab it ends in and in the others.
LEMMA FinishOk ==
  ASSUME TypeOK, NEW t \in Tabs, NEW outcome \in {"ok", "retryable"}, NEW cookies,
         Finish(t, outcome, cookies)
  PROVE  /\ chain'[t] = Idle /\ joined'[t] = FALSE /\ (outcome = "ok" => latch'[t] = FALSE)
         /\ ~booting[t] => status'[t] = status[t] /\ booting'[t] = FALSE
         /\ \A u \in Tabs : u # t => /\ chain'[u] = chain[u] /\ joined'[u] = joined[u]
                                     /\ latch'[u] = latch[u] /\ status'[u] = status[u]
                                     /\ booting'[u] = booting[u]
<1>1. /\ chain \in [Tabs -> Chain(Len(access))] /\ joined \in Flags /\ latch \in Flags
      /\ booting \in Flags /\ status \in [Tabs -> Statuses]
  BY TypeParts
<1>2. /\ chain'[t] = Idle /\ joined'[t] = FALSE
      /\ \A u \in Tabs : u # t => chain'[u] = chain[u] /\ joined'[u] = joined[u]
  BY <1>1 DEF Finish, Flags
<1>3. /\ outcome = "ok" => latch'[t] = FALSE
      /\ \A u \in Tabs : u # t => latch'[u] = latch[u]
  <2>1. PICK b : b = (outcome # "ok" /\ (outcome = "expired" \/ latch[t]))
    OBVIOUS
  <2>2. latch' = [latch EXCEPT ![t] = b]
    BY <2>1 DEF Finish
  <2>3. outcome = "ok" => b = FALSE
    BY <2>1
  <2> QED
    BY <1>1, <2>2, <2>3 DEF Flags
<1>4. /\ ~booting[t] => status'[t] = status[t] /\ booting'[t] = FALSE
      /\ \A u \in Tabs : u # t => status'[u] = status[u] /\ booting'[u] = booting[u]
  <2>1. CASE ~joined[t]
    BY <1>1, <2>1 DEF Finish, Flags
  <2>2. CASE joined[t]
    <3>1. PICK ok : ok = (outcome = "ok" /\ Accepts(cookies.access))
      OBVIOUS
    <3>2. Settled(t, ok)
      BY <2>2, <3>1 DEF Finish
    <3>3. PICK v : v = IF ~booting[t] THEN status[t]
                       ELSE IF ok THEN "authenticated" ELSE "unauthenticated"
      OBVIOUS
    <3>4. status' = [status EXCEPT ![t] = v] /\ booting' = [booting EXCEPT ![t] = FALSE]
      BY <3>2, <3>3 DEF Settled
    <3> QED
      BY <1>1, <3>3, <3>4 DEF Flags
  <2> QED
    BY <2>1, <2>2
<1> QED
  BY <1>2, <1>3, <1>4

LEMMA AcquireCalm ==
  ASSUME SessionAssumption, TypeOK, Calm, NEW t \in Tabs, Acquire(t)
  PROVE  Calm'
<1>0. LiveInv /\ LockInv /\ TokenInv /\ ChaseInv
  BY DEF Calm
<1>1. /\ lock = NoTab /\ chain[t].phase = "queued" /\ NoTab \notin Tabs
      /\ UNCHANGED <<asked, told, torn, server, spent>>
  BY CalmTypes, <1>0 DEF Acquire, Free
<1>2. /\ \A m \in net : ~m.live
      /\ \A u \in Tabs : chain[u].phase \notin Posting
      /\ ~Presented
  BY <1>0, <1>1, CalmTypes DEF LockInv, ChaseInv
<1>3. CASE Moved(t)
  <2>1. Finish(t, "ok", jar) /\ UNCHANGED net
    BY <1>3 DEF Acquire
  <2>2. /\ chain'[t] = Idle /\ joined'[t] = FALSE /\ latch'[t] = FALSE
        /\ ~booting[t] => status'[t] = status[t] /\ booting'[t] = FALSE
        /\ \A u \in Tabs : u # t => /\ chain'[u] = chain[u] /\ joined'[u] = joined[u]
                                    /\ latch'[u] = latch[u] /\ status'[u] = status[u]
                                    /\ booting'[u] = booting[u]
    BY <2>1, FinishOk
  <2>3. jar' = jar /\ lock' = NoTab
    BY <1>1, <2>1 DEF Finish, Release
  <2>4. LiveInv'
    BY <1>0, <1>1, <2>1, <2>2, <2>3 DEF LiveInv, server
  <2>5. LockInv'
    BY <1>0, <1>2, <2>1, <2>2, <2>3 DEF LockInv, Idle, Posting
  <2>6. TokenInv' /\ (Presented' => Presented)
    <3>1. Fewer
      BY <2>1 DEF Fewer
    <3> QED
      BY <1>0, <1>1, <2>3, <3>1, FewerTokens DEF server
  <2>7. ChaseInv'
    BY <1>2, <2>6 DEF ChaseInv, Presented
  <2> QED
    BY <2>4, <2>5, <2>6, <2>7 DEF Calm
<1>4. CASE ~Moved(t)
  <2>1. /\ lock' = t /\ chain' = [chain EXCEPT ![t].phase = "first"] /\ net' = net \cup {Post(t)}
        /\ UNCHANGED <<jar, status, booting, latch, joined>>
    BY <1>4 DEF Acquire
  <2>2. chain'[t].phase = "first" /\ \A u \in Tabs : u # t => chain'[u] = chain[u]
    <3>1. PICK c \in Chain(Len(access)) : c = chain[t]
      BY TypeParts
    <3>2. PICK d : d = [c EXCEPT !.phase = "first"]
      OBVIOUS
    <3>3. d.phase = "first"
      BY <3>2 DEF Chain
    <3>4. chain' = [chain EXCEPT ![t] = d]
      BY <2>1, <3>1, <3>2
    <3> QED
      BY <3>3, <3>4, TypeParts
  <2>3. Post(t).kind = "refresh" /\ Post(t).token = jar.refresh /\ Post(t).tab = t
    BY DEF Post
  <2>4. LiveInv'
    BY <1>0, <1>1, <2>1, <2>3 DEF LiveInv, server
  <2>5. LockInv'
    <3>1. ASSUME NEW m \in net', m.live PROVE m = Post(t)
      BY <1>2, <2>1, <3>1
    <3> QED
      BY <1>0, <1>2, <2>1, <2>2, <2>3, <3>1 DEF LockInv, Posting
  <2>6. TokenInv'
    BY <1>1, <1>2, <2>1, PostTokens DEF server, Presented
  <2>7. ChaseInv'
    <3>1. rows'[jar'.refresh].consumed = "no"
      BY <1>1, <1>2, <2>1 DEF Presented, server
    <3> QED
      BY <2>2, <3>1 DEF ChaseInv, Posting
  <2> QED
    BY <2>4, <2>5, <2>6, <2>7 DEF Calm
<1> QED
  BY <1>3, <1>4

LEMMA RetryCalm ==
  ASSUME SessionAssumption, TypeOK, Calm, NEW t \in Tabs, Retry(t)
  PROVE  Calm'
<1>0. LiveInv /\ LockInv /\ TokenInv /\ ChaseInv
  BY DEF Calm
<1>1. /\ chain[t].phase = "pause" /\ chain' = [chain EXCEPT ![t].phase = "second"]
      /\ net' = net \cup {Post(t)}
      /\ UNCHANGED <<jar, lock, status, booting, latch, asked, joined, told, torn, server, spent>>
  BY DEF Retry
<1>2. lock = t /\ \A m \in net : ~m.live
  <2>1. lock = t
    BY <1>0, <1>1 DEF LockInv, Posting
  <2> QED
    BY <1>0, <1>1, <2>1 DEF LockInv
<1>3. chain'[t].phase = "second" /\ \A u \in Tabs : u # t => chain'[u] = chain[u]
  <2>1. PICK c \in Chain(Len(access)) : c = chain[t]
    BY TypeParts
  <2>2. PICK d : d = [c EXCEPT !.phase = "second"]
    OBVIOUS
  <2>3. d.phase = "second"
    BY <2>2 DEF Chain
  <2>4. chain' = [chain EXCEPT ![t] = d]
    BY <1>1, <2>1, <2>2
  <2> QED
    BY <2>3, <2>4, TypeParts
<1>4. Post(t).kind = "refresh" /\ Post(t).token = jar.refresh /\ Post(t).tab = t
  BY DEF Post
<1>5. LiveInv'
  BY <1>0, <1>1, <1>4 DEF LiveInv, server
<1>6. LockInv'
  <2>1. ASSUME NEW m \in net', m.live PROVE m = Post(t)
    BY <1>1, <1>2, <2>1
  <2> QED
    BY <1>0, <1>1, <1>2, <1>3, <1>4, <2>1 DEF LockInv, Posting
<1>7. TokenInv'
  <2>1. ASSUME NEW u \in Tabs PROVE chain[u].phase # "second"
    BY <1>0, <1>1, <1>2, <2>1 DEF LockInv, Posting
  <2> QED
    BY <1>0, <1>1, <2>1, PostTokens DEF server, ChaseInv
<1>8. ChaseInv'
  BY <1>3 DEF ChaseInv, Posting
<1> QED
  BY <1>5, <1>6, <1>7, <1>8 DEF Calm

\* The first try goes unanswered. (After the second, the session counts as torn.)
LEMMA LoseCalm ==
  ASSUME SessionAssumption, TypeOK, Calm, NEW t \in Tabs, Lose(t) \/ Abort(t), ~torn'
  PROVE  Calm'
<1>0. LiveInv /\ LockInv /\ TokenInv /\ ChaseInv
  BY DEF Calm
<1>1. /\ chain' = [chain EXCEPT ![t].phase = "pause"] /\ chain[t].phase = "first"
      /\ UNCHANGED <<jar, lock, status, booting, latch, joined, torn, asked, told, server>>
  BY DEF Lose, Abort, NoAnswer
<1>2. PICK m \in net : m.live /\ m.tab = t /\ (net' = net \ {m} \/ net' = Unheard({m}))
  BY DEF Lose, Abort, Waiting
<1>3. Fewer /\ \A q \in net' : q.live => q \in net /\ q # m
  <2>1. CASE net' = net \ {m}
    BY <2>1 DEF Fewer
  <2>2. CASE net' = Unheard({m})
    BY <1>0, <2>2, UnheardFewer
  <2> QED
    BY <1>2, <2>1, <2>2
<1>4. \A q \in net' : ~q.live
  BY <1>0, <1>2, <1>3 DEF LockInv
<1>5. chain'[t].phase = "pause" /\ \A u \in Tabs : u # t => chain'[u] = chain[u]
  <2>1. PICK c \in Chain(Len(access)) : c = chain[t]
    BY TypeParts
  <2>2. PICK d : d = [c EXCEPT !.phase = "pause"]
    OBVIOUS
  <2>3. d.phase = "pause"
    BY <2>2 DEF Chain
  <2>4. chain' = [chain EXCEPT ![t] = d]
    BY <1>1, <2>1, <2>2
  <2> QED
    BY <2>3, <2>4, TypeParts
<1>6. LiveInv'
  BY <1>0, <1>1, <1>3, FewerKinds DEF LiveInv, server
<1>7. LockInv'
  BY <1>0, <1>1, <1>4, <1>5 DEF LockInv, Posting
<1>8. TokenInv'
  BY <1>0, <1>1, <1>3, FewerTokens DEF server
<1>9. ChaseInv'
  <2>1. ASSUME NEW u \in Tabs PROVE chain[u].phase # "second"
    BY <1>0, <1>1, <2>1 DEF LockInv, Posting
  <2>2. rows'[jar'.refresh].consumed # "longago"
    BY <1>0, <1>1, <2>1 DEF ChaseInv, server
  <2> QED
    BY <1>5, <2>2 DEF ChaseInv, Posting
<1> QED
  BY <1>6, <1>7, <1>8, <1>9 DEF Calm

\* The answer puts a token in the jar that nobody has presented.
LEMMA AnsweredCalm ==
  ASSUME SessionAssumption, TypeOK, Calm, NEW t \in Tabs, Answered(t)
  PROVE  Calm'
<1>0. LiveInv /\ LockInv /\ TokenInv /\ ChaseInv
  BY DEF Calm
<1>1. PICK m \in net : /\ m.tab = t /\ m.live /\ m.kind # "refresh" /\ net' = net \ {m}
                       /\ Finish(t, IF m.kind = "rotated" THEN "ok" ELSE "expired", Cookies(m))
  BY DEF Answered, Waiting
<1>2. m.kind = "rotated" /\ m.token > 0 /\ m.access > 0
  BY <1>0, <1>1 DEF LiveInv
<1>3. Finish(t, "ok", Cookies(m)) /\ UNCHANGED <<asked, told, torn, server, spent>>
  BY <1>1, <1>2 DEF Answered
<1>4. jar' = [access |-> m.access, refresh |-> m.token]
  BY <1>2, <1>3 DEF Finish, Cookies
<1>5. /\ chain'[t] = Idle /\ joined'[t] = FALSE /\ latch'[t] = FALSE
      /\ \A u \in Tabs : u # t => /\ chain'[u] = chain[u] /\ joined'[u] = joined[u]
                                  /\ latch'[u] = latch[u]
  BY <1>3, FinishOk
<1>6. lock = t /\ lock' = NoTab
  BY <1>0, <1>1, <1>3 DEF LockInv, Finish, Release
<1>7. \A q \in net' : ~q.live /\ q \in net
  BY <1>0, <1>1 DEF LockInv
<1>8. \A q \in net' : q.kind = "refresh"
  BY <1>0, <1>7 DEF LiveInv
<1>9. Unused(m.token)
  BY <1>0, <1>2 DEF TokenInv
<1>10. LiveInv'
  BY <1>0, <1>2, <1>3, <1>4, <1>5, <1>7, <1>8 DEF LiveInv, server
<1>11. LockInv'
  BY <1>0, <1>5, <1>6, <1>7 DEF LockInv, Posting, Idle
<1>12. rows'[jar'.refresh].consumed = "no" /\ \A q \in net' : q.token # jar'.refresh
  BY <1>3, <1>4, <1>7, <1>8, <1>9 DEF Unused, server
<1>13. TokenInv'
  BY <1>0, <1>3, <1>7, <1>8, <1>12 DEF TokenInv, server
<1>14. ChaseInv'
  BY <1>12 DEF ChaseInv, Presented
<1> QED
  BY <1>10, <1>11, <1>13, <1>14 DEF Calm

\* Nothing is said to the server, and no cookie changes.
LEMMA QuietCalm ==
  ASSUME SessionAssumption, TypeOK, Calm,
         UNCHANGED <<jar, lock, net, rows, ended, alarms, told, latch>>,
         \A u \in Tabs : /\ chain'[u].phase \in Posting => chain[u].phase \in Posting
                         /\ chain'[u].phase = "idle" => ~joined'[u]
                         /\ chain[u].phase \in Posting => chain'[u] = chain[u]
  PROVE  Calm'
<1>0. LiveInv /\ LockInv /\ TokenInv /\ ChaseInv
  BY DEF Calm
<1>1. LiveInv'
  BY <1>0 DEF LiveInv
<1>2. LockInv'
  <2>1. ASSUME NEW m \in net, m.live PROVE lock = m.tab /\ chain[m.tab].phase \in {"first", "second"}
    BY <1>0, <2>1 DEF LockInv
  <2>2. ASSUME NEW m \in net, m.live PROVE chain'[m.tab] = chain[m.tab]
    BY <1>0, <2>1, <2>2, CalmTypes DEF Posting
  <2> QED
    BY <1>0, <2>1, <2>2 DEF LockInv
<1>3. TokenInv' /\ (Presented' => Presented)
  <2>1. Fewer
    BY DEF Fewer
  <2> QED
    BY <1>0, <2>1, FewerTokens DEF server
<1>4. ChaseInv'
  BY <1>0, <1>3 DEF ChaseInv, Posting
<1> QED
  BY <1>1, <1>2, <1>3, <1>4 DEF Calm

LEMMA AskCalm ==
  ASSUME SessionAssumption, TypeOK, Calm, NEW t \in Tabs, Ask(t) \/ Unanswered(t)
  PROVE  Calm'
<1>1. LockInv /\ UNCHANGED <<jar, lock, net, rows, ended, alarms, told, latch, chain, joined>>
  BY DEF Calm, Ask, Unanswered, server
<1> QED
  BY <1>1, QuietCalm DEF LockInv

\* A tab that joins or queues says nothing yet.
LEMMA TryCalm ==
  ASSUME Locks, TypeOK, NEW t \in Tabs, NEW call \in BOOLEAN, TryRefresh(t, call)
  PROVE  /\ net' = net /\ \A u \in Tabs : u # t => chain'[u] = chain[u] /\ joined'[u] = joined[u]
         /\ chain[t].phase # "idle" => chain'[t] = chain[t]
         /\ chain[t].phase = "idle" => chain'[t] = [phase |-> "queued", before |-> jar.access]
<1>1. chain \in [Tabs -> Chain(Len(access))] /\ joined \in Flags
  BY TypeParts
<1>2. PICK b : b = (joined[t] \/ call)
  OBVIOUS
<1>3. joined' = [joined EXCEPT ![t] = b]
  BY <1>2 DEF TryRefresh
<1>4. \A u \in Tabs : u # t => joined'[u] = joined[u]
  BY <1>1, <1>3 DEF Flags
<1> QED
  BY <1>1, <1>4 DEF TryRefresh

LEMMA ReplyCalm ==
  ASSUME SessionAssumption, Locks, TypeOK, Calm, NEW t \in Tabs, Reply(t)
  PROVE  Calm'
<1>0. LiveInv /\ LockInv
  BY DEF Calm
<1>1. UNCHANGED <<jar, lock, latch, told, torn, server, spent>>
  BY DEF Reply
<1>2. CASE Settled(t, TRUE) /\ UNCHANGED <<chain, joined, net>>
  BY <1>0, <1>1, <1>2, QuietCalm DEF server, LockInv
<1>3. CASE TryRefresh(t, TRUE) /\ UNCHANGED <<status, booting>>
  <2>1. /\ net' = net /\ \A u \in Tabs : u # t => chain'[u] = chain[u] /\ joined'[u] = joined[u]
        /\ chain[t].phase # "idle" => chain'[t] = chain[t]
        /\ chain[t].phase = "idle" => chain'[t] = [phase |-> "queued", before |-> jar.access]
    BY <1>3, TryCalm
  <2>2. \A u \in Tabs : /\ chain'[u].phase \in Posting => chain[u].phase \in Posting
                        /\ chain'[u].phase = "idle" => ~joined'[u]
                        /\ chain[u].phase \in Posting => chain'[u] = chain[u]
    BY <1>0, <2>1 DEF LockInv, Posting
  <2> QED
    BY <1>1, <2>1, <2>2, QuietCalm DEF server
<1> QED
  BY <1>0, <1>2, <1>3 DEF Reply, LiveInv

LEMMA RenewCalm ==
  ASSUME SessionAssumption, Locks, TypeOK, Calm, NEW t \in Tabs, Renew(t)
  PROVE  Calm'
<1>0. LockInv
  BY DEF Calm
<1>1. /\ chain[t].phase = "idle" /\ TryRefresh(t, FALSE)
      /\ UNCHANGED <<jar, lock, status, booting, latch, asked, told, torn, server, spent>>
  BY DEF Renew
<1>2. /\ net' = net /\ \A u \in Tabs : u # t => chain'[u] = chain[u] /\ joined'[u] = joined[u]
      /\ chain'[t] = [phase |-> "queued", before |-> jar.access]
  BY <1>1, TryCalm
<1>3. \A u \in Tabs : /\ chain'[u].phase \in Posting => chain[u].phase \in Posting
                      /\ chain'[u].phase = "idle" => ~joined'[u]
                      /\ chain[u].phase \in Posting => chain'[u] = chain[u]
  BY <1>0, <1>1, <1>2 DEF LockInv, Posting
<1> QED
  BY <1>1, <1>2, <1>3, QuietCalm DEF server

LEMMA TickCalm ==
  ASSUME SessionAssumption, TypeOK, Calm, Tick \/ RoleChange
  PROVE  Calm'
<1>1. /\ LockInv
      /\ UNCHANGED <<jar, lock, net, rows, ended, alarms, told, latch, chain, joined>>
  BY DEF Calm, Tick, RoleChange, tabvars
<1> QED
  BY <1>1, QuietCalm DEF LockInv

\* A sign-in puts a token in the jar that nobody has seen.
LEMMA LoginCalm ==
  ASSUME SessionAssumption, TypeOK, Calm, NEW t \in Tabs, Login(t)
  PROVE  Calm'
<1>0. LiveInv /\ LockInv /\ TokenInv /\ ChaseInv
  BY DEF Calm
<1>1. PICK n \in Nat, k \in Nat : n = Len(rows) /\ k = Len(access) /\ DOMAIN rows = 1 .. n
  BY Lengths
<1>2. /\ jar' = [access |-> k + 1, refresh |-> n + 1]
      /\ latch' = [latch EXCEPT ![t] = FALSE]
      /\ UNCHANGED <<lock, booting, asked, chain, joined, told, torn, net, tombstones, ended, alarms>>
  BY <1>1 DEF Login
<1>3. /\ DOMAIN rows' = 1 .. n + 1 /\ \A i \in 1 .. n : rows'[i] = rows[i]
      /\ rows'[n + 1] = Row(spent.signins + 1)
  BY <1>1, LoginRows
<1>4. rows'[n + 1].consumed = "no" /\ rows'[n + 1].revoked = FALSE
  BY <1>3 DEF Row
<1>5. \A m \in net : m.token \in 1 .. n
  BY <1>0, <1>1, CalmTypes
<1>6. \A u \in Tabs : ~latch'[u]
  BY <1>0, <1>2, TypeParts DEF LiveInv, Flags
<1>7. LiveInv'
  <2>1. \A j \in 1 .. n + 1 : ~rows'[j].revoked
    <3>1. ASSUME NEW j \in 1 .. n + 1 PROVE j \in 1 .. n \/ j = n + 1
      BY <1>1
    <3> QED
      BY <1>0, <1>1, <1>3, <1>4, <3>1 DEF LiveInv
  <2> QED
    BY <1>0, <1>1, <1>2, <1>3, <1>6, <2>1 DEF LiveInv
<1>8. LockInv'
  BY <1>0, <1>2 DEF LockInv
<1>9. rows'[jar'.refresh].consumed = "no" /\ \A m \in net' : m.token # jar'.refresh
  BY <1>1, <1>2, <1>4, <1>5
<1>10. ASSUME NEW x, Unused(x) PROVE Unused(x)'
  <2>1. x \in 1 .. n /\ x # n + 1 /\ x \in 1 .. n + 1
    BY <1>1, <1>10 DEF Unused
  <2> QED
    BY <1>2, <1>3, <1>10, <2>1 DEF Unused
<1>11. TokenInv'
  BY <1>0, <1>2, <1>3, <1>5, <1>9, <1>10 DEF TokenInv
<1>12. ChaseInv'
  BY <1>9 DEF ChaseInv, Presented
<1> QED
  BY <1>7, <1>8, <1>11, <1>12 DEF Calm

\* A page left while it waits for nobody's answer takes no token with it.
LEMMA ReloadCalm ==
  ASSUME SessionAssumption, TypeOK, Calm, NEW t \in Tabs, Reload(t), ~torn'
  PROVE  Calm'
<1>0. LiveInv /\ LockInv /\ TokenInv /\ ChaseInv
  BY DEF Calm
<1>1. UNCHANGED <<jar, server>> /\ net' = Unheard({m \in net : m.tab = t})
  BY DEF Reload
<1>2. /\ latch'[t] = FALSE /\ chain'[t] = Idle
      /\ joined'[t] = FALSE /\ told'[t] = FALSE
      /\ \A u \in Tabs : u # t => /\ chain'[u] = chain[u] /\ joined'[u] = joined[u]
                                  /\ latch'[u] = latch[u] /\ told'[u] = told[u]
  BY TypeParts DEF Reload, Flags
<1>4. Fewer /\ \A q \in net' : q.live => q \in net /\ q.tab # t
  BY <1>0, <1>1, UnheardFewer
<1>5. LiveInv'
  BY <1>0, <1>1, <1>2, <1>4, FewerKinds DEF LiveInv, server
<1>6. LockInv'
  <2>1. ASSUME NEW u \in Tabs, u # t, lock = u PROVE lock' = u
    BY <2>1 DEF Reload, Release
  <2>2. ASSUME NEW m \in net', m.live PROVE lock' = m.tab /\ chain'[m.tab].phase \in {"first", "second"}
    <3>1. m \in net /\ m.tab # t /\ m.tab \in Tabs
      BY <1>0, <1>4, <2>2, CalmTypes
    <3>2. lock = m.tab /\ chain[m.tab].phase \in {"first", "second"}
      BY <1>0, <2>2, <3>1 DEF LockInv
    <3> QED
      BY <1>2, <2>1, <3>1, <3>2
  <2>3. ASSUME NEW u \in Tabs, chain'[u].phase \in Posting PROVE lock' = u
    <3>1. u # t
      BY <1>2, <2>3 DEF Idle, Posting
    <3> QED
      BY <1>0, <1>2, <2>1, <2>3, <3>1 DEF LockInv
  <2>4. ASSUME NEW u \in Tabs, chain'[u].phase = "idle" PROVE ~joined'[u]
    BY <1>0, <1>2, <2>4 DEF LockInv
  <2>5. ASSUME NEW m \in net', NEW q \in net', m.live, q.live PROVE m = q
    BY <1>0, <1>4, <2>5 DEF LockInv
  <2> QED
    BY <2>2, <2>3, <2>4, <2>5 DEF LockInv
<1>7. TokenInv' /\ (Presented' => Presented)
  BY <1>0, <1>1, <1>4, FewerTokens DEF server
<1>8. chain[t].phase \notin Posting
  BY DEF Reload
<1>9. ChaseInv'
  BY <1>0, <1>1, <1>2, <1>7, <1>8 DEF ChaseInv, Posting, server
<1> QED
  BY <1>5, <1>6, <1>7, <1>9 DEF Calm

\* The browser, while the server answers m with a.
LEMMA AnswerLock ==
  ASSUME SessionAssumption, TypeOK, Calm, NEW m \in net, NEW a, a.tab = m.tab, a.live = m.live,
         Answer(m, a), UNCHANGED <<jar, lock, tabvars, spent>>
  PROVE  LockInv'
<1>0. LockInv /\ LiveInv
  BY DEF Calm
<1>1. net' = (net \ {m}) \cup {x \in {a} : m.live} /\ UNCHANGED <<lock, chain, joined>>
  BY DEF Answer, tabvars
<1>2. ASSUME NEW q \in net', q.live
      PROVE  /\ lock = q.tab /\ chain[q.tab].phase \in {"first", "second"}
             /\ m.live => q = a
             /\ ~m.live => q \in net
  <2>1. CASE q = a /\ m.live
    BY <1>0, <2>1 DEF LockInv
  <2>2. CASE q \in net \ {m}
    BY <1>0, <1>2, <2>2 DEF LockInv
  <2> QED
    BY <1>1, <2>1, <2>2
<1>3. ASSUME NEW q \in net', NEW r \in net', q.live, r.live PROVE q = r
  BY <1>0, <1>2, <1>3 DEF LockInv
<1> QED
  BY <1>0, <1>1, <1>2, <1>3 DEF LockInv

LEMMA ReplayCalm ==
  ASSUME SessionAssumption, TypeOK, Calm, NEW m \in net, Replay(m),
         UNCHANGED <<jar, lock, tabvars, spent>>
  PROVE  Calm'
<1>0. LiveInv /\ LockInv /\ TokenInv /\ ChaseInv
  BY DEF Calm
<1>1. PICK n \in Nat, k \in Nat : n = Len(rows) /\ k = Len(access)
  BY Lengths
<1>2. m \in Message(n, k) /\ m.kind = "refresh" /\ rows[m.token].consumed = "justnow"
  BY <1>1, TypeParts DEF Replay, InGrace
<1>3. PICK s : s = rows[m.token].successor
  OBVIOUS
<1>4. PICK b : b = k + 1
  OBVIOUS
<1>5. PICK a : a = Rotated(m, s)
  OBVIOUS
<1>6. /\ a.kind = "rotated" /\ a.token = s /\ a.access = b /\ a.tab = m.tab /\ a.live = m.live
  <2>1. a = [m EXCEPT !.kind = "rotated", !.token = s, !.access = b]
    BY <1>1, <1>4, <1>5 DEF Rotated
  <2> QED
    BY <1>2, <2>1 DEF Message
<1>7. Answer(m, a) /\ access' = Append(access, "young") /\ UNCHANGED <<rows, tombstones, ended, alarms>>
  BY <1>3, <1>5 DEF Replay
<1>8. net' = (net \ {m}) \cup {x \in {a} : m.live}
  BY <1>7 DEF Answer
<1>9. m.live => Unused(s)
  BY <1>0, <1>2, <1>3 DEF TokenInv
<1>10. m.live => s > 0
  BY <1>1, <1>9, Lengths DEF Unused
<1>11. LiveInv'
  <2>1. ASSUME NEW q \in net'
        PROVE  /\ q.kind \in {"refresh", "rotated"} /\ q.token > 0
               /\ q.kind = "rotated" => q.live /\ q.access > 0
    BY <1>0, <1>1, <1>4, <1>6, <1>8, <1>10 DEF LiveInv
  <2> QED
    BY <1>0, <1>7, <2>1 DEF LiveInv, tabvars
<1>12. LockInv'
  BY <1>6, <1>7, AnswerLock
<1>13. ASSUME NEW q \in net', q.kind = "refresh" PROVE q \in net
  BY <1>6, <1>8, <1>13
<1>14. ASSUME NEW x, Unused(x) PROVE Unused(x)'
  BY <1>7, <1>13, <1>14 DEF Unused
<1>15. ASSUME NEW q \in net', q.kind = "rotated" PROVE Unused(q.token)
  BY <1>0, <1>6, <1>8, <1>9, <1>15 DEF TokenInv
<1>16. TokenInv'
  BY <1>0, <1>7, <1>13, <1>14, <1>15 DEF TokenInv
<1>17. Presented' => Presented
  BY <1>7, <1>13 DEF Presented
<1>18. ChaseInv'
  BY <1>0, <1>7, <1>17 DEF ChaseInv, tabvars
<1> QED
  BY <1>11, <1>12, <1>16, <1>18 DEF Calm

LEMMA ClaimCalm ==
  ASSUME SessionAssumption, TypeOK, Calm, NEW m \in net, Claim(m),
         UNCHANGED <<jar, lock, tabvars, spent>>
  PROVE  Calm'
<1>0. LiveInv /\ LockInv /\ TokenInv /\ ChaseInv
  BY DEF Calm
<1>1. PICK n \in Nat, k \in Nat : n = Len(rows) /\ k = Len(access) /\ DOMAIN rows = 1 .. n
  BY Lengths
<1>2. m \in Message(n, k) /\ m.kind = "refresh"
  BY <1>1, TypeParts DEF Claim
<1>3. PICK j : j = m.token
  OBVIOUS
<1>4. /\ j \in 1 .. n /\ DOMAIN rows' = 1 .. n + 1
      /\ \A i \in 1 .. n : i # j => rows'[i] = rows[i]
      /\ rows'[n + 1] = Row(rows[j].family)
      /\ rows'[j].consumed = "justnow" /\ rows'[j].successor = n + 1
      /\ rows'[j].revoked = rows[j].revoked
  BY <1>1, <1>3, ClaimRows
<1>5. PICK b : b = k + 1
  OBVIOUS
<1>6. PICK s : s = n + 1
  OBVIOUS
<1>7. PICK a : a = Rotated(m, s)
  OBVIOUS
<1>8. /\ a.kind = "rotated" /\ a.token = s /\ a.access = b /\ a.tab = m.tab /\ a.live = m.live
  <2>1. a = [m EXCEPT !.kind = "rotated", !.token = s, !.access = b]
    BY <1>1, <1>5, <1>7 DEF Rotated
  <2> QED
    BY <1>2, <2>1 DEF Message
<1>9. Answer(m, a) /\ access' = Append(access, "young") /\ UNCHANGED <<tombstones, ended, alarms>>
  BY <1>1, <1>6, <1>7 DEF Claim
<1>10. net' = (net \ {m}) \cup {x \in {a} : m.live} /\ jar' = jar
  BY <1>9 DEF Answer
<1>11. ASSUME NEW i \in 1 .. n + 1 PROVE i \in 1 .. n \/ i = n + 1
  BY <1>1
<1>12. rows'[s].consumed = "no" /\ rows'[s].revoked = FALSE
  BY <1>4, <1>6 DEF Row
<1>13. LiveInv'
  <2>1. ASSUME NEW q \in net'
        PROVE  /\ q.kind \in {"refresh", "rotated"} /\ q.token > 0
               /\ q.kind = "rotated" => q.live /\ q.access > 0
    BY <1>0, <1>1, <1>5, <1>6, <1>8, <1>10 DEF LiveInv
  <2>2. \A i \in DOMAIN rows' : ~rows'[i].revoked
    BY <1>0, <1>1, <1>4, <1>6, <1>11, <1>12 DEF LiveInv
  <2> QED
    BY <1>0, <1>9, <1>10, <2>1, <2>2 DEF LiveInv, tabvars
<1>14. LockInv'
  BY <1>8, <1>9, AnswerLock
<1>15. ASSUME NEW q \in net', q.kind = "refresh" PROVE q \in net
  BY <1>8, <1>10, <1>15
<1>16. ASSUME NEW x, Unused(x) PROVE Unused(x)' /\ x # j
  <2>1. x \in 1 .. n /\ x \in 1 .. n + 1 /\ x # j
    BY <1>1, <1>2, <1>3, <1>16 DEF Unused
  <2> QED
    BY <1>4, <1>10, <1>15, <1>16, <2>1 DEF Unused
<1>17. Unused(s)'
  <2>1. jar.refresh \in 1 .. n /\ \A q \in net : q.token \in 1 .. n
    BY <1>0, <1>1, CalmTypes
  <2>2. s \in 1 .. n + 1 /\ s \notin 1 .. n
    BY <1>1, <1>6
  <2> QED
    BY <1>4, <1>10, <1>12, <1>15, <2>1, <2>2 DEF Unused
<1>18. TokenInv'
  <2>1. jar.refresh \in 1 .. n /\ \A q \in net : q.token \in 1 .. n
    BY <1>0, <1>1, CalmTypes
  <2>2. ASSUME NEW i \in 1 .. n, rows[i].consumed # "longago" PROVE rows'[i].consumed # "longago"
    BY <1>4, <2>2
  <2>3. ASSUME NEW i \in 1 .. n, rows'[i].consumed = "justnow",
               rows[i].consumed = "justnow" => Unused(rows[i].successor)
        PROVE  Unused(rows[i].successor)'
    <3>1. CASE i = j
      BY <1>4, <1>6, <1>17, <3>1
    <3>2. CASE i # j
      BY <1>4, <1>16, <2>3, <3>2
    <3> QED
      BY <3>1, <3>2
  <2>4. ASSUME NEW q \in net', q.kind = "rotated" PROVE Unused(q.token)'
    BY <1>0, <1>8, <1>10, <1>16, <1>17, <2>4 DEF TokenInv
  <2> QED
    BY <1>0, <1>10, <1>15, <2>1, <2>2, <2>3, <2>4 DEF TokenInv
<1>19. Presented' => Presented
  <2>1. jar.refresh \in 1 .. n
    BY <1>0, <1>1, CalmTypes
  <2> QED
    BY <1>2, <1>3, <1>4, <1>10, <1>15, <2>1 DEF Presented
<1>20. ChaseInv'
  <2>1. jar.refresh \in 1 .. n
    BY <1>0, <1>1, CalmTypes
  <2>2. rows'[jar.refresh].consumed = "longago" => rows[jar.refresh].consumed = "longago"
    BY <1>4, <2>1
  <2> QED
    BY <1>0, <1>10, <1>19, <2>2 DEF ChaseInv, tabvars
<1> QED
  BY <1>13, <1>14, <1>18, <1>20 DEF Calm

\* A window closes on the token in the jar only behind a second try.
LEMMA GraceCalm ==
  ASSUME SessionAssumption, TypeOK, Calm, NEW j \in DOMAIN rows, GraceEnds(j)
  PROVE  Calm'
<1>0. LiveInv /\ LockInv /\ TokenInv /\ ChaseInv
  BY DEF Calm
<1>1. /\ rows[j].consumed = "justnow" /\ ~Refreshing(j)
      /\ UNCHANGED <<jar, lock, tabvars, net, access, tombstones, ended, alarms, spent>>
  BY DEF GraceEnds
<1>2. /\ DOMAIN rows' = DOMAIN rows /\ \A i \in DOMAIN rows : i # j => rows'[i] = rows[i]
      /\ rows'[j].consumed = "longago" /\ rows'[j].revoked = rows[j].revoked
  BY GraceRows
<1>3. \A m \in net : m.kind = "refresh" => m.token # j
  BY <1>1 DEF Refreshing
<1>4. jar.refresh \in DOMAIN rows /\ \A m \in net : m.token \in DOMAIN rows
  BY <1>0, CalmTypes
<1>5. LiveInv'
  BY <1>0, <1>1, <1>2 DEF LiveInv, tabvars
<1>6. LockInv'
  BY <1>0, <1>1 DEF LockInv, tabvars
<1>7. ASSUME NEW x, Unused(x) PROVE Unused(x)'
  BY <1>1, <1>2, <1>7 DEF Unused
<1>8. TokenInv'
  BY <1>0, <1>1, <1>2, <1>3, <1>4, <1>7 DEF TokenInv
<1>9. ChaseInv'
  <2>1. Presented' => Presented
    BY <1>1, <1>2, <1>4 DEF Presented
  <2>2. CASE j = jar.refresh
    <3>1. PICK t \in Tabs : chain[t].phase \in Posting
      BY <1>0, <1>1, <2>2 DEF ChaseInv, Presented
    <3>2. chain[t].phase = "second"
      BY <1>1, <2>2, <3>1 DEF Refreshing, Posting
    <3> QED
      BY <1>1, <3>1, <3>2 DEF ChaseInv, tabvars
  <2>3. CASE j # jar.refresh
    BY <1>0, <1>1, <1>2, <1>4, <2>1, <2>3 DEF ChaseInv, tabvars
  <2> QED
    BY <2>2, <2>3
<1> QED
  BY <1>5, <1>6, <1>8, <1>9 DEF Calm

\* What tears a session or ends it is not undone.
LEMMA DisturbedStays ==
  ASSUME TypeOK, [Next]_vars, Undisturbed'
  PROVE  Undisturbed /\ ~torn'
<1>1. torn => torn'
  BY DEF Next, Acquire, Lose, Abort, NoAnswer, Retry, Answered, Ask, Reply, Unanswered, Renew,
     Logout, LogoutDone, SignOutLocal, Login, Reload, Serve, Tick, RoleChange, GraceEnds, EndSession, tabvars, vars
<1>2. spent.ends <= spent'.ends /\ spent.ends \in Nat /\ spent'.ends \in Nat
  BY SpentStep
<1> QED
  BY <1>1, <1>2 DEF Undisturbed

\* Nothing ends an undisturbed session: no refusal, no sign-out, no broadcast is there to act on.
LEMMA NothingEnds ==
  ASSUME SessionAssumption, TypeOK, Calm
  PROVE  /\ \A m \in net : ~Reject(m) /\ ~Unknown(m) /\ ~ServeLogout(m)
         /\ \A t \in Tabs : ~LogoutDone(t) /\ ~SignOutLocal(t)
<1>0. LiveInv /\ TokenInv
  BY DEF Calm
<1>1. ASSUME NEW m \in net PROVE ~Reject(m) /\ ~Unknown(m) /\ ~ServeLogout(m)
  <2>1. /\ m.token \in DOMAIN rows /\ m.token > 0 /\ m.kind \in {"refresh", "rotated"}
        /\ rows[m.token].consumed \in {"no", "justnow", "longago"}
    BY <1>0, CalmTypes DEF LiveInv
  <2>2. ~rows[m.token].revoked /\ ended = {}
    BY <1>0, <2>1 DEF LiveInv
  <2>3. m.kind = "refresh" => ~Reuse(m.token)
    BY <1>0, <2>1, <2>2 DEF TokenInv, Reuse, Consumable, InGrace
  <2> QED
    BY <2>1, <2>2, <2>3 DEF Reject, Unknown, ServeLogout
<1>2. ASSUME NEW t \in Tabs PROVE ~LogoutDone(t) /\ ~SignOutLocal(t)
  BY <1>0 DEF LiveInv, LogoutDone, SignOutLocal
<1> QED
  BY <1>1, <1>2

\* The steps that end a session leave it disturbed.
LEMMA EndsCount ==
  ASSUME TypeOK, (\E t \in Tabs : Logout(t)) \/ (\E f \in 1 .. MaxSignIns : EndSession(f))
  PROVE  ~Undisturbed'
<1>1. spent \in Spents /\ spent' = [spent EXCEPT !["ends"] = @ + 1]
  BY TypeParts DEF Logout, EndSession, Spend
<1>2. spent["ends"] \in Nat /\ spent'["ends"] = spent["ends"] + 1
  BY <1>1 DEF Spents
<1> QED
  BY <1>2 DEF Undisturbed

LEMMA CalmStep ==
  ASSUME SessionAssumption, Locks, TypeOK, RefreshInv, [Next]_vars
  PROVE  RefreshInv'
<1> SUFFICES ASSUME Undisturbed' PROVE Calm'
  BY DEF RefreshInv, Calm
<1>0. Calm /\ ~torn'
  BY DisturbedStays DEF RefreshInv, Calm
<1>1. ASSUME NEW t \in Tabs, Acquire(t) \/ Lose(t) \/ Abort(t) \/ Retry(t) \/ Answered(t) PROVE Calm'
  BY <1>0, <1>1, AcquireCalm, LoseCalm, RetryCalm, AnsweredCalm
<1>2. ASSUME NEW t \in Tabs, Ask(t) \/ Reply(t) \/ Unanswered(t) \/ Renew(t) PROVE Calm'
  BY <1>0, <1>2, AskCalm, ReplyCalm, RenewCalm
<1>3. ASSUME NEW t \in Tabs, Logout(t) \/ LogoutDone(t) \/ SignOutLocal(t) \/ Login(t) \/ Reload(t)
      PROVE  Calm'
  BY <1>0, <1>3, EndsCount, NothingEnds, LoginCalm, ReloadCalm
<1>4. ASSUME NEW m \in net, Serve(m) PROVE Calm'
  <2>1. UNCHANGED <<jar, lock, tabvars, spent>>
    BY <1>4 DEF Serve
  <2>2. Claim(m) \/ Replay(m)
    BY <1>0, <1>4, NothingEnds DEF Serve
  <2> QED
    BY <1>0, <2>1, <2>2, ClaimCalm, ReplayCalm
<1>5. ASSUME Tick \/ RoleChange PROVE Calm'
  BY <1>0, <1>5, TickCalm
<1>6. ASSUME NEW j \in DOMAIN rows, GraceEnds(j) PROVE Calm'
  BY <1>0, <1>6, GraceCalm
<1>7. ASSUME NEW f \in 1 .. MaxSignIns, EndSession(f) PROVE Calm'
  BY <1>7, EndsCount
<1>8. CASE UNCHANGED vars
  BY <1>0, <1>8 DEF Calm, LiveInv, LockInv, TokenInv, ChaseInv, Unused, Presented, vars, tabvars, server
<1> QED
  BY <1>1, <1>2, <1>3, <1>4, <1>5, <1>6, <1>7, <1>8 DEF Next

LEMMA InitCalm ==
  ASSUME SessionAssumption, Init
  PROVE  RefreshInv
<1>1. /\ jar.access = 1 /\ jar.refresh = 1 /\ lock = NoTab /\ net = {} /\ ended = {} /\ alarms = {}
      /\ \A t \in Tabs : chain[t] = Idle /\ joined[t] = FALSE /\ latch[t] = FALSE /\ told[t] = FALSE
  BY DEF Init
<1>2. DOMAIN rows = {1} /\ rows[1].consumed = "no" /\ rows[1].revoked = FALSE
  BY DEF Init, Row
<1> QED
  BY <1>1, <1>2 DEF RefreshInv, LiveInv, LockInv, TokenInv, ChaseInv, Presented, Idle, Posting

\* Where the browser has Web Locks, reuse detection never takes its own tabs for a thief, until
\* somebody signs out, the server ends a session, a page is left during a refresh of its own or both
\* tries of one go unanswered: whatever the number of tabs, sign-ins, expiries and lost answers.
THEOREM OwnTabsRaiseNoAlarm ==
  ASSUME Locks
  PROVE  Spec => []NoFalseAlarm
<1>1. Init => TypeOK /\ RefreshInv
  BY SessionAssumption, InitTyped, InitCalm
<1>2. TypeOK /\ RefreshInv /\ [Next]_vars => (TypeOK /\ RefreshInv)'
  BY SessionAssumption, NextTyped, CalmStep
<1>3. TypeOK /\ RefreshInv => NoFalseAlarm
  <2>1. TypeOK => spent.ends \in Nat
    BY TypeParts DEF Spents
  <2> QED
    BY <2>1 DEF RefreshInv, Undisturbed, LiveInv, NoFalseAlarm
<1> QED
  BY <1>1, <1>2, <1>3, PTL DEF Spec

\* Only the end of a refresh, a late 401 and a sign-out take a tab's status away.
LEMMA StaysIn ==
  ASSUME SessionAssumption, TypeOK, RefreshInv, Undisturbed, [Next]_vars, NEW t \in Tabs,
         status[t] = "authenticated", ~booting[t]
  PROVE  status'[t] # "unauthenticated"
<1>0. Calm /\ LiveInv
  BY DEF RefreshInv, Calm
<1>1. ASSUME NEW u \in Tabs, NEW outcome \in {"ok", "retryable"}, NEW cookies, Finish(u, outcome, cookies)
      PROVE  status'[t] = status[t]
  BY <1>1, FinishOk
<1>2. ASSUME NEW u \in Tabs, Acquire(u) \/ Lose(u) \/ Abort(u) PROVE status'[t] = status[t]
  BY <1>1, <1>2 DEF Acquire, Lose, Abort, NoAnswer
<1>3. ASSUME NEW u \in Tabs, Answered(u) PROVE status'[t] = status[t]
  <2>1. PICK m \in net : /\ m.kind # "refresh"
                         /\ Finish(u, IF m.kind = "rotated" THEN "ok" ELSE "expired", Cookies(m))
    BY <1>3 DEF Answered, Waiting
  <2>2. m.kind = "rotated"
    BY <1>0, <2>1 DEF LiveInv
  <2> QED
    BY <1>1, <2>1, <2>2
<1>4. ASSUME NEW u \in Tabs, Reply(u) PROVE status'[t] = status[t]
  <2>1. ~latch[u]
    BY <1>0 DEF LiveInv
  <2>2. CASE Settled(u, TRUE)
    <3>1. PICK v : v = IF ~booting[u] THEN status[u] ELSE "authenticated"
      OBVIOUS
    <3>2. status' = [status EXCEPT ![u] = v]
      BY <2>2, <3>1 DEF Settled
    <3> QED
      BY <3>1, <3>2, TypeParts
  <2> QED
    BY <1>4, <2>1, <2>2 DEF Reply
<1>5. ASSUME NEW u \in Tabs, Login(u) \/ Reload(u) \/ Unanswered(u) PROVE status'[t] = status[t]
  <2>1. CASE Login(u)
    BY <2>1, TypeParts DEF Login
  <2>2. CASE Reload(u)
    <3>1. PICK v : v = IF status[u] = "authenticated" THEN status[u] ELSE "loading"
      OBVIOUS
    <3>2. status' = [status EXCEPT ![u] = v]
      BY <2>2, <3>1 DEF Reload
    <3> QED
      BY <3>1, <3>2, TypeParts
  <2>3. CASE Unanswered(u)
    <3>1. PICK v : v = IF ~booting[u] THEN status[u] ELSE "unauthenticated"
      OBVIOUS
    <3>2. status' = [status EXCEPT ![u] = v]
      BY <2>3, <3>1 DEF Unanswered, Settled
    <3> QED
      BY <3>1, <3>2, TypeParts
  <2> QED
    BY <1>5, <2>1, <2>2, <2>3
<1>6. ASSUME NEW u \in Tabs, Retry(u) \/ Ask(u) \/ Renew(u) \/ Logout(u) PROVE status' = status
  BY <1>6 DEF Retry, Ask, Renew, Logout, tabvars
<1>7. ASSUME \/ \E m \in net : Serve(m)
             \/ Tick \/ RoleChange \/ (\E j \in DOMAIN rows : GraceEnds(j))
             \/ (\E f \in 1 .. MaxSignIns : EndSession(f)) \/ UNCHANGED vars
      PROVE  status' = status
  BY <1>7 DEF Serve, Tick, RoleChange, GraceEnds, EndSession, tabvars, vars
<1> QED
  BY <1>0, <1>2, <1>3, <1>4, <1>5, <1>6, <1>7, NothingEnds DEF Next

\* Under the same conditions no step, of this tab or another, signs a signed-in tab out: not a lost
\* answer, not a race for the lock, not a role change.
THEOREM TabsStaySignedIn ==
  ASSUME Locks
  PROVE  Spec => StaysSignedIn
<1>1. Init => TypeOK /\ RefreshInv
  BY SessionAssumption, InitTyped, InitCalm
<1>2. TypeOK /\ RefreshInv /\ [Next]_vars => (TypeOK /\ RefreshInv)'
  BY SessionAssumption, NextTyped, CalmStep
<1>3. TypeOK /\ RefreshInv /\ [Next]_vars
        => [\A t \in Tabs : status[t] = "authenticated" /\ ~booting[t] /\ status'[t] = "unauthenticated"
              => spent.ends > 0 \/ torn]_vars
  <2>1. TypeOK => spent.ends \in Nat
    BY TypeParts DEF Spents
  <2>2. TypeOK /\ ~(spent.ends > 0 \/ torn) => Undisturbed
    BY <2>1 DEF Undisturbed
  <2> QED
    BY <2>2, SessionAssumption, StaysIn
<1> QED
  BY <1>1, <1>2, <1>3, PTL DEF Spec, StaysSignedIn
=============================================================================
