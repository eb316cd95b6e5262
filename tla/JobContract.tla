---------------------------- MODULE JobContract ----------------------------
(***************************************************************************)
(* What a transfer job promises whoever created it: it is active until it  *)
(* completes, fails or (an export) is cancelled; an import's units of work *)
(* are done once each, in order, and it completes only with all of them    *)
(* done; a failed import can be retried and keeps what it had done.        *)
(* This module states the promise; JobLease implements it.                 *)
(***************************************************************************)
EXTENDS Integers

CONSTANTS Imports, Exports, PreLease, Last

VARIABLES
  state,   \* state[j] \in {"absent", "active", "completed", "failed", "cancelled"}
  work     \* work[j][u]: how many times unit u of job j has been done

vars == <<state, work>>

Jobs == Imports \cup Exports
Units == 1 .. Last

\* The first n units done, once each.
Done(n) == [u \in Units |-> IF u <= n THEN 1 ELSE 0]

Init ==
  /\ state = [j \in Jobs |-> IF j \in PreLease THEN "active" ELSE "absent"]
  /\ work = [j \in Jobs |-> IF j \in PreLease THEN Done(1) ELSE Done(0)]

Become(j, s) == state' = [state EXCEPT ![j] = s]

Submit(j) == state[j] = "absent" /\ Become(j, "active") /\ UNCHANGED work

\* The next unit of an active import is done.
Advance(j) ==
  /\ j \in Imports /\ state[j] = "active"
  /\ \E n \in 0 .. Last - 1 :
       work[j] = Done(n) /\ work' = [work EXCEPT ![j] = Done(n + 1)]
  /\ UNCHANGED state

Complete(j) ==
  /\ state[j] = "active" /\ (j \in Imports => work[j] = Done(Last))
  /\ Become(j, "completed") /\ UNCHANGED work

\* Jobs fail, several at once when one transaction finds several dead.
Fail(S) ==
  /\ \A j \in S : state[j] = "active"
  /\ state' = [j \in Jobs |-> IF j \in S THEN "failed" ELSE state[j]]
  /\ UNCHANGED work

\* A failed import is active again with its work kept, or, of rows staged by a worker
\* that could not be resumed, dropped.
Retry(j) ==
  /\ j \in Imports /\ state[j] = "failed" /\ Become(j, "active")
  /\ \/ UNCHANGED work
     \/ j \in PreLease /\ work[j] = Done(1) /\ work' = [work EXCEPT ![j] = Done(0)]

Cancel(j) ==
  j \in Exports /\ state[j] = "active" /\ Become(j, "cancelled") /\ UNCHANGED work

Next ==
  \/ \E j \in Jobs : Submit(j) \/ Advance(j) \/ Complete(j) \/ Retry(j) \/ Cancel(j)
  \/ \E S \in SUBSET Jobs : Fail(S)

Spec == Init /\ [][Next]_vars
=============================================================================
