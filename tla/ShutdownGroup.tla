---------------------------- MODULE ShutdownGroup ----------------------------
(***************************************************************************)
(* What EnableGracefulShutdown promises its callers, without signals,      *)
(* locks and goroutines: servers join the group that is open, and a group  *)
(* is closed, once and for all, when each of its servers is down.          *)
(***************************************************************************)
EXTENDS Naturals

CONSTANT Server

VARIABLES
  group,     \* group[s]: the group s joined last, 0 for none
  open,      \* the group that can be joined, 0 for none
  last,      \* the groups so far are 1 .. last
  finished,  \* the groups that are closed
  down       \* the servers that serve no more connections

vars == <<group, open, last, finished, down>>

Init ==
  /\ group = [s \in Server |-> 0]
  /\ open = 0
  /\ last = 0
  /\ finished = {}
  /\ down = {}

Join(s) ==
  /\ \/ open # 0 /\ UNCHANGED <<open, last>>
     \/ open = 0 /\ open' = last + 1 /\ last' = last + 1
  /\ group' = [group EXCEPT ![s] = open']
  /\ UNCHANGED <<finished, down>>

GoDown(s) ==
  /\ down' = down \cup {s}
  /\ UNCHANGED <<group, open, last, finished>>

Finish ==
  /\ open # 0
  /\ open \notin finished
  /\ \A s \in Server : group[s] = open => s \in down
  /\ finished' = finished \cup {open}
  /\ open' = 0
  /\ UNCHANGED <<group, last, down>>

Next == Finish \/ \E s \in Server : Join(s) \/ GoDown(s)

Spec == Init /\ [][Next]_vars
=============================================================================
