-------------------------- MODULE GracefulShutdown --------------------------
(***************************************************************************)
(* Graceful shutdown of several Servers in one process: the list and the   *)
(* channel that gracefulShutdownMu protects, the goroutine that waits for  *)
(* a signal, the goroutines that shut the servers down, and the callers    *)
(* that enable, disable, serve and wait for the channel.                   *)
(*                                                                         *)
(* Channels are numbered in the order they are made: 1 .. made.            *)
(***************************************************************************)
EXTENDS Naturals, Sequences

CONSTANTS
  Server,
  MaxMade,    \* bound on the number of channels
  MaxListed   \* bound on the length of the list

ASSUME ShutdownAssumption == MaxMade \in Nat /\ MaxListed \in Nat

VARIABLES
  state,    \* state[s]: of the http.Server
  active,   \* active[s]: it has a connection with a request in progress
  timeout,  \* timeout[s]: gracefulShutdownTimeout is not 0
  enabling, \* enabling[s]: EnableGracefulShutdown waits for the lock
  waits,    \* waits[s]: the last channel EnableGracefulShutdown returned, or 0
  servers,  \* gracefulShutdownServers
  chan,     \* gracefulShutdownChan, 0 for nil
  made,     \* channels made so far
  closed,   \* channels that are closed
  quit,     \* quit[g]: a signal is in the buffer of the quit channel made with g
  waiter,   \* waiter[g]: the goroutine made with channel g
  job       \* job[k]: the shutdownServer call for servers[k]

callers == <<state, active, timeout, enabling, waits>>
shared  == <<servers, chan, made, closed>>
tasks   == <<quit, waiter, job>>
vars    == <<callers, shared, tasks>>

Channel == 1 .. MaxMade

WaiterStates == {"none", "signal", "lock", "wait", "done"}
JobStates    == {"check", "shutdown", "drain", "done"}

TypeOK ==
  /\ state \in [Server -> {"new", "serving", "down"}]
  /\ active \in [Server -> BOOLEAN]
  /\ timeout \in [Server -> BOOLEAN]
  /\ enabling \in [Server -> BOOLEAN]
  /\ waits \in [Server -> 0 .. MaxMade]
  /\ servers \in Seq(Server)
  /\ chan \in 0 .. MaxMade
  /\ made \in 0 .. MaxMade
  /\ closed \subseteq Channel
  /\ quit \in [Channel -> BOOLEAN]
  /\ waiter \in [Channel -> WaiterStates]
  /\ job \in Seq(JobStates)

Init ==
  /\ state = [s \in Server |-> "new"]
  /\ active = [s \in Server |-> FALSE]
  /\ timeout = [s \in Server |-> FALSE]
  /\ enabling = [s \in Server |-> FALSE]
  /\ waits = [s \in Server |-> 0]
  /\ servers = <<>>
  /\ chan = 0
  /\ made = 0
  /\ closed = {}
  /\ quit = [g \in Channel |-> FALSE]
  /\ waiter = [g \in Channel |-> "none"]
  /\ job = <<>>

(* gracefulShutdownMu is held from the start of gracefulShutdownAll to its *)
(* end; EnableGracefulShutdown holds it within one step.                   *)
Locked == \E g \in Channel : waiter[g] = "wait"

-----------------------------------------------------------------------------
(* The timeout is assigned before the lock is taken. *)
Enable(s) ==
  /\ ~enabling[s]
  /\ timeout' = [timeout EXCEPT ![s] = TRUE]
  /\ enabling' = [enabling EXCEPT ![s] = TRUE]
  /\ UNCHANGED <<state, active, waits, shared, tasks>>

(* The mutant starts the waiter for the first channel of the process only. *)
MakeChannelOnce ==
  /\ made < MaxMade
  /\ made' = made + 1
  /\ chan' = made + 1
  /\ waiter' = IF made = 0 THEN [waiter EXCEPT ![1] = "signal"] ELSE waiter

(* The first server of a list makes the channel and starts the waiter. *)
MakeChannel ==
  /\ made < MaxMade
  /\ made' = made + 1
  /\ chan' = made + 1
  /\ waiter' = [waiter EXCEPT ![made + 1] = "signal"]

Listed(s) ==
  /\ enabling[s]
  /\ Len(servers) < MaxListed
  /\ enabling' = [enabling EXCEPT ![s] = FALSE]
  /\ servers' = Append(servers, s)
  /\ \/ chan = 0 /\ MakeChannel
     \/ chan # 0 /\ UNCHANGED <<made, chan, waiter>>
  /\ waits' = [waits EXCEPT ![s] = chan']
  /\ UNCHANGED <<state, active, timeout, closed, quit, job>>

(* Mutants: the list is extended without the lock; a channel per server. *)
EnlistUnlocked(s) == Listed(s)

EnlistAlwaysMaking(s) ==
  /\ ~Locked
  /\ enabling[s]
  /\ Len(servers) < MaxListed
  /\ enabling' = [enabling EXCEPT ![s] = FALSE]
  /\ servers' = Append(servers, s)
  /\ MakeChannel
  /\ waits' = [waits EXCEPT ![s] = chan']
  /\ UNCHANGED <<state, active, timeout, closed, quit, job>>

Enlist(s) == ~Locked /\ Listed(s)

Disable(s) ==
  /\ timeout' = [timeout EXCEPT ![s] = FALSE]
  /\ UNCHANGED <<state, active, enabling, waits, shared, tasks>>

Serve(s) ==
  /\ state[s] = "new"
  /\ state' = [state EXCEPT ![s] = "serving"]
  /\ UNCHANGED <<active, timeout, enabling, waits, shared, tasks>>

Connect(s) ==
  /\ state[s] = "serving"
  /\ active' = [active EXCEPT ![s] = TRUE]
  /\ UNCHANGED <<state, timeout, enabling, waits, shared, tasks>>

Complete(s) ==
  /\ active[s]
  /\ active' = [active EXCEPT ![s] = FALSE]
  /\ UNCHANGED <<state, timeout, enabling, waits, shared, tasks>>

(* Close: the listener and every connection are closed. *)
CloseServer(s) ==
  /\ state' = [state EXCEPT ![s] = "down"]
  /\ active' = [active EXCEPT ![s] = FALSE]

(* Shutdown: no more connections are accepted, those active go on. *)
ShutdownServer(s) == state' = [state EXCEPT ![s] = "down"] /\ UNCHANGED active

(* The application may close a server itself, listed or not. *)
Close(s) == CloseServer(s) /\ UNCHANGED <<timeout, enabling, waits, shared, tasks>>

Shutdown(s) == ShutdownServer(s) /\ UNCHANGED <<timeout, enabling, waits, shared, tasks>>

(* The signal goes to the quit channel of every waiter there has been, for *)
(* none of them is ever taken off; the buffer of each holds one.           *)
Signal ==
  /\ made > 0
  /\ quit' = [g \in Channel |-> quit[g] \/ g <= made]
  /\ UNCHANGED <<callers, shared, waiter, job>>

-----------------------------------------------------------------------------
Wake(g) ==
  /\ waiter[g] = "signal"
  /\ quit[g]
  /\ waiter' = [waiter EXCEPT ![g] = "lock"]
  /\ quit' = [quit EXCEPT ![g] = FALSE]
  /\ UNCHANGED <<callers, shared, job>>

(* gracefulShutdownAll starts one shutdownServer for each server listed. *)
ShutdownAll(g) ==
  /\ waiter[g] = "lock"
  /\ ~Locked
  /\ waiter' = [waiter EXCEPT ![g] = "wait"]
  /\ job' = [k \in 1 .. Len(servers) |-> "check"]
  /\ UNCHANGED <<callers, shared, quit>>

Goes(k, to) == job' = [job EXCEPT ![k] = to] /\ UNCHANGED <<quit, waiter>>

(* The mutant skips a server that was disabled. *)
SkipsDisabled(k) ==
  /\ job[k] = "check"
  /\ Goes(k, IF timeout[servers[k]] THEN "shutdown" ELSE "done")
  /\ UNCHANGED <<callers, shared>>

CheckTimeout(k) ==
  /\ job[k] = "check"
  /\ \/ timeout[servers[k]] /\ Goes(k, "shutdown") /\ UNCHANGED <<state, active>>
     \/ ~timeout[servers[k]] /\ Goes(k, "done") /\ CloseServer(servers[k])
  /\ UNCHANGED <<timeout, enabling, waits, shared>>

StartShutdown(k) ==
  /\ job[k] = "shutdown"
  /\ Goes(k, "drain")
  /\ ShutdownServer(servers[k])
  /\ UNCHANGED <<timeout, enabling, waits, shared>>

Drained(k) ==
  /\ job[k] = "drain"
  /\ ~active[servers[k]]
  /\ Goes(k, "done")
  /\ UNCHANGED <<callers, shared>>

(* The mutant has no deadline. *)
NeverTimesOut(k) == FALSE /\ Goes(k, "done") /\ UNCHANGED <<callers, shared>>

(* The context of Shutdown is done: connections may still be active. *)
TimesOut(k) ==
  /\ job[k] = "drain"
  /\ Goes(k, "done")
  /\ UNCHANGED <<callers, shared>>

(* wg.Wait is over: close(gracefulShutdownChan), reset, unlock. *)
Finish(g) ==
  /\ waiter[g] = "wait"
  /\ \A k \in DOMAIN job : job[k] = "done"
  /\ closed' = closed \cup {chan}
  /\ chan' = 0
  /\ servers' = <<>>
  /\ waiter' = [waiter EXCEPT ![g] = "done"]
  /\ job' = <<>>
  /\ UNCHANGED <<callers, made, quit>>

Application(s) ==
  \/ Enable(s) \/ Enlist(s) \/ Disable(s)
  \/ Serve(s) \/ Connect(s) \/ Complete(s) \/ Close(s) \/ Shutdown(s)

Waiter(g) == Wake(g) \/ ShutdownAll(g) \/ Finish(g)

shutdownServer(k) == CheckTimeout(k) \/ StartShutdown(k) \/ Drained(k) \/ TimesOut(k)

Next ==
  \/ \E s \in Server : Application(s)
  \/ Signal
  \/ \E g \in Channel : Waiter(g)
  \/ \E k \in DOMAIN job : shutdownServer(k)

Spec == Init /\ [][Next]_vars

(* Goroutines that can go on are scheduled, and the timer of a context of   *)
(* Shutdown fires. Nothing is assumed of callers, requests and signals.     *)
Job(k) == k \in DOMAIN job /\ shutdownServer(k)

Fairness ==
  /\ \A g \in Channel : WF_vars(Waiter(g))
  /\ \A k \in 1 .. MaxListed : WF_vars(Job(k))

FairSpec == Spec /\ Fairness

-----------------------------------------------------------------------------
(* When the channel EnableGracefulShutdown returned is closed, "all servers *)
(* has completed shutdown" (server.go:379): the server is down, also if it  *)
(* was enabled during a shutdown or disabled before it.                     *)
ClosedMeansDown ==
  \A s \in Server : waits[s] \in closed => state[s] = "down"

(* close(gracefulShutdownChan) never closes a nil or a closed channel, which *)
(* would panic: the waiter in gracefulShutdownAll finds the channel made     *)
(* with it.                                                                  *)
ClosesItsChannel ==
  \A g \in Channel : waiter[g] = "wait" => chan = g /\ g \notin closed

(* Whoever waits for a channel waits for a goroutine: an open channel's was  *)
(* started and has yet to close it, and one that is done has closed it,      *)
(* however often servers were enabled and shut down before                   *)
(* (EnableGracefulShutdown, server.go:400-409).                              *)
OpenHasWaiter ==
  \A g \in 1 .. made :
    g \notin closed <=> waiter[g] \in {"signal", "lock", "wait"}

(* A signal that found the goroutine waiting shuts the servers down and     *)
(* closes their channel, even if a connection stays active or a server is   *)
(* enabled or disabled meanwhile.                                           *)
SignalCloses ==
  \A g \in Channel : (quit[g] /\ waiter[g] = "signal") ~> (g \in closed)

(* Seen from the callers, all this is a group of servers that closes when   *)
(* each of them is down: the list, the lock, the jobs and the signals do     *)
(* nothing a caller could tell from that (EnableGracefulShutdown,            *)
(* gracefulShutdownAll).                                                     *)
Group ==
  INSTANCE ShutdownGroup WITH
    group <- waits, open <- chan, last <- made, finished <- closed,
    down <- {s \in Server : state[s] = "down"}

ImplementsGroup == Group!Spec
=============================================================================
