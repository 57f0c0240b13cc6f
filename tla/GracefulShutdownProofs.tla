----------------------- MODULE GracefulShutdownProofs -----------------------
(***************************************************************************)
(* For any number of servers, of channels and of signals: what the channel *)
(* of EnableGracefulShutdown tells when it is closed, and that it is closed *)
(* once. The inductive invariant says who owns which channel: each channel  *)
(* has one waiter, the one whose waiter is not done is gracefulShutdownChan, *)
(* and the servers that wait for it are those listed.                       *)
(***************************************************************************)
EXTENDS GracefulShutdown, SequenceTheorems, TLAPS

(* A channel has a waiter from when it is made, and is closed by it.       *)
OneWaiter ==
  /\ \A g \in Channel : waiter[g] = "none" <=> g > made
  /\ \A g \in Channel : waiter[g] = "done" <=> g \in closed

(* Of the channels made only the current one is open.                      *)
OneOpen ==
  /\ chan <= made
  /\ \A g \in Channel : g <= made /\ g \notin closed <=> g = chan

(* Whoever waits for the open channel is listed.                           *)
WaitingIsListed ==
  /\ \A s \in Server : waits[s] <= made
  /\ \A s \in Server : waits[s] = chan /\ chan # 0 => \E k \in DOMAIN servers : servers[k] = s

(* While the lock is held there is a job for each server listed, which has *)
(* shut it down when it is past Shutdown; there is none otherwise.          *)
JobsOfLocked ==
  /\ Locked => DOMAIN job = DOMAIN servers
  /\ ~Locked => job = <<>>
  /\ \A k \in DOMAIN job : job[k] \in {"drain", "done"} => state[servers[k]] = "down"

ShutdownInv ==
  TypeOK /\ OneWaiter /\ OneOpen /\ WaitingIsListed /\ JobsOfLocked /\ ClosedMeansDown

-----------------------------------------------------------------------------
LEMMA ShutdownInit == Init => ShutdownInv
<1> SUFFICES ASSUME Init PROVE ShutdownInv
    OBVIOUS
<1>1. TypeOK
      BY ShutdownAssumption, EmptySeq DEF Init, TypeOK, Channel, WaiterStates
<1>2. OneWaiter /\ OneOpen
      BY ShutdownAssumption DEF Init, OneWaiter, OneOpen, Channel
<1>3. WaitingIsListed /\ ClosedMeansDown
      BY DEF Init, WaitingIsListed, ClosedMeansDown
<1>4. JobsOfLocked
      BY DEF Init, JobsOfLocked, Locked, Channel
<1> QED
    BY <1>1, <1>2, <1>3, <1>4 DEF ShutdownInv

(* The jobs are those of the servers listed, one each. *)
LEMMA JobProperties ==
  ASSUME ShutdownInv
  PROVE  /\ DOMAIN servers = 1 .. Len(servers) /\ Len(servers) \in Nat
         /\ \A k \in DOMAIN servers : servers[k] \in Server
         /\ \A k \in DOMAIN job : Locked /\ k \in DOMAIN servers /\ servers[k] \in Server
         /\ DOMAIN job = 1 .. Len(job)
<1>1. servers \in Seq(Server) /\ job \in Seq(JobStates)
      BY DEF ShutdownInv, TypeOK
<1>2. /\ DOMAIN servers = 1 .. Len(servers) /\ Len(servers) \in Nat
      /\ \A k \in DOMAIN servers : servers[k] \in Server
      /\ DOMAIN job = 1 .. Len(job)
      BY <1>1, LenProperties, ElementOfSeq
<1>3. ASSUME NEW k \in DOMAIN job PROVE Locked
      BY <1>3 DEF ShutdownInv, JobsOfLocked
<1> QED
    BY <1>2, <1>3 DEF ShutdownInv, JobsOfLocked

(* Steps of the application and of net/http that touch neither the list nor *)
(* the channels: a server that is down stays down.                          *)
LEMMA CallersStep ==
  ASSUME ShutdownInv, UNCHANGED <<waits, shared, waiter, job>>,
         state' \in [Server -> {"new", "serving", "down"}],
         \A s \in Server : state[s] = "down" => state'[s] = "down",
         active' \in [Server -> BOOLEAN], timeout' \in [Server -> BOOLEAN],
         enabling' \in [Server -> BOOLEAN], quit' \in [Channel -> BOOLEAN]
  PROVE  ShutdownInv'
<1>1. TypeOK'
      BY DEF ShutdownInv, TypeOK, shared
<1>2. OneWaiter' /\ OneOpen' /\ WaitingIsListed'
      BY DEF ShutdownInv, OneWaiter, OneOpen, WaitingIsListed, shared
<1>3. ClosedMeansDown'
      BY DEF ShutdownInv, ClosedMeansDown, shared
<1>4. JobsOfLocked'
  <2>1. Locked' <=> Locked
        BY DEF Locked
  <2>2. \A k \in DOMAIN job : servers[k] \in Server
        BY JobProperties
  <2> QED
      BY <2>1, <2>2 DEF ShutdownInv, JobsOfLocked, shared
<1> QED
    BY <1>1, <1>2, <1>3, <1>4 DEF ShutdownInv

(* A waiter that is not done belongs to the current channel. *)
LEMMA OpenIsCurrent ==
  ASSUME ShutdownInv, NEW g \in Channel, waiter[g] \notin {"none", "done"}
  PROVE  g = chan /\ g \notin closed /\ g <= made
BY ShutdownAssumption DEF ShutdownInv, TypeOK, OneWaiter, OneOpen, Channel

LEMMA EnlistStep ==
  ASSUME ShutdownInv, NEW s \in Server, Enlist(s)
  PROVE  ShutdownInv'
<1>1. /\ servers' = Append(servers, s) /\ servers \in Seq(Server)
      /\ waits' = [waits EXCEPT ![s] = chan'] /\ waits \in [Server -> 0 .. MaxMade]
      /\ UNCHANGED <<state, active, timeout, closed, quit, job>>
      /\ enabling' = [enabling EXCEPT ![s] = FALSE]
      BY DEF Enlist, Listed, ShutdownInv, TypeOK
<1>2. /\ servers' \in Seq(Server)
      /\ DOMAIN servers = 1 .. Len(servers) /\ DOMAIN servers' = 1 .. (Len(servers) + 1)
      /\ Len(servers) \in Nat
      /\ \A k \in DOMAIN servers : servers'[k] = servers[k]
      /\ servers'[Len(servers) + 1] = s
      BY <1>1, AppendProperties, LenProperties
<1>3. /\ chan' # 0 /\ chan' \notin closed /\ chan' \in 0 .. MaxMade
      /\ made' \in 0 .. MaxMade /\ made <= made' /\ chan' <= made'
      /\ \/ chan' = chan /\ made' = made /\ waiter' = waiter
         \/ /\ chan = 0 /\ made < MaxMade /\ made' = made + 1 /\ chan' = made + 1
            /\ waiter' = [waiter EXCEPT ![made + 1] = "signal"]
  <2>1. CASE chan = 0 /\ MakeChannel
        BY <2>1, ShutdownAssumption
        DEF MakeChannel, ShutdownInv, TypeOK, OneWaiter, OneOpen, Channel
  <2>2. CASE chan # 0 /\ UNCHANGED <<made, chan, waiter>>
        BY <2>2, ShutdownAssumption DEF ShutdownInv, TypeOK, OneWaiter, OneOpen, Channel
  <2> QED
      BY <2>1, <2>2 DEF Enlist, Listed
<1>4. TypeOK'
      BY <1>1, <1>2, <1>3, ShutdownAssumption
      DEF ShutdownInv, TypeOK, Channel, WaiterStates
<1>5. OneWaiter' /\ OneOpen'
      BY <1>1, <1>3, ShutdownAssumption
      DEF ShutdownInv, TypeOK, OneWaiter, OneOpen, Channel
<1>6. WaitingIsListed'
  <2>1. \A q \in Server : waits'[q] <= made'
        BY <1>1, <1>3, ShutdownAssumption DEF ShutdownInv, TypeOK, WaitingIsListed
  <2>2. ASSUME NEW q \in Server, waits'[q] = chan' PROVE \E k \in DOMAIN servers' : servers'[k] = q
    <3>1. CASE q = s
          BY <1>2, <3>1
    <3>2. CASE q # s
      <4>1. waits[q] = chan'
            BY <1>1, <2>2, <3>2
      <4>2. chan' = chan
            BY <1>3, <4>1, ShutdownAssumption DEF ShutdownInv, TypeOK, WaitingIsListed
      <4>3. PICK k \in DOMAIN servers : servers[k] = q
            BY <1>3, <4>1, <4>2 DEF ShutdownInv, WaitingIsListed
      <4> QED
          BY <1>2, <4>3
    <3> QED
        BY <3>1, <3>2
  <2> QED
      BY <2>1, <2>2 DEF WaitingIsListed
<1>7. JobsOfLocked'
  <2>1. ~Locked /\ job = <<>>
        BY DEF Enlist, ShutdownInv, JobsOfLocked
  <2>2. ~Locked'
        BY <1>3, <2>1, ShutdownAssumption DEF Locked, ShutdownInv, TypeOK, Channel
  <2>3. job' = <<>>
        BY <1>1, <2>1
  <2> QED
      BY <2>2, <2>3 DEF JobsOfLocked
<1>8. ClosedMeansDown'
      BY <1>1, <1>3 DEF ShutdownInv, ClosedMeansDown, TypeOK
<1> QED
    BY <1>4, <1>5, <1>6, <1>7, <1>8 DEF ShutdownInv

(* The goroutine made with channel g: woken, it shuts all down and closes g. *)
LEMMA WaiterStep ==
  ASSUME ShutdownInv, NEW g \in Channel, Waiter(g)
  PROVE  ShutdownInv'
<1>1. ASSUME Wake(g) PROVE ShutdownInv'
  <2>1. /\ waiter' = [waiter EXCEPT ![g] = "lock"] /\ quit' = [quit EXCEPT ![g] = FALSE]
        /\ waiter[g] = "signal" /\ UNCHANGED <<callers, shared, job>>
        BY <1>1 DEF Wake
  <2>2. TypeOK'
        BY <2>1 DEF ShutdownInv, TypeOK, callers, shared, WaiterStates
  <2>3. OneWaiter' /\ OneOpen' /\ WaitingIsListed' /\ ClosedMeansDown'
        BY <2>1 DEF ShutdownInv, TypeOK, OneWaiter, OneOpen, WaitingIsListed,
          ClosedMeansDown, callers, shared
  <2>4. Locked' <=> Locked
        BY <2>1 DEF Locked, ShutdownInv, TypeOK
  <2>5. JobsOfLocked'
        BY <2>1, <2>4 DEF ShutdownInv, JobsOfLocked, callers, shared
  <2> QED
      BY <2>2, <2>3, <2>5 DEF ShutdownInv
<1>2. ASSUME ShutdownAll(g) PROVE ShutdownInv'
  <2>1. /\ waiter' = [waiter EXCEPT ![g] = "wait"] /\ waiter[g] = "lock"
        /\ job' = [k \in 1 .. Len(servers) |-> "check"]
        /\ UNCHANGED <<callers, shared, quit>>
        BY <1>2 DEF ShutdownAll
  <2>2. job' \in Seq(JobStates)
        BY <2>1, JobProperties, SeqDef DEF JobStates
  <2>3. TypeOK'
        BY <2>1, <2>2 DEF ShutdownInv, TypeOK, callers, shared, WaiterStates
  <2>4. OneWaiter' /\ OneOpen' /\ WaitingIsListed' /\ ClosedMeansDown'
        BY <2>1 DEF ShutdownInv, TypeOK, OneWaiter, OneOpen, WaitingIsListed,
          ClosedMeansDown, callers, shared
  <2>5. Locked'
        BY <2>1 DEF Locked, ShutdownInv, TypeOK
  <2>6. DOMAIN job' = DOMAIN servers' /\ \A k \in DOMAIN job' : job'[k] = "check"
        BY <2>1, JobProperties DEF shared
  <2>7. JobsOfLocked'
        BY <2>5, <2>6 DEF JobsOfLocked
  <2> QED
      BY <2>3, <2>4, <2>7 DEF ShutdownInv
<1>3. ASSUME Finish(g) PROVE ShutdownInv'
  <2>1. /\ waiter[g] = "wait" /\ \A k \in DOMAIN job : job[k] = "done"
        /\ closed' = closed \cup {chan} /\ chan' = 0 /\ servers' = <<>>
        /\ waiter' = [waiter EXCEPT ![g] = "done"] /\ job' = <<>>
        /\ UNCHANGED <<callers, made, quit>>
        BY <1>3 DEF Finish
  <2>2. g = chan /\ g \notin closed /\ g <= made
        BY <2>1, OpenIsCurrent
  <2>3. TypeOK'
        BY <2>1, <2>2, EmptySeq, ShutdownAssumption
        DEF ShutdownInv, TypeOK, callers, WaiterStates
  <2>4. OneWaiter' /\ OneOpen'
        BY <2>1, <2>2, ShutdownAssumption
        DEF ShutdownInv, TypeOK, OneWaiter, OneOpen, Channel
  <2>5. WaitingIsListed'
        BY <2>1 DEF ShutdownInv, WaitingIsListed, callers
  <2>6. ~Locked'
    <3>1. \A h \in Channel : waiter[h] = "wait" => h = g
          BY <2>2, OpenIsCurrent
    <3> QED
        BY <2>1, <3>1 DEF Locked, ShutdownInv, TypeOK
  <2>7. JobsOfLocked'
        BY <2>1, <2>6 DEF JobsOfLocked
  <2>8. ClosedMeansDown'
    <3>1. ASSUME NEW s \in Server, waits[s] = g PROVE state[s] = "down"
      <4>1. PICK k \in DOMAIN servers : servers[k] = s
            BY <2>2, <3>1 DEF ShutdownInv, WaitingIsListed, Channel
      <4>2. Locked
            BY <2>1 DEF Locked
      <4> QED
          BY <2>1, <4>1, <4>2 DEF ShutdownInv, JobsOfLocked
    <3> QED
        BY <2>1, <2>2, <3>1 DEF ShutdownInv, ClosedMeansDown, callers
  <2> QED
      BY <2>3, <2>4, <2>5, <2>7, <2>8 DEF ShutdownInv
<1> QED
    BY <1>1, <1>2, <1>3 DEF Waiter

(* A job goes on; past Shutdown or Close its server is down.               *)
LEMMA JobStep ==
  ASSUME ShutdownInv, NEW k \in DOMAIN job, shutdownServer(k)
  PROVE  ShutdownInv'
<1>1. /\ Locked /\ k \in DOMAIN servers /\ k \in 1 .. Len(job)
      /\ servers[k] \in Server /\ job \in Seq(JobStates)
      /\ \A j \in DOMAIN servers : servers[j] \in Server
      BY JobProperties DEF ShutdownInv, TypeOK
<1>2. PICK to \in JobStates :
        /\ Goes(k, to) /\ UNCHANGED <<timeout, enabling, waits, shared>>
        /\ state' \in {state, [state EXCEPT ![servers[k]] = "down"]}
        /\ active' \in {active, [active EXCEPT ![servers[k]] = FALSE]}
        /\ to \in {"drain", "done"} => state'[servers[k]] = "down"
  <2>1. state \in [Server -> {"new", "serving", "down"}]
        BY DEF ShutdownInv, TypeOK
  <2>2. job[k] = "drain" => state[servers[k]] = "down"
        BY DEF ShutdownInv, JobsOfLocked
  <2>3. CASE CheckTimeout(k)
        BY <1>1, <2>1, <2>3 DEF CheckTimeout, CloseServer, JobStates
  <2>4. CASE StartShutdown(k)
        BY <1>1, <2>1, <2>4 DEF StartShutdown, ShutdownServer, JobStates
  <2>5. CASE Drained(k) \/ TimesOut(k)
        BY <2>2, <2>5 DEF Drained, TimesOut, callers, JobStates
  <2> QED
      BY <2>3, <2>4, <2>5 DEF shutdownServer
<1>3. job' = [job EXCEPT ![k] = to] /\ UNCHANGED <<quit, waiter>>
      BY <1>2 DEF Goes
<1>4. /\ job' \in Seq(JobStates) /\ DOMAIN job' = DOMAIN job
      /\ \A j \in DOMAIN job : job'[j] = IF j = k THEN to ELSE job[j]
      BY <1>1, <1>3, ExceptSeq, LenProperties
<1>5. \A s \in Server : state[s] = "down" => state'[s] = "down"
      BY <1>1, <1>2 DEF ShutdownInv, TypeOK
<1>6. TypeOK'
      BY <1>1, <1>2, <1>3, <1>4 DEF ShutdownInv, TypeOK, shared
<1>7. OneWaiter' /\ OneOpen' /\ WaitingIsListed'
      BY <1>2, <1>3 DEF ShutdownInv, OneWaiter, OneOpen, WaitingIsListed, shared
<1>8. ClosedMeansDown'
      BY <1>2, <1>5 DEF ShutdownInv, ClosedMeansDown, shared
<1>9. JobsOfLocked'
  <2>1. Locked' /\ DOMAIN job' = DOMAIN servers'
        BY <1>1, <1>2, <1>3, <1>4 DEF Locked, ShutdownInv, JobsOfLocked, shared
  <2>2. ASSUME NEW j \in DOMAIN job', job'[j] \in {"drain", "done"}
        PROVE  state'[servers[j]] = "down"
    <3>1. CASE j = k
          BY <1>2, <1>4, <2>2, <3>1
    <3>2. CASE j # k
          BY <1>1, <1>4, <1>5, <2>1, <2>2, <3>2, JobProperties DEF ShutdownInv, JobsOfLocked
    <3> QED
        BY <3>1, <3>2
  <2> QED
      BY <1>2, <2>1, <2>2 DEF JobsOfLocked, shared
<1> QED
    BY <1>6, <1>7, <1>8, <1>9 DEF ShutdownInv

LEMMA ApplicationStep ==
  ASSUME ShutdownInv, NEW s \in Server, Application(s)
  PROVE  ShutdownInv'
<1>1. CASE Enlist(s)
      BY <1>1, EnlistStep
<1>2. CASE Enable(s) \/ Disable(s) \/ Connect(s) \/ Complete(s)
  <2>1. /\ UNCHANGED <<state, waits, shared, waiter, job, quit>>
        /\ active' \in {active, [active EXCEPT ![s] = TRUE], [active EXCEPT ![s] = FALSE]}
        /\ timeout' \in {timeout, [timeout EXCEPT ![s] = TRUE], [timeout EXCEPT ![s] = FALSE]}
        /\ enabling' \in {enabling, [enabling EXCEPT ![s] = TRUE]}
        BY <1>2 DEF Enable, Disable, Connect, Complete, tasks
  <2> QED
      BY <2>1, CallersStep DEF ShutdownInv, TypeOK
<1>3. CASE Serve(s) \/ Close(s) \/ Shutdown(s)
  <2>1. /\ UNCHANGED <<timeout, enabling, waits, shared, waiter, job, quit>>
        /\ active' \in {active, [active EXCEPT ![s] = FALSE]}
        /\ \/ state[s] = "new" /\ state' = [state EXCEPT ![s] = "serving"]
           \/ state' = [state EXCEPT ![s] = "down"]
        BY <1>3 DEF Serve, Close, Shutdown, CloseServer, ShutdownServer, tasks
  <2> QED
      BY <2>1, CallersStep DEF ShutdownInv, TypeOK
<1> QED
    BY <1>1, <1>2, <1>3 DEF Application

LEMMA ShutdownStep == ShutdownInv /\ [Next]_vars => ShutdownInv'
<1> SUFFICES ASSUME ShutdownInv, [Next]_vars PROVE ShutdownInv'
    OBVIOUS
<1>1. ASSUME NEW s \in Server, Application(s) PROVE ShutdownInv'
      BY <1>1, ApplicationStep
<1>2. CASE Signal
  <2>1. UNCHANGED <<callers, shared, waiter, job>> /\ quit' \in [Channel -> BOOLEAN]
        BY <1>2 DEF Signal, ShutdownInv, TypeOK
  <2> QED
      BY <2>1, CallersStep DEF callers, ShutdownInv, TypeOK
<1>3. ASSUME NEW g \in Channel, Waiter(g) PROVE ShutdownInv'
      BY <1>3, WaiterStep
<1>4. ASSUME NEW k \in DOMAIN job, shutdownServer(k) PROVE ShutdownInv'
      BY <1>4, JobStep
<1>5. CASE UNCHANGED vars
      BY <1>5, CallersStep DEF vars, callers, tasks, ShutdownInv, TypeOK
<1> QED
    BY <1>1, <1>2, <1>3, <1>4, <1>5 DEF Next

LEMMA ShutdownInvariant == Spec => []ShutdownInv
BY ShutdownInit, ShutdownStep, PTL DEF Spec

-----------------------------------------------------------------------------
(* Every variable keeps its type, for any number of channels and listings. *)
THEOREM ShutdownTypeOK == Spec => []TypeOK
<1>1. ShutdownInv => TypeOK
      BY DEF ShutdownInv
<1> QED
    BY <1>1, ShutdownInvariant, PTL

(* The channel EnableGracefulShutdown returned is closed only when the      *)
(* server is down, whatever is enabled, disabled or signalled meanwhile     *)
(* (gracefulShutdownAll).                                                   *)
THEOREM ClosedChannelMeansDown == Spec => []ClosedMeansDown
<1>1. ShutdownInv => ClosedMeansDown
      BY DEF ShutdownInv
<1> QED
    BY <1>1, ShutdownInvariant, PTL

(* close(gracefulShutdownChan) never panics: the goroutine that gets to it  *)
(* finds the channel made with it, open.                                    *)
THEOREM ClosesOwnChannel == Spec => []ClosesItsChannel
<1>1. ShutdownInv => ClosesItsChannel
      BY OpenIsCurrent DEF ClosesItsChannel
<1> QED
    BY <1>1, ShutdownInvariant, PTL

(* A channel that is not closed has a goroutine that was started and is not *)
(* done with it.                                                            *)
THEOREM OpenChannelHasWaiter == Spec => []OpenHasWaiter
<1>1. ShutdownInv => OpenHasWaiter
  <2> SUFFICES ASSUME ShutdownInv, NEW g \in 1 .. made
               PROVE  g \notin closed <=> waiter[g] \in {"signal", "lock", "wait"}
      BY DEF OpenHasWaiter
  <2>1. g \in Channel /\ ~(g > made)
        BY ShutdownAssumption DEF ShutdownInv, TypeOK, Channel
  <2>2. waiter[g] \in WaiterStates
        BY <2>1 DEF ShutdownInv, TypeOK
  <2>3. waiter[g] # "none" /\ (waiter[g] = "done" <=> g \in closed)
        BY <2>1 DEF ShutdownInv, OneWaiter
  <2> QED
      BY <2>2, <2>3 DEF WaiterStates
<1> QED
    BY <1>1, ShutdownInvariant, PTL
-----------------------------------------------------------------------------
Down == {s \in Server : state[s] = "down"}

(* Steps that leave the channels alone let at most one server go down.     *)
LEMMA GroupGoesDown ==
  ASSUME ShutdownInv, NEW s \in Server, UNCHANGED <<waits, chan, made, closed>>,
         state' = state \/ state' = [state EXCEPT ![s] = "down"] \/
           (state[s] = "new" /\ state' = [state EXCEPT ![s] = "serving"])
  PROVE  [Group!Next]_(Group!vars)
<1>1. state \in [Server -> {"new", "serving", "down"}]
      BY DEF ShutdownInv, TypeOK
<1>2. CASE state' = [state EXCEPT ![s] = "down"]
  <2>1. Down' = Down \cup {s}
        BY <1>1, <1>2 DEF Down
  <2>2. Group!GoDown(s)
        BY <2>1 DEF Group!GoDown, Down
  <2> QED
      BY <2>2 DEF Group!Next
<1>3. CASE state' = state \/ (state[s] = "new" /\ state' = [state EXCEPT ![s] = "serving"])
  <2>1. Down' = Down
        BY <1>1, <1>3 DEF Down
  <2> QED
      BY <2>1 DEF Group!vars, Down
<1> QED
    BY <1>2, <1>3

LEMMA GroupStep ==
  ASSUME ShutdownInv, [Next]_vars
  PROVE  [Group!Next]_(Group!vars)
<1>1. ASSUME NEW s \in Server, Enlist(s) PROVE [Group!Next]_(Group!vars)
  <2>1. UNCHANGED <<state, closed>> /\ waits' = [waits EXCEPT ![s] = chan']
        BY <1>1 DEF Enlist, Listed
  <2>2. \/ chan # 0 /\ UNCHANGED <<chan, made>>
        \/ chan = 0 /\ chan' = made + 1 /\ made' = made + 1
        BY <1>1 DEF Enlist, Listed, MakeChannel
  <2>3. Group!Join(s)
        BY <2>1, <2>2 DEF Group!Join
  <2> QED
      BY <2>3 DEF Group!Next
<1>2. ASSUME NEW s \in Server, Application(s), ~Enlist(s) PROVE [Group!Next]_(Group!vars)
      BY <1>2, GroupGoesDown
      DEF Application, Enable, Disable, Serve, Connect, Complete, Close, Shutdown,
        CloseServer, ShutdownServer, shared
<1>3. ASSUME NEW k \in DOMAIN job, shutdownServer(k) PROVE [Group!Next]_(Group!vars)
  <2>1. servers[k] \in Server
        BY JobProperties
  <2> QED
      BY <1>3, <2>1, GroupGoesDown
      DEF shutdownServer, CheckTimeout, StartShutdown, Drained, TimesOut,
        CloseServer, ShutdownServer, callers, shared
<1>4. ASSUME NEW g \in Channel, Finish(g) PROVE [Group!Next]_(Group!vars)
  <2>1. /\ waiter[g] = "wait" /\ \A k \in DOMAIN job : job[k] = "done"
        /\ closed' = closed \cup {chan} /\ chan' = 0 /\ UNCHANGED <<state, waits, made>>
        BY <1>4 DEF Finish, callers
  <2>2. g = chan /\ chan # 0 /\ chan \notin closed
        BY <2>1, OpenIsCurrent, ShutdownAssumption DEF Channel
  <2>3. ASSUME NEW s \in Server, waits[s] = chan PROVE state[s] = "down"
    <3>1. PICK k \in DOMAIN servers : servers[k] = s
          BY <2>2, <2>3 DEF ShutdownInv, WaitingIsListed
    <3>2. Locked
          BY <2>1 DEF Locked
    <3> QED
        BY <2>1, <3>1, <3>2 DEF ShutdownInv, JobsOfLocked
  <2>4. Group!Finish
        BY <2>1, <2>2, <2>3 DEF Group!Finish
  <2> QED
      BY <2>4 DEF Group!Next
<1>5. ASSUME NEW g \in Channel, Wake(g) \/ ShutdownAll(g) PROVE [Group!Next]_(Group!vars)
      BY <1>5 DEF Wake, ShutdownAll, Group!vars, callers, shared
<1>6. CASE Signal \/ UNCHANGED vars
      BY <1>6 DEF Signal, vars, Group!vars, callers, shared
<1> QED
    BY <1>1, <1>2, <1>3, <1>4, <1>5, <1>6 DEF Next, Waiter

(* The protocol implements the group its callers see.                       *)
THEOREM ShutdownImplementsGroup == Spec => ImplementsGroup
<1>1. Init => Group!Init
      BY DEF Init, Group!Init
<1> QED
    BY <1>1, GroupStep, ShutdownInvariant, PTL DEF Spec, ImplementsGroup, Group!Spec
=============================================================================
