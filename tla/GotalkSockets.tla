--------------------------- MODULE GotalkSockets ---------------------------
(***************************************************************************)
(* The gotalk sockets of a Server: the connect handler that serving wraps  *)
(* around the user's, the set of connected sockets and its read-write      *)
(* lock, and the goroutines that meet there: one for each socket, those    *)
(* that range over the sockets, and the callback of http.Server.Shutdown.  *)
(*                                                                         *)
(* The gotalk library is external: it calls OnConnect in the goroutine of  *)
(* the socket and, when that has returned and the socket is closed, the    *)
(* CloseHandler in the same goroutine. Closing a socket runs no handler by *)
(* itself, as the code that closes sockets with the lock held expects.     *)
(***************************************************************************)
EXTENDS Naturals

CONSTANTS
  Socket,    \* connections to GotalkPath
  Caller,    \* goroutines that call Serve or ListenAndServe
  Ranger,    \* goroutines that call RangeGotalkSockets
  Callback   \* the goroutine of the function given to RegisterOnShutdown

ASSUME SocketsAssumption == Callback \notin Ranger

VARIABLES
  OnConnect,  \* Server.Gotalk.OnConnect
  saved,      \* gotalkOnConnectUser
  call,       \* call[c]: the serving call c is in
  mixed,      \* history: a serving call began while another was in progress
  left,       \* history: a Serve has returned
  down,       \* the http.Server accepts no more connections
  callback,   \* what Callback is to do
  pc,         \* pc[k]: where the goroutine of socket k is
  open,       \* open[k]: the socket was accepted and is not closed
  hook,       \* hook[k]: its CloseHandler
  inner,      \* inner[k]: userCloseHandler, captured by the server's CloseHandler
  told,       \* told[k]: what became of a CloseHandler the user set
  socks,      \* gotalkSocks
  ranging,    \* goroutines that hold gotalkSocksMu for reading
  todo        \* todo[x]: the sockets x has yet to come to

serving  == <<OnConnect, saved, call, mixed, left, down, callback>>
sockets  == <<pc, open, hook, inner, told>>
registry == <<socks, ranging, todo>>
vars     == <<serving, sockets, registry>>

Reader   == Ranger \cup {Callback}
Handlers == {"nil", "user", "server"}
Steps    == {"new", "upgrade", "check", "call", "user", "plain", "hook", "lock",
             "reading", "leave", "gone", "panicked", "recursing"}

TypeOK ==
  /\ OnConnect \in Handlers
  /\ saved \in Handlers
  /\ call \in [Caller -> {"none", "listen", "serve"}]
  /\ mixed \in BOOLEAN
  /\ left \in BOOLEAN
  /\ down \in BOOLEAN
  /\ callback \in {"none", "started", "done"}
  /\ pc \in [Socket -> Steps]
  /\ open \in [Socket -> BOOLEAN]
  /\ hook \in [Socket -> Handlers]
  /\ inner \in [Socket -> {"nil", "user"}]
  /\ told \in [Socket -> {"unset", "set", "told"}]
  /\ socks \subseteq Socket
  /\ ranging \subseteq Reader
  /\ todo \in [Reader -> SUBSET Socket]

Init ==
  /\ OnConnect = "user"
  /\ saved = "nil"
  /\ call = [c \in Caller |-> "none"]
  /\ mixed = FALSE
  /\ left = FALSE
  /\ down = FALSE
  /\ callback = "none"
  /\ pc = [k \in Socket |-> "new"]
  /\ open = [k \in Socket |-> FALSE]
  /\ hook = [k \in Socket |-> "nil"]
  /\ inner = [k \in Socket |-> "nil"]
  /\ told = [k \in Socket |-> "unset"]
  /\ socks = {}
  /\ ranging = {}
  /\ todo = [x \in Reader |-> {}]

Serving == \E c \in Caller : call[c] # "none"

-----------------------------------------------------------------------------
(* Every serving call begins with this. *)
prepareToServe(c, how) ==
  /\ call[c] = "none"
  /\ mixed' = (mixed \/ Serving)
  /\ call' = [call EXCEPT ![c] = how]
  /\ saved' = OnConnect
  /\ OnConnect' = "server"
  /\ UNCHANGED <<left, down, callback, sockets, registry>>

ListenAndServe(c) == prepareToServe(c, "listen")

Serve(c) == prepareToServe(c, "serve")

(* The mutant leaves the server's handler in place, as Serve does. *)
returnLeavingHandler(c) ==
  /\ call[c] = "listen"
  /\ call' = [call EXCEPT ![c] = "none"]
  /\ saved' = "nil"
  /\ UNCHANGED <<OnConnect, mixed, left, down, callback, sockets, registry>>

(* A ListenAndServe returns: the server is down, or the listener failed.  *)
returnFromServe(c) ==
  /\ call[c] = "listen"
  /\ call' = [call EXCEPT ![c] = "none"]
  /\ OnConnect' = saved
  /\ saved' = "nil"
  /\ UNCHANGED <<mixed, left, down, callback, sockets, registry>>

(* A Serve returns without returnFromServe: nothing is put back. *)
ServeReturns(c) ==
  /\ call[c] = "serve"
  /\ call' = [call EXCEPT ![c] = "none"]
  /\ left' = TRUE
  /\ UNCHANGED <<OnConnect, saved, mixed, down, callback, sockets, registry>>

(* http.Server starts the functions registered in goroutines of their own. *)
Shutdown ==
  /\ down' = TRUE
  /\ callback' = IF Callback \in ranging THEN callback ELSE "started"
  /\ UNCHANGED <<OnConnect, saved, call, mixed, left, sockets, registry>>

Close ==
  /\ down' = TRUE
  /\ UNCHANGED <<OnConnect, saved, call, mixed, left, callback, sockets, registry>>

-----------------------------------------------------------------------------
Goes(k, from, to) == pc[k] = from /\ pc' = [pc EXCEPT ![k] = to]

(* The request is taken before the server goes down; the connection may be *)
(* upgraded at any time after, for Shutdown does not wait for it then.      *)
Accept(k) ==
  /\ Serving /\ ~down
  /\ Goes(k, "new", "upgrade")
  /\ open' = [open EXCEPT ![k] = TRUE]
  /\ UNCHANGED <<hook, inner, told, serving, registry>>

Upgrade(k) ==
  /\ \/ OnConnect = "server" /\ Goes(k, "upgrade", "check")
     \/ OnConnect = "user" /\ Goes(k, "upgrade", "plain")
     \/ OnConnect = "nil" /\ Goes(k, "upgrade", "reading")
  /\ UNCHANGED <<open, hook, inner, told, serving, registry>>

(* gotalkOnConnect looks at gotalkOnConnectUser twice: to see whether it is *)
(* nil and to call it. A nil function panics; the server's own handler, if  *)
(* that was saved, calls itself without end.                                *)
CheckUser(k) ==
  /\ Goes(k, "check", IF saved = "nil" THEN "hook" ELSE "call")
  /\ UNCHANGED <<open, hook, inner, told, serving, registry>>

CallUser(k) ==
  /\ \/ saved = "nil" /\ Goes(k, "call", "panicked")
     \/ saved = "server" /\ Goes(k, "call", "recursing")
     \/ saved = "user" /\ Goes(k, "call", "user")
  /\ UNCHANGED <<open, hook, inner, told, serving, registry>>

(* The user's OnConnect may set a CloseHandler of its own. *)
UserSetsHook(k) ==
  /\ pc[k] \in {"user", "plain"}
  /\ hook' = [hook EXCEPT ![k] = "user"]
  /\ told' = [told EXCEPT ![k] = "set"]
  /\ UNCHANGED <<pc, open, inner, serving, registry>>

UserReturns(k) ==
  /\ \/ Goes(k, "user", IF open[k] THEN "hook" ELSE "reading")
     \/ Goes(k, "plain", "reading")
  /\ UNCHANGED <<open, hook, inner, told, serving, registry>>

(* Mutants: a CloseHandler the user has set is left in place; the one it    *)
(* replaces is forgotten, or looked up when it is replaced already.         *)
keepCloseHandler(k) ==
  /\ Goes(k, "hook", "lock")
  /\ hook' = [hook EXCEPT ![k] = IF @ = "nil" THEN "server" ELSE @]
  /\ UNCHANGED <<open, inner, told, serving, registry>>

dropCloseHandler(k) ==
  /\ Goes(k, "hook", "lock")
  /\ hook' = [hook EXCEPT ![k] = "server"]
  /\ UNCHANGED <<open, inner, told, serving, registry>>

captureLate(k) ==
  /\ Goes(k, "hook", "lock")
  /\ inner' = [inner EXCEPT ![k] = "server"]
  /\ hook' = [hook EXCEPT ![k] = "server"]
  /\ UNCHANGED <<open, told, serving, registry>>

registerCloseHandler(k) ==
  /\ Goes(k, "hook", "lock")
  /\ inner' = [inner EXCEPT ![k] = hook[k]]
  /\ hook' = [hook EXCEPT ![k] = "server"]
  /\ UNCHANGED <<open, told, serving, registry>>

(* The goroutine of k waits in Lock; it gets in when nobody reads. *)
Wanting(k) == pc[k] \in {"lock", "leave"}
Locks(k)   == Wanting(k) /\ ranging = {}

Registered(k) ==
  /\ Goes(k, "lock", "reading")
  /\ socks' = socks \cup {k}
  /\ UNCHANGED <<open, hook, inner, told, ranging, todo, serving>>

(* The mutant adds the socket without the lock. *)
registerUnlocked(k) == Registered(k)

registerConnection(k) == Locks(k) /\ Registered(k)

(* The socket's reader finds it closed and calls CloseHandler. *)
HandleClose(k) ==
  /\ ~open[k]
  /\ Goes(k, "reading", IF hook[k] = "server" THEN "leave" ELSE "gone")
  /\ told' = [told EXCEPT ![k] = IF hook[k] = "user" THEN "told" ELSE @]
  /\ UNCHANGED <<open, hook, inner, serving, registry>>

Unregistered(k) ==
  /\ Goes(k, "leave", "gone")
  /\ socks' = socks \ {k}
  /\ hook' = [hook EXCEPT ![k] = "nil"]
  /\ told' = [told EXCEPT ![k] = IF inner[k] = "user" THEN "told" ELSE @]
  /\ UNCHANGED <<open, inner, ranging, todo, serving>>

(* The mutant takes the socket out without the lock. *)
unregisterUnlocked(k) == Unregistered(k)

unregisterConnection(k) == Locks(k) /\ Unregistered(k)

(* The peer goes away, or the application closes the socket. *)
CloseSocket(k) ==
  /\ open[k]
  /\ open' = [open EXCEPT ![k] = FALSE]
  /\ UNCHANGED <<pc, hook, inner, told, serving, registry>>

-----------------------------------------------------------------------------
(* RLock waits while somebody waits in Lock. *)
RLock(x) ==
  /\ x \notin ranging
  /\ ~\E k \in Socket : Wanting(k)
  /\ ranging' = ranging \cup {x}
  /\ todo' = [todo EXCEPT ![x] = socks]

RangeGotalkSockets(x) == RLock(x) /\ UNCHANGED <<socks, serving, sockets>>

RunCallback ==
  /\ callback = "started"
  /\ RLock(Callback)
  /\ UNCHANGED <<socks, serving, sockets>>

(* f is called with a socket: it may close it, and may end the iteration. *)
Visit(x, k) ==
  /\ k \in todo[x]
  /\ todo' \in {[todo EXCEPT ![x] = @ \ {k}], [todo EXCEPT ![x] = {}]}
  /\ open' \in {open, [open EXCEPT ![k] = FALSE]}
  /\ UNCHANGED <<pc, hook, inner, told, socks, ranging, serving>>

Closes(k) ==
  /\ k \in todo[Callback]
  /\ todo' = [todo EXCEPT ![Callback] = @ \ {k}]
  /\ open' = [open EXCEPT ![k] = FALSE]
  /\ UNCHANGED <<pc, hook, inner, told, socks, ranging, serving>>

(* The mutant runs the CloseHandler itself, which waits for the lock. *)
closesInline(k) == ranging = {} /\ Closes(k)

CallbackCloses(k) == Closes(k)

RUnlock(x) ==
  /\ x \in ranging /\ todo[x] = {}
  /\ ranging' = ranging \ {x}
  /\ callback' = IF x = Callback THEN "done" ELSE callback
  /\ UNCHANGED <<OnConnect, saved, call, mixed, left, down, sockets, socks, todo>>

gotalkOnConnect(k) ==
  CheckUser(k) \/ CallUser(k) \/ registerCloseHandler(k) \/ registerConnection(k)

Goroutine(k) == Upgrade(k) \/ gotalkOnConnect(k) \/ HandleClose(k) \/ unregisterConnection(k)

Ranges(x) == (\E k \in Socket : Visit(x, k)) \/ RUnlock(x)

CallbackRuns ==
  RunCallback \/ (\E k \in Socket : CallbackCloses(k)) \/ RUnlock(Callback)

Next ==
  \/ \E c \in Caller : \/ ListenAndServe(c) \/ returnFromServe(c)
                       \/ Serve(c) \/ ServeReturns(c)
  \/ Shutdown \/ Close
  \/ \E k \in Socket : \/ Accept(k) \/ Goroutine(k) \/ CloseSocket(k)
                       \/ UserSetsHook(k) \/ UserReturns(k)
  \/ \E x \in Ranger : RangeGotalkSockets(x) \/ Ranges(x)
  \/ CallbackRuns

Spec == Init /\ [][Next]_vars

(* Goroutines that can go on are scheduled, and functions given to          *)
(* RangeGotalkSockets return, as the lock is held meanwhile. The user's     *)
(* OnConnect need not.                                                      *)
Fairness ==
  /\ \A k \in Socket : WF_vars(Goroutine(k))
  /\ \A x \in Ranger : WF_vars(Ranges(x))
  /\ WF_vars(CallbackRuns)

FairSpec == Spec /\ Fairness

-----------------------------------------------------------------------------
(* A socket in gotalkSocks has the server's CloseHandler, and its goroutine *)
(* has yet to run it: nothing stays in the set that nobody will take out    *)
(* (gotalkOnConnect, server.go:282-313), whenever sockets close, handlers   *)
(* are replaced and serving ends.                                           *)
RegisteredIsServed ==
  \A k \in socks : pc[k] \in {"reading", "leave"} /\ hook[k] = "server"

(* RangeGotalkSockets hands f only sockets that are in the set when it does *)
(* (server.go:315-327), though others connect and close all the while.      *)
RangedIsRegistered == \A x \in ranging : todo[x] \subseteq socks

(* Once the shutdown callback has come to the end of the sockets, each one  *)
(* in the set is closed: none slips in behind its back (server.go:60-67).   *)
CallbackClosesRegistered ==
  Callback \in ranging => \A k \in socks \ todo[Callback] : ~open[k]

(* Serving calls that do not overlap: while one serves, connections go to   *)
(* the server's handler and through it to the user's, and after a            *)
(* ListenAndServe the user's is back (prepareToServe, returnFromServe). A    *)
(* Serve gives nothing back (server.go:329-333): once one has returned the   *)
(* server's handler is installed for good, and any later call wraps it       *)
(* around itself instead of around the user's.                               *)
HandlersMatch ==
  ~mixed =>
    /\ left  => OnConnect = "server" /\ (Serving => saved = "server")
    /\ ~left => IF Serving THEN OnConnect = "server" /\ saved = "user"
                ELSE OnConnect = "user" /\ saved = "nil"

(* The CloseHandler that the user's OnConnect gives a socket is called when  *)
(* the socket closes: by the server's once that has taken its place, or by   *)
(* gotalk when the socket closed before or serving had ended.                *)
UserIsTold == \A k \in Socket : pc[k] = "gone" => told[k] # "set"

(* The lock never gets stuck: a registered socket that closes leaves the    *)
(* set, however often others range over it or connect.                      *)
ClosedLeaves ==
  \A k \in Socket : (k \in socks /\ ~open[k]) ~> (k \notin socks)

(* "close all connected sockets" (server.go:61): a socket that gotalk has   *)
(* announced as connected when the shutdown callback is started is closed.  *)
ShutdownClosesAll ==
  \A k \in Socket :
    (callback = "started" /\ pc[k] \in {"check", "call", "user", "hook", "lock"})
      ~> ~open[k]
=============================================================================
