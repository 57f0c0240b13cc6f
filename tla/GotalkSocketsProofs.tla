------------------------ MODULE GotalkSocketsProofs ------------------------
(***************************************************************************)
(* For any number of sockets, serving calls and readers: the safety        *)
(* properties of GotalkSockets. The inductive invariant follows a socket's *)
(* CloseHandler: the server's is in place from before the socket enters    *)
(* the set until it is taken out, and keeps the user's.                    *)
(***************************************************************************)
EXTENDS GotalkSockets, TLAPS

(* The server's CloseHandler is there when the socket waits for the lock,  *)
(* and only from then on until it has run.                                 *)
HookInv ==
  \A k \in Socket :
    /\ pc[k] \in {"lock", "leave"} => hook[k] = "server"
    /\ hook[k] = "server" => pc[k] \in {"lock", "reading", "leave"}

(* A CloseHandler the user has set is still to be called: it is the         *)
(* socket's, or the one that the server's has kept.                         *)
ToldInv ==
  \A k \in Socket : told[k] = "set" =>
    /\ pc[k] # "gone"
    /\ hook[k] = "user" \/ (hook[k] = "server" /\ inner[k] = "user")

(* Calls that never overlapped are one at a time.                          *)
OneCall == ~mixed => \A c, d \in Caller : call[c] # "none" /\ call[d] # "none" => c = d

ServingInv == OneCall /\ HandlersMatch

HandlerInv == HookInv /\ ToldInv

RegistryInv == RegisteredIsServed /\ RangedIsRegistered /\ CallbackClosesRegistered

SocketInv == TypeOK /\ ServingInv /\ HandlerInv /\ RegistryInv

-----------------------------------------------------------------------------
LEMMA SocketInit == Init => SocketInv
<1> SUFFICES ASSUME Init PROVE SocketInv
    OBVIOUS
<1>1. TypeOK
      BY DEF Init, TypeOK, Handlers, Steps, Reader
<1>2. ServingInv
      BY DEF Init, ServingInv, OneCall, HandlersMatch, Serving
<1>3. HandlerInv
      BY DEF Init, HandlerInv, HookInv, ToldInv
<1>4. RegistryInv
      BY DEF Init, RegistryInv, RegisteredIsServed, RangedIsRegistered,
        CallbackClosesRegistered
<1> QED
    BY <1>1, <1>2, <1>3, <1>4 DEF SocketInv

(* What a part of the invariant speaks of is the same.                     *)
LEMMA Frames ==
  ASSUME SocketInv
  PROVE  /\ UNCHANGED serving => ServingInv'
         /\ UNCHANGED sockets => HandlerInv'
         /\ UNCHANGED <<sockets, registry>> => RegistryInv'
<1>1. UNCHANGED serving => ServingInv'
      BY DEF SocketInv, ServingInv, OneCall, HandlersMatch, Serving, serving
<1>2. UNCHANGED sockets => HandlerInv'
      BY DEF SocketInv, HandlerInv, HookInv, ToldInv, sockets
<1>3. UNCHANGED <<sockets, registry>> => RegistryInv'
      BY DEF SocketInv, RegistryInv, RegisteredIsServed, RangedIsRegistered,
        CallbackClosesRegistered, sockets, registry
<1> QED
    BY <1>1, <1>2, <1>3

(* The call that ends was the only one, if none ever overlapped.           *)
LEMMA CallEnds ==
  ASSUME SocketInv, NEW c \in Caller, call[c] # "none",
         call' = [call EXCEPT ![c] = "none"], mixed' = mixed
  PROVE  OneCall' /\ (~mixed => ~Serving')
<1>1. call \in [Caller -> {"none", "listen", "serve"}]
      BY DEF SocketInv, TypeOK
<1> QED
    BY <1>1 DEF SocketInv, ServingInv, OneCall, Serving

(* Serving calls begin and end, the server goes down.                      *)
LEMMA CallStep ==
  ASSUME SocketInv, NEW c \in Caller,
         ListenAndServe(c) \/ Serve(c) \/ returnFromServe(c) \/ ServeReturns(c)
  PROVE  SocketInv'
<1>1. UNCHANGED <<sockets, registry>>
      BY DEF ListenAndServe, Serve, prepareToServe, returnFromServe, ServeReturns
<1>2. HandlerInv' /\ RegistryInv'
      BY <1>1, Frames
<1>3. ASSUME NEW how \in {"listen", "serve"}, prepareToServe(c, how) PROVE TypeOK' /\ ServingInv'
  <2>1. TypeOK'
        BY <1>3 DEF SocketInv, TypeOK, prepareToServe, Handlers, sockets, registry
  <2>2. call \in [Caller -> {"none", "listen", "serve"}] /\ mixed \in BOOLEAN
        BY DEF SocketInv, TypeOK
  <2>3. /\ call' = [call EXCEPT ![c] = how] /\ mixed' = (mixed \/ Serving)
        /\ saved' = OnConnect /\ OnConnect' = "server" /\ left' = left
        BY <1>3 DEF prepareToServe
  <2>4. OneCall'
        BY <2>2, <2>3 DEF OneCall, Serving
  <2>5. HandlersMatch'
    <3>1. Serving'
          BY <2>2, <2>3 DEF Serving
    <3> QED
        BY <2>3, <3>1 DEF SocketInv, ServingInv, HandlersMatch
  <2> QED
      BY <2>1, <2>4, <2>5 DEF ServingInv
<1>4. ASSUME returnFromServe(c) PROVE TypeOK' /\ ServingInv'
  <2>1. TypeOK'
        BY <1>4 DEF SocketInv, TypeOK, returnFromServe, Handlers, sockets, registry
  <2>2. /\ call[c] = "listen" /\ call' = [call EXCEPT ![c] = "none"] /\ mixed' = mixed
        /\ OnConnect' = saved /\ saved' = "nil" /\ left' = left
        BY <1>4 DEF returnFromServe
  <2>3. OneCall' /\ (~mixed => ~Serving')
        BY <2>2, CallEnds
  <2>4. HandlersMatch'
    <3>1. SUFFICES ASSUME ~mixed
                   PROVE  ~Serving' /\ OnConnect' = IF left THEN "server" ELSE "user"
          BY <2>2 DEF HandlersMatch
    <3>2. Serving
          BY <2>2 DEF Serving
    <3>3. saved = IF left THEN "server" ELSE "user"
          BY <3>1, <3>2 DEF SocketInv, ServingInv, HandlersMatch
    <3> QED
        BY <2>2, <2>3, <3>1, <3>3
  <2> QED
      BY <2>1, <2>3, <2>4 DEF ServingInv
<1>5. ASSUME ServeReturns(c) PROVE TypeOK' /\ ServingInv'
  <2>1. TypeOK'
        BY <1>5 DEF SocketInv, TypeOK, ServeReturns, Handlers, sockets, registry
  <2>2. /\ call[c] = "serve" /\ call' = [call EXCEPT ![c] = "none"] /\ mixed' = mixed
        /\ OnConnect' = OnConnect /\ left' = TRUE
        BY <1>5 DEF ServeReturns
  <2>3. OneCall' /\ (~mixed => ~Serving')
        BY <2>2, CallEnds
  <2>4. Serving
        BY <2>2 DEF Serving
  <2>5. HandlersMatch'
        BY <2>2, <2>3, <2>4 DEF SocketInv, ServingInv, HandlersMatch
  <2> QED
      BY <2>1, <2>3, <2>5 DEF ServingInv
<1> QED
    BY <1>2, <1>3, <1>4, <1>5 DEF ListenAndServe, Serve, SocketInv

LEMMA DownStep ==
  ASSUME SocketInv, Shutdown \/ Close
  PROVE  SocketInv'
<1>1. /\ UNCHANGED <<OnConnect, saved, call, mixed, left, sockets, registry>>
      /\ down' = TRUE /\ callback' \in {"none", "started", "done"}
      BY DEF Shutdown, Close, SocketInv, TypeOK
<1>2. TypeOK'
      BY <1>1 DEF SocketInv, TypeOK, sockets, registry
<1>3. ServingInv'
      BY <1>1 DEF SocketInv, ServingInv, OneCall, HandlersMatch, Serving
<1>4. HandlerInv' /\ RegistryInv'
      BY <1>1, Frames
<1> QED
    BY <1>2, <1>3, <1>4 DEF SocketInv

-----------------------------------------------------------------------------
(* The goroutine of a socket on its way to the lock and back from reading, *)
(* with the user's OnConnect.                                              *)
LEMMA GoroutineStep ==
  ASSUME SocketInv, NEW k \in Socket,
         \/ Accept(k) \/ Upgrade(k) \/ CheckUser(k) \/ CallUser(k) \/ UserSetsHook(k)
         \/ UserReturns(k) \/ registerCloseHandler(k) \/ HandleClose(k) \/ CloseSocket(k)
  PROVE  SocketInv'
<1> DEFINE Path == Accept(k) \/ Upgrade(k) \/ CheckUser(k) \/ CallUser(k) \/ UserReturns(k)
<1>1. UNCHANGED serving /\ UNCHANGED registry
      BY DEF Accept, Upgrade, CheckUser, CallUser, UserSetsHook, UserReturns,
        registerCloseHandler, HandleClose, CloseSocket
<1>2. ServingInv'
      BY <1>1, Frames
<1> USE DEF SocketInv, TypeOK, HandlerInv, HookInv, ToldInv, Handlers, Steps
<1>3. CASE Path
  <2>1. PICK to \in {"upgrade", "check", "plain", "reading", "hook", "call", "panicked",
                     "recursing", "user"} :
          /\ pc' = [pc EXCEPT ![k] = to]
          /\ pc[k] \in {"new", "upgrade", "check", "call", "user", "plain"}
          /\ open' = open \/ (pc[k] = "new" /\ open' = [open EXCEPT ![k] = TRUE])
          /\ UNCHANGED <<hook, inner, told>>
        BY <1>3 DEF Accept, Upgrade, CheckUser, CallUser, UserReturns, Goes
  <2>2. TypeOK'
    <3>1. pc' \in [Socket -> Steps]
          BY <2>1
    <3>2. open' \in [Socket -> BOOLEAN]
          BY <2>1
    <3> QED
        BY <1>1, <2>1, <3>1, <3>2 DEF serving, registry
  <2>3. HandlerInv'
        BY <2>1
  <2>4. k \notin socks
        BY <2>1 DEF RegistryInv, RegisteredIsServed
  <2>5. RegistryInv'
        BY <1>1, <2>1, <2>4 DEF RegistryInv, RegisteredIsServed, RangedIsRegistered,
          CallbackClosesRegistered, registry
  <2> QED
      BY <1>2, <2>2, <2>3, <2>5
<1>4. CASE UserSetsHook(k)
  <2>1. /\ pc[k] \in {"user", "plain"} /\ UNCHANGED <<pc, open, inner>>
        /\ hook' = [hook EXCEPT ![k] = "user"] /\ told' = [told EXCEPT ![k] = "set"]
        BY <1>4 DEF UserSetsHook
  <2>2. TypeOK'
        BY <1>1, <2>1 DEF serving, registry
  <2>3. HandlerInv'
        BY <2>1
  <2>4. RegistryInv'
        BY <1>1, <2>1 DEF RegistryInv, RegisteredIsServed, RangedIsRegistered,
          CallbackClosesRegistered, registry
  <2> QED
      BY <1>2, <2>2, <2>3, <2>4
<1>5. CASE registerCloseHandler(k)
  <2>1. /\ pc[k] = "hook" /\ pc' = [pc EXCEPT ![k] = "lock"] /\ UNCHANGED <<open, told>>
        /\ inner' = [inner EXCEPT ![k] = hook[k]] /\ hook' = [hook EXCEPT ![k] = "server"]
        BY <1>5 DEF registerCloseHandler, Goes
  <2>2. hook[k] \in {"nil", "user"}
        BY <2>1
  <2>3. TypeOK'
        BY <1>1, <2>1, <2>2 DEF serving, registry
  <2>4. HandlerInv'
        BY <2>1, <2>2
  <2>5. RegistryInv'
        BY <1>1, <2>1 DEF RegistryInv, RegisteredIsServed, RangedIsRegistered,
          CallbackClosesRegistered, registry
  <2> QED
      BY <1>2, <2>3, <2>4, <2>5
<1>6. CASE HandleClose(k)
  <2>1. /\ pc[k] = "reading" /\ UNCHANGED <<open, hook, inner>>
        /\ pc' = [pc EXCEPT ![k] = IF hook[k] = "server" THEN "leave" ELSE "gone"]
        /\ told' = [told EXCEPT ![k] = IF hook[k] = "user" THEN "told" ELSE told[k]]
        BY <1>6 DEF HandleClose, Goes
  <2>2. TypeOK'
        BY <1>1, <2>1 DEF serving, registry
  <2>3. HandlerInv'
        BY <2>1
  <2>4. RegistryInv'
        BY <1>1, <2>1 DEF RegistryInv, RegisteredIsServed, RangedIsRegistered,
          CallbackClosesRegistered, registry
  <2> QED
      BY <1>2, <2>2, <2>3, <2>4
<1>7. CASE CloseSocket(k)
  <2>1. open' = [open EXCEPT ![k] = FALSE] /\ UNCHANGED <<pc, hook, inner, told>>
        BY <1>7 DEF CloseSocket
  <2>2. TypeOK'
        BY <1>1, <2>1 DEF serving, registry
  <2>3. HandlerInv'
        BY <2>1
  <2>4. RegistryInv'
        BY <1>1, <2>1 DEF RegistryInv, RegisteredIsServed, RangedIsRegistered,
          CallbackClosesRegistered, registry
  <2> QED
      BY <1>2, <2>2, <2>3, <2>4
<1> QED
    BY <1>3, <1>4, <1>5, <1>6, <1>7

(* With the lock held for writing nobody ranges.                           *)
LEMMA LockStep ==
  ASSUME SocketInv, NEW k \in Socket, registerConnection(k) \/ unregisterConnection(k)
  PROVE  SocketInv'
<1>1. /\ UNCHANGED <<open, inner, ranging, todo>> /\ UNCHANGED serving /\ ranging = {}
      BY DEF registerConnection, unregisterConnection, Registered, Unregistered, Locks
<1>2. ServingInv'
      BY <1>1, Frames
<1> USE DEF SocketInv, TypeOK, HandlerInv, HookInv, ToldInv, Handlers, Steps
<1>3. CASE registerConnection(k)
  <2>1. /\ pc[k] = "lock" /\ pc' = [pc EXCEPT ![k] = "reading"] /\ socks' = socks \cup {k}
        /\ UNCHANGED <<hook, told>>
        BY <1>3 DEF registerConnection, Registered, Goes
  <2>2. TypeOK'
        BY <1>1, <2>1 DEF serving
  <2>3. HandlerInv'
        BY <1>1, <2>1
  <2>4. RegistryInv'
        BY <1>1, <2>1 DEF RegistryInv, RegisteredIsServed, RangedIsRegistered,
          CallbackClosesRegistered
  <2> QED
      BY <1>2, <2>2, <2>3, <2>4
<1>4. CASE unregisterConnection(k)
  <2>1. /\ pc[k] = "leave" /\ pc' = [pc EXCEPT ![k] = "gone"] /\ socks' = socks \ {k}
        /\ hook' = [hook EXCEPT ![k] = "nil"]
        /\ told' = [told EXCEPT ![k] = IF inner[k] = "user" THEN "told" ELSE told[k]]
        BY <1>4 DEF unregisterConnection, Unregistered, Goes
  <2>2. TypeOK'
        BY <1>1, <2>1 DEF serving
  <2>3. HandlerInv'
        BY <1>1, <2>1
  <2>4. RegistryInv'
        BY <1>1, <2>1 DEF RegistryInv, RegisteredIsServed, RangedIsRegistered,
          CallbackClosesRegistered
  <2> QED
      BY <1>2, <2>2, <2>3, <2>4
<1> QED
    BY <1>3, <1>4

-----------------------------------------------------------------------------
(* The sockets of a reader are those of the set when it took the lock, less *)
(* those it has come to.                                                   *)
LEMMA ReadStep ==
  ASSUME SocketInv, NEW x \in Reader, RLock(x), UNCHANGED <<socks, serving, sockets>>
  PROVE  SocketInv'
<1>1. /\ ranging' = ranging \cup {x} /\ todo' = [todo EXCEPT ![x] = socks]
      BY DEF RLock
<1>2. TypeOK'
      BY <1>1 DEF SocketInv, TypeOK, serving, sockets
<1>3. ServingInv' /\ HandlerInv'
      BY Frames
<1>4. RegistryInv'
      BY <1>1 DEF SocketInv, TypeOK, RegistryInv, RegisteredIsServed, RangedIsRegistered,
        CallbackClosesRegistered, sockets
<1> QED
    BY <1>2, <1>3, <1>4 DEF SocketInv

LEMMA VisitStep ==
  ASSUME SocketInv, NEW x \in Reader, NEW k \in Socket,
         IF x = Callback THEN CallbackCloses(k) ELSE Visit(x, k)
  PROVE  SocketInv'
<1>1. /\ todo' \in {[todo EXCEPT ![x] = todo[x] \ {k}], [todo EXCEPT ![x] = {}]}
      /\ open' \in {open, [open EXCEPT ![k] = FALSE]}
      /\ x = Callback => /\ todo' = [todo EXCEPT ![x] = todo[x] \ {k}]
                         /\ open' = [open EXCEPT ![k] = FALSE]
      /\ UNCHANGED <<pc, hook, inner, told, socks, ranging, serving>>
      BY DEF CallbackCloses, Closes, Visit
<1>2. TypeOK'
  <2>1. todo \in [Reader -> SUBSET Socket] /\ open \in [Socket -> BOOLEAN]
        BY DEF SocketInv, TypeOK
  <2>2. todo[x] \ {k} \in SUBSET Socket
        BY <2>1
  <2>3. todo' \in [Reader -> SUBSET Socket]
        BY <1>1, <2>1, <2>2
  <2>4. open' \in [Socket -> BOOLEAN]
        BY <1>1, <2>1
  <2> QED
      BY <1>1, <2>3, <2>4 DEF SocketInv, TypeOK, serving
<1>3. ServingInv'
      BY <1>1, Frames
<1>4. HandlerInv'
      BY <1>1 DEF SocketInv, HandlerInv, HookInv, ToldInv
<1>5. RegisteredIsServed' /\ RangedIsRegistered'
      BY <1>1 DEF SocketInv, TypeOK, RegistryInv, RegisteredIsServed, RangedIsRegistered
<1>6. CallbackClosesRegistered'
      BY <1>1 DEF SocketInv, TypeOK, RegistryInv, CallbackClosesRegistered, Reader
<1> QED
    BY <1>2, <1>3, <1>4, <1>5, <1>6 DEF SocketInv, RegistryInv

LEMMA UnlockStep ==
  ASSUME SocketInv, NEW x \in Reader, RUnlock(x)
  PROVE  SocketInv'
<1>1. /\ ranging' = ranging \ {x} /\ callback' \in {"none", "started", "done"}
      /\ UNCHANGED <<OnConnect, saved, call, mixed, left, down, sockets, socks, todo>>
      BY DEF RUnlock, SocketInv, TypeOK
<1>2. TypeOK'
      BY <1>1 DEF SocketInv, TypeOK, sockets
<1>3. ServingInv'
      BY <1>1 DEF SocketInv, ServingInv, OneCall, HandlersMatch, Serving
<1>4. HandlerInv'
      BY <1>1, Frames
<1>5. RegistryInv'
      BY <1>1 DEF SocketInv, RegistryInv, RegisteredIsServed, RangedIsRegistered,
        CallbackClosesRegistered, sockets
<1> QED
    BY <1>2, <1>3, <1>4, <1>5 DEF SocketInv

LEMMA SocketStep == SocketInv /\ [Next]_vars => SocketInv'
<1> SUFFICES ASSUME SocketInv, [Next]_vars PROVE SocketInv'
    OBVIOUS
<1>1. Ranger \subseteq Reader /\ Callback \in Reader /\ Callback \notin Ranger
      BY SocketsAssumption DEF Reader
<1>2. ASSUME NEW k \in Socket, Goroutine(k) PROVE SocketInv'
      BY <1>2, GoroutineStep, LockStep DEF Goroutine, gotalkOnConnect
<1>3. ASSUME NEW k \in Socket, Accept(k) \/ CloseSocket(k) \/ UserSetsHook(k) \/ UserReturns(k)
      PROVE  SocketInv'
      BY <1>3, GoroutineStep
<1>4. ASSUME NEW x \in Ranger, RangeGotalkSockets(x) \/ Ranges(x) PROVE SocketInv'
  <2>1. x \in Reader /\ x # Callback
        BY <1>1
  <2> QED
      BY <1>4, <2>1, ReadStep, VisitStep, UnlockStep DEF RangeGotalkSockets, Ranges
<1>5. CASE CallbackRuns
      BY <1>1, <1>5, ReadStep, VisitStep, UnlockStep DEF CallbackRuns, RunCallback
<1>6. CASE UNCHANGED vars
  <2>1. UNCHANGED serving /\ UNCHANGED sockets /\ UNCHANGED registry
        BY <1>6 DEF vars
  <2>2. TypeOK'
        BY <2>1 DEF SocketInv, TypeOK, serving, sockets, registry
  <2> QED
      BY <2>1, <2>2, Frames DEF SocketInv
<1> QED
    BY <1>2, <1>3, <1>4, <1>5, <1>6, CallStep, DownStep DEF Next

LEMMA SocketInvariant == Spec => []SocketInv
BY SocketInit, SocketStep, PTL DEF Spec

-----------------------------------------------------------------------------
(* Every variable keeps its type.                                           *)
THEOREM SocketsTypeOK == Spec => []TypeOK
<1>1. SocketInv => TypeOK
      BY DEF SocketInv
<1> QED
    BY <1>1, SocketInvariant, PTL

(* Whatever is in gotalkSocks will be taken out by the server's             *)
(* CloseHandler (gotalkOnConnect).                                          *)
THEOREM RegisteredSocketIsServed == Spec => []RegisteredIsServed
<1>1. SocketInv => RegisteredIsServed
      BY DEF SocketInv, RegistryInv
<1> QED
    BY <1>1, SocketInvariant, PTL

(* RangeGotalkSockets calls f with sockets in the set only.                 *)
THEOREM RangedSocketIsRegistered == Spec => []RangedIsRegistered
<1>1. SocketInv => RangedIsRegistered
      BY DEF SocketInv, RegistryInv
<1> QED
    BY <1>1, SocketInvariant, PTL

(* The shutdown callback leaves no socket of the set open behind it         *)
(* (NewServer).                                                             *)
THEOREM CallbackLeavesNoneOpen == Spec => []CallbackClosesRegistered
<1>1. SocketInv => CallbackClosesRegistered
      BY DEF SocketInv, RegistryInv
<1> QED
    BY <1>1, SocketInvariant, PTL

(* For serving calls that do not overlap: ListenAndServe gives the user's   *)
(* OnConnect back, unless a Serve has returned before, after which the      *)
(* server's is installed for good (prepareToServe, returnFromServe, Serve). *)
THEOREM HandlersComeBack == Spec => []HandlersMatch
<1>1. SocketInv => HandlersMatch
      BY DEF SocketInv, ServingInv
<1> QED
    BY <1>1, SocketInvariant, PTL

(* A CloseHandler set by the user's OnConnect is called for every socket    *)
(* that is gone.                                                            *)
THEOREM UserHandlerIsCalled == Spec => []UserIsTold
<1>1. SocketInv => UserIsTold
      BY DEF SocketInv, HandlerInv, ToldInv, UserIsTold
<1> QED
    BY <1>1, SocketInvariant, PTL
=============================================================================
