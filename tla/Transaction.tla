---------------------------- MODULE Transaction ----------------------------
(***************************************************************************)
(* Requests of several clients served by one Server, concurrently: each is *)
(* routed, run by a handler that uses the session and responds in any      *)
(* order, recovered when the handler panics, finished by net/http; each    *)
(* client keeps the session cookie of the responses that reach it.         *)
(***************************************************************************)
EXTENDS Session

CONSTANTS
  Req,         \* slots for requests in flight
  Status,      \* status codes handlers respond with
  Serial,      \* a client sends a request only when its last one was answered
  Env,         \* what the surroundings do; see EnvAssumption
  NoSession, NoClient, NoResponse, Delivered

(* "expire": storage drops data whose time is over.                         *)
(* "forget": a client drops its cookie.  "lose": a response does not arrive. *)
(* "late": handlers use the session after the response header was written.  *)
ASSUME EnvAssumption ==
  /\ Serial \in BOOLEAN
  /\ Env \subseteq {"expire", "forget", "lose", "late"}
  /\ Status \subseteq Nat
  /\ NoSession \notin Sessions
  /\ NoClient \notin Client
  /\ NoCookie \notin Cookies

VARIABLES
  tx,   \* tx[r]: the Transaction in slot r, and what net/http holds of it
  jar,  \* jar[c]: the value of the session cookie client c keeps
  db    \* what the session Storage holds

vars == <<tx, jar, db>>

Phase     == {"idle", "handler", "panicking", "returned"}
Codes     == Status \cup {200, 404, 500}
Responses == [status : Codes, cookie : Cookies \cup {NoCookie}]

ASSUME WireAssumption ==
  NoResponse \notin Responses /\ Delivered \notin Responses \cup {NoResponse}

Transactions ==
  [phase : Phase, owner : Client \cup {NoClient},
   cookie : ID \cup {NoID, NoCookie},         \* the Cookie field of the request
   status : Codes, headerWritten : BOOLEAN,
   session : Sessions \cup {NoSession},       \* NoSession: t.session is nil
   header : Cookies \cup {NoCookie},          \* Set-Cookie in t.Header()
   wire : Responses \cup {NoResponse, Delivered}]

IdleTransaction ==
  [phase |-> "idle", owner |-> NoClient, cookie |-> NoCookie, status |-> 200,
   headerWritten |-> FALSE, session |-> NoSession, header |-> NoCookie,
   wire |-> NoResponse]

TypeOK ==
  /\ tx \in [Req -> Transactions]
  /\ jar \in [Client -> ID \cup {NoID, NoCookie}]
  /\ db \in Storage

Init ==
  /\ tx = [r \in Req |-> IdleTransaction]
  /\ jar = [c \in Client |-> NoCookie]
  /\ db = [i \in ID \cup {NoID} |-> NoData]

-----------------------------------------------------------------------------
(* Transaction t, or the client, can still present or store identifier i. *)
Mentions(t, i) ==
  \/ t.cookie = i
  \/ t.session # NoSession /\ t.session.ID = i
  \/ t.header # NoCookie /\ t.header.ID = i
  \/ t.wire \notin {NoResponse, Delivered}
       /\ t.wire.cookie # NoCookie /\ t.wire.cookie.ID = i

Holds(c, i) == jar[c] = i \/ \E r \in Req : tx[r].owner = c /\ Mentions(tx[r], i)

(* uuid.Gen never repeats an identifier that is still of use: an identifier *)
(* nobody refers to stands for every one not yet generated.                 *)
Fresh == {i \in ID : db[i] = NoData /\ \A c \in Client : ~Holds(c, i)}

(* The handler's goroutine goes on with transaction o.t and storage o.db. *)
Result(t, d) == [t |-> t, db |-> d]

Becomes(r, outcomes) ==
  /\ \E o \in outcomes : tx' = [tx EXCEPT ![r] = o.t] /\ db' = o.db
  /\ UNCHANGED jar

(* net/http: the first WriteHeader or Write takes the header as it is. *)
Send(t, code) ==
  IF t.wire # NoResponse \/ t.phase = "panicking" THEN t
  ELSE [t EXCEPT !.wire = [status |-> code, cookie |-> t.header]]

(* The calls of Session.SaveHTTP; the error it returns is only logged. *)
SaveSession(t, d) ==
  IF t.session = NoSession THEN {Result(t, d)}
  ELSE { Result([t EXCEPT !.session = o.s, !.header = o.header,
                          !.phase = IF o.err = "panic" THEN "panicking" ELSE @], o.db)
         : o \in SaveHTTP(t.session, d, t.header, Fresh) }

WriteHeader(t, d, code) ==
  IF t.headerWritten THEN {Result(t, d)}
  ELSE { Result(Send(o.t, code), o.db) : o \in SaveSession([t EXCEPT !.headerWritten = TRUE], d) }

Write(t, d) == { Result(Send(o.t, 200), o.db) : o \in WriteHeader(t, d, t.status) }

(* The mutant leaves t.Status at 200. *)
RespondKeepingStatus(t, d, code) == Write(t, d)

RespondWithMessage(t, d, code) == Write([t EXCEPT !.status = code], d)

(* ServeHTTP has returned: its Transaction is garbage and is cleared for    *)
(* the next request. Only a response on its way remains, and when that is   *)
(* gone the slot is free.                                                   *)
Recycled(t) ==
  IF t.wire = Delivered THEN IdleTransaction
  ELSE [IdleTransaction EXCEPT !.phase = "returned", !.owner = t.owner, !.wire = t.wire]

(* The mutant's finalizer leaves t.session as it is. *)
SettleKeepingSession(t) ==
  IF t.phase # "returned" THEN t ELSE [Recycled(t) EXCEPT !.session = t.session]

Settle(t) == IF t.phase # "returned" THEN t ELSE Recycled(t)

Returned(o) == Result(Settle([o.t EXCEPT !.phase = "returned"]), o.db)

-----------------------------------------------------------------------------
NewTransaction(r, c) ==
  [tx[r] EXCEPT !.phase = "handler", !.owner = c, !.cookie = jar[c]]

RespondAndReturn(r, t, code) ==
  Becomes(r, {Returned(o) : o \in RespondWithMessage(t, db, code)})

(* A route is found and its handler starts, or matching routes failed. *)
MaybeServeHTTP(r, t) == Becomes(r, {Result(t, db)}) \/ RespondAndReturn(r, t, 500)

(* No route: files are served past the Transaction, if configured. *)
ServeFallback(r, t) ==
  \/ RespondAndReturn(r, t, 404)
  \/ \E code \in {200, 404} : Becomes(r, {Returned(Result(Send(t, code), db))})

ServeHTTP(r, c) ==
  /\ tx[r].phase = "idle"
  /\ Serial => \A q \in Req : tx[q].owner # c
  /\ LET t == NewTransaction(r, c) IN MaybeServeHTTP(r, t) \/ ServeFallback(r, t)

InHandler(r) == tx[r].phase = "handler"

(* The handler has a session and may use it now. *)
UsesSession(r) ==
  /\ InHandler(r)
  /\ tx[r].session # NoSession
  /\ tx[r].headerWritten => "late" \in Env

OnSession(r, s) ==
  /\ UsesSession(r)
  /\ Becomes(r, {Result([tx[r] EXCEPT !.session = s], db)})

GetSession(r) ==
  /\ InHandler(r)
  /\ tx[r].session = NoSession
  /\ Becomes(r, {Result([tx[r] EXCEPT !.session = s], db) : s \in LoadHTTP(tx[r].cookie, db)})

UseSession(r) ==
  \/ \E k \in Key : \/ OnSession(r, SetTo(tx[r].session, k, tx[r].owner))
                    \/ OnSession(r, SetToNil(tx[r].session, k))
                    \/ OnSession(r, Del(tx[r].session, k))
  \/ OnSession(r, Clear(tx[r].session))

CallSaveSession(r) ==
  /\ UsesSession(r)
  /\ Becomes(r, SaveSession(tx[r], db))

(* ClearSession loads the session when the handler has not. *)
ClearSession(r) ==
  /\ InHandler(r)
  /\ tx[r].headerWritten => "late" \in Env
  /\ \E s \in IF tx[r].session = NoSession THEN LoadHTTP(tx[r].cookie, db)
              ELSE {tx[r].session} :
       Becomes(r, SaveSession([tx[r] EXCEPT !.session = Clear(s)], db))

Respond(r) ==
  /\ InHandler(r)
  /\ \/ \E code \in Status : \/ Becomes(r, WriteHeader(tx[r], db, code))
                             \/ Becomes(r, RespondWithMessage(tx[r], db, code))
     \/ Becomes(r, Write(tx[r], db))

Panic(r) ==
  /\ InHandler(r)
  /\ Becomes(r, {Result([tx[r] EXCEPT !.phase = "panicking"], db)})

(* The deferred function of ServeHTTP responds with status 500; when that  *)
(* panics again net/http gives the connection up.                          *)
Recover(r) ==
  /\ tx[r].phase = "panicking"
  /\ Becomes(r,
       { IF o.t.phase = "panicking" THEN Result(IdleTransaction, o.db) ELSE Returned(o)
         : o \in RespondWithMessage([tx[r] EXCEPT !.phase = "handler"], db, 500) })

(* The handler returns; net/http completes a response nobody started. *)
Return(r) ==
  /\ InHandler(r)
  /\ Becomes(r, {Returned(Result(Send(tx[r], 200), db))})

-----------------------------------------------------------------------------
(* The response header arrives: max-age <= 0 deletes the cookie. *)
Receive(r) ==
  LET w == tx[r].wire IN
  /\ w \notin {NoResponse, Delivered}
  /\ tx' = [tx EXCEPT ![r] = Settle([@ EXCEPT !.wire = Delivered])]
  /\ jar' = IF w.cookie = NoCookie THEN jar
            ELSE [jar EXCEPT ![tx[r].owner] =
                    IF w.cookie.maxAge > 0 THEN w.cookie.ID ELSE NoCookie]
  /\ UNCHANGED db

Lose(r) ==
  /\ "lose" \in Env
  /\ tx[r].wire \notin {NoResponse, Delivered}
  /\ tx' = [tx EXCEPT ![r] = Settle([@ EXCEPT !.wire = Delivered])]
  /\ UNCHANGED <<jar, db>>

Expire(i) ==
  /\ "expire" \in Env
  /\ db' = [db EXCEPT ![i] = NoData]
  /\ UNCHANGED <<tx, jar>>

Forget(c) ==
  /\ "forget" \in Env
  /\ jar' = [jar EXCEPT ![c] = NoCookie]
  /\ UNCHANGED <<tx, db>>

Handler(r) ==
  GetSession(r) \/ UseSession(r) \/ CallSaveSession(r) \/ ClearSession(r)
    \/ Respond(r) \/ Panic(r) \/ Return(r)

Next ==
  \/ \E r \in Req :
       \/ \E c \in Client : ServeHTTP(r, c)
       \/ Handler(r) \/ Recover(r) \/ Receive(r) \/ Lose(r)
  \/ \E i \in ID \cup {NoID} : Expire(i)
  \/ \E c \in Client : Forget(c)

Spec == Init /\ [][Next]_vars
-----------------------------------------------------------------------------
DataOf(v) == IF v = Nil THEN Empty ELSE v

(* What a handler reads from its session was written by requests of the     *)
(* client it serves: over every interleaving, with every storage and uuid   *)
(* failure, expiry and lost cookie (LoadHTTP, Save, SaveHTTP, WriteHeader). *)
Isolation ==
  \A r \in Req : tx[r].session # NoSession =>
    WrittenBy(tx[r].owner, tx[r].session.values)

(* An identifier belongs to one client, and the data stored under it is of  *)
(* that client: no cookie, response or session of another refers to it.     *)
OneHolder ==
  \A i \in ID, c \in Client : Holds(c, i) =>
    /\ WrittenBy(c, db[i])
    /\ \A e \in Client : Holds(e, i) => e = c

(* Once the response has arrived the client's next request loads exactly    *)
(* the session its handler left when it responded, whether values were set, *)
(* deleted or cleared, saved once or repeatedly, whatever saves failed in   *)
(* between and cookies were lost before: unless the last save failed (Save, *)
(* SaveHTTP, bakeSessionIDCookie, HeaderSetCookie, LoadHTTP).               *)
ReadYourWrites ==
  [][\A r \in Req :
       /\ Receive(r) /\ tx[r].headerWritten /\ tx[r].session # NoSession
       /\ ~tx[r].session.dirty
       /\ jar[tx[r].owner] = tx[r].cookie   \* not forgotten meanwhile
       =>
         \A s \in LoadHTTP(jar'[tx[r].owner], db) :
           DataOf(s.values) = DataOf(tx[r].session.values)]_vars

(* After a ClearSession that saved, no identifier the client still holds,   *)
(* in its jar or in a response on its way, has data in storage, and the     *)
(* response deletes the cookie whose data there was: "remove the session    *)
(* data from the db (and the cookie from the HTTP client [...])"            *)
(* (session.go:60).                                                         *)
ClearSessionRemovesData ==
  [][\A r \in Req :
       ClearSession(r) /\ tx'[r].phase = "handler" /\ ~tx'[r].session.dirty =>
         /\ \A i \in ID : Holds(tx[r].owner, i)' => db'[i] = NoData
         /\ tx'[r].header # NoCookie => tx'[r].header.maxAge < 0
         /\ tx[r].cookie \in ID /\ db[tx[r].cookie] # NoData => tx'[r].header # NoCookie]_vars

(* "recover panic and turn it into an error" (server.go:110): a panic before *)
(* anything was sent reaches the client as status 500.                      *)
PanicBecomesError ==
  [][\A r \in Req :
       tx[r].phase = "panicking" /\ tx[r].wire = NoResponse /\ tx'[r] # tx[r] =>
         tx'[r].wire \in Responses /\ tx'[r].wire.status = 500]_vars
=============================================================================
