# Verification of go-httpd

TLA+ models of `go-httpd`, a small Go web server library (HTTP transactions with
sessions, routes, passwords, gotalk sockets, graceful shutdown), the TLC runs
that check them and the TLAPS proofs about them. The models are translated from
the Go source; the line a definition stands for is in `PROJECT.json` under
`map`.

    tlc -config isolation.cfg MCTransaction.tla     # one run
    tlapm TransactionProofs.tla                     # the proofs of one module

## 1. Inventory

| Component | Source | State | Operations | Hard part |
|---|---|---|---|---|
| Request serving | `server.go:72-134`, `router.go:24-55` | none of its own; the `Transaction` of each request | `ServeHTTP`, `MaybeServeHTTP`, the deferred recovery | panics in handlers, also while recovering |
| Transaction | `transaction.go` | header written, status, session, query, aux data | `Session`, `SaveSession`, `ClearSession`, `WriteHeader`, `Write`, `Respond...` | saving must come before the header, once or repeatedly |
| Transaction pool | `transaction.go:38-75` | `sync.Pool` filled by finalizers | `NewTransaction`, `gcTransaction` | what a reused object still holds |
| Session | `session/session.go` | id, values, dirty flag | `Set`, `Del`, `Clear`, `Load`, `Save`, `LoadHTTP`, `SaveHTTP` | every step of a save can fail |
| Session store | `session/store.go` | storage, TTL, cookie name | `SetStorage`, `LoadHTTP`, `GetHTTP` | no storage; two copies of a session |
| Memory storage | `session/storage.go:46-93` | `sync.Map` of data with expiry times | get, set, refresh, delete | an operation is several map operations |
| Graceful shutdown | `server.go:369-458` | list of servers, channel, lock (package globals) | `EnableGracefulShutdown`, `DisableGracefulShutdown`, `gracefulShutdownAll` | signals, goroutines, timeouts, repeated shutdowns |
| Gotalk sockets | `server.go:230-333` | set of connected sockets, saved `OnConnect` | `prepareToServe`, `returnFromServe`, `gotalkOnConnect`, `RangeGotalkSockets` | sockets that connect or close during shutdown; lock order |
| Routes | `route/` | list of routes, base path | `Add`, `Match`, `Parse` | first match over conditions, prefixes and variables |
| Passwords | `auth/` | digests kept by the application | `Set`, `Verify`, `Change`, `EncodeRaw`, `DecodeRaw` | change is two steps; the configuration travels with the digest |
| Cookies in headers | `util/util.go` | header lines | `HeaderSetCookie` | replace by name or add |
| Paths and hosts | `server.go:136-169` | none | `cleanPath`, `stripHostPort` | idempotence |
| Listeners | `server_linux.go`, `server_generic.go` | none | `ListenAndServe...` | preparing before the listener may fail |
| Templates, helpers, logging | `template*.go`, `util*.go` | none | formatting | none |

How they interact: `net/http` calls `Server.ServeHTTP` in one goroutine for each
request. It takes a `Transaction` from the pool and hands it to the handler
`Router.Match` finds. The handler may use `Transaction.Session()`, which loads a
`Session` through the `Store` from the `Storage`; the first `WriteHeader` or
`Write` saves it and puts the cookie in the header. When `ServeHTTP` has returned
the garbage collector runs `gcTransaction`, which puts the object back. The
storage is shared by all requests; so are the lists of graceful shutdown and of
gotalk sockets, each under its lock.

What makes each component correct is the list of properties in section 3; where
it can go wrong is the list of hazards, by source line, in `PROJECT.json`.

## 2. Modules

| Module | Models | Checked through | Proofs |
|---|---|---|---|
| `TransactionPool` | the life of `Transaction` objects, field by field | `MCTransactionPool` | `TransactionPoolProofs` |
| `Session` | a session's operations as functions with sets of outcomes | (extended by `Transaction`) | `TransactionProofs` |
| `Transaction` | concurrent requests of clients, their jars and the storage | `MCTransaction` | `TransactionProofs` |
| `SessionStorage` | what a storage promises callers whose calls overlap | (instantiated by `MemoryStorage`) | |
| `MemoryStorage` | `sync.Map` operations of concurrent calls | `MCMemoryStorage` | `MemoryStorageProofs` |
| `ShutdownGroup` | what graceful shutdown promises its callers | (instantiated by `GracefulShutdown`) | |
| `GracefulShutdown` | the shutdown protocol of several servers | itself | `GracefulShutdownProofs` |
| `GotalkSockets` | connect handlers, the set of sockets and its lock | itself | `GotalkSocketsProofs` |
| `PasswordCodec` | the text that keeps a password, byte by byte | (extended by `Passwords`) | `PasswordsProofs` |
| `Passwords` | concurrent calls of `Set`, `Verify`, `Change` | `MCPasswords` | `PasswordsProofs` |
| `HttpPath` | `cleanPath` and `path.Clean` | (extended by `Routing`) | `DispatchProofs` |
| `Routing` | patterns, the table of routes, the search in it | (extended by `Dispatch`) | `DispatchProofs` |
| `Cookies` | `HeaderSetCookie` on lines of words | (extended by `Dispatch`) | `DispatchProofs` |
| `Dispatch` | a server that gets routes and then answers a client | `MCDispatch` | `DispatchProofs` |

`SequenceLemmas` models nothing: it holds the lemmas about numbers and sequences
that `DispatchProofs` and `PasswordsProofs` share.

### TransactionPool

`where[o]` says who holds object `o`: nobody (`free`), a running `ServeHTTP`
(`serving`), a goroutine the handler left behind (`retained`), nobody any more
(`garbage`), the pool (`pooled`). `field[o][f]` is the set of requests the value
of field `f` derives from, so that "cleared" and "of another request" can be told
apart without modelling values. `Session`, `Query` and `WriteHeader` fill their
field only when it is zero, as the code does, which is what makes a field that
was not cleared dangerous. `gcTransaction` clears the fields the code names.

### Session and Transaction

`Session` holds no variables. A session is a record of id, values and dirty; a
stored value is abstracted to the client whose request wrote it, which is what
isolation speaks of. `Save` and `SaveHTTP` return a *set* of outcomes: success,
and for each fault that `Faults` allows what the code leaves behind (id assigned
but not stored, data stored under the empty id, a panic on a nil storage).

`Transaction` has `tx[r]` (the `Transaction` of the request in slot `r` with what
`net/http` holds of its response), `jar[c]` (the cookie of client `c`) and `db`
(the storage). An action is a call a handler makes, with everything the call
does: `WriteHeader` saves the session, sets the cookie and sends the header in
one step. This is exact for the transaction, which one goroutine uses, and it
takes storage calls as atomic. What overlapping calls of `MemoryStorage` do to
each other is examined there (`refresh_race`); they touch one identifier, whose
data is one client's (`OneHolder`), and under the conditions of run `client` no two
requests use it at once. Requests interleave between calls. `Receive` is the arrival of the response at the client;
it may come while the handler goes on, or never (`Lose`). A response of
`ServeHTTP` frees its slot when it has arrived or is lost. `Fresh` says which
identifiers `uuid.Gen` may return: none that anybody still mentions; this is the
only assumption about it, and it stands for the uniqueness of its identifiers.
The identifiers clients present are those of their jars, so a client that
makes up identifiers is not modelled.

### SessionStorage and MemoryStorage

`MemoryStorage` is the code: `now` is the clock, `store` the `sync.Map`; a get is
a load, a check of the time and perhaps a delete, a refresh a load and a store.
`call[c]` is the get or refresh that goroutine `c` is in, `pc[c]` where in it,
`entry[c]` what it has loaded. Nothing keeps calls apart: those of several
goroutines overlap step by step, also for one identifier. A set or delete is one
operation of the map, hence one step.

`SessionStorage` is what callers may count on. A set or delete takes effect at
once. A get or refresh that began (`Begin`) answers, at some later step, from an
entry its session has had since it began, or from its absence (`had[c]`), with the
time as it is at the answer. `had` is a variable of the abstract storage; in
`MemoryStorage` it is a history variable that no step reads, which makes the
mapping of the refinement the identity. What the abstract storage leaves open,
the effect of a get or refresh on what was stored meanwhile, is where the code
loses data: `refresh_race` shows a refresh that undoes a set, and in the same way a
get that has found its session expired deletes what a set has stored since.

### GracefulShutdown

Channels are numbered as they are made; `waiter[g]` is the goroutine started with
channel `g`, `job[k]` the `shutdownServer` call of the k-th server listed. The
lock is held from `ShutdownAll` to `Finish`; `EnableGracefulShutdown` assigns the
timeout first (`Enable`) and takes the lock afterwards (`Enlist`). `Shutdown` and
`Close` of `net/http` are taken at their documentation: after either, no more
connections are served; `Shutdown` returns when no connection is active or its
context is done. The application may close or shut servers down itself.

`ShutdownGroup` says the same to a caller who knows nothing of signals, locks
and goroutines: a server joins the group that is open or opens one, goes down,
and a group is closed, once and for all, when each of its members is down.
`GracefulShutdown` implements it under the mapping of `Group`: the group a
server joined last is the channel it waits for, the open group the channel that
is not closed yet.

### GotalkSockets

A socket has a goroutine (`pc[k]`), which runs the connect handler statement by
statement: the nil check of `gotalkOnConnectUser` (`CheckUser`) and its call
(`CallUser`) are two steps, since `returnFromServe` may run in between; then the
close handler is exchanged (`registerCloseHandler`) and, with the lock, the
socket registered (`registerConnection`). `hook[k]` is the socket's
`CloseHandler`, `inner[k]` the one captured by the closure. `ranging` are the
readers of the lock, and a goroutine at `lock` or `leave` is waiting to write:
new readers wait behind it, as `sync.RWMutex` has it. `todo[x]` is what an
iteration has still to visit. `Shutdown` starts the callback in a goroutine of
its own. `call[c]` is the serving call goroutine `c` is in; `ListenAndServe` ends with
`returnFromServe`, `Serve` without it (`ServeReturns`), which `left` remembers, as
`mixed` remembers that serving calls overlapped. The map is taken to be ranged over as it was at the start, which is
exact because the lock keeps it from changing.

The gotalk library is not part of the repository. It is modelled by what this
code relies on: the connect handler runs in the socket's goroutine, and the close
handler afterwards in the same one, so that `Close` of a socket, which the
callback calls with the lock held, does not run it. Were it otherwise the
callback would wait for itself; the mutant of `ClosedLeaves` is that library.

### PasswordCodec and Passwords

`PasswordCodec` is byte for byte: variable-length integers, salt, hash, unpadded
base-64 as six-bit numbers. `Decode` returns the error the code returns, or
`panic` where a slice would reach past its end. In `Passwords` a call is a
sequence of calls into the application (`GetAccountPasswordData`,
`SetAccountPasswordData`), each a step that may fail, before or after it has
stored; `Change` is a `Verify` and then a `Set`. scrypt is the constant `Key`,
assumed to tell passwords apart and to have the length asked for
(`KeyAssumption`); the salt is any of `Salts`, of the length asked for
(`SaltAssumption`: `rand.Read` fills its slice). The numbers of a configuration
fit the five bytes each that `EncodeRaw` makes room for, as numbers below 2^31 do
(`Number`).
`current` and `since` record the password the data was made from and those the
account has had during a call; no step reads them.

### HttpPath, Routing, Cookies and Dispatch

A path is a sequence of characters, a pattern one of characters and variables; a
variable has a name and a set of characters its value is made of, which stands
for its regular expression. `Submatches` is the set of values that make a path
of a pattern and `FindStringSubmatch` the one a leftmost-first greedy search
finds. `Routing` keeps the details that matter to it: the slot `Add` gives
back when the pattern is wrong, the index of a variable among all of them,
prefixes and `!`, the number of submatches that must agree with the number of
names. A line of a header is a sequence of words among which `=`, `;` and blanks,
which `parseCookieName` trims from the ends of a name and leaves within it.

`Dispatch` composes them: routes are added, then a request is answered
(`ServeHTTP`), its handler sets cookies and returns or redirects, and the
client follows a redirect with a method RFC 7231 and 7538 allow
(`NextMethods`). Which table of routes was set up, by which calls, some of them
failing, is part of the state. `cookies` is history: what the handler has given to
`HeaderSetCookie` so far, which `KeepsLast` compares with the header.

## 3. Runs

Passing runs.

| Run | Shows | Bounds, and why they are enough |
|---|---|---|
| `pool` | fields the finalizer names are the current request's; no field but `AuxData` mixes what two requests left | 2 objects, so one is reused while another is alive; 3 requests alive in fields at once; a request's name is reused when nothing refers to it, so runs are unbounded |
| `client` | the next request loads what the last one left, whatever was lost, forgotten or not stored before; what `ClearSession` saved leaves nothing loadable; a panic becomes a 500 | 1 client and slot, 2 keys (a deletion leaves data or none), 2 ids (one kept, one new), every fault of writing |
| `isolation` | no data or identifier of one client reaches another | 2 clients, 2 concurrent requests, 1 key; 1 id, which passes from one client to the other when it is free again, and the empty one, under which a failing `uuid.Gen` has data stored; loads fail and data expires at any point. More ids and every other fault are covered by the proof |
| `storage` | a get or refresh answers from what its session had during the call | 2 callers, so each step of a call meets each step of another, for one id or two; 2 values; TTL 1 and 2 ticks: an entry lives, is refreshed, expires between two steps and is found expired |
| `shutdown` | a closed channel means down; channels are closed once, by their goroutine, and an open one has a goroutine on its way to close it; a signal leads to a closed channel; `ShutdownGroup` is implemented | 2 servers, 2 channels (a shutdown and the next), lists up to 2 (two servers, or one listed twice); no symmetry, for liveness |
| `sockets` | the set holds sockets whose close handler is to run and no others; ranging and the shutdown callback see the set as it is; the user's handlers are called, and come back after a `ListenAndServe` and not after a `Serve`; the lock never gets stuck | 2 sockets, so one registers or closes while another does or is ranged over; 1 goroutine that serves, any number of times, in both ways, while sockets of earlier calls are still there (overlapping serving calls are left to the proofs); 1 ranging goroutine and the callback, two readers at once |
| `passwords` | stored data decodes to what was encoded, cut data is refused, a password is accepted exactly while it is the account's | 2 goroutines, 1 account, 2 passwords; `N` of three bytes, salts of 2 bytes below and above 128, hashes of 3: texts of 16 characters, and every cut of them |
| `dispatch` | canonical paths, the first route that describes a path and its variables, base path, cookies and redirects | every table of 2 of 8 patterns (a condition list, a prefix, two variables in a row, a repeated and an unnamed one, `!`, none with a slash), 5 base paths, every path of up to 4 of `/`, `.`, `a`; any 3 of 4 cookies with one route and any 2 with two: a name again, with blanks around it, with another between, a name with a blank within, none |

Each property of a passing run has a mutant in `PROJECT.json`: a change of the
model that stands for a plausible bug and that TLC finds with that run.

Runs that refute what a comment of the repository says. Each is a finding in
`PROJECT.json` with the line quoted.

| Run | The code | The comment |
|---|---|---|
| `aux_data` | the pool hands `AuxData` of one request to another | `transaction.go:30` |
| `refresh_race` | a refresh undoes a concurrent set or delete | `storage.go:31` |
| `sockets_left` | a socket that connects while the shutdown callback runs is registered after it and never closed | `server.go:61` |
| `check_config` | passwords hashed under a configuration other than the default never verify | `auth.go:38` |

Deadlock is checked in every run: the system never stops, since requests can
always arrive, calls be made and signals come.

### Bounds

`Client`, `Req`, `Key`, `ID`, `Obj`, `Server`, `Caller`, `Data` are small sets of
model values, interchangeable, hence the symmetry sets of the MC modules; `shutdown`,
`sockets` and `sockets_left` check liveness and go without. `MaxNow` bounds the
clock, `MaxMade` the channels, `MaxListed` the list of servers, `MaxRoutes` the
table of routes, `MaxCalls` routes and cookies together; each appears in the guard of the one
action it bounds. A socket of `GotalkSockets` lives once, so that the number of
connections is that of `Socket`.

### Fairness

`FairSpec` of `GracefulShutdown` and of `GotalkSockets` have some. In the former a goroutine that can go on is
scheduled (weak fairness of `Waiter(g)`), and a job goes on: its steps are code
without blocking, except that `Shutdown` waits for connections or for its
context, whose timer fires (`TimesOut` is part of `Job(k)`). Nothing is assumed
of applications, requests, connections or signals, which need not come.
The lock needs no strong fairness: it is held by at most one waiter, and the
proof of `ClosesOwnChannel` shows that there is no second one to compete.
`EnableGracefulShutdown` may compete for the lock; it holds it within one step.

In `GotalkSockets` weak fairness says that the goroutine of a socket and the
callback go on, and that functions given to `RangeGotalkSockets` return, as they
must while the lock is held. The user's connect handler need not return. The lock
needs no strong fairness, because a waiting writer keeps new readers out.

## 4. Proofs

TLC's runs cover small instances; these theorems hold for every value of the
constants, under the named assumptions of the modules (that model values such as
`NoData` differ from the data, that bounds are natural numbers).

* `TransactionPoolProofs`: `PoolTypeOK`, `RecycledTransactionIsClean`. The inductive invariant says of each object what
  its fields may refer to at each stage of its life; the finalizer step is where
  it needs that the cleared fields and those `NewTransaction` assigns are
  together all but `AuxData` and `routeMatch`.
* `TransactionProofs`: `TransactionTypeOK`, `SessionIsolation`,
  `IdentifiersHaveOneHolder`. Isolation alone is not inductive: a load returns
  what the storage holds, so one must know that what is stored under an
  identifier is of the client that presents it. `OneHolder` says this, and that
  no identifier is mentioned by cookies, sessions, headers or responses of two
  clients. The proof shows that every call of a handler turns a transaction that
  is `Safe` for its client into one that is (`SafeSave`, `SafeWriteHeader`, ...),
  and that replacing a slot by a safe transaction keeps the invariant
  (`SafeStep`). It covers all faults; the case of the empty identifier is closed
  by `isValidSessionID`. The lemmas about sessions come first in the module.
  `PanicsAreAnswered` (`PanicBecomesError`) needs a storage: then no save panics,
  and a header that was written was sent (`Answered`). Without one it is false,
  see the observations of section 5.
  `NextRequestReadsWrites` (`ReadYourWrites`) and `ClearedDataIsGone`
  (`ClearSessionRemovesData`) hold for any number of clients under `Calm`: a client
  sends one request at a time, handlers leave the session alone once they
  responded, data does not expire meanwhile, loads and `uuid.Gen` work; saves
  may fail, responses be lost, cookies forgotten. These are the hypotheses of run
  `client`. The invariant is `Remembered`: the cookie the client will present
  next, from the request or from the header so far, names exactly what is stored
  of a session without unsaved changes, and no other identifier the transaction
  mentions has data. That other requests leave this alone follows from
  `OneHolder`: a save touches only an identifier of its client or a fresh one.
* `MemoryStorageProofs`: `StorageTypeOK` and `MemoryImplementsStorage`: whatever
  calls overlap, the specification implements `SessionStorage`. The step that
  returns is the abstract answer, the loads in between stutter. The invariant
  (`HadInCall`) is that what is stored now, and what a call has loaded, are among
  what its session has had since the call began, and that an entry found expired
  stays expired.
* `GracefulShutdownProofs`: `ShutdownTypeOK`, `ClosedChannelMeansDown`,
  `ClosesOwnChannel`, `OpenChannelHasWaiter`. The invariant says which channel
  is open (only the current one), who waits for it (servers that are listed),
  and what a job has done to its server. `ShutdownImplementsGroup` uses the same
  invariant: a channel is closed only when every job is done, and then whoever
  waits for it is listed and hence down.
* `GotalkSocketsProofs`: `SocketsTypeOK`, `RegisteredSocketIsServed`,
  `RangedSocketIsRegistered`, `CallbackLeavesNoneOpen`, `HandlersComeBack`,
  `UserHandlerIsCalled`. The invariant adds to the properties where the
  goroutine of a socket is when its close handler is the server's, and that at
  most one call serves unless calls were mixed (`OneCall`). `HandlersComeBack`
  also says when the user's handler does not come back: after a `Serve`.
* `PasswordsProofs`: about the codec, for every configuration, salt and hash,
  `DecodeUndoesEncode`: the text `Encode` makes decodes to the same three, and no
  part cut from it short decodes. From it, for every configuration and any number
  of goroutines, accounts and passwords, `PasswordsTypes`, `StoredAlwaysDecodes`
  (`StoredDecodes`) and `CutDataIsAlwaysRefused` (`CutDataIsRefused`); their
  invariant `DataInv` is that data was made from the current password and some
  salt. Where `Config = DefaultConfig`, `DefaultVerifies` (`StoredVerifies`, which
  `check_config` refutes for another configuration), `AcceptsCurrent`
  (`AcceptsCurrentOnly`) and `ChangeGaveAPassword` (`ChangeNeedsPassword`); the
  invariant adds that whoever has got the data has `current` in its `since`
  (`SeenIsSince`).

  The codec's argument: what `PutUvarint` writes has one byte below 128, its last
  (`UvarintBytes`), so `Uvarint` finds where it ends whatever follows, and adds up
  its seven bits at a time to the number written (`ReadsNumber`). Hence the five
  numbers of the header are found one after the other (`HeaderNumber`,
  `HeaderWhole`). If the cut is in the header the last number is missing, which
  `DecodeRaw` notices (`HeaderCut`); if it is behind it, salt and hash are longer
  than what is left (`CutRawFails`). Base-64 gives the bytes back three at a time
  (`Sextets`, `OctetIs`), and the first m characters of a text the bytes that are
  complete in them, which are fewer if m is less than the length (`CutBase64`,
  `CutLength`).
* `DispatchProofs`, for any patterns, base paths, paths and cookies:
  `DispatchTypes`, `HandlersSeeCleanPaths` (`HandlerSeesCleanPath`),
  `CleanPathsAreFinal` (`RedirectedOnce`), `FirstPatternServes` (`ServedByFirst`),
  `VarsMakeThePath` (`VarsMakePath`), `BasePathIsNormal` (`BasePathSettles`),
  `LastCookiesAreSet` (`CookiesByName`) and `RedirectsKeepTheirMethod`
  (`MethodAsPromised`). The invariant `DispatchInv` says of the table that each
  route is what `Parse` makes of a pattern it accepts (`RoutesInv`), of a request
  that it was matched with the path under the base, and of a redirect to a
  canonical path that its location is canonical already (`TxInv`).

  Cookies: one more call of `HeaderSetCookie` leaves the header what the cookies set
  make it, since a name has one line only (`HeaderSetCookieKeepsLast`).

  Canonical paths: the elements that `path.Clean` keeps have no slash and are
  none of empty, `.` and `..` (`ElementsType`), joined they make a clean path
  (`JoinedIsClean`, `CleanPathIsClean`), and the elements of a clean path are all
  kept (`KeptUpto`, `ElementsOfClean`), so that `CleanPath` leaves its own results
  as they are (`CleanPathOfClean`). Routes: text up to the first variable is a
  prefix of whatever is substituted (`SubstituteKeepsPrefix`), so that the check of
  the entry prefix excludes no path a pattern describes; a pattern has as many
  names as variables exactly if none is unnamed (`VarIndexPositions`); together,
  a route matches what its pattern describes (`MatchesDescribed`). Where a regexp
  has submatches at all, the greedy one exists (`LongestExists`), and the index of
  each name picks its value (`MatchFits`).

  Assumptions: base paths, paths and patterns are finite sequences, `GET` is a
  method that can be a condition and `*` is not (`cond.go:9-20`), every variable
  has a set of characters (`VarAssumption`).
* `SequenceLemmas`: induction over the naturals and over sequences in terms of
  sets (`SetInduction`, `SeqInduction`) from the well-foundedness of the naturals,
  since the library's induction theorems have operators as parameters, which the
  provers do not instantiate; the least and greatest of a set of positions; what
  `FlattenSeq` returns. That a function defined by recursion satisfies its
  definition is proved where it is used, by a solution for every finite part
  (`WrittenExists`, `ReadsExist`, `ScannedExists`, `FlattenedExists`).

Every invariant, action property and refinement of the passing runs is proved.
Only model-checked are the liveness properties `SignalCloses` and `ClosedLeaves`,
since fairness and `ENABLED` are out of the prover's reach. No module has a
recursive operator; recursion is written as functions.

## 5. Not modelled

Listed with reasons under `components` in `PROJECT.json`. In short: templates,
template helpers, version and file helpers and logging are formatting or I/O and
keep no state the rest reads; `stripHostPort` rewrites a field nothing in this
code reads; listeners are I/O except for what serving calls do before and after
them; request bodies, headers other than `Set-Cookie` and response bodies are
abstracted away. Within the modelled parts: `Store.GetHTTP` (a second copy of a
session in the request context, which nothing in this code asks for),
`SetStorage` and `Add` while requests are served, data races between goroutines
that share one `Transaction`, two `Server`s that share one storage, and regular
expressions of variables other than "one or more of a set".

Observations made while modelling, without a run of their own.

Sessions and transactions:
* Without a storage, saving a session panics, also while the deferred function
  of `ServeHTTP` responds to a first panic (`server.go:117`): no response is sent.
* A handler that returns without responding, or changes the session after it
  responded, loses the changes, although `session.go:86` says that a session in a
  `Transaction` is saved automatically.
* When `uuid.Gen` fails `Save` stores the session under the empty identifier and
  returns nil (`session.go:169-174`). `Transaction` models it, and
  `SessionIsolation` holds all the same.
* `RefreshSessionData` does not look at the time: an entry that has expired lives
  on if it is refreshed before a get finds it (`storage.go:85`).
* A get that has found an expired entry deletes whatever is there when it comes to
  it, also what was stored since (`storage.go:66`).
* Clearing a session that failed to load leaves it stored
  (`transaction.go:462`); a TTL below one second gives `Max-Age=0`, which deletes
  the cookie (`session.go:118`); `transaction.go:457` says `Session` may return nil,
  but `LoadHTTP` always returns a session; `http.ErrAbortHandler` is recovered like
  any panic.

Serving and shutting down:
* A server that did not opt in to graceful shutdown goes on serving after a
  signal, whose default effect `signal.Notify` took away (`server.go:404`), although
  `server.go:387` says that it closes as usual.
* `Serve` never puts the user's connect handler back (`server.go:329-333`): a later
  serving call, or one that overlaps, saves the server's own handler as the
  user's ("save any user handler", `server.go:259`), which then calls itself
  without end (`recursing` in `GotalkSockets`). `HandlersMatch` states the former;
  overlapping calls are excluded there by `~mixed`.
* `returnFromServe` may set `gotalkOnConnectUser` to nil between its check and its
  call (`panicked`).
* The callbacks of `http.Server.Shutdown` are not awaited. A close handler the
  application gives a socket after the connect handler has returned replaces the
  server's, and the socket stays in the set.

Routes, paths, cookies and passwords:
* The base path `a/` is `/a/` after one `Add` and `/a` after two, whereas
  `route/router.go:48-51` takes the latter for granted; with one route in the
  table nothing is found.
* A request outside of the base path is an error and answers 500, and files are
  not served for it; `/foobar` is not outside of the base path `/foo`.
* A pattern with `{_}` or a group of its own never matches (`route/router.go:82`).
* `transaction.go:155` says that `RoutePath` is the path of the URL, which it is
  without a base path only.
* `HeaderSetCookie` replaces the first of several lines the application added
  itself, and takes a cookie without `;` for invalid.
* `DecodeRaw` panics on data that was cut short in salt or hash, and reports an
  error only when the last length is missing (`auth.go:127`).
* `util.go` and `util1.go` declare the same functions.

## 6. Plan

Done, in this order: `TransactionPool`; `Session` and `Transaction` with the proof
of isolation; `SessionStorage` and `MemoryStorage` with the refinement;
`GracefulShutdown`; `GotalkSockets`; `PasswordCodec` and `Passwords`; `HttpPath`,
`Routing`, `Cookies` and `Dispatch`; `ShutdownGroup` and its refinement; the proofs
of `PanicBecomesError`, `ReadYourWrites` and `ClearSessionRemovesData`; the proofs
about the codec and stored passwords, canonical paths, and the search for routes.

Left, in order of importance:
1. An abstract session memory for each client, implemented by `Transaction`
   under `Calm`; the invariant `Remembered` is the refinement mapping's core.
2. `Store.GetHTTP` in `Transaction`, should an application use it.
