------------------------------ MODULE Dispatch ------------------------------
(***************************************************************************)
(* A Server whose routes are set up and which then answers a client's      *)
(* requests: redirects to the canonical path, the route that serves a      *)
(* path, what its handler sees, the cookies and redirects it responds with. *)
(***************************************************************************)
EXTENDS Routing, Cookies

CONSTANTS
  BasePaths,    \* values an application may assign to Routes.BasePath
  Patterns,     \* patterns it may add: [conds, text]
  Paths,        \* paths of request URLs
  Target,       \* the location handlers redirect to
  GotalkPath,
  Lines,        \* cookies handlers set
  MaxRoutes,    \* bound on the routes added
  MaxCalls      \* bound on the routes and the cookies of a handler together

(* What base paths and the paths of requests are made of. *)
Chars     == {"/"} \cup UNION {Range(b) : b \in BasePaths}
PathChars == {"/"} \cup UNION {Range(p) : p \in Paths \cup {Target}}

ASSUME BasePathAssumption == BasePaths \subseteq Seq(Chars)
ASSUME PathAssumption == Paths \cup {Target} \subseteq Seq(PathChars)
ASSUME PatternAssumption ==
  \A p \in Patterns : p.conds \in Seq(Range(p.conds)) /\ p.text \in Seq(Range(p.text))

VARIABLES
  base,    \* Routes.BasePath
  routes,  \* Routes.Routes
  adds,    \* how often Add was called, as far as 2
  tx,      \* the request and what came of it
  header,  \* the Set-Cookie lines of the response
  cookies  \* history: what the handler has given to HeaderSetCookie

vars == <<base, routes, adds, tx, header, cookies>>

Verb      == Method \cup {"*"}   \* "*" stands for a method that is no condition

ASSUME MethodAssumption == "GET" \in Method /\ "*" \notin Method

Answers   == {"none", "not allowed", "clean", "gotalk", "files", "404", "500", "handled",
              "redirect", "redirect GET", "redirect same"}
Redirects == {"redirect", "redirect GET", "redirect same"}

(* recent: HTTP/1.1 or later. hops: the canonical redirects it followed. *)
Requests == [method : Verb, path : Seq(PathChars), recent : BOOLEAN, hops : Nat]

(* Answered with nothing, which is the state between two requests. *)
Waiting == [phase |-> "waiting"]

InHandler  == tx.phase = "handler"
IsAnswered == tx.phase = "answered"

TypeOK ==
  /\ base \in Seq(Chars)
  /\ \A i \in 1 .. Len(routes) :
       routes[i].Conditions \subseteq Method /\ routes[i].Handler \in Patterns
  /\ adds \in 0 .. 2
  /\ tx.phase \in {"waiting", "handler", "answered"}
  /\ tx.phase # "waiting" => tx.request \in Requests
  /\ InHandler => \A k \in 1 .. Len(tx.match.values) : tx.match.values[k] # <<>>
  /\ IsAnswered => tx.answer \in Answers /\ tx.code \in {0, 200, 301, 302, 303, 307, 308, 400, 404, 500}
  /\ Range(header) \subseteq Lines
  /\ cookies \in Seq(Lines)

Init ==
  /\ base \in BasePaths
  /\ routes = <<>>
  /\ adds = 0
  /\ tx = Waiting
  /\ header = <<>>
  /\ cookies = <<>>

-----------------------------------------------------------------------------
(* Router.Add; the Handle methods of Router and Server are calls of it. *)
Add(p) ==
  /\ tx.phase = "waiting"
  /\ Len(routes) < MaxRoutes
  /\ base' = NormalBasePath(base)
  /\ routes' = AddRoute(routes, p)
  /\ adds' = Min({2, adds + 1})
  /\ UNCHANGED <<tx, header, cookies>>

Answer(request, answer, code, location) ==
  tx' = [phase |-> "answered", request |-> request, answer |-> answer, code |-> code,
         location |-> location]

(* ServeHTTP comes to no end of its own: what it answers, or the handler it *)
(* starts. Files, if they are served, are served past the routes.           *)
MaybeServeHTTP(request) ==
  LET flags == ParseCondFlags(<<request.method>>).flags
      m     == FirstMatch(routes, flags, RelativeTo(base, request.path))
  IN  \/ OutsideOf(base, request.path) /\ Answer(request, "500", 500, <<>>)
      \/ /\ ~OutsideOf(base, request.path)
         /\ m = NoMatch
         /\ Answer(request, "404", 404, <<>>) \/ Answer(request, "files", 0, <<>>)
      \/ /\ ~OutsideOf(base, request.path)
         /\ m # NoMatch
         /\ tx' = [phase |-> "handler", request |-> request, match |-> m]

Cleans(request) == request.method # "CONNECT"

ServeHTTP(request) ==
  LET clean == IF Cleans(request) THEN CleanPath(request.path) ELSE request.path IN
  /\ \/ request.path = <<"*">> /\ Answer(request, "not allowed", 400, <<>>)
     \/ /\ request.path # <<"*">>
        /\ clean # request.path
        /\ Answer(request, "clean", 301, clean)
     \/ /\ request.path # <<"*">>
        /\ clean = request.path
        /\ IF IsPrefix(GotalkPath, clean) THEN Answer(request, "gotalk", 0, <<>>)
           ELSE MaybeServeHTTP(request)
  /\ UNCHANGED <<base, routes, adds, header, cookies>>

Request(method, path, recent) ==
  /\ tx.phase = "waiting"
  /\ ServeHTTP([method |-> method, path |-> path, recent |-> recent, hops |-> 0])

-----------------------------------------------------------------------------
SetCookie(line) ==
  /\ InHandler
  /\ Len(routes) + Len(cookies) < MaxCalls
  /\ header' = HeaderSetCookie(header, line)
  /\ cookies' = Append(cookies, line)
  /\ UNCHANGED <<base, routes, adds, tx>>

Return ==
  /\ InHandler
  /\ Answer(tx.request, "handled", 200, <<>>)
  /\ header' = <<>> /\ cookies' = <<>>
  /\ UNCHANGED <<base, routes, adds>>

(* The status codes that stand for temporary and permanent redirects which *)
(* leave the method to the client, ask for GET, or for the same method.    *)
(* The mutant has the codes that keep the method for older clients.        *)
CodesSwapped(kind, recent) ==
  CASE kind = "redirect GET"             -> {IF recent THEN 303 ELSE 302}
    [] kind = "redirect same" /\ ~recent -> {307, 308}
    [] OTHER                             -> {301, 302}

RedirectCodes(kind, recent) ==
  CASE kind = "redirect GET"            -> {IF recent THEN 303 ELSE 302}
    [] kind = "redirect same" /\ recent -> {307, 308}
    [] OTHER                            -> {301, 302}

Redirect(kind) ==
  /\ InHandler
  /\ \E code \in RedirectCodes(kind, tx.request.recent) : Answer(tx.request, kind, code, Target)
  /\ header' = <<>> /\ cookies' = <<>>
  /\ UNCHANGED <<base, routes, adds>>

(* What a client makes of a code: after 301 and 302 it may change to GET. *)
NextMethods(method, code) ==
  CASE code \in {307, 308} -> {method}
    [] code = 303          -> {"GET"}
    [] OTHER               -> {method, "GET"}

Follow ==
  /\ IsAnswered
  /\ tx.answer \in Redirects \cup {"clean"}
  /\ \E method \in NextMethods(tx.request.method, tx.code) :
       ServeHTTP([method |-> method, path |-> tx.location, recent |-> tx.request.recent,
                  hops |-> IF tx.answer = "clean" THEN tx.request.hops + 1 ELSE 0])

Done ==
  /\ IsAnswered
  /\ tx' = Waiting
  /\ UNCHANGED <<base, routes, adds, header, cookies>>

Next ==
  \/ \E p \in Patterns : Add(p)
  \/ \E method \in Verb, path \in Paths, recent \in BOOLEAN : Request(method, path, recent)
  \/ \E line \in Lines : SetCookie(line)
  \/ \E kind \in Redirects : Redirect(kind)
  \/ Return \/ Follow \/ Done

Spec == Init /\ [][Next]_vars

-----------------------------------------------------------------------------
(* No ".", ".." or empty element is between two slashes of a path, but for  *)
(* the empty one after a slash at its end.                                  *)
Dots == {<<>>, <<".">>, <<".", ".">>}

IsClean(path) ==
  LET p == path \o Root
  IN  /\ p[1] = "/"
      /\ \A i, j \in 1 .. Len(p) :
           i < j /\ p[i] = "/" /\ p[j] = "/" /\ SubSeq(p, i + 1, j - 1) \in Dots =>
             j = Len(p) /\ i = j - 1

(* A handler sees a clean path, unless the method is CONNECT (server.go:181 *)
(* "sanitizing the URL request path").                                      *)
HandlerSeesCleanPath ==
  InHandler /\ tx.request.method # "CONNECT" => IsClean(tx.request.path)

(* A client that follows the redirect to a "cleaner URL" (server.go:183) is *)
(* not redirected there again, and a slash at the end of its path is kept.  *)
RedirectedOnce ==
  IsAnswered /\ tx.answer = "clean" =>
    /\ tx.request.hops = 0
    /\ tx.request.path # <<>> /\ Last(tx.request.path) = "/" => Last(tx.location) = "/"

(* What pattern p stands for: the conditions have the method, and values    *)
(* for the variables make the path of the text, all of it unless it ends    *)
(* with a slash. A text with an unnamed variable never matches.             *)
Described(p) == IF Last(p.text) = "!" THEN Front(p.text) ELSE p.text

Describes(p, method, path) ==
  /\ p.conds \in {<<>>, <<"*">>} \/ method \in Range(p.conds)
  /\ Submatches(Described(p), Last(p.text) = "/", path) # {}
  /\ \A i \in VarsAt(Described(p)) : VarName[Described(p)[i]] # "_"

Path == RelativeTo(base, tx.request.path)

(* The handler that serves a request is the one of the first pattern, in    *)
(* the order of the calls of Add, that describes it, whichever calls failed *)
(* in between; no such pattern means no handler (Add, Parse, Match).        *)
ServedByFirst ==
  /\ InHandler =>
       \E i \in 1 .. Len(routes) :
         /\ tx.match.Route = routes[i]
         /\ Describes(routes[i].Handler, tx.request.method, Path)
         /\ \A j \in 1 .. i - 1 : ~Describes(routes[j].Handler, tx.request.method, Path)
  /\ IsAnswered /\ tx.answer \in {"404", "files"} =>
       \A i \in 1 .. Len(routes) : ~Describes(routes[i].Handler, tx.request.method, Path)

(* The variables a handler reads, put in the pattern it was added for, make *)
(* the path it serves: whatever the regexp could also have matched          *)
(* (Parse, Match.Var, RouteVar, RoutePath).                                 *)
VarsMakePath ==
  InHandler =>
    LET p    == tx.match.Route.Handler
        occur == VarsOf(Described(p))
    IN  /\ base \o tx.match.Path = tx.request.path
        /\ Fits(Substitute(Described(p),
                           [k \in 1 .. Len(occur) |-> MatchVar(tx.match, VarName[occur[k]])]),
                Last(p.text) = "/", tx.match.Path)

(* BasePath "always begins with / - never ends with / - is never just /"    *)
(* (route/router.go:48) if it is not empty: from the second Add on. After one     *)
(* Add "a/" has become "/a/", under which no route of the table is found.   *)
BasePathSettles ==
  adds = 2 /\ base # <<>> => base[1] = "/" /\ Last(base) # "/"

(* HeaderSetCookie "replaces cookies with the same cookie name but adds      *)
(* cookies with different names" (util.go:11-12): of the cookies a handler   *)
(* sets the header has the last of each name and no other, where the first   *)
(* of that name was added.                                                   *)
CookiesByName == KeepsLast(header, cookies)

(* "The new location will be requested using the GET method", "using the    *)
(* same method as the current request" (transaction.go:382,392): with a     *)
(* client of HTTP/1.1, whose requests follow.                               *)
MethodAsPromised ==
  [][Follow /\ tx.request.recent /\ tx'.phase # "waiting" =>
       /\ tx.answer = "redirect GET" => tx'.request.method = "GET"
       /\ tx.answer = "redirect same" => tx'.request.method = tx.request.method]_vars
=============================================================================
