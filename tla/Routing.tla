------------------------------ MODULE Routing ------------------------------
(***************************************************************************)
(* package route: the patterns of routes, the table they are added to, and *)
(* the linear search for the first one that matches a request. The text of *)
(* a pattern is a sequence of characters and of variables, such as "{x}".  *)
(***************************************************************************)
EXTENDS HttpPath

CONSTANTS
  VarName,      \* VarName[v]: the name of variable v, "_" for one without
  VarChars,     \* VarChars[v]: what the value of v is made of
  Method        \* the methods that can be conditions

Variable == DOMAIN VarName

ASSUME VarAssumption == DOMAIN VarChars = Variable

-----------------------------------------------------------------------------
(* The flags of a list of methods, and none for "*" alone; another name is *)
(* an error. Of a single name, as Router.Match passes, no flag is left then. *)
ParseCondFlags(tokens) ==
  [flags |-> Range(tokens) \cap Method,
   err   |-> ~ (Range(tokens) \subseteq Method \/ tokens = <<"*">>)]

VarsAt(text) == {i \in 1 .. Len(text) : text[i] \in Variable}

(* Variable text[i] is the nth of the text, and the variables in that order. *)
Nth(text, i) == Cardinality({j \in VarsAt(text) : j <= i})

VarsOf(text) ==
  [k \in 1 .. Cardinality(VarsAt(text)) |-> text[CHOOSE i \in VarsAt(text) : Nth(text, i) = k]]

(* A "/" at the end makes a prefix; a "!" at the end is not part of it. *)
Literal(text) == IF Last(text) = "!" THEN Front(text) ELSE text

EntryPrefix(text) ==
  IF VarsAt(text) = {} THEN text ELSE SubSeq(text, 1, Min(VarsAt(text)) - 1)

(* The position of each named variable among all variables. *)
VarIndex(vars) ==
  [n \in {VarName[v] : v \in Range(vars)} \ {"_"} |->
     CHOOSE k \in 1 .. Len(vars) : VarName[vars[k]] = n]

DuplicateVar(vars) ==
  \E j, k \in 1 .. Len(vars) : j # k /\ VarName[vars[j]] = VarName[vars[k]] /\ VarName[vars[j]] # "_"

ParseFails(p) ==
  \/ "/" \notin Range(p.text)
  \/ ParseCondFlags(p.conds).err
  \/ DuplicateVar(VarsOf(Literal(p.text)))

Route(conditions, text, handler) ==
  [Conditions |-> conditions, Pattern |-> Literal(text), Vars |-> VarIndex(VarsOf(Literal(text))),
   EntryPrefix |-> EntryPrefix(Literal(text)), IsPrefix |-> Last(text) = "/", Handler |-> handler]

NoHandler == [conds |-> <<>>, text |-> <<>>]

(* The mutant leaves the slot of a pattern that failed in the table. *)
AddKeepingSlot(routes, p) ==
  Append(routes, Route(ParseCondFlags(p.conds).flags, p.text, IF ParseFails(p) THEN NoHandler ELSE p))

(* A handler is told by the pattern it was added for. *)
AddRoute(routes, p) ==
  IF ParseFails(p) THEN routes
  ELSE Append(routes, Route(ParseCondFlags(p.conds).flags, p.text, p))

TrimSlashes(b) ==
  LET kept == {i \in 1 .. Len(b) : b[i] # "/"}
  IN  IF kept = {} THEN <<>> ELSE SubSeq(b, 1, Max(kept))

(* The mutant only trims slashes. *)
TrimmedBasePath(b) == TrimSlashes(b)

(* Each Add applies one of the rules. *)
NormalBasePath(b) ==
  IF b # <<>> /\ b[1] # "/" THEN Root \o b ELSE TrimSlashes(b)

-----------------------------------------------------------------------------
SubstringsOf(s, chars) ==
  {t \in {SubSeq(s, i, j) : i, j \in 1 .. Len(s)} \ {<<>>} : Range(t) \subseteq chars}

(* text with the values put in the place of its variables. *)
Substitute(text, values) ==
  FlattenSeq([i \in 1 .. Len(text) |->
    IF text[i] \in Variable THEN values[Nth(text, i)] ELSE <<text[i]>>])

Fits(text, isPrefix, path) == IF isPrefix THEN IsPrefix(text, path) ELSE text = path

(* The values with which text becomes path, or a prefix of it. *)
Submatches(text, isPrefix, path) ==
  LET vars == VarsOf(text)
      all  == UNION {SubstringsOf(path, VarChars[v]) : v \in Range(vars)}
  IN  {s \in [1 .. Len(vars) -> all] :
         /\ \A k \in 1 .. Len(vars) : Range(s[k]) \subseteq VarChars[vars[k]]
         /\ Fits(Substitute(text, s), isPrefix, path)}

(* regexp: of all submatches the one whose first value is longest, then the *)
(* second, and so on.                                                       *)
FindStringSubmatch(text, isPrefix, path) ==
  LET all == Submatches(text, isPrefix, path)
  IN  CHOOSE s \in all : \A t \in all, k \in DOMAIN s :
        (\A j \in 1 .. k - 1 : Len(s[j]) = Len(t[j])) => Len(s[k]) >= Len(t[k])

(* A route with an unnamed variable has more submatches than Vars and so    *)
(* never matches.                                                           *)
MatchesRoute(r, flags, path) ==
  /\ r.Conditions = {} \/ r.Conditions \cap flags # {}
  /\ IsPrefix(r.EntryPrefix, path)
  /\ IF VarsAt(r.Pattern) = {} THEN r.IsPrefix \/ path = r.EntryPrefix
     ELSE /\ Submatches(r.Pattern, r.IsPrefix, path) # {}
          /\ Len(VarsOf(r.Pattern)) = Cardinality(DOMAIN r.Vars)

Match(r, path) ==
  [Route |-> r, Path |-> path,
   values |-> IF VarsAt(r.Pattern) = {} THEN <<>>
              ELSE FindStringSubmatch(r.Pattern, r.IsPrefix, path)]

NoMatch == [Path |-> <<>>]

(* Match.Var, and Vars as the function of it. The mutant reads the first    *)
(* value for every name.                                                    *)
VarBefore(m, name) == IF name \in DOMAIN m.Route.Vars THEN m.values[1] ELSE <<>>

MatchVar(m, name) == IF name \in DOMAIN m.Route.Vars THEN m.values[m.Route.Vars[name]] ELSE <<>>

(* The routes of the table a request reaches, by index. *)
Matching(routes, flags, path) == {i \in 1 .. Len(routes) : MatchesRoute(routes[i], flags, path)}

(* The mutant takes the last one. *)
LastMatch(routes, flags, path) ==
  LET found == Matching(routes, flags, path)
  IN  IF found = {} THEN NoMatch ELSE Match(routes[Max(found)], path)

FirstMatch(routes, flags, path) ==
  LET found == Matching(routes, flags, path)
  IN  IF found = {} THEN NoMatch ELSE Match(routes[Min(found)], path)

(* Router.Match fails outside of the base path. *)
OutsideOf(base, path) == ~IsPrefix(base, path)
RelativeTo(base, path) == SubSeq(path, Len(base) + 1, Len(path))
=============================================================================
