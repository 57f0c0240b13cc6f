---------------------------- MODULE DispatchProofs ----------------------------
(***************************************************************************)
(* What holds of Dispatch for every table of routes, every set of paths and *)
(* every set of cookies. DispatchInv is the inductive invariant: every      *)
(* route is the one of a pattern of its own, and what a request has become  *)
(* is what ServeHTTP made of it. That a clean path is clean, and stays as   *)
(* it is when it is cleaned again, and that a match gives back the path it  *)
(* was found for, are lemmas about the operators of HttpPath and Routing;   *)
(* they hold for paths and texts of any length, by induction in terms of    *)
(* sets (SequenceLemmas).                                                   *)
(***************************************************************************)
EXTENDS Dispatch, SequenceLemmas, FiniteSetTheorems

-----------------------------------------------------------------------------
(* HeaderSetCookie returns lines.                                          *)
LEMMA HeaderSetCookieType ==
  ASSUME NEW S, NEW lines \in Seq(S), NEW cookie \in S
  PROVE  HeaderSetCookie(lines, cookie) \in Seq(S)
<1> DEFINE name  == parseCookieName(cookie)
           found == Existing(lines, name)
<1>1. CASE name = <<>>
  BY <1>1 DEF HeaderSetCookie
<1>2. CASE name # <<>> /\ found = {}
  BY <1>2 DEF HeaderSetCookie
<1>3. CASE name # <<>> /\ found # {}
  <2>1. HeaderSetCookie(lines, cookie)
          = [i \in 1 .. Len(lines) |-> IF i \in found THEN cookie ELSE lines[i]]
    BY <1>3 DEF HeaderSetCookie
  <2>2. \A i \in 1 .. Len(lines) : (IF i \in found THEN cookie ELSE lines[i]) \in S
    OBVIOUS
  <2> QED BY <2>1, <2>2
<1> QED BY <1>1, <1>2, <1>3

(* One more call of HeaderSetCookie (util.HeaderSetCookie) keeps the header   *)
(* what the cookies set make it: a line that is added comes last, and one     *)
(* that is replaced was the only one of its name.                             *)
LEMMA HeaderSetCookieKeepsLast ==
  ASSUME NEW S, NEW lines \in Seq(S), NEW cs \in Seq(S), NEW cookie \in S,
         KeepsLast(lines, cs)
  PROVE  KeepsLast(HeaderSetCookie(lines, cookie), Append(cs, cookie))
<1> DEFINE Name(c) == parseCookieName(c)
           name    == Name(cookie)
           found   == Existing(lines, name)
           n       == Len(cs)
<1> HIDE DEF Name
<1>1. PICK next : next = HeaderSetCookie(lines, cookie)
  OBVIOUS
<1>2. PICK ds : ds = Append(cs, cookie)
  OBVIOUS
<1>3. /\ n \in Nat /\ Len(ds) = n + 1 /\ ds[n + 1] = cookie
      /\ \A p \in 1 .. n : ds[p] = cs[p] /\ p \in 1 .. n + 1
  BY <1>2
<1>4. \A p \in 1 .. n : Name(cs[p]) # <<>> =>
        \E i \in 1 .. Len(lines) : Name(lines[i]) = Name(cs[p])
  BY DEF KeepsLast, Name
<1>5. \A i \in 1 .. Len(lines) : \E p \in 1 .. n :
        /\ lines[i] = cs[p]
        /\ Name(cs[p]) # <<>>
        /\ \A q \in p + 1 .. n : Name(cs[q]) # Name(cs[p])
  BY DEF KeepsLast, Name
<1>6. \A j \in 1 .. Len(lines) : \A i \in 1 .. j - 1 : \E p \in 1 .. n :
        Name(cs[p]) = Name(lines[i]) /\ \A q \in 1 .. p : Name(cs[q]) # Name(lines[j])
  BY DEF KeepsLast, Name
<1> DEFINE EachName == \A p \in 1 .. n + 1 : Name(ds[p]) # <<>> =>
             \E i \in 1 .. Len(next) : Name(next[i]) = Name(ds[p])
           EachLast == \A i \in 1 .. Len(next) : \E p \in 1 .. n + 1 :
             /\ next[i] = ds[p]
             /\ Name(ds[p]) # <<>>
             /\ \A q \in p + 1 .. n + 1 : Name(ds[q]) # Name(ds[p])
           InOrder == \A j \in 1 .. Len(next) : \A i \in 1 .. j - 1 : \E p \in 1 .. n + 1 :
             Name(ds[p]) = Name(next[i]) /\ \A q \in 1 .. p : Name(ds[q]) # Name(next[j])
<1>7. SUFFICES EachName /\ EachLast /\ InOrder
  <2>1. Len(ds) = n + 1
    BY <1>3
  <2>2. PICK k : k = n + 1
    OBVIOUS
  <2>3. Len(ds) = k
    BY <2>1, <2>2
  <2>4. EachName => \A p \in 1 .. Len(ds) : Name(ds[p]) # <<>> =>
          \E i \in 1 .. Len(next) : Name(next[i]) = Name(ds[p])
    <3> SUFFICES ASSUME EachName, NEW p \in 1 .. Len(ds), Name(ds[p]) # <<>>
                 PROVE  \E i \in 1 .. Len(next) : Name(next[i]) = Name(ds[p])
      OBVIOUS
    <3>1. p \in 1 .. n + 1
      BY <2>2, <2>3
    <3> QED BY <3>1
  <2>5. EachLast => \A i \in 1 .. Len(next) : \E p \in 1 .. Len(ds) :
          /\ next[i] = ds[p]
          /\ Name(ds[p]) # <<>>
          /\ \A q \in p + 1 .. Len(ds) : Name(ds[q]) # Name(ds[p])
    <3> SUFFICES ASSUME EachLast, NEW i \in 1 .. Len(next)
                 PROVE  \E p \in 1 .. Len(ds) :
                          /\ next[i] = ds[p]
                          /\ Name(ds[p]) # <<>>
                          /\ \A q \in p + 1 .. Len(ds) : Name(ds[q]) # Name(ds[p])
      OBVIOUS
    <3>1. PICK p \in 1 .. n + 1 : /\ next[i] = ds[p]
                                 /\ Name(ds[p]) # <<>>
                                 /\ \A q \in p + 1 .. n + 1 : Name(ds[q]) # Name(ds[p])
      OBVIOUS
    <3>2. p \in 1 .. Len(ds) /\ \A q \in p + 1 .. Len(ds) : q \in p + 1 .. n + 1
      BY <2>2, <2>3
    <3> QED BY <3>1, <3>2
  <2>6. InOrder => \A j \in 1 .. Len(next) : \A i \in 1 .. j - 1 : \E p \in 1 .. Len(ds) :
          Name(ds[p]) = Name(next[i]) /\ \A q \in 1 .. p : Name(ds[q]) # Name(next[j])
    <3> SUFFICES ASSUME InOrder, NEW j \in 1 .. Len(next), NEW i \in 1 .. j - 1
                 PROVE  \E p \in 1 .. Len(ds) :
                          Name(ds[p]) = Name(next[i]) /\ \A q \in 1 .. p : Name(ds[q]) # Name(next[j])
      OBVIOUS
    <3>1. PICK p \in 1 .. n + 1 :
            Name(ds[p]) = Name(next[i]) /\ \A q \in 1 .. p : Name(ds[q]) # Name(next[j])
      OBVIOUS
    <3>2. p \in 1 .. Len(ds)
      BY <2>2, <2>3
    <3> QED BY <3>1, <3>2
  <2> HIDE DEF EachName, EachLast, InOrder
  <2>7. EachName /\ EachLast /\ InOrder => KeepsLast(next, ds)
    BY <2>4, <2>5, <2>6, Zenon DEF KeepsLast, Name
  <2> QED BY <1>1, <1>2, <2>7
<1>8. \A p \in 1 .. n :
        Name(cs[p]) # name /\ (\A q \in p + 1 .. n : Name(cs[q]) # Name(cs[p])) =>
          \A q \in p + 1 .. n + 1 : Name(ds[q]) # Name(ds[p])
  <2> SUFFICES ASSUME NEW p \in 1 .. n, Name(cs[p]) # name,
                      \A q \in p + 1 .. n : Name(cs[q]) # Name(cs[p]),
                      NEW q \in p + 1 .. n + 1
               PROVE  Name(ds[q]) # Name(ds[p])
    OBVIOUS
  <2>1. CASE q = n + 1
    BY <1>3, <2>1
  <2>2. CASE q # n + 1
    <3>1. q \in p + 1 .. n /\ q \in 1 .. n
      BY <1>3, <2>2
    <3> QED BY <1>3, <3>1
  <2> QED BY <2>1, <2>2
<1>9. \A p \in 1 .. n : \A q \in 1 .. p : ds[q] = cs[q]
  BY <1>3
<1>10. CASE name = <<>>
  <2>1. next = lines
    BY <1>1, <1>10 DEF HeaderSetCookie, Name
  <2>2. \A p \in 1 .. n + 1 : Name(ds[p]) # <<>> =>
          \E i \in 1 .. Len(next) : Name(next[i]) = Name(ds[p])
    <3> SUFFICES ASSUME NEW p \in 1 .. n + 1, Name(ds[p]) # <<>>
                 PROVE  \E i \in 1 .. Len(next) : Name(next[i]) = Name(ds[p])
      OBVIOUS
    <3>1. p \in 1 .. n
      BY <1>3, <1>10
    <3> QED BY <1>3, <1>4, <2>1, <3>1
  <2>3. ASSUME NEW i \in 1 .. Len(next)
        PROVE  \E p \in 1 .. n + 1 :
                 /\ next[i] = ds[p]
                 /\ Name(ds[p]) # <<>>
                 /\ \A q \in p + 1 .. n + 1 : Name(ds[q]) # Name(ds[p])
    <3>1. PICK p \in 1 .. n : /\ lines[i] = cs[p]
                             /\ Name(cs[p]) # <<>>
                             /\ \A q \in p + 1 .. n : Name(cs[q]) # Name(cs[p])
      BY <1>5, <2>1
    <3>2. \A q \in p + 1 .. n + 1 : Name(ds[q]) # Name(ds[p])
      BY <1>8, <1>10, <3>1
    <3> QED BY <1>3, <2>1, <3>1, <3>2
  <2>4. ASSUME NEW j \in 1 .. Len(next), NEW i \in 1 .. j - 1
        PROVE  \E p \in 1 .. n + 1 :
                 Name(ds[p]) = Name(next[i]) /\ \A q \in 1 .. p : Name(ds[q]) # Name(next[j])
    <3>1. PICK p \in 1 .. n :
            Name(cs[p]) = Name(lines[i]) /\ \A q \in 1 .. p : Name(cs[q]) # Name(lines[j])
      BY <1>6, <2>1
    <3> QED BY <1>3, <1>9, <2>1, <3>1
  <2> QED BY <2>2, <2>3, <2>4
<1>11. CASE name # <<>> /\ found = {}
  <2>1. next = Append(lines, cookie)
    BY <1>1, <1>11 DEF HeaderSetCookie, Name
  <2>2. PICK m \in Nat : m = Len(lines)
    OBVIOUS
  <2>3. /\ Len(next) = m + 1 /\ next[m + 1] = cookie
        /\ \A i \in 1 .. m : next[i] = lines[i]
    BY <2>1, <2>2
  <2>4. \A i \in 1 .. m : Name(lines[i]) # name
    <3> SUFFICES ASSUME NEW i \in 1 .. m, Name(lines[i]) = name PROVE FALSE
      OBVIOUS
    <3>1. \A j \in 1 .. i - 1 : Name(lines[j]) # Name(lines[i])
      <4> SUFFICES ASSUME NEW j \in 1 .. i - 1 PROVE Name(lines[j]) # Name(lines[i])
        OBVIOUS
      <4>1. PICK p \in 1 .. n :
              Name(cs[p]) = Name(lines[j]) /\ \A q \in 1 .. p : Name(cs[q]) # Name(lines[i])
        BY <1>6, <2>2
      <4>2. p \in 1 .. p
        OBVIOUS
      <4> QED BY <4>1, <4>2
    <3>2. i \in found
      BY <2>2, <3>1 DEF Existing, Name
    <3> QED BY <1>11, <3>2
  <2>5. \A p \in 1 .. n : Name(cs[p]) # name
    BY <1>4, <1>11, <2>2, <2>4
  <2>6. \A p \in 1 .. n + 1 : Name(ds[p]) # <<>> =>
          \E i \in 1 .. Len(next) : Name(next[i]) = Name(ds[p])
    <3> SUFFICES ASSUME NEW p \in 1 .. n + 1, Name(ds[p]) # <<>>
                 PROVE  \E i \in 1 .. Len(next) : Name(next[i]) = Name(ds[p])
      OBVIOUS
    <3>1. CASE p = n + 1
      <4>1. m + 1 \in 1 .. Len(next)
        BY <2>3
      <4> QED BY <1>3, <2>3, <3>1, <4>1
    <3>2. CASE p # n + 1
      <4>1. p \in 1 .. n
        BY <3>2, <1>3
      <4>2. PICK i \in 1 .. m : Name(lines[i]) = Name(cs[p])
        BY <1>3, <1>4, <2>2, <4>1
      <4>3. i \in 1 .. Len(next) /\ next[i] = lines[i]
        BY <2>3
      <4> QED BY <1>3, <4>1, <4>2, <4>3
    <3> QED BY <3>1, <3>2
  <2>7. ASSUME NEW i \in 1 .. Len(next)
        PROVE  \E p \in 1 .. n + 1 :
                 /\ next[i] = ds[p]
                 /\ Name(ds[p]) # <<>>
                 /\ \A q \in p + 1 .. n + 1 : Name(ds[q]) # Name(ds[p])
    <3>1. CASE i = m + 1
      <4>1. n + 1 \in 1 .. n + 1 /\ (n + 1) + 1 .. n + 1 = {}
        BY <1>3
      <4> QED BY <1>3, <1>11, <2>3, <3>1, <4>1
    <3>2. CASE i # m + 1
      <4>1. i \in 1 .. m
        BY <2>3, <3>2
      <4>2. PICK p \in 1 .. n : /\ lines[i] = cs[p]
                               /\ Name(cs[p]) # <<>>
                               /\ \A q \in p + 1 .. n : Name(cs[q]) # Name(cs[p])
        BY <1>5, <2>2, <4>1
      <4>3. \A q \in p + 1 .. n + 1 : Name(ds[q]) # Name(ds[p])
        BY <1>8, <2>5, <4>2
      <4> QED BY <1>3, <2>3, <4>1, <4>2, <4>3
    <3> QED BY <3>1, <3>2
  <2>8. ASSUME NEW j \in 1 .. Len(next), NEW i \in 1 .. j - 1
        PROVE  \E p \in 1 .. n + 1 :
                 Name(ds[p]) = Name(next[i]) /\ \A q \in 1 .. p : Name(ds[q]) # Name(next[j])
    <3>0. i \in 1 .. m /\ next[i] = lines[i]
      BY <2>3
    <3>1. CASE j = m + 1
      <4>1. PICK p \in 1 .. n : lines[i] = cs[p]
        BY <1>5, <2>2, <3>0
      <4>2. \A q \in 1 .. p : q \in 1 .. n
        OBVIOUS
      <4>3. \A q \in 1 .. p : Name(ds[q]) # name
        BY <1>3, <2>5, <4>2
      <4> QED BY <1>3, <2>3, <3>0, <3>1, <4>1, <4>3
    <3>2. CASE j # m + 1
      <4>1. j \in 1 .. m /\ next[j] = lines[j]
        BY <2>3, <3>2
      <4>2. PICK p \in 1 .. n :
              Name(cs[p]) = Name(lines[i]) /\ \A q \in 1 .. p : Name(cs[q]) # Name(lines[j])
        BY <1>6, <2>2, <4>1
      <4> QED BY <1>3, <1>9, <3>0, <4>1, <4>2
    <3> QED BY <3>1, <3>2
  <2> QED BY <2>6, <2>7, <2>8
<1>12. CASE name # <<>> /\ found # {}
  <2>1. next = [i \in 1 .. Len(lines) |-> IF i \in found THEN cookie ELSE lines[i]]
    BY <1>1, <1>12 DEF HeaderSetCookie, Name
  <2>2. PICK m \in Nat : m = Len(lines)
    OBVIOUS
  <2>3. PICK k \in 1 .. m : Name(lines[k]) = name /\ k \in found
    BY <1>12, <2>2 DEF Existing, Name
  <2>4. \A i, j \in 1 .. m : i < j => Name(lines[i]) # Name(lines[j])
    <3> SUFFICES ASSUME NEW j \in 1 .. m, NEW i \in 1 .. j - 1
                 PROVE  Name(lines[i]) # Name(lines[j])
      BY <2>2
    <3>1. PICK p \in 1 .. n :
            Name(cs[p]) = Name(lines[i]) /\ \A q \in 1 .. p : Name(cs[q]) # Name(lines[j])
      BY <1>6, <2>2
    <3>2. p \in 1 .. p
      OBVIOUS
    <3> QED BY <3>1, <3>2
  <2>5. \A i \in 1 .. m : i # k => Name(lines[i]) # name
    BY <2>3, <2>4
  <2>6. \A i \in 1 .. m : i \in found => Name(lines[i]) = name
    BY DEF Existing, Name
  <2>7. /\ Len(next) = m /\ next[k] = cookie
        /\ \A i \in 1 .. m : i # k => next[i] = lines[i]
        /\ \A i \in 1 .. m : Name(next[i]) = Name(lines[i])
    BY <2>1, <2>2, <2>3, <2>5, <2>6
  <2>8. \A p \in 1 .. n + 1 : Name(ds[p]) # <<>> =>
          \E i \in 1 .. Len(next) : Name(next[i]) = Name(ds[p])
    <3> SUFFICES ASSUME NEW p \in 1 .. n + 1, Name(ds[p]) # <<>>
                 PROVE  \E i \in 1 .. m : Name(next[i]) = Name(ds[p])
      BY <2>7
    <3>1. CASE p = n + 1
      BY <1>3, <2>7, <3>1
    <3>2. CASE p # n + 1
      <4>1. p \in 1 .. n
        BY <1>3, <3>2
      <4>2. PICK i \in 1 .. m : Name(lines[i]) = Name(cs[p])
        BY <1>3, <1>4, <2>2, <4>1
      <4> QED BY <1>3, <2>7, <4>1, <4>2
    <3> QED BY <3>1, <3>2
  <2>9. ASSUME NEW i \in 1 .. Len(next)
        PROVE  \E p \in 1 .. n + 1 :
                 /\ next[i] = ds[p]
                 /\ Name(ds[p]) # <<>>
                 /\ \A q \in p + 1 .. n + 1 : Name(ds[q]) # Name(ds[p])
    <3>1. CASE i = k
      <4>1. n + 1 \in 1 .. n + 1 /\ (n + 1) + 1 .. n + 1 = {}
        BY <1>3
      <4> QED BY <1>3, <1>12, <2>7, <3>1, <4>1
    <3>2. CASE i # k
      <4>1. i \in 1 .. m
        BY <2>7
      <4>2. PICK p \in 1 .. n : /\ lines[i] = cs[p]
                               /\ Name(cs[p]) # <<>>
                               /\ \A q \in p + 1 .. n : Name(cs[q]) # Name(cs[p])
        BY <1>5, <2>2, <4>1
      <4>3. Name(cs[p]) # name
        BY <2>5, <3>2, <4>1, <4>2
      <4>4. \A q \in p + 1 .. n + 1 : Name(ds[q]) # Name(ds[p])
        BY <1>8, <4>2, <4>3
      <4> QED BY <1>3, <2>7, <3>2, <4>1, <4>2, <4>4
    <3> QED BY <3>1, <3>2
  <2>10. ASSUME NEW j \in 1 .. Len(next), NEW i \in 1 .. j - 1
         PROVE  \E p \in 1 .. n + 1 :
                  Name(ds[p]) = Name(next[i]) /\ \A q \in 1 .. p : Name(ds[q]) # Name(next[j])
    <3>1. i \in 1 .. m /\ j \in 1 .. m
      BY <2>7
    <3>2. PICK p \in 1 .. n :
            Name(cs[p]) = Name(lines[i]) /\ \A q \in 1 .. p : Name(cs[q]) # Name(lines[j])
      BY <1>6, <2>2, <3>1
    <3> QED BY <1>3, <1>9, <2>7, <3>1, <3>2
  <2> QED BY <2>8, <2>9, <2>10
<1> QED BY <1>10, <1>11, <1>12

HeaderInv == header \in Seq(Lines) /\ cookies \in Seq(Lines) /\ CookiesByName

(* Between two responses nothing is set.                                    *)
LEMMA NoCookies == KeepsLast(<<>>, <<>>)
BY DEF KeepsLast

LEMMA HeaderInvStep == ASSUME HeaderInv, [Next]_vars PROVE HeaderInv'
<1>1. ASSUME NEW line \in Lines, SetCookie(line) PROVE HeaderInv'
  <2>1. /\ header' = HeaderSetCookie(header, line) /\ cookies' = Append(cookies, line)
        /\ header \in Seq(Lines) /\ cookies \in Seq(Lines) /\ KeepsLast(header, cookies)
    BY <1>1 DEF HeaderInv, SetCookie, CookiesByName
  <2>2. KeepsLast(header', cookies')
    BY <2>1, HeaderSetCookieKeepsLast
  <2>3. header' \in Seq(Lines)
    BY <2>1, HeaderSetCookieType
  <2> QED BY <2>1, <2>2, <2>3 DEF HeaderInv, CookiesByName
<1>2. CASE UNCHANGED <<header, cookies>>
  BY <1>2 DEF HeaderInv, CookiesByName
<1>3. CASE header' = <<>> /\ cookies' = <<>>
  BY <1>3, NoCookies DEF HeaderInv, CookiesByName
<1>4. CASE UNCHANGED vars
  BY <1>2, <1>4 DEF vars
<1>5. ASSUME NEW p \in Patterns, Add(p) PROVE HeaderInv'
  BY <1>2, <1>5 DEF Add
<1>6. ASSUME NEW method \in Verb, NEW path \in Paths, NEW recent \in BOOLEAN,
             Request(method, path, recent)
      PROVE  HeaderInv'
  BY <1>2, <1>6 DEF Request, ServeHTTP
<1>7. ASSUME NEW kind \in Redirects, Redirect(kind) PROVE HeaderInv'
  BY <1>3, <1>7 DEF Redirect
<1>8. CASE Return
  BY <1>3, <1>8 DEF Return
<1>9. CASE Follow
  BY <1>2, <1>9 DEF Follow, ServeHTTP
<1>10. CASE Done
  BY <1>2, <1>10 DEF Done
<1> QED BY <1>1, <1>4, <1>5, <1>6, <1>7, <1>8, <1>9, <1>10 DEF Next

(* Whatever cookies a handler sets, and in whatever order, the response has *)
(* the last of each name, in the order in which the names were first set    *)
(* (util.HeaderSetCookie).                                                  *)
THEOREM LastCookiesAreSet == Spec => []CookiesByName
<1>1. Init => HeaderInv
  BY NoCookies DEF Init, HeaderInv, CookiesByName
<1>2. HeaderInv /\ [Next]_vars => HeaderInv'
  BY HeaderInvStep
<1>3. HeaderInv => CookiesByName
  BY DEF HeaderInv
<1> QED BY <1>1, <1>2, <1>3, PTL DEF Spec

-----------------------------------------------------------------------------
(* The code of an answered redirect is one that tells what its name says.  *)
CodeInv ==
  IsAnswered /\ tx.request.recent =>
    /\ tx.answer = "redirect GET" => tx.code = 303
    /\ tx.answer = "redirect same" => tx.code \in {307, 308}

(* What ServeHTTP makes of a request keeps the request, and it answers none *)
(* with a redirect of a handler.                                            *)
LEMMA ServeHTTPKeepsRequest ==
  ASSUME NEW request, ServeHTTP(request)
  PROVE  /\ tx'.request = request
         /\ tx'.phase = "answered" => tx'.answer \notin Redirects
<1>1. ASSUME NEW answer \in Answers \ Redirects, NEW code, NEW location,
             Answer(request, answer, code, location)
      PROVE  tx'.request = request /\ tx'.answer \notin Redirects
  BY <1>1 DEF Answer
<1>2. {"not allowed", "clean", "gotalk", "files", "404", "500"} \subseteq Answers \ Redirects
  BY DEF Answers, Redirects
<1>3. ASSUME MaybeServeHTTP(request)
      PROVE  /\ tx'.request = request
             /\ tx'.phase = "answered" => tx'.answer \notin Redirects
  <2> DEFINE m == FirstMatch(routes, ParseCondFlags(<<request.method>>).flags,
                             RelativeTo(base, request.path))
  <2>1. \/ Answer(request, "500", 500, <<>>)
        \/ Answer(request, "404", 404, <<>>)
        \/ Answer(request, "files", 0, <<>>)
        \/ tx' = [phase |-> "handler", request |-> request, match |-> m]
    BY <1>3, Zenon DEF MaybeServeHTTP
  <2> HIDE DEF m
  <2>2. CASE tx' = [phase |-> "handler", request |-> request, match |-> m]
    <3>1. tx'.request = request /\ tx'.phase = "handler"
      BY <2>2
    <3> QED BY <3>1
  <2> QED BY <1>1, <1>2, <2>1, <2>2
<1> DEFINE clean == IF Cleans(request) THEN CleanPath(request.path) ELSE request.path
<1>4. \/ Answer(request, "not allowed", 400, <<>>)
      \/ Answer(request, "clean", 301, clean)
      \/ Answer(request, "gotalk", 0, <<>>)
      \/ MaybeServeHTTP(request)
  BY Zenon DEF ServeHTTP
<1> HIDE DEF clean
<1> QED BY <1>1, <1>2, <1>3, <1>4

LEMMA CodeInvStep == ASSUME CodeInv, [Next]_vars PROVE CodeInv'
<1>1. ASSUME NEW request, ServeHTTP(request) PROVE CodeInv'
  BY <1>1, ServeHTTPKeepsRequest DEF CodeInv, IsAnswered, Redirects
<1>2. CASE tx' = tx
  BY <1>2 DEF CodeInv, IsAnswered
<1>3. ASSUME NEW method \in Verb, NEW path \in Paths, NEW recent \in BOOLEAN,
             Request(method, path, recent)
      PROVE  CodeInv'
  BY <1>1, <1>3 DEF Request
<1>4. CASE Follow
  BY <1>1, <1>4 DEF Follow
<1>5. ASSUME NEW kind \in Redirects, Redirect(kind) PROVE CodeInv'
  <2>1. PICK code \in RedirectCodes(kind, tx.request.recent) :
          Answer(tx.request, kind, code, Target)
    BY <1>5 DEF Redirect
  <2>2. /\ tx'.request = tx.request /\ tx'.answer = kind /\ tx'.code = code
    BY <2>1 DEF Answer
  <2>3. tx.request.recent /\ kind = "redirect GET" => code = 303
    BY <2>1 DEF RedirectCodes
  <2>4. tx.request.recent /\ kind = "redirect same" => code \in {307, 308}
    BY <2>1 DEF RedirectCodes
  <2> QED BY <2>2, <2>3, <2>4 DEF CodeInv
<1>6. CASE Return
  BY <1>6 DEF Return, Answer, CodeInv
<1>7. CASE Done
  BY <1>7 DEF Done, Waiting, CodeInv, IsAnswered
<1>8. CASE UNCHANGED vars
  BY <1>2, <1>8 DEF vars
<1>9. ASSUME NEW p \in Patterns, Add(p) PROVE CodeInv'
  BY <1>2, <1>9 DEF Add
<1>10. ASSUME NEW line \in Lines, SetCookie(line) PROVE CodeInv'
  BY <1>2, <1>10 DEF SetCookie
<1> QED BY <1>3, <1>4, <1>5, <1>6, <1>7, <1>8, <1>9, <1>10 DEF Next

(* A client that follows a redirect uses the method the redirect promised   *)
(* (Transaction.GetRedirect, SameMethodRedirect and their like).            *)
THEOREM RedirectsKeepTheirMethod == Spec => MethodAsPromised
<1>1. Init => CodeInv
  <2>1. Init => ~IsAnswered
    BY DEF Init, IsAnswered, Waiting
  <2> QED BY <2>1 DEF CodeInv
<1>2. CodeInv /\ [Next]_vars => CodeInv'
  BY CodeInvStep
<1>3. CodeInv => (Follow /\ tx.request.recent /\ tx'.phase # "waiting" =>
         /\ tx.answer = "redirect GET" => tx'.request.method = "GET"
         /\ tx.answer = "redirect same" => tx'.request.method = tx.request.method)
  <2> SUFFICES ASSUME CodeInv, Follow, tx.request.recent
               PROVE  /\ tx.answer = "redirect GET" => tx'.request.method = "GET"
                      /\ tx.answer = "redirect same" => tx'.request.method = tx.request.method
    OBVIOUS
  <2>1. PICK method \in NextMethods(tx.request.method, tx.code) :
          ServeHTTP([method |-> method, path |-> tx.location, recent |-> tx.request.recent,
                     hops |-> IF tx.answer = "clean" THEN tx.request.hops + 1 ELSE 0])
    BY DEF Follow
  <2>2. tx'.request.method = method
    BY <2>1, ServeHTTPKeepsRequest
  <2>3. IsAnswered
    BY DEF Follow
  <2>4. tx.code = 303 => method = "GET"
    BY <2>1 DEF NextMethods
  <2>5. tx.code \in {307, 308} => method = tx.request.method
    BY <2>1 DEF NextMethods
  <2> QED BY <2>2, <2>3, <2>4, <2>5 DEF CodeInv
<1> QED BY <1>1, <1>2, <1>3, PTL DEF Spec, MethodAsPromised
-----------------------------------------------------------------------------
LEMMA MinOfTwo == ASSUME NEW a \in Nat PROVE Min({2, a}) = IF a <= 2 THEN a ELSE 2
<1>1. CASE a <= 2
  BY <1>1 DEF Min
<1>2. CASE ~ (a <= 2)
  BY <1>2 DEF Min
<1> QED BY <1>1, <1>2

(* What is left without its trailing slashes is nothing, or begins as       *)
(* before and ends with no slash.                                          *)
LEMMA TrimSlashesTrims ==
  ASSUME NEW S, NEW b \in Seq(S)
  PROVE  LET t == TrimSlashes(b) IN
         t \in Seq(S) /\ (t # <<>> => t[1] = b[1] /\ Last(t) # "/")
<1> DEFINE kept == {i \in 1 .. Len(b) : b[i] # "/"}
<1>1. CASE kept = {}
  BY <1>1 DEF TrimSlashes
<1>2. CASE kept # {}
  <2>1. PICK k \in kept : k = Max(kept)
    <3>1. kept \in SUBSET (0 .. Len(b)) /\ Len(b) \in Nat
      OBVIOUS
    <3> HIDE DEF kept
    <3>2. Max(kept) \in kept
      BY <1>2, <3>1, MaxOfPositions
    <3> QED BY <3>2, Zenon
  <2>2. TrimSlashes(b) = SubSeq(b, 1, k)
    BY <1>2, <2>1 DEF TrimSlashes
  <2>3. k \in 1 .. Len(b) /\ b[k] # "/"
    BY <2>1
  <2>4. SubSeq(b, 1, k) \in Seq(S)
    BY <2>3
  <2>5. Len(SubSeq(b, 1, k)) = k /\ SubSeq(b, 1, k)[1] = b[1] /\ SubSeq(b, 1, k)[k] = b[k]
    BY <2>3
  <2> QED BY <2>2, <2>3, <2>4, <2>5 DEF Last
<1> QED BY <1>1, <1>2

(* One Add gives a base path its leading slash, and only the next one takes *)
(* the trailing slashes away.                                              *)
BaseInv ==
  /\ base \in Seq(Chars)
  /\ adds \in 0 .. 2
  /\ adds > 0 /\ base # <<>> => base[1] = "/"
  /\ BasePathSettles

LEMMA BaseInvStep == ASSUME BaseInv, [Next]_vars PROVE BaseInv'
<1>1. ASSUME NEW p \in Patterns, Add(p) PROVE BaseInv'
  <2>1. base' = NormalBasePath(base) /\ adds' = Min({2, adds + 1})
    BY <1>1 DEF Add
  <2>2. adds' \in 0 .. 2 /\ (adds' = 2 => adds > 0)
    BY <2>1, MinOfTwo DEF BaseInv
  <2>3. CASE base # <<>> /\ base[1] # "/"
    <3>1. base' = Root \o base /\ Root \in Seq(Chars)
      BY <2>1, <2>3 DEF NormalBasePath, Root, Chars
    <3>2. base \in Seq(Chars) /\ adds \in 0 .. 2 /\ ~ (adds > 0)
      BY <2>3 DEF BaseInv
    <3>3. base' \in Seq(Chars) /\ base'[1] = "/"
      BY <3>1, <3>2 DEF Root
    <3>4. adds' # 2
      BY <2>2, <3>2
    <3> QED BY <2>2, <3>3, <3>4 DEF BaseInv, BasePathSettles
  <2>4. CASE ~ (base # <<>> /\ base[1] # "/")
    <3>1. base' = TrimSlashes(base)
      BY <2>1, <2>4 DEF NormalBasePath
    <3>2. base' \in Seq(Chars) /\ (base' # <<>> => base'[1] = base[1] /\ Last(base') # "/")
      BY <3>1, TrimSlashesTrims DEF BaseInv
    <3>3. base = <<>> => base' = <<>>
      BY <3>1 DEF TrimSlashes
    <3> QED BY <2>2, <2>4, <3>2, <3>3 DEF BaseInv, BasePathSettles
  <2> QED BY <2>3, <2>4
<1>2. CASE UNCHANGED <<base, adds>>
  BY <1>2 DEF BaseInv, BasePathSettles
<1>3. CASE UNCHANGED vars
  BY <1>2, <1>3 DEF vars
<1>4. ASSUME NEW line \in Lines, SetCookie(line) PROVE BaseInv'
  BY <1>2, <1>4 DEF SetCookie
<1>5. ASSUME NEW method \in Verb, NEW path \in Paths, NEW recent \in BOOLEAN,
             Request(method, path, recent)
      PROVE  BaseInv'
  BY <1>2, <1>5 DEF Request, ServeHTTP
<1>6. ASSUME NEW kind \in Redirects, Redirect(kind) PROVE BaseInv'
  BY <1>2, <1>6 DEF Redirect
<1>7. CASE Return
  BY <1>2, <1>7 DEF Return
<1>8. CASE Follow
  BY <1>2, <1>8 DEF Follow, ServeHTTP
<1>9. CASE Done
  BY <1>2, <1>9 DEF Done
<1> QED BY <1>1, <1>3, <1>4, <1>5, <1>6, <1>7, <1>8, <1>9 DEF Next

(* From the second Add on a base path is what Router.Match relies on,       *)
(* whatever the application assigned to it before the first.               *)
THEOREM BasePathIsNormal == Spec => []BasePathSettles
<1>1. Init => BaseInv
  BY BasePathAssumption DEF Init, BaseInv, BasePathSettles
<1>2. BaseInv /\ [Next]_vars => BaseInv'
  BY BaseInvStep
<1>3. BaseInv => BasePathSettles
  BY DEF BaseInv
<1> QED BY <1>1, <1>2, <1>3, PTL DEF Spec

-----------------------------------------------------------------------------
(* The states of the scan of Elements are those of the recursion.           *)
Scanned(f, q) ==
  f = [i \in 0 .. Len(q) |->
         IF i = 0 THEN [done |-> <<>>, e |-> <<>>] ELSE Scan(f[i - 1], q[i])]

(* The recursion of Elements has a solution.                                *)
LEMMA ScannedExists ==
  ASSUME NEW q, Len(q) \in Nat
  PROVE  \E f : Scanned(f, q)
<1> DEFINE F(n, f) == f = [i \in 0 .. n |-> IF i = 0 THEN [done |-> <<>>, e |-> <<>>]
                                            ELSE Scan(f[i - 1], q[i])]
           S == {n \in Nat : \E f : F(n, f)}
<1>1. 0 \in S
  <2> DEFINE g == [i \in 0 .. 0 |-> [done |-> <<>>, e |-> <<>>]]
  <2>1. F(0, g)
    OBVIOUS
  <2> QED BY <2>1, Zenon
<1>2. ASSUME NEW n \in Nat, n \in S PROVE n + 1 \in S
  <2>1. PICK f : F(n, f)
    BY <1>2
  <2>2. \A i \in 0 .. n : f[i] = IF i = 0 THEN [done |-> <<>>, e |-> <<>>] ELSE Scan(f[i - 1], q[i])
    <3> TAKE i \in 0 .. n
    <3>1. f[i] = [k \in 0 .. n |-> IF k = 0 THEN [done |-> <<>>, e |-> <<>>]
                                   ELSE Scan(f[k - 1], q[k])][i]
      BY <2>1, Zenon
    <3> QED BY <3>1, Zenon
  <2> DEFINE g == [i \in 0 .. n + 1 |-> IF i = 0 THEN [done |-> <<>>, e |-> <<>>]
                                        ELSE Scan(f[i - 1], q[i])]
  <2>3. \A i \in 0 .. n : f[i] = g[i]
    <3> TAKE i \in 0 .. n
    <3>1. i \in 0 .. n + 1
      OBVIOUS
    <3> QED BY <2>2, <3>1, Zenon
  <2>4. \A i \in 0 .. n + 1 : g[i] = IF i = 0 THEN [done |-> <<>>, e |-> <<>>] ELSE Scan(g[i - 1], q[i])
    <3> TAKE i \in 0 .. n + 1
    <3>1. g[i] = IF i = 0 THEN [done |-> <<>>, e |-> <<>>] ELSE Scan(f[i - 1], q[i])
      BY Zenon
    <3>2. i # 0 => i - 1 \in 0 .. n
      OBVIOUS
    <3>3. i # 0 => f[i - 1] = g[i - 1]
      BY <2>3, <3>2
    <3> HIDE DEF g
    <3> QED BY <3>1, <3>3, Zenon
  <2>5. F(n + 1, g)
    BY <2>4, Zenon
  <2>6. n + 1 \in Nat
    OBVIOUS
  <2> QED BY <2>5, <2>6, Zenon
<1>3. Nat \subseteq S
  BY <1>1, <1>2, SetInduction
<1> QED BY <1>3 DEF Scanned

(* Elements is what the last state of the scan has found.                   *)
LEMMA ElementsScan ==
  ASSUME NEW S, NEW p \in Seq(S)
  PROVE  \E f : /\ f[0] = [done |-> <<>>, e |-> <<>>]
                /\ \A n \in 0 .. Len(p) : f[n + 1] = Scan(f[n], (p \o Root)[n + 1])
                /\ Elements(p) = f[Len(p) + 1].done
<1> DEFINE q == p \o Root
           c == CHOOSE f : Scanned(f, q)
<1>1. Len(q) = Len(p) + 1 /\ Len(p) \in Nat /\ Len(q) \in Nat
  BY DEF Root
<1>2. Scanned(c, q)
  <2> HIDE DEF q
  <2>1. \E f : Scanned(f, q)
    BY <1>1, ScannedExists
  <2> QED BY <2>1, Zenon
<1>3. Elements(p) = c[Len(q)].done
  BY Zenon DEF Elements, Scanned
<1> HIDE DEF c
<1>4. \A i \in 0 .. Len(q) : c[i] = IF i = 0 THEN [done |-> <<>>, e |-> <<>>]
                                    ELSE Scan(c[i - 1], q[i])
  <2> TAKE i \in 0 .. Len(q)
  <2>1. c[i] = [k \in 0 .. Len(q) |-> IF k = 0 THEN [done |-> <<>>, e |-> <<>>]
                                      ELSE Scan(c[k - 1], q[k])][i]
    BY <1>2, Zenon DEF Scanned
  <2> QED BY <2>1, Zenon
<1> HIDE DEF q
<1>5. c[0] = [done |-> <<>>, e |-> <<>>]
  <2>1. 0 \in 0 .. Len(q)
    BY <1>1
  <2> QED BY <1>4, <2>1, Zenon
<1>6. \A n \in 0 .. Len(p) : c[n + 1] = Scan(c[n], q[n + 1])
  <2> TAKE n \in 0 .. Len(p)
  <2>1. PICK k : k = n + 1
    OBVIOUS
  <2>2. k \in 0 .. Len(q) /\ k # 0 /\ k - 1 = n
    BY <1>1, <2>1
  <2>3. c[k] = Scan(c[k - 1], q[k])
    BY <1>4, <2>2, Zenon
  <2> QED BY <2>1, <2>2, <2>3
<1> QED BY <1>1, <1>3, <1>5, <1>6, Zenon DEF q

-----------------------------------------------------------------------------
(* What is left of a path between its slashes.                              *)
Names(S) == Seq(S \ {"/"}) \ Dots

(* Elements, each with the slash before it.                                 *)
Joined(d) == FlattenSeq([i \in 1 .. Len(d) |-> Root \o d[i]])

Scans(S) == [done : Seq(Names(S)), e : Seq(S \ {"/"})]

(* A character more leaves elements of names.                               *)
LEMMA ScanType ==
  ASSUME NEW S, NEW acc \in Scans(S), NEW c \in S
  PROVE  Scan(acc, c) \in Scans(S)
<1>1. acc.done \in Seq(Names(S)) /\ acc.e \in Seq(S \ {"/"})
  BY DEF Scans
<1>2. Resolve(acc.done, acc.e) \in Seq(Names(S))
  <2>1. acc.e \notin {<<>>, <<".">>} /\ acc.e # <<".", ".">> => acc.e \in Names(S)
    BY <1>1 DEF Names, Dots
  <2> HIDE DEF Names
  <2>2. acc.done # <<>> => Front(acc.done) \in Seq(Names(S))
    BY <1>1 DEF Front
  <2> QED BY <1>1, <2>1, <2>2 DEF Resolve
<1>3. CASE c = "/"
  <2> HIDE DEF Names
  <2> QED BY <1>2, <1>3 DEF Scan, Scans
<1>4. CASE c # "/"
  <2>1. Append(acc.e, c) \in Seq(S \ {"/"})
    BY <1>1, <1>4
  <2> HIDE DEF Names
  <2> QED BY <1>4, <2>1 DEF Scan, Scans
<1> QED BY <1>3, <1>4

(* So every state of the scan has elements of names.                        *)
LEMMA ScansType ==
  ASSUME NEW S, "/" \in S, NEW p \in Seq(S),
         NEW f, f[0] = [done |-> <<>>, e |-> <<>>],
         \A n \in 0 .. Len(p) : f[n + 1] = Scan(f[n], (p \o Root)[n + 1])
  PROVE  \A n \in 0 .. Len(p) + 1 : f[n] \in Scans(S)
<1> DEFINE T == {n \in Nat : n \in 0 .. Len(p) + 1 => f[n] \in Scans(S)}
<1>1. 0 \in T
  <2>1. [done |-> <<>>, e |-> <<>>] \in Scans(S)
    BY DEF Scans
  <2> QED BY <2>1
<1>2. ASSUME NEW n \in Nat, n \in T PROVE n + 1 \in T
  <2> SUFFICES ASSUME n \in 0 .. Len(p) PROVE f[n + 1] \in Scans(S)
    OBVIOUS
  <2>1. f[n] \in Scans(S)
    BY <1>2
  <2>2. f[n + 1] = Scan(f[n], (p \o Root)[n + 1])
    OBVIOUS
  <2>3. (p \o Root)[n + 1] \in S
    BY DEF Root
  <2> QED BY <2>1, <2>2, <2>3, ScanType
<1> HIDE DEF T
<1>3. Nat \subseteq T
  BY <1>1, <1>2, SetInduction
<1> QED BY <1>3 DEF T

(* No element of a path is empty or made of dots.                           *)
LEMMA ElementsType ==
  ASSUME NEW S, "/" \in S, NEW p \in Seq(S)
  PROVE  Elements(p) \in Seq(Names(S))
<1>1. PICK f : /\ f[0] = [done |-> <<>>, e |-> <<>>]
               /\ \A n \in 0 .. Len(p) : f[n + 1] = Scan(f[n], (p \o Root)[n + 1])
               /\ Elements(p) = f[Len(p) + 1].done
  BY ElementsScan
<1>2. f[Len(p) + 1] \in Scans(S)
  <2>1. \A n \in 0 .. Len(p) + 1 : f[n] \in Scans(S)
    BY <1>1, ScansType
  <2> QED BY <2>1
<1> HIDE DEF Names
<1> QED BY <1>1, <1>2 DEF Scans

(* Without elements there is nothing to join.                               *)
LEMMA JoinedEmpty == Joined(<<>>) = <<>>
<1>1. [i \in 1 .. Len(<<>>) |-> Root \o <<>>[i]] = <<>>
  OBVIOUS
<1> QED BY <1>1, FlattenEmpty DEF Joined

(* The element added last is joined last.                                   *)
LEMMA JoinedAppend ==
  ASSUME NEW S, "/" \in S, NEW d \in Seq(Seq(S)), NEW e \in Seq(S)
  PROVE  /\ Joined(d) \in Seq(S)
         /\ Joined(Append(d, e)) = Joined(d) \o (Root \o e)
<1> DEFINE g == [i \in 1 .. Len(d) |-> Root \o d[i]]
           h == [i \in 1 .. Len(Append(d, e)) |-> Root \o Append(d, e)[i]]
<1>1. \A s \in Seq(S) : Root \o s \in Seq(S)
  BY DEF Root
<1>2. g \in Seq(Seq(S))
  BY <1>1
<1>3. h = Append(g, Root \o e)
  <2>1. Len(Append(d, e)) = Len(d) + 1
    OBVIOUS
  <2> QED BY <1>1, <1>2, <2>1
<1> HIDE DEF g, h
<1>4. FlattenSeq(g) \in Seq(S)
  BY <1>2, FlattenType
<1>5. FlattenSeq(h) = FlattenSeq(g) \o (Root \o e)
  BY <1>1, <1>2, <1>3, FlattenAppend
<1> QED BY <1>4, <1>5 DEF Joined, g, h

(* No two slashes enclose what Clean would remove.                          *)
NoDots(q) ==
  \A i, j \in 1 .. Len(q) :
    i < j /\ q[i] = "/" /\ q[j] = "/" => SubSeq(q, i + 1, j - 1) \notin Dots

(* Dots are made of no slashes.                                             *)
LEMMA DotsHaveNoSlash ==
  ASSUME NEW s \in Dots, NEW k \in 1 .. Len(s) PROVE s[k] # "/"
BY DEF Dots

(* A slash after a sequence.                                                *)
LEMMA SlashAfter ==
  ASSUME NEW S, "/" \in S, NEW t \in Seq(S)
  PROVE  /\ t \o Root \in Seq(S)
         /\ Len(t \o Root) = Len(t) + 1
         /\ \A k \in 1 .. Len(t) : (t \o Root)[k] = t[k]
         /\ (t \o Root)[Len(t) + 1] = "/"
BY DEF Root

(* A slash before a sequence.                                               *)
LEMMA SlashBefore ==
  ASSUME NEW S, "/" \in S, NEW t \in Seq(S)
  PROVE  /\ Root \o t \in Seq(S)
         /\ Len(Root \o t) = 1 + Len(t)
         /\ (Root \o t)[1] = "/"
         /\ \A k \in 1 .. Len(t) : (Root \o t)[1 + k] = t[k]
BY DEF Root

(* One more element leaves none between two slashes to clean.               *)
LEMMA NoDotsStep ==
  ASSUME NEW S, "/" \in S, NEW t \in Seq(S), NEW e \in Names(S), NoDots(t \o Root)
  PROVE  NoDots((t \o (Root \o e)) \o Root)
<1> DEFINE q == t \o Root
           r == (t \o (Root \o e)) \o Root
           m == Len(t) + 1
<1>1. e \in Seq(S \ {"/"}) /\ e \in Seq(S) /\ e \notin Dots /\ Len(e) \in Nat
  BY DEF Names
<1>2. m \in Nat /\ Len(t) \in Nat
  OBVIOUS
<1>3. q \in Seq(S) /\ Len(q) = m /\ q[m] = "/" /\ \A k \in 1 .. Len(t) : q[k] = t[k]
  BY SlashAfter
<1>4. /\ r \in Seq(S) /\ Len(r) = m + Len(e) + 1
      /\ \A k \in 1 .. m : r[k] = q[k]
      /\ r[m] = "/"
      /\ \A k \in 1 .. Len(e) : r[m + k] = e[k]
  <2> DEFINE re == Root \o e
             tre == t \o re
  <2>1. re \in Seq(S) /\ Len(re) = 1 + Len(e) /\ re[1] = "/"
        /\ \A k \in 1 .. Len(e) : re[1 + k] = e[k]
    BY <1>1, SlashBefore
  <2> HIDE DEF re
  <2>a. re \in Seq(S)
    BY <2>1
  <2>2. /\ tre \in Seq(S) /\ Len(tre) = Len(t) + Len(re)
        /\ \A k \in 1 .. Len(t) : tre[k] = t[k]
        /\ \A k \in 1 .. Len(re) : tre[Len(t) + k] = re[k]
    BY <2>a, CatIndex
  <2> HIDE DEF tre
  <2>3. /\ tre \o Root \in Seq(S) /\ Len(tre \o Root) = Len(tre) + 1
        /\ \A k \in 1 .. Len(tre) : (tre \o Root)[k] = tre[k]
    BY <2>2, SlashAfter
  <2>4. tre[m] = "/" /\ Len(tre) = m + Len(e) /\ m \in 1 .. Len(tre)
    <3>1. 1 \in 1 .. Len(re) /\ m = Len(t) + 1
      BY <1>1, <2>1
    <3> HIDE DEF m
    <3> QED BY <1>1, <1>2, <2>1, <2>2, <3>1
  <2> HIDE DEF q, m
  <2>5. \A k \in 1 .. m : (tre \o Root)[k] = q[k]
    <3> TAKE k \in 1 .. m
    <3>1. (tre \o Root)[k] = tre[k]
      BY <1>1, <1>2, <2>3, <2>4
    <3>2. k = m \/ k \in 1 .. Len(t)
      BY <1>2 DEF m
    <3> QED BY <1>3, <2>2, <2>4, <3>1, <3>2
  <2>6. \A k \in 1 .. Len(e) : (tre \o Root)[m + k] = e[k]
    <3> TAKE k \in 1 .. Len(e)
    <3>1. m + k \in 1 .. Len(tre) /\ 1 + k \in 1 .. Len(re) /\ m + k = Len(t) + (1 + k)
      BY <1>1, <1>2, <2>1, <2>4 DEF m
    <3>2. (tre \o Root)[m + k] = tre[m + k] /\ tre[Len(t) + (1 + k)] = re[1 + k]
      BY <2>2, <2>3, <3>1
    <3> QED BY <2>1, <3>1, <3>2
  <2>7. m \in 1 .. m
    BY <1>2 DEF m
  <2> QED BY <1>3, <2>3, <2>4, <2>5, <2>6, <2>7 DEF re, tre
<1> HIDE DEF q, r, m
<1>5. m \in Nat
  BY <1>2
<1>6. \A k \in 1 .. Len(r) : r[k] = "/" => k <= m \/ k = Len(r)
  <2> TAKE k \in 1 .. Len(r)
  <2> SUFFICES ASSUME ~ (k <= m), k # Len(r) PROVE r[k] # "/"
    OBVIOUS
  <2>1. k - m \in 1 .. Len(e) /\ m + (k - m) = k
    BY <1>1, <1>4, <1>5
  <2>2. r[k] = e[k - m]
    BY <1>4, <2>1
  <2>3. e[k - m] \in S \ {"/"}
    BY <1>1, <2>1
  <2> QED BY <2>2, <2>3
<1>7. SUFFICES ASSUME NEW i \in 1 .. Len(r), NEW j \in 1 .. Len(r), i < j, r[i] = "/", r[j] = "/",
                      SubSeq(r, i + 1, j - 1) \in Dots
               PROVE  FALSE
  BY DEF NoDots, r
<1> DEFINE b == SubSeq(r, i + 1, j - 1)
<1>8. /\ Len(b) = j - 1 - i
      /\ \A k \in 1 .. Len(b) : b[k] = r[i + k]
      /\ b \in Seq(S)
  <2>1. i + 1 \in Int /\ j - 1 \in Int /\ Len(r) \in Nat
    BY <1>1, <1>4, <1>5
  <2>2. \A k \in i + 1 .. j - 1 : k \in 1 .. Len(r)
    BY <1>7, <2>1
  <2>3. \A k \in i + 1 .. j - 1 : r[k] \in S
    BY <1>4, <2>2
  <2> QED BY <1>7, <2>1, <2>3, SubSeqProperties
<1>9. CASE j <= m
  <2>1. i \in 1 .. Len(q) /\ j \in 1 .. Len(q) /\ i \in 1 .. m /\ j \in 1 .. m
    BY <1>3, <1>5, <1>7, <1>9
  <2>2. q[i] = "/" /\ q[j] = "/"
    BY <1>4, <1>7, <2>1
  <2> DEFINE a == SubSeq(q, i + 1, j - 1)
  <2>3. i + 1 \in Int /\ j - 1 \in Int
    BY <2>1
  <2>4. \A k \in i + 1 .. j - 1 : k \in 1 .. m
    BY <1>5, <2>1
  <2>5. \A k \in i + 1 .. j - 1 : q[k] \in S
    BY <1>3, <2>4
  <2>6. a \in Seq(S) /\ Len(a) = j - 1 - i /\ \A k \in 1 .. Len(a) : a[k] = q[i + k]
    BY <1>7, <2>1, <2>3, <2>5, SubSeqProperties
  <2>7. \A k \in 1 .. Len(a) : i + k \in 1 .. m
    BY <1>5, <2>1, <2>6
  <2>8. \A k \in 1 .. Len(a) : a[k] = b[k]
    BY <1>4, <1>8, <2>6, <2>7
  <2> HIDE DEF a, b
  <2>9. a = b
    BY <1>8, <2>6, <2>8, SeqEqual
  <2> QED BY <1>7, <2>1, <2>2, <2>9 DEF NoDots, q, a, b
<1>10. CASE j = Len(r) /\ i = m
  <2>1. Len(b) = Len(e) /\ b \in Seq(S)
    BY <1>1, <1>4, <1>5, <1>8, <1>10
  <2>2. \A k \in 1 .. Len(e) : b[k] = e[k]
    BY <1>4, <1>8, <1>10, <2>1
  <2> HIDE DEF b
  <2>3. b = e
    BY <1>1, <2>1, <2>2, SeqEqual
  <2> QED BY <1>1, <1>7, <2>3 DEF b
<1>11. CASE j = Len(r) /\ i < m
  <2>1. m - i \in 1 .. Len(b) /\ i + (m - i) = m
    BY <1>1, <1>4, <1>5, <1>8, <1>11
  <2>2. b[m - i] = "/"
    BY <1>4, <1>8, <2>1
  <2> HIDE DEF b
  <2> QED BY <1>7, <2>1, <2>2, DotsHaveNoSlash DEF b
<1> QED BY <1>5, <1>6, <1>7, <1>9, <1>10, <1>11

(* What elements make has no dots to be cleaned and begins with a slash.    *)
LEMMA JoinedIsClean ==
  ASSUME NEW S, "/" \in S, NEW d \in Seq(Names(S))
  PROVE  /\ Joined(d) \in Seq(S)
         /\ NoDots(Joined(d) \o Root)
         /\ d # <<>> => /\ Len(Joined(d)) > 1 /\ Joined(d)[1] = "/"
                        /\ Joined(d)[Len(Joined(d))] # "/"
<1> DEFINE Good(t) == Len(t) > 1 /\ t[1] = "/" /\ t[Len(t)] # "/"
           T == {s \in Seq(Names(S)) : /\ Joined(s) \in Seq(S)
                                       /\ NoDots(Joined(s) \o Root)
                                       /\ s # <<>> => Good(Joined(s))}
<1>1. <<>> \in T
  <2>1. NoDots(<<>> \o Root)
    BY DEF NoDots, Root
  <2>2. <<>> \in Seq(Names(S)) /\ <<>> \in Seq(S)
    OBVIOUS
  <2> QED BY <2>1, <2>2, JoinedEmpty
<1>2. ASSUME NEW s \in Seq(Names(S)), NEW e \in Names(S), s \in T PROVE Append(s, e) \in T
  <2> DEFINE t == Joined(s)
             u == Joined(Append(s, e))
  <2>1. s \in Seq(Seq(S)) /\ e \in Seq(S) /\ e \in Seq(S \ {"/"}) /\ e # <<>>
    BY DEF Names, Dots
  <2>2. u = t \o (Root \o e) /\ t \in Seq(S)
    BY <2>1, JoinedAppend
  <2>3. u \in Seq(S)
    BY <2>1, <2>2, SlashBefore, CatIndex
  <2>4. NoDots(u \o Root)
    BY <1>2, <2>2, NoDotsStep
  <2>5. Good(u)
    <3> DEFINE re == Root \o e
    <3>1. re \in Seq(S) /\ Len(re) = 1 + Len(e) /\ re[1] = "/"
          /\ \A k \in 1 .. Len(e) : re[1 + k] = e[k]
      BY <2>1, SlashBefore
    <3> HIDE DEF re
    <3>2. re \in Seq(S)
      BY <3>1
    <3>3. /\ Len(t \o re) = Len(t) + Len(re)
          /\ \A k \in 1 .. Len(t) : (t \o re)[k] = t[k]
          /\ \A k \in 1 .. Len(re) : (t \o re)[Len(t) + k] = re[k]
      BY <2>2, <3>2, CatIndex
    <3> DEFINE v == t \o re
    <3> HIDE DEF t, v
    <3>4. Len(e) \in 1 .. Len(e) /\ Len(t) \in Nat /\ Len(e) \in Nat
      BY <2>1, <2>2
    <3>5. re[1 + Len(e)] # "/"
      BY <2>1, <3>1, <3>4
    <3>6. Len(re) \in 1 .. Len(re) /\ 1 \in 1 .. Len(re) /\ Len(re) > 1 /\ Len(re) = 1 + Len(e)
      BY <3>1, <3>4
    <3>7. v[Len(v)] # "/" /\ Len(v) > 1
      BY <3>3, <3>4, <3>5, <3>6 DEF v
    <3>8. CASE s = <<>>
      <4>1. Len(t) = 0
        BY <3>8, JoinedEmpty DEF t
      <4>2. v[1] = re[1]
        BY <3>3, <3>6, <4>1 DEF v
      <4> QED BY <2>2, <3>1, <3>7, <4>2 DEF re, v
    <3>9. CASE s # <<>>
      <4>1. Len(t) > 1 /\ t[1] = "/"
        BY <1>2, <3>9 DEF t
      <4>2. v[1] = t[1]
        BY <3>3, <3>4, <4>1 DEF v
      <4> QED BY <2>2, <3>7, <4>1, <4>2 DEF re, v
    <3> QED BY <3>8, <3>9
  <2>6. Append(s, e) \in Seq(Names(S))
    OBVIOUS
  <2> HIDE DEF Good
  <2> QED BY <2>3, <2>4, <2>5, <2>6
<1> HIDE DEF T, Good
<1>3. Seq(Names(S)) \subseteq T
  BY <1>1, <1>2, SeqInduction
<1> QED BY <1>3 DEF T, Good

-----------------------------------------------------------------------------

(* What is appended to the second is appended to both.                      *)
LEMMA CatAppend ==
  ASSUME NEW S, NEW s \in Seq(S), NEW t \in Seq(S), NEW c \in S
  PROVE  s \o Append(t, c) = Append(s \o t, c)
OBVIOUS

(* A prefix grows by the next character.                                    *)
LEMMA PrefixAppend ==
  ASSUME NEW S, NEW t \in Seq(S), NEW n \in Nat, n < Len(t)
  PROVE  /\ SubSeq(t, 1, n) \in Seq(S)
         /\ SubSeq(t, 1, n + 1) = Append(SubSeq(t, 1, n), t[n + 1])
OBVIOUS

(* What was scanned, and an element after it; as far as it is scanned.      *)
With(b, e) == b \o (Root \o e)
Upto(t, n) == SubSeq(t, 1, n)

(* The element being scanned is what lies between the last slash and here.  *)
LEMMA LastElement ==
  ASSUME NEW S, "/" \in S, NEW t \in Seq(S), NEW n \in 1 .. Len(t),
         NEW b \in Seq(S), NEW e \in Seq(S), With(b, e) = Upto(t, n)
  PROVE  LET q == t \o Root
             i == Len(b) + 1
         IN  i \in 1 .. n /\ i = n - Len(e) /\ q[i] = "/" /\ SubSeq(q, i + 1, n) = e
<1> DEFINE re == Root \o e
           q == t \o Root
           i == Len(b) + 1
           a == SubSeq(q, i + 1, n)
<1>1. re \in Seq(S) /\ Len(re) = 1 + Len(e) /\ re[1] = "/"
      /\ \A k \in 1 .. Len(e) : re[1 + k] = e[k]
  BY SlashBefore
<1> HIDE DEF re
<1>2. re \in Seq(S)
  BY <1>1
<1>3. /\ b \o re \in Seq(S)
      /\ Len(b \o re) = Len(b) + Len(re)
      /\ \A k \in 1 .. Len(re) : (b \o re)[Len(b) + k] = re[k]
  BY <1>2, CatIndex
<1>4. n \in Nat /\ Len(t) \in Nat /\ Len(b) \in Nat /\ Len(e) \in Nat /\ n <= Len(t)
  OBVIOUS
<1>5. Len(SubSeq(t, 1, n)) = n /\ \A k \in 1 .. n : SubSeq(t, 1, n)[k] = t[k]
  OBVIOUS
<1>6. b \o re = SubSeq(t, 1, n)
  BY Zenon DEF re, With, Upto
<1>7. n = Len(b) + 1 + Len(e)
  BY <1>1, <1>3, <1>4, <1>5, <1>6
<1>8. \A k \in 1 .. n : q[k] = t[k]
  <2>1. \A k \in 1 .. Len(t) : q[k] = t[k]
    BY SlashAfter
  <2> HIDE DEF q
  <2> QED BY <1>4, <2>1
<1>9. q \in Seq(S) /\ Len(q) = Len(t) + 1
  BY SlashAfter
<1> HIDE DEF q
<1>10. i \in 1 .. n /\ i = n - Len(e)
  BY <1>4, <1>7
<1>11. \A k \in 1 .. Len(re) : t[Len(b) + k] = re[k]
  <2> TAKE k \in 1 .. Len(re)
  <2>1. Len(b) + k \in 1 .. n
    BY <1>1, <1>4, <1>7
  <2> QED BY <1>3, <1>5, <1>6, <2>1
<1>12. q[i] = "/"
  <2>1. 1 \in 1 .. Len(re)
    BY <1>1, <1>4
  <2> QED BY <1>1, <1>8, <1>10, <1>11, <2>1
<1>13. a \in Seq(S) /\ Len(a) = Len(e) /\ \A k \in 1 .. Len(a) : a[k] = q[i + k]
  <2>1. i + 1 \in Int /\ n \in Int /\ \A k \in i + 1 .. n : k \in 1 .. Len(q)
    BY <1>4, <1>9
  <2>2. \A k \in i + 1 .. n : q[k] \in S
    BY <1>9, <2>1
  <2>3. /\ a \in Seq(S)
        /\ Len(a) = IF i + 1 <= n THEN n - (i + 1) + 1 ELSE 0
        /\ \A k \in 1 .. n - (i + 1) + 1 : a[k] = q[i + 1 + k - 1]
    BY <2>1, <2>2, SubSeqProperties
  <2>4. Len(a) = Len(e) /\ n - (i + 1) + 1 = Len(e)
    BY <1>4, <1>7, <2>3
  <2>5. \A k \in 1 .. Len(e) : i + 1 + k - 1 = i + k
    BY <1>4
  <2> QED BY <2>3, <2>4, <2>5
<1>14. \A k \in 1 .. Len(e) : a[k] = e[k]
  <2> TAKE k \in 1 .. Len(e)
  <2>1. i + k \in 1 .. n /\ 1 + k \in 1 .. Len(re) /\ i + k = Len(b) + (1 + k)
    BY <1>1, <1>4, <1>7
  <2>2. a[k] = q[i + k]
    BY <1>13
  <2>3. t[Len(b) + (1 + k)] = re[1 + k] /\ re[1 + k] = e[k]
    BY <1>1, <1>11, <2>1
  <2> QED BY <1>8, <2>1, <2>2, <2>3
<1> HIDE DEF a
<1>15. a = e
  BY <1>13, <1>14, SeqEqual
<1> QED BY <1>10, <1>12, <1>15 DEF a, q

(* One more character.                                                      *)
Then(s, c) == Append(s, c)

(* A slash, and a sequence after a slash.                                   *)
LEMMA CatRootAppend ==
  ASSUME NEW S, "/" \in S, NEW b \in Seq(S), NEW e \in Seq(S), NEW c \in S
  PROVE  /\ With(b, Then(e, c)) = Then(With(b, e), c)
         /\ With(With(b, e), <<>>) = Then(With(b, e), "/")
<1>0. Root \in Seq(S)
  BY DEF Root
<1>1. PICK r \in Seq(S) : r = Root
  BY <1>0, Zenon
<1>a. r \o e \in Seq(S)
  OBVIOUS
<1>2. PICK re \in Seq(S) : re = r \o e
  BY <1>a, Zenon
<1>b. b \o re \in Seq(S)
  OBVIOUS
<1>3. r \o Append(e, c) = Append(re, c)
  BY <1>2
<1>4. b \o Append(re, c) = Append(b \o re, c)
  OBVIOUS
<1>5. PICK w \in Seq(S) : w = b \o re
  BY <1>b, Zenon
<1>6. w \o Root = Append(w, "/") /\ Root \o <<>> = Root
  BY DEF Root
<1> QED BY <1>1, <1>2, <1>3, <1>4, <1>5, <1>6, Zenon DEF With, Then

(* Where a clean path goes on after a character: with the element, or with  *)
(* another one after this one, which is none of the dots.                   *)
LEMMA CleanNext ==
  ASSUME NEW S, "/" \in S, NEW t \in Seq(S), IsClean(t), NEW n \in Nat, 0 < n, n < Len(t),
         NEW b \in Seq(S), NEW e \in Seq(S), With(b, e) = Upto(t, n),
         NEW c \in S, c = t[n + 1]
  PROVE  /\ With(b, Append(e, c)) = Upto(t, n + 1)
         /\ c = "/" => e \notin Dots /\ With(With(b, e), <<>>) = Upto(t, n + 1)
<1> DEFINE q == t \o Root
           i == Len(b) + 1
<1>2. Upto(t, n + 1) = Append(Upto(t, n), c)
  BY PrefixAppend DEF Upto
<1>3. /\ With(b, Append(e, c)) = Append(Upto(t, n), c)
      /\ With(With(b, e), <<>>) = Append(Upto(t, n), "/")
  <2>1. With(b, Then(e, c)) = Then(With(b, e), c)
    BY CatRootAppend
  <2>2. With(With(b, e), <<>>) = Then(With(b, e), "/")
    BY CatRootAppend
  <2> QED BY <2>1, <2>2, Zenon DEF Then
<1>6. ASSUME c = "/", e \in Dots PROVE FALSE
  <2>1. n \in 1 .. Len(t) /\ n + 1 \in 1 .. Len(t)
    OBVIOUS
  <2>2. i \in 1 .. n /\ q[i] = "/" /\ SubSeq(q, i + 1, n) = e
    BY <2>1, LastElement
  <2>3. Len(q) = Len(t) + 1 /\ \A k \in 1 .. Len(t) : q[k] = t[k]
    BY SlashAfter
  <2>4. \A j, k \in 1 .. Len(q) :
          j < k /\ q[j] = "/" /\ q[k] = "/" /\ SubSeq(q, j + 1, k - 1) \in Dots =>
            k = Len(q) /\ j = k - 1
    BY DEF IsClean
  <2> HIDE DEF q, i
  <2>5. PICK m : m = n + 1
    OBVIOUS
  <2>6. i \in 1 .. Len(q) /\ m \in 1 .. Len(q) /\ i < m /\ m - 1 = n /\ m # Len(q)
    BY <2>2, <2>3, <2>5
  <2>7. q[m] = "/"
    BY <1>6, <2>1, <2>3, <2>5
  <2>8. SubSeq(q, i + 1, m - 1) \in Dots
    BY <1>6, <2>2, <2>6
  <2> QED BY <2>2, <2>4, <2>6, <2>7, <2>8
<1> QED BY <1>2, <1>3, <1>6

(* While it scans a clean path Elements loses nothing of it.                *)
Kept(acc, t, n) == With(Joined(acc.done), acc.e) = Upto(t, n)

(* The scan keeps the slash a path begins with.                             *)
LEMMA KeptFirst ==
  ASSUME NEW S, "/" \in S, NEW t \in Seq(S), t # <<>>, t[1] = "/"
  PROVE  Kept(Scan([done |-> <<>>, e |-> <<>>], t[1]), t, 1)
<1>1. Scan([done |-> <<>>, e |-> <<>>], t[1]) = [done |-> <<>>, e |-> <<>>]
  BY DEF Scan, Resolve
<1>2. With(<<>>, <<>>) = <<"/">>
  BY DEF Root, With
<1>3. Upto(t, 1) = <<"/">>
  <2>1. Len(t) >= 1 /\ Len(SubSeq(t, 1, 1)) = 1 /\ SubSeq(t, 1, 1)[1] = t[1] /\ SubSeq(t, 1, 1) \in Seq(S)
    OBVIOUS
  <2>2. <<"/">> \in Seq(S) /\ Len(<<"/">>) = 1 /\ <<"/">>[1] = "/"
    OBVIOUS
  <2> DEFINE x == SubSeq(t, 1, 1)
             y == <<"/">>
  <2>3. \A k \in 1 .. Len(x) : x[k] = y[k]
    BY <2>1, <2>2
  <2> HIDE DEF x, y
  <2>4. x = y
    BY <2>1, <2>2, <2>3, SeqEqual DEF x, y
  <2> QED BY <2>4 DEF x, y, Upto
<1>4. PICK acc : acc = [done |-> <<>>, e |-> <<>>]
  OBVIOUS
<1>5. acc.done = <<>> /\ acc.e = <<>>
  BY <1>4
<1>6. Scan(acc, t[1]) = acc
  BY <1>1, <1>4, Zenon
<1>7. Kept(acc, t, 1)
  BY <1>2, <1>3, <1>5, JoinedEmpty, Zenon DEF Kept
<1> QED BY <1>4, <1>6, <1>7, Zenon

(* The scan keeps the next character.                                       *)
LEMMA KeptStep ==
  ASSUME NEW S, "/" \in S, NEW t \in Seq(S), IsClean(t), NEW n \in Nat, 0 < n, n < Len(t),
         NEW acc \in Scans(S), Kept(acc, t, n)
  PROVE  Kept(Scan(acc, t[n + 1]), t, n + 1)
<1>1. PICK done \in Seq(Names(S)), e \in Seq(S \ {"/"}) : acc = [done |-> done, e |-> e]
  <2> HIDE DEF Names
  <2> QED BY DEF Scans
<1>2. PICK b \in Seq(S) : b = Joined(done)
  BY JoinedIsClean
<1>3. e \in Seq(S) /\ With(b, e) = Upto(t, n)
  BY <1>1, <1>2 DEF Kept
<1>4. PICK c \in S : c = t[n + 1]
  OBVIOUS
<1>5. /\ With(b, Append(e, c)) = Upto(t, n + 1)
      /\ c = "/" => e \notin Dots /\ With(With(b, e), <<>>) = Upto(t, n + 1)
  BY <1>3, <1>4, CleanNext
<1>6. CASE c # "/"
  <2>1. Scan(acc, c) = [done |-> done, e |-> Append(e, c)]
    BY <1>1, <1>6 DEF Scan
  <2>2. [done |-> done, e |-> Append(e, c)].done = done /\ [done |-> done, e |-> Append(e, c)].e = Append(e, c)
    OBVIOUS
  <2> QED BY <1>2, <1>4, <1>5, <2>1, <2>2, Zenon DEF Kept
<1>7. CASE c = "/"
  <2>1. Scan(acc, c) = [done |-> Append(done, e), e |-> <<>>]
    BY <1>1, <1>5, <1>7 DEF Scan, Resolve, Dots
  <2>2. done \in Seq(Seq(S))
    BY DEF Names
  <2>3. Joined(Append(done, e)) = With(b, e)
    BY <1>2, <1>3, <2>2, JoinedAppend DEF With
  <2>4. PICK next : next = [done |-> Append(done, e), e |-> <<>>]
    OBVIOUS
  <2>5. next.done = Append(done, e) /\ next.e = <<>>
    BY <2>4
  <2> QED BY <1>4, <1>5, <1>7, <2>1, <2>3, <2>4, <2>5, Zenon DEF Kept
<1> QED BY <1>6, <1>7

(* So it keeps every prefix of a clean path.                                *)
LEMMA KeptUpto ==
  ASSUME NEW S, "/" \in S, NEW t \in Seq(S), IsClean(t), t # <<>>,
         NEW f, f[0] = [done |-> <<>>, e |-> <<>>],
         \A n \in 0 .. Len(t) : f[n + 1] = Scan(f[n], (t \o Root)[n + 1])
  PROVE  \A n \in 1 .. Len(t) : f[n] \in Scans(S) /\ Kept(f[n], t, n)
<1> DEFINE T == {n \in Nat : n \in 1 .. Len(t) => f[n] \in Scans(S) /\ Kept(f[n], t, n)}
           q == t \o Root
<1>1. \A n \in 0 .. Len(t) + 1 : f[n] \in Scans(S)
  BY ScansType
<1>2. q[1] = "/" /\ \A k \in 1 .. Len(t) : q[k] = t[k]
  BY SlashAfter DEF IsClean
<1>3. Len(t) \in Nat /\ Len(t) > 0
  OBVIOUS
<1> HIDE DEF q
<1>4. t[1] = "/"
  BY <1>2, <1>3
<1>5. 0 \in T
  OBVIOUS
<1>6. ASSUME NEW n \in Nat, n \in T PROVE n + 1 \in T
  <2> SUFFICES ASSUME n + 1 \in 1 .. Len(t) PROVE Kept(f[n + 1], t, n + 1)
    BY <1>1, <1>3
  <2>1. n \in 0 .. Len(t) /\ n < Len(t)
    BY <1>3
  <2>2. f[n + 1] = Scan(f[n], q[n + 1])
    BY <2>1 DEF q
  <2>3. q[n + 1] = t[n + 1]
    BY <1>2
  <2>4. CASE n = 0
    <3>1. f[1] = Scan([done |-> <<>>, e |-> <<>>], t[1])
      BY <2>2, <2>3, <2>4
    <3> QED BY <1>4, <2>4, <3>1, KeptFirst
  <2>5. CASE n # 0
    <3>1. n \in 1 .. Len(t) /\ 0 < n
      BY <2>1, <2>5
    <3>2. f[n] \in Scans(S) /\ Kept(f[n], t, n)
      BY <1>6, <3>1
    <3>3. PICK acc \in Scans(S) : acc = f[n]
      BY <3>2, Zenon
    <3>4. Kept(Scan(acc, t[n + 1]), t, n + 1)
      BY <2>1, <3>1, <3>2, <3>3, KeptStep
    <3> QED BY <2>2, <2>3, <3>3, <3>4
  <2> QED BY <2>4, <2>5
<1> HIDE DEF T
<1>7. Nat \subseteq T
  BY <1>5, <1>6, SetInduction
<1> QED BY <1>7 DEF T

(* The elements of a clean path make it, but for a slash at its end.        *)
LEMMA ElementsOfClean ==
  ASSUME NEW S, "/" \in S, NEW t \in Seq(S), IsClean(t), t # <<>>
  PROVE  \/ t = Joined(Elements(t)) /\ Elements(t) # <<>>
         \/ t = Joined(Elements(t)) \o Root
<1>1. PICK f : /\ f[0] = [done |-> <<>>, e |-> <<>>]
               /\ \A n \in 0 .. Len(t) : f[n + 1] = Scan(f[n], (t \o Root)[n + 1])
               /\ Elements(t) = f[Len(t) + 1].done
  BY ElementsScan
<1>2. PICK n : n = Len(t)
  OBVIOUS
<1>3. n \in Nat /\ 0 < n /\ n \in 1 .. Len(t) /\ n \in 0 .. Len(t)
  BY <1>2
<1>4. f[n] \in Scans(S) /\ Kept(f[n], t, n)
  BY <1>1, <1>3, KeptUpto
<1>5. f[n + 1] = Scan(f[n], "/") /\ Elements(t) = f[n + 1].done
  <2>1. (t \o Root)[Len(t) + 1] = "/"
    BY SlashAfter
  <2>2. (t \o Root)[n + 1] = "/"
    BY <1>2, <2>1
  <2> QED BY <1>1, <1>2, <1>3, <2>2
<1>6. PICK done \in Seq(Names(S)), e \in Seq(S \ {"/"}) : f[n] = [done |-> done, e |-> e]
  <2> HIDE DEF Names
  <2> QED BY <1>4 DEF Scans
<1>7. Elements(t) = Resolve(done, e)
  BY <1>5, <1>6 DEF Scan
<1>8. PICK b \in Seq(S) : b = Joined(done)
  BY JoinedIsClean
<1>9. Upto(t, n) = t
  BY <1>2 DEF Upto
<1>10. e \in Seq(S) /\ With(b, e) = t
  BY <1>4, <1>6, <1>8, <1>9 DEF Kept
<1>11. CASE e = <<>>
  <2>1. Elements(t) = done
    BY <1>7, <1>11 DEF Resolve
  <2>2. Root \o <<>> = Root
    BY DEF Root
  <2> QED BY <1>8, <1>10, <1>11, <2>1, <2>2 DEF With
<1>12. CASE e # <<>>
  <2>1. e \notin Dots
    <3> SUFFICES ASSUME e \in Dots PROVE FALSE
      OBVIOUS
    <3> DEFINE q == t \o Root
               i == Len(b) + 1
    <3>1. With(b, e) = Upto(t, n)
      BY <1>9, <1>10
    <3>a. e \in Seq(S) /\ n \in 1 .. Len(t)
      BY <1>3, <1>10
    <3>2. i \in 1 .. n /\ i = n - Len(e) /\ q[i] = "/" /\ SubSeq(q, i + 1, n) = e
      BY <3>1, <3>a, LastElement
    <3>3. Len(q) = Len(t) + 1 /\ q[Len(t) + 1] = "/"
      BY SlashAfter
    <3>4. \A j, k \in 1 .. Len(q) :
            j < k /\ q[j] = "/" /\ q[k] = "/" /\ SubSeq(q, j + 1, k - 1) \in Dots =>
              k = Len(q) /\ j = k - 1
      BY DEF IsClean
    <3> HIDE DEF q, i
    <3>5. PICK m : m = n + 1
      OBVIOUS
    <3>6. i \in 1 .. Len(q) /\ m \in 1 .. Len(q) /\ i < m /\ m - 1 = n /\ q[m] = "/"
      BY <1>2, <1>3, <3>2, <3>3, <3>5
    <3>7. i = m - 1
      BY <3>2, <3>4, <3>6
    <3>8. Len(e) = 0
      BY <1>3, <1>10, <3>2, <3>6, <3>7
    <3> QED BY <1>12, <3>8
  <2>2. Elements(t) = Append(done, e)
    BY <1>7, <2>1 DEF Resolve, Dots
  <2>3. done \in Seq(Seq(S))
    BY DEF Names
  <2>4. Joined(Append(done, e)) = b \o (Root \o e)
    BY <1>8, <1>10, <2>3, JoinedAppend
  <2>5. Append(done, e) # <<>>
    <3>1. e \in Seq(S)
      BY <1>10
    <3> QED BY <2>3, <3>1, AppendProperties, EmptySeq
  <2> QED BY <1>10, <2>2, <2>4, <2>5 DEF With
<1> QED BY <1>11, <1>12

(* Clean makes a path that begins with a slash.                             *)
LEMMA CleanType ==
  ASSUME NEW S, "/" \in S, NEW p \in Seq(S)
  PROVE  /\ Elements(p) \in Seq(Names(S))
         /\ Clean(p) = IF Elements(p) = <<>> THEN Root ELSE Joined(Elements(p))
         /\ Clean(p) \in Seq(S) /\ Clean(p) # <<>>
         /\ NoDots(Clean(p) \o Root) \/ Clean(p) = Root
         /\ Clean(p)[1] = "/"
         /\ Clean(p) # Root => Elements(p) # <<>> /\ Last(Clean(p)) # "/"
<1>1. PICK d \in Seq(Names(S)) : d = Elements(p)
  BY ElementsType, Zenon
<1>2. Clean(p) = IF d = <<>> THEN Root ELSE Joined(d)
  BY <1>1, Zenon DEF Clean, Joined
<1>3. CASE d = <<>>
  <2>1. Root \in Seq(S) /\ Root # <<>> /\ Root[1] = "/"
    BY DEF Root
  <2> QED BY <1>1, <1>2, <1>3, <2>1, Zenon
<1>4. CASE d # <<>>
  <2>1. /\ Joined(d) \in Seq(S) /\ NoDots(Joined(d) \o Root) /\ Len(Joined(d)) > 1
        /\ Joined(d)[1] = "/" /\ Joined(d)[Len(Joined(d))] # "/"
    BY <1>4, JoinedIsClean
  <2>2. Joined(d) # <<>>
    BY <2>1
  <2> QED BY <1>1, <1>2, <1>4, <2>1, <2>2, Zenon DEF Last
<1> QED BY <1>3, <1>4

(* A slash at the end is no dot.                                            *)
LEMMA SlashKeepsClean ==
  ASSUME NEW S, "/" \in S, NEW t \in Seq(S), t # <<>>, t[1] = "/", NoDots(t \o Root)
  PROVE  IsClean(t) /\ IsClean(t \o Root)
<1>1. PICK u \in Seq(S) : u = t \o Root
  BY SlashAfter, Zenon
<1>2. PICK r \in Seq(S) : r = u \o Root
  BY SlashAfter, Zenon
<1>3. /\ Len(u) = Len(t) + 1 /\ u[Len(t) + 1] = "/"
      /\ \A k \in 1 .. Len(t) : u[k] = t[k]
  BY <1>1, SlashAfter
<1>4. /\ Len(r) = Len(u) + 1
      /\ \A k \in 1 .. Len(u) : r[k] = u[k]
  BY <1>2, SlashAfter
<1>5. Len(t) \in Nat /\ Len(t) > 0
  OBVIOUS
<1>6. u[1] = "/" /\ r[1] = "/"
  BY <1>3, <1>4, <1>5
<1>7. IsClean(t)
  BY <1>1, <1>6, Zenon DEF IsClean, NoDots
<1>8. ASSUME NEW i \in 1 .. Len(r), NEW j \in 1 .. Len(r), i < j, r[i] = "/", r[j] = "/",
             SubSeq(r, i + 1, j - 1) \in Dots
      PROVE  j = Len(r) /\ i = j - 1
  <2> DEFINE b == SubSeq(r, i + 1, j - 1)
  <2>1. i + 1 \in Int /\ j - 1 \in Int /\ Len(r) \in Nat /\ Len(u) \in Nat
    OBVIOUS
  <2>2. \A k \in i + 1 .. j - 1 : k \in 1 .. Len(r)
    BY <2>1
  <2>3. \A k \in i + 1 .. j - 1 : r[k] \in S
    BY <2>2
  <2>4. b \in Seq(S) /\ Len(b) = j - 1 - i /\ \A k \in 1 .. Len(b) : b[k] = r[i + k]
    BY <1>8, <2>1, <2>3, SubSeqProperties
  <2> DEFINE a == SubSeq(u, i + 1, j - 1)
  <2>5. CASE j # Len(r)
    <3>1. j \in 1 .. Len(u) /\ i \in 1 .. Len(u)
      BY <1>4, <1>8, <2>1, <2>5
    <3>2. \A k \in i + 1 .. j - 1 : k \in 1 .. Len(u)
      BY <2>1, <3>1
    <3>3. \A k \in i + 1 .. j - 1 : u[k] \in S
      BY <3>2
    <3>4. a \in Seq(S) /\ Len(a) = j - 1 - i /\ \A k \in 1 .. Len(a) : a[k] = u[i + k]
      BY <1>8, <2>1, <3>3, SubSeqProperties
    <3>5. \A k \in 1 .. Len(a) : i + k \in 1 .. Len(u)
      BY <2>1, <3>1, <3>4
    <3>6. Len(a) = Len(b) /\ \A k \in 1 .. Len(a) : a[k] = b[k]
      BY <1>4, <2>4, <3>4, <3>5
    <3> HIDE DEF a, b
    <3>7. a = b
      BY <2>4, <3>4, <3>6, SeqEqual
    <3>8. u[i] = "/" /\ u[j] = "/"
      BY <1>4, <1>8, <3>1
    <3>9. NoDots(u)
      BY <1>1
    <3> QED BY <1>8, <3>1, <3>7, <3>8, <3>9 DEF a, b, NoDots
  <2>6. CASE j = Len(r) /\ i # j - 1
    <3>1. Len(u) - i \in 1 .. Len(b) /\ i + (Len(u) - i) = Len(u) /\ Len(u) \in 1 .. Len(u)
      BY <1>4, <1>8, <2>1, <2>4, <2>6
    <3>2. u[Len(u)] = "/"
      BY <1>3
    <3>3. b[Len(u) - i] = "/"
      BY <1>4, <2>4, <3>1, <3>2
    <3> HIDE DEF b
    <3> QED BY <1>8, <3>1, <3>3, DotsHaveNoSlash DEF b
  <2> QED BY <2>5, <2>6
<1>9. IsClean(u)
  BY <1>2, <1>6, <1>8, Zenon DEF IsClean
<1> QED BY <1>1, <1>7, <1>9, Zenon

(* The root is clean.                                                       *)
LEMMA RootIsClean == IsClean(Root)
<1>1. Root \in Seq({"/"}) /\ Len(Root) = 1 /\ Root[1] = "/"
  BY DEF Root
<1>2. PICK q : q = Root \o Root
  OBVIOUS
<1>3. Len(q) = 2 /\ q[1] = "/"
  <2>1. PICK S : S = {"/"}
    OBVIOUS
  <2>2. /\ Len(q) = Len(Root) + 1
        /\ \A k \in 1 .. Len(Root) : q[k] = Root[k]
    BY <1>1, <1>2, <2>1, SlashAfter
  <2> QED BY <1>1, <2>2
<1>4. \A i, j \in 1 .. Len(q) : i < j => j = Len(q) /\ i = j - 1
  BY <1>3
<1> HIDE DEF Dots
<1> QED BY <1>2, <1>3, <1>4, Zenon DEF IsClean

(* cleanPath makes every path a clean one, and keeps a slash at its end.    *)
LEMMA CleanPathIsClean ==
  ASSUME NEW S, "/" \in S, NEW p \in Seq(S)
  PROVE  /\ CleanPath(p) \in Seq(S)
         /\ CleanPath(p) # <<>>
         /\ IsClean(CleanPath(p))
         /\ p # <<>> /\ Last(p) = "/" => Last(CleanPath(p)) = "/"
<1> DEFINE q == IF p # <<>> /\ Head(p) = "/" THEN p ELSE Root \o p
<1>1. q \in Seq(S) /\ (p # <<>> /\ Last(p) = "/" => Last(q) = "/")
  <2>1. CASE p # <<>> /\ Head(p) = "/"
    BY <2>1
  <2>2. CASE ~ (p # <<>> /\ Head(p) = "/")
    <3>1. PICK r : r = Root \o p
      OBVIOUS
    <3>2. /\ r \in Seq(S) /\ Len(r) = 1 + Len(p)
          /\ \A k \in 1 .. Len(p) : r[1 + k] = p[k]
      BY <3>1, SlashBefore
    <3>3. p # <<>> => Len(p) \in 1 .. Len(p)
      OBVIOUS
    <3>4. p # <<>> => Last(r) = Last(p)
      BY <3>2, <3>3 DEF Last
    <3>5. q = r
      BY <2>2, <3>1
    <3> HIDE DEF q
    <3> QED BY <3>2, <3>4, <3>5
  <2> HIDE DEF q
  <2> QED BY <2>1, <2>2
<1>2. CleanPath(p) = IF Last(q) = "/" /\ Clean(q) # Root THEN Clean(q) \o Root ELSE Clean(q)
  BY Zenon DEF CleanPath
<1> HIDE DEF q
<1>3. PICK c \in Seq(S) : c = Clean(q)
  BY <1>1, CleanType, Zenon
<1>4. c # <<>> /\ c[1] = "/" /\ (NoDots(c \o Root) \/ c = Root)
  BY <1>1, <1>3, CleanType
<1>5. /\ c \o Root \in Seq(S)
      /\ Len(c \o Root) = Len(c) + 1
      /\ (c \o Root)[Len(c) + 1] = "/"
  BY SlashAfter
<1>6. Last(c \o Root) = "/" /\ c \o Root # <<>>
  <2>1. PICK r \in Seq(S) : r = c \o Root
    BY <1>5, Zenon
  <2>2. Len(r) = Len(c) + 1 /\ r[Len(c) + 1] = "/" /\ Len(c) \in Nat
    BY <1>5, <2>1
  <2>3. Last(r) = "/" /\ r # <<>>
    BY <2>2 DEF Last
  <2> QED BY <2>1, <2>3, Zenon
<1>7. IsClean(c) /\ (c # Root => IsClean(c \o Root))
  <2>1. c = Root => IsClean(c)
    BY RootIsClean, Zenon
  <2>2. c # Root => IsClean(c) /\ IsClean(c \o Root)
    BY <1>4, SlashKeepsClean
  <2> QED BY <2>1, <2>2, Zenon
<1>8. Last(Root) = "/"
  BY DEF Root, Last
<1>9. CASE Last(q) = "/" /\ c # Root
  <2>1. CleanPath(p) = c \o Root
    BY <1>2, <1>3, <1>9, Zenon
  <2> QED BY <1>5, <1>6, <1>7, <1>9, <2>1, Zenon
<1>10. CASE ~ (Last(q) = "/" /\ c # Root)
  <2>1. CleanPath(p) = c
    BY <1>2, <1>3, <1>10, Zenon
  <2> QED BY <1>1, <1>4, <1>7, <1>8, <1>10, <2>1, Zenon
<1> QED BY <1>9, <1>10

(* And leaves a clean path as it is.                                        *)
LEMMA CleanPathOfClean ==
  ASSUME NEW S, "/" \in S, NEW t \in Seq(S), t # <<>>, IsClean(t)
  PROVE  CleanPath(t) = t
<1>1. t[1] = "/" /\ Len(t) > 0
  <2>1. Len(t) > 0 /\ Len(t) \in Nat
    OBVIOUS
  <2>2. PICK q : q = t \o Root
    OBVIOUS
  <2>3. q[1] = t[1]
    BY <2>1, <2>2, SlashAfter
  <2> QED BY <2>1, <2>2, <2>3 DEF IsClean
<1>2. Head(t) = "/"
  BY <1>1
<1>3. CleanPath(t) = IF Last(t) = "/" /\ Clean(t) # Root THEN Clean(t) \o Root ELSE Clean(t)
  BY <1>2, Zenon DEF CleanPath
<1>4. PICK d : d = Elements(t)
  OBVIOUS
<1>5. Clean(t) = IF d = <<>> THEN Root ELSE Joined(d)
  BY <1>4, CleanType
<1>6. Clean(t) # Root => d # <<>> /\ Last(Clean(t)) # "/"
  BY <1>4, CleanType
<1>7. CASE t = Joined(d) /\ d # <<>>
  <2>1. Clean(t) = t
    BY <1>5, <1>7, Zenon
  <2> QED BY <1>3, <1>6, <2>1, Zenon
<1>8. CASE t = Joined(d) \o Root
  <2>1. CASE d = <<>>
    <3>1. t = Root
      <4>1. <<>> \o Root = Root
        BY DEF Root
      <4> QED BY <1>8, <2>1, <4>1, JoinedEmpty, Zenon
    <3> QED BY <1>3, <1>5, <2>1, <3>1, Zenon
  <2>2. CASE d # <<>>
    <3>1. PICK c \in Seq(S) : c = Clean(t)
      BY CleanType, Zenon
    <3>2. c # <<>> /\ c = Joined(d)
      BY <1>5, <2>2, <3>1, CleanType
    <3>3. c # Root
      <4>1. d \in Seq(Names(S))
        BY <1>4, CleanType
      <4>2. Len(c) > 1
        BY <2>2, <3>2, <4>1, JoinedIsClean
      <4>3. Len(Root) = 1
        BY DEF Root
      <4> SUFFICES ASSUME c = Root PROVE FALSE
        OBVIOUS
      <4>4. Len(c) = Len(Root)
        BY Zenon
      <4> QED BY <4>2, <4>3, <4>4
    <3>4. Last(t) = "/"
      <4>1. Len(c \o Root) = Len(c) + 1 /\ (c \o Root)[Len(c) + 1] = "/"
        BY SlashAfter
      <4>2. t = c \o Root
        BY <1>8, <3>2, Zenon
      <4> QED BY <4>1, <4>2, Zenon DEF Last
    <3> QED BY <1>3, <1>8, <3>1, <3>2, <3>3, <3>4, Zenon
  <2> QED BY <2>1, <2>2
<1> QED BY <1>4, <1>7, <1>8, ElementsOfClean

-----------------------------------------------------------------------------
(* The variables of a text are numbered from 1 without a gap.               *)
LEMMA NthNumbers ==
  ASSUME NEW S, NEW text \in Seq(S)
  PROVE  /\ IsFiniteSet(VarsAt(text))
         /\ Cardinality(VarsAt(text)) \in Nat
         /\ \A i \in VarsAt(text) : Nth(text, i) \in 1 .. Cardinality(VarsAt(text))
         /\ \A i, j \in VarsAt(text) : Nth(text, i) = Nth(text, j) => i = j
         /\ \A k \in 1 .. Cardinality(VarsAt(text)) : \E i \in VarsAt(text) : Nth(text, i) = k
<1> DEFINE V == VarsAt(text)
           n == Cardinality(V)
           U(i) == {j \in V : j <= i}
<1>1. V \subseteq 1 .. Len(text) /\ Len(text) \in Nat
  BY DEF VarsAt
<1>2. IsFiniteSet(1 .. Len(text))
  BY <1>1, FS_Interval
<1>3. IsFiniteSet(V)
  BY <1>1, <1>2, FS_Subset
<1>4. n \in Nat
  BY <1>3, FS_CardinalityType
<1> HIDE DEF V, n
<1>5. \A i \in V : IsFiniteSet(U(i)) /\ Cardinality(U(i)) \in Nat /\ U(i) \in SUBSET V
  <2> TAKE i \in V
  <2>1. U(i) \in SUBSET V
    OBVIOUS
  <2> QED BY <1>3, <2>1, FS_Subset, FS_CardinalityType
<1>6. \A i \in V : Cardinality(U(i)) \in 1 .. n
  <2> TAKE i \in V
  <2>1. i \in U(i)
    BY <1>1
  <2>2. Cardinality(U(i)) # 0
    BY <1>5, <2>1, FS_EmptySet
  <2>3. Cardinality(U(i)) <= n
    BY <1>3, <1>5, FS_Subset DEF n
  <2>4. PICK c \in Nat : c = Cardinality(U(i))
    BY <1>5, Zenon
  <2>5. c # 0 /\ c <= n
    BY <2>2, <2>3, <2>4, Zenon
  <2>6. c \in 1 .. n
    BY <1>4, <2>5
  <2> QED BY <2>4, <2>6, Zenon
<1>7. \A i, j \in V : i < j => Cardinality(U(i)) # Cardinality(U(j))
  <2> SUFFICES ASSUME NEW i \in V, NEW j \in V, i < j, Cardinality(U(j)) = Cardinality(U(i))
               PROVE  FALSE
    OBVIOUS
  <2>a. j <= j /\ ~ (j <= i) /\ \A x \in V : x <= i => x <= j
    BY <1>1
  <2>1. U(i) \in SUBSET U(j) /\ j \in U(j) /\ j \notin U(i)
    BY <2>a, Zenon
  <2>2. U(j) = U(i)
    BY <1>5, <2>1, FS_Subset
  <2> QED BY <2>1, <2>2
<1>8. \A i, j \in V : Cardinality(U(i)) = Cardinality(U(j)) => i = j
  <2> TAKE i, j \in V
  <2>1. i < j \/ j < i \/ i = j
    BY <1>1
  <2> QED BY <1>7, <2>1
<1>9. \A k \in 1 .. n : \E i \in V : Cardinality(U(i)) = k
  <2> DEFINE f == [i \in V |-> Cardinality(U(i))]
  <2>1. f \in [V -> 1 .. n]
    BY <1>6
  <2>2. \A i, j \in V : f[i] = f[j] => i = j
    BY <1>8
  <2>3. f \in Injection(V, 1 .. n)
    BY <2>1, <2>2 DEF Injection, IsInjective
  <2>4. IsFiniteSet(1 .. n) /\ Cardinality(1 .. n) = n
    BY <1>4, FS_Interval
  <2> HIDE DEF f
  <2>5. f \in Surjection(V, 1 .. n)
    BY <2>3, <2>4, FS_Injection DEF n
  <2>6. \A k \in 1 .. n : \E i \in V : f[i] = k
    BY <2>5 DEF Surjection
  <2> QED BY <2>6 DEF f
<1> QED BY <1>3, <1>4, <1>6, <1>8, <1>9 DEF V, n, Nth

(* The variables of a text, in their order.                                 *)
LEMMA VarsOfType ==
  ASSUME NEW S, NEW text \in Seq(S)
  PROVE  /\ VarsOf(text) \in Seq(Variable)
         /\ Len(VarsOf(text)) = Cardinality(VarsAt(text))
         /\ Len(VarsOf(text)) \in Nat
         /\ \A i \in VarsAt(text) : /\ Nth(text, i) \in 1 .. Len(VarsOf(text))
                                    /\ VarsOf(text)[Nth(text, i)] = text[i]
         /\ \A k \in 1 .. Len(VarsOf(text)) : \E i \in VarsAt(text) : VarsOf(text)[k] = text[i]
         /\ VarsAt(text) = {} <=> Len(VarsOf(text)) = 0
<1> DEFINE V == VarsAt(text)
           n == Cardinality(V)
           at(k) == CHOOSE i \in V : Nth(text, i) = k
<1>1. /\ IsFiniteSet(V) /\ n \in Nat
      /\ \A i \in V : Nth(text, i) \in 1 .. n
      /\ \A i, j \in V : Nth(text, i) = Nth(text, j) => i = j
      /\ \A k \in 1 .. n : \E i \in V : Nth(text, i) = k
  BY NthNumbers
<1>2. V = {} <=> n = 0
  BY <1>1, FS_EmptySet
<1>3. \A i \in V : text[i] \in Variable
  BY DEF VarsAt
<1> HIDE DEF V, n
<1>4. \A k \in 1 .. n : at(k) \in V /\ Nth(text, at(k)) = k
  BY <1>1, Zenon
<1>5. VarsOf(text) = [k \in 1 .. n |-> text[at(k)]]
  BY Zenon DEF VarsOf, V, n
<1>6. \A i \in V : at(Nth(text, i)) = i
  BY <1>1, <1>4, Zenon
<1> HIDE DEF at
<1>7. VarsOf(text) \in Seq(Variable) /\ Len(VarsOf(text)) = n
  BY <1>1, <1>3, <1>4, <1>5
<1>8. \A i \in V : VarsOf(text)[Nth(text, i)] = text[i]
  BY <1>1, <1>5, <1>6
<1>9. \A k \in 1 .. n : VarsOf(text)[k] = text[at(k)]
  BY <1>5
<1> QED BY <1>1, <1>2, <1>4, <1>7, <1>8, <1>9, Zenon DEF V, n

(* With values put into it a text still begins with what is before its      *)
(* variables, and is the same if it has none.                               *)
LEMMA SubstituteKeepsPrefix ==
  ASSUME NEW S, NEW text \in Seq(S),
         NEW values \in [1 .. Len(VarsOf(text)) -> Seq(S)]
  PROVE  /\ Substitute(text, values) \in Seq(S)
         /\ EntryPrefix(text) \in Seq(S)
         /\ IsPrefix(EntryPrefix(text), Substitute(text, values))
         /\ VarsAt(text) = {} => Substitute(text, values) = text /\ EntryPrefix(text) = text
<1> DEFINE V == VarsAt(text)
           piece(i) == IF text[i] \in Variable THEN values[Nth(text, i)] ELSE <<text[i]>>
           pieces == [i \in 1 .. Len(text) |-> piece(i)]
<1>1. \A i \in V : Nth(text, i) \in 1 .. Len(VarsOf(text))
  BY VarsOfType
<1>2. V \subseteq 1 .. Len(text) /\ \A i \in 1 .. Len(text) : i \in V <=> text[i] \in Variable
  BY DEF VarsAt
<1> HIDE DEF V
<1>3. \A i \in 1 .. Len(text) : piece(i) \in Seq(S) /\ (i \notin V => piece(i) = <<text[i]>>)
  <2> TAKE i \in 1 .. Len(text)
  <2>1. CASE i \in V
    BY <1>1, <1>2, <2>1
  <2>2. CASE i \notin V
    BY <1>2, <2>2
  <2> QED BY <2>1, <2>2
<1>4. Substitute(text, values) = FlattenSeq(pieces)
  BY Zenon DEF Substitute
<1> HIDE DEF piece
<1>5. pieces \in Seq(Seq(S)) /\ Len(pieces) = Len(text) /\ \A i \in 1 .. Len(text) : pieces[i] = piece(i)
  BY <1>3
<1>6. Substitute(text, values) \in Seq(S)
  BY <1>4, <1>5, FlattenType
<1> HIDE DEF pieces
<1>7. ASSUME NEW n \in 0 .. Len(text), \A i \in 1 .. n : i \notin V
      PROVE  /\ SubSeq(text, 1, n) \in Seq(S)
             /\ IsPrefix(SubSeq(text, 1, n), Substitute(text, values))
             /\ n = Len(text) => Substitute(text, values) = text
  <2> DEFINE a == SubSeq(pieces, 1, n)
             b == SubSeq(pieces, n + 1, Len(pieces))
             t == SubSeq(text, 1, n)
  <2>1. a \in Seq(Seq(S)) /\ b \in Seq(Seq(S)) /\ a \o b = pieces /\ t \in Seq(S)
    <3>1. n \in 0 .. Len(pieces) /\ pieces \in Seq(Seq(S))
      BY <1>5
    <3> QED BY <3>1, SplitSeq
  <2>2. a = [i \in 1 .. Len(t) |-> <<t[i]>>]
    BY <1>3, <1>5, <1>7
  <2> HIDE DEF a, b
  <2>3. FlattenSeq(a) = t
    <3> HIDE DEF t
    <3> QED BY <2>1, <2>2, FlattenCharacters
  <2>4. FlattenSeq(pieces) = FlattenSeq(a) \o FlattenSeq(b)
    BY <2>1, FlattenCat
  <2>5. FlattenSeq(b) \in Seq(S)
    BY <2>1, FlattenType
  <2>6. PICK y \in Seq(S) : y = FlattenSeq(b)
    BY <2>5, Zenon
  <2> HIDE DEF t
  <2>7. IsPrefix(t, t \o y)
    BY <2>1, PrefixOfCat
  <2>8. IsPrefix(t, Substitute(text, values))
    BY <1>4, <2>3, <2>4, <2>6, <2>7, Zenon
  <2>9. ASSUME n = Len(text) PROVE Substitute(text, values) = text
    <3>1. b = <<>> /\ t = text
      BY <1>5, <2>9 DEF b, t
    <3>2. t \o <<>> = t
      BY <2>1
    <3> QED BY <1>4, <2>3, <2>4, <3>1, <3>2, FlattenEmpty, Zenon
  <2> QED BY <2>1, <2>8, <2>9 DEF t
<1>8. CASE V = {}
  <2>1. EntryPrefix(text) = text
    BY <1>8 DEF EntryPrefix, V
  <2>2. Len(text) \in 0 .. Len(text) /\ SubSeq(text, 1, Len(text)) = text
    OBVIOUS
  <2>3. /\ IsPrefix(SubSeq(text, 1, Len(text)), Substitute(text, values))
        /\ Substitute(text, values) = text
    BY <1>7, <1>8, <2>2
  <2> QED BY <1>6, <2>1, <2>2, <2>3
<1>9. CASE V # {}
  <2>1. PICK m : m = Min(V)
    OBVIOUS
  <2>2. V \subseteq Nat
    BY <1>2
  <2>3. m \in V /\ \A y \in V : m <= y
    BY <1>9, <2>1, <2>2, MinOfPositions
  <2>4. EntryPrefix(text) = SubSeq(text, 1, m - 1)
    BY <1>9, <2>1, Zenon DEF EntryPrefix, V
  <2>5. m \in 1 .. Len(text)
    BY <1>2, <2>3
  <2>6. m - 1 \in 0 .. Len(text) /\ \A i \in 1 .. m - 1 : i \notin V
    BY <2>3, <2>5
  <2>7. PICK n \in 0 .. Len(text) : n = m - 1
    BY <2>6
  <2> QED BY <1>6, <1>7, <1>9, <2>4, <2>6, <2>7 DEF V
<1> QED BY <1>8, <1>9

-----------------------------------------------------------------------------
(* Of sequences of values of bounded length some is the longest: in its     *)
(* first value, then the second, and so on.                                 *)
LongestTo(s, all, n) ==
  \A t \in all, k \in 1 .. n :
    (\A j \in 1 .. k - 1 : Len(s[j]) = Len(t[j])) => Len(s[k]) >= Len(t[k])

LEMMA LongestExists ==
  ASSUME NEW n \in Nat, NEW L \in Nat, NEW all, all # {},
         \A s \in all, k \in 1 .. n : Len(s[k]) \in 0 .. L
  PROVE  \E s \in all : LongestTo(s, all, n)
<1> DEFINE T == {m \in Nat : m <= n => \E s \in all : LongestTo(s, all, m)}
<1>1. 0 \in T
  <2>1. \A s \in all : LongestTo(s, all, 0)
    BY DEF LongestTo
  <2> HIDE DEF LongestTo
  <2> QED BY <2>1
<1>2. ASSUME NEW m \in Nat, m \in T PROVE m + 1 \in T
  <2> SUFFICES ASSUME m + 1 <= n PROVE \E s \in all : LongestTo(s, all, m + 1)
    OBVIOUS
  <2>1. PICK s \in all : LongestTo(s, all, m)
    BY <1>2
  <2>2. PICK i : i = m + 1
    OBVIOUS
  <2>3. i \in 1 .. n /\ \A k \in 1 .. i : k \in 1 .. m \/ k = i
    BY <2>2
  <2> DEFINE U == {t \in all : \A j \in 1 .. m : Len(t[j]) = Len(s[j])}
             D == {Len(t[i]) : t \in U}
  <2>4. D \in SUBSET (0 .. L) /\ D # {}
    <3>1. s \in U
      OBVIOUS
    <3>2. \A t \in U : t \in all
      OBVIOUS
    <3> HIDE DEF U
    <3> QED BY <2>3, <3>1, <3>2
  <2> HIDE DEF D
  <2>5. Max(D) \in D /\ \A y \in D : Max(D) >= y
    BY <2>4, MaxOfPositions
  <2>6. PICK r \in U : Len(r[i]) = Max(D)
    BY <2>5 DEF D
  <2>7. ASSUME NEW t \in all, NEW k \in 1 .. i, \A j \in 1 .. k - 1 : Len(r[j]) = Len(t[j])
        PROVE  Len(r[k]) >= Len(t[k])
    <3>1. \A j \in 1 .. m : Len(r[j]) = Len(s[j])
      OBVIOUS
    <3>2. CASE k \in 1 .. m
      <4>1. \A j \in 1 .. k - 1 : j \in 1 .. m
        BY <3>2
      <4>2. \A j \in 1 .. k - 1 : Len(s[j]) = Len(t[j])
        BY <2>7, <3>1, <4>1, Zenon
      <4>3. Len(s[k]) >= Len(t[k])
        BY <2>1, <3>2, <4>2, Zenon DEF LongestTo
      <4> QED BY <3>1, <3>2, <4>3, Zenon
    <3>3. CASE k = i
      <4>1. \A j \in 1 .. m : j \in 1 .. k - 1
        BY <2>2, <3>3
      <4>2. \A j \in 1 .. m : Len(t[j]) = Len(s[j])
        BY <2>7, <3>1, <4>1, Zenon
      <4>3. t \in U
        BY <4>2
      <4>4. Len(t[i]) \in D
        BY <4>3, Zenon DEF D
      <4> QED BY <2>5, <2>6, <3>3, <4>4
    <3> QED BY <2>3, <3>2, <3>3
  <2>8. LongestTo(r, all, i)
    BY <2>7, Zenon DEF LongestTo
  <2>9. r \in all
    OBVIOUS
  <2> QED BY <2>2, <2>8, <2>9, Zenon
<1> HIDE DEF T
<1>3. Nat \subseteq T
  BY <1>1, <1>2, SetInduction
<1> QED BY <1>3 DEF T

(* Parts of a path are not empty and no longer than it.                     *)
LEMMA SubstringsType ==
  ASSUME NEW S, NEW path \in Seq(S), NEW chars, NEW t \in SubstringsOf(path, chars)
  PROVE  t \in Seq(S) /\ t # <<>> /\ Len(t) \in 0 .. Len(path)
<1>1. PICK i \in 1 .. Len(path), j \in 1 .. Len(path) : t = SubSeq(path, i, j)
  BY DEF SubstringsOf
<1>2. t # <<>>
  BY DEF SubstringsOf
<1>3. \A k \in i .. j : k \in 1 .. Len(path)
  OBVIOUS
<1>4. \A k \in i .. j : path[k] \in S
  BY <1>3
<1>5. t \in Seq(S) /\ Len(t) = IF i <= j THEN j - i + 1 ELSE 0
  BY <1>1, <1>4, SubSeqProperties
<1> QED BY <1>2, <1>5

(* What the values of a submatch are.                                       *)
LEMMA SubmatchesType ==
  ASSUME NEW S, NEW path \in Seq(S), NEW text \in Seq(S), NEW isPrefix,
         NEW s \in Submatches(text, isPrefix, path)
  PROVE  /\ s \in [1 .. Len(VarsOf(text)) -> Seq(S)]
         /\ \A k \in 1 .. Len(VarsOf(text)) : s[k] # <<>> /\ Len(s[k]) \in 0 .. Len(path)
         /\ Fits(Substitute(text, s), isPrefix, path)
<1> DEFINE occur == VarsOf(text)
           all == UNION {SubstringsOf(path, VarChars[v]) : v \in Range(occur)}
<1>1. s \in [1 .. Len(occur) -> all] /\ Fits(Substitute(text, s), isPrefix, path)
  BY Zenon DEF Submatches
<1>2. \A t \in all : t \in Seq(S) /\ t # <<>> /\ Len(t) \in 0 .. Len(path)
  BY SubstringsType
<1> HIDE DEF all, occur
<1>3. \A k \in 1 .. Len(occur) : s[k] \in all
  BY <1>1
<1>4. s \in [1 .. Len(occur) -> Seq(S)]
  BY <1>1, <1>2, <1>3
<1> QED BY <1>1, <1>2, <1>3, <1>4, Zenon DEF occur

(* Where there is a submatch, a longest one is found.                       *)
LEMMA FindStringSubmatchFinds ==
  ASSUME NEW S, NEW path \in Seq(S), NEW text \in Seq(S), NEW isPrefix,
         Submatches(text, isPrefix, path) # {}
  PROVE  FindStringSubmatch(text, isPrefix, path) \in Submatches(text, isPrefix, path)
<1> DEFINE all == Submatches(text, isPrefix, path)
           n == Len(VarsOf(text))
           Longest(s) == \A t \in all, k \in DOMAIN s :
                           (\A j \in 1 .. k - 1 : Len(s[j]) = Len(t[j])) => Len(s[k]) >= Len(t[k])
<1>1. \A s \in all : DOMAIN s = 1 .. n /\ \A k \in 1 .. n : Len(s[k]) \in 0 .. Len(path)
  <2> TAKE s \in all
  <2>1. s \in [1 .. n -> Seq(S)] /\ \A k \in 1 .. n : Len(s[k]) \in 0 .. Len(path)
    BY SubmatchesType, Zenon
  <2> QED BY <2>1, Zenon
<1>2. n \in Nat /\ Len(path) \in Nat
  BY VarsOfType
<1> HIDE DEF all, n
<1>3. \E s \in all : LongestTo(s, all, n)
  BY <1>1, <1>2, LongestExists DEF all
<1>4. \E s \in all : Longest(s)
  BY <1>1, <1>3, Zenon DEF LongestTo
<1>5. FindStringSubmatch(text, isPrefix, path) = CHOOSE s \in all : Longest(s)
  BY Zenon DEF FindStringSubmatch, all
<1> HIDE DEF Longest
<1> QED BY <1>4, <1>5, Zenon DEF all

-----------------------------------------------------------------------------
(* Each name has the position of its variable, and there are as many names  *)
(* as variables if each has one.                                            *)
LEMMA VarIndexPositions ==
  ASSUME NEW occur \in Seq(Variable), ~DuplicateVar(occur)
  PROVE  /\ \A k \in 1 .. Len(occur) : VarName[occur[k]] # "_" =>
              /\ VarName[occur[k]] \in DOMAIN VarIndex(occur)
              /\ VarIndex(occur)[VarName[occur[k]]] = k
         /\ Len(occur) = Cardinality(DOMAIN VarIndex(occur)) <=>
              \A k \in 1 .. Len(occur) : VarName[occur[k]] # "_"
<1> DEFINE n == Len(occur)
           N == {VarName[v] : v \in Range(occur)} \ {"_"}
           name(k) == VarName[occur[k]]
<1>1. n \in Nat
  OBVIOUS
<1>2. \A j, k \in 1 .. n : name(j) = name(k) /\ name(j) # "_" => j = k
  BY Zenon DEF DuplicateVar
<1>3. DOMAIN occur = 1 .. n
  OBVIOUS
<1>4. \A x : x \in N <=> x # "_" /\ \E k \in 1 .. n : x = name(k)
  BY <1>3, Zenon DEF Range
<1>5. /\ DOMAIN VarIndex(occur) = N
      /\ \A x \in N : VarIndex(occur)[x] = CHOOSE k \in 1 .. n : name(k) = x
  BY Zenon DEF VarIndex
<1> HIDE DEF N, n, name
<1>6. ASSUME NEW k \in 1 .. n, name(k) # "_" PROVE name(k) \in N /\ VarIndex(occur)[name(k)] = k
  <2>1. name(k) \in N
    BY <1>4, <1>6
  <2> DEFINE i == CHOOSE j \in 1 .. n : name(j) = name(k)
  <2>2. i \in 1 .. n /\ name(i) = name(k)
    BY Zenon
  <2>3. i = k
    BY <1>2, <1>6, <2>2, Zenon
  <2> QED BY <1>5, <2>1, <2>3, Zenon
<1> DEFINE K == {k \in 1 .. n : name(k) # "_"}
           f == [k \in K |-> name(k)]
<1>7. f \in Bijection(K, N)
  <2>1. f \in [K -> N]
    BY <1>6
  <2>2. \A j, k \in K : f[j] = f[k] => j = k
    BY <1>2
  <2>3. \A x \in N : \E k \in K : f[k] = x
    BY <1>4
  <2> HIDE DEF f
  <2> QED BY <2>1, <2>2, <2>3 DEF Bijection, Injection, Surjection, IsInjective
<1>8. IsFiniteSet(1 .. n) /\ Cardinality(1 .. n) = n /\ K \in SUBSET (1 .. n)
  <2>1. K \in SUBSET (1 .. n)
    OBVIOUS
  <2> HIDE DEF K
  <2> QED BY <1>1, <2>1, FS_Interval
<1>9. IsFiniteSet(K) /\ Cardinality(K) <= n /\ (n = Cardinality(K) => K = 1 .. n)
  <2> HIDE DEF K
  <2> QED BY <1>8, FS_Subset
<1>10. Cardinality(N) = Cardinality(K)
  <2> HIDE DEF K, f
  <2>1. ExistsBijection(K, N)
    BY <1>7 DEF ExistsBijection
  <2> QED BY <1>9, <2>1, FS_Bijection
<1>11. n = Cardinality(N) <=> K = 1 .. n
  <2> HIDE DEF K
  <2> QED BY <1>8, <1>9, <1>10
<1>12. K = 1 .. n <=> \A k \in 1 .. n : name(k) # "_"
  OBVIOUS
<1> QED BY <1>5, <1>6, <1>11, <1>12, Zenon DEF n, name

(* The text of a route is the one its pattern describes.                    *)
LEMMA LiteralType ==
  ASSUME NEW S, NEW p, p.text \in Seq(S), ~ParseFails(p)
  PROVE  /\ Literal(p.text) \in Seq(S)
         /\ Literal(p.text) = Described(p)
         /\ p.text # <<>>
<1>1. p.text # <<>>
  BY DEF ParseFails, Range
<1>2. Len(p.text) \in Nat /\ Len(p.text) > 0
  BY <1>1
<1>3. Front(p.text) \in Seq(S)
  <2>1. Len(p.text) - 1 \in 0 .. Len(p.text)
    BY <1>2
  <2>2. SubSeq(p.text, 1, Len(p.text) - 1) \in Seq(S)
    BY <2>1, SplitSeq
  <2> QED BY <2>2 DEF Front
<1> QED BY <1>1, <1>3, Zenon DEF Literal, Described

(* The conditions a route keeps are those of its pattern.                   *)
LEMMA ConditionsDescribed ==
  ASSUME NEW p, p.conds \in Seq(Range(p.conds)), ~ParseFails(p), NEW method \in Verb
  PROVE  LET c == ParseCondFlags(p.conds).flags
             f == ParseCondFlags(<<method>>).flags
         IN  c = {} \/ c \cap f # {} <=> p.conds \in {<<>>, <<"*">>} \/ method \in Range(p.conds)
<1> DEFINE R == Range(p.conds)
<1>1. ParseCondFlags(p.conds).flags = R \cap Method
  BY DEF ParseCondFlags
<1>2. ParseCondFlags(<<method>>).flags = {method} \cap Method
  <2>1. Range(<<method>>) = {method}
    BY DEF Range
  <2> QED BY <2>1 DEF ParseCondFlags
<1>3. R \subseteq Method \/ p.conds = <<"*">>
  <2>1. ~ParseCondFlags(p.conds).err
    BY DEF ParseFails
  <2> QED BY <2>1 DEF ParseCondFlags
<1>4. R = {} <=> p.conds = <<>>
  <2>1. R = {p.conds[i] : i \in 1 .. Len(p.conds)}
    BY DEF Range
  <2>2. p.conds = <<>> => R = {}
    BY <2>1
  <2>3. p.conds # <<>> => 1 \in 1 .. Len(p.conds)
    OBVIOUS
  <2> HIDE DEF R
  <2> QED BY <2>1, <2>2, <2>3
<1>5. CASE p.conds = <<"*">>
  <2>1. R = {"*"}
    BY <1>5 DEF Range
  <2> QED BY <1>1, <1>5, <2>1, MethodAssumption
<1>6. CASE p.conds # <<"*">>
  <2> HIDE DEF R
  <2> QED BY <1>1, <1>2, <1>3, <1>4, <1>6 DEF R
<1> QED BY <1>5, <1>6

(* The route that Add makes of a pattern.                                   *)
RouteOf(p) == Route(ParseCondFlags(p.conds).flags, p.text, p)

(* Its fields.                                                              *)
LEMMA RouteFields ==
  ASSUME NEW p
  PROVE  /\ RouteOf(p).Conditions = ParseCondFlags(p.conds).flags
         /\ RouteOf(p).Pattern = Literal(p.text)
         /\ RouteOf(p).Vars = VarIndex(VarsOf(Literal(p.text)))
         /\ RouteOf(p).EntryPrefix = EntryPrefix(Literal(p.text))
         /\ RouteOf(p).IsPrefix = (Last(p.text) = "/")
         /\ RouteOf(p).Handler = p
BY DEF RouteOf, Route

(* Without variables there is one submatch at most.                         *)
LEMMA SubmatchesOfPlain ==
  ASSUME NEW S, NEW path \in Seq(S), NEW text \in Seq(S), NEW isPrefix, VarsAt(text) = {}
  PROVE  Submatches(text, isPrefix, path) # {} <=> Fits(text, isPrefix, path)
<1> DEFINE occur == VarsOf(text)
           all == UNION {SubstringsOf(path, VarChars[v]) : v \in Range(occur)}
<1>1. Len(occur) = 0
  BY VarsOfType
<1>2. \A s \in [1 .. Len(occur) -> all] : Substitute(text, s) = text
  <2> TAKE s \in [1 .. Len(occur) -> all]
  <2> HIDE DEF all
  <2>1. s \in [1 .. Len(VarsOf(text)) -> Seq(S)]
    BY <1>1
  <2> QED BY <2>1, SubstituteKeepsPrefix
<1>3. Submatches(text, isPrefix, path)
        = {s \in [1 .. Len(occur) -> all] :
             /\ \A k \in 1 .. Len(occur) : Range(s[k]) \subseteq VarChars[occur[k]]
             /\ Fits(Substitute(text, s), isPrefix, path)}
  BY Zenon DEF Submatches
<1> HIDE DEF occur, all
<1>4. \A k \in 1 .. Len(occur) : FALSE
  BY <1>1
<1>5. \E s : s \in [1 .. Len(occur) -> all]
  <2>1. [k \in 1 .. Len(occur) |-> k] \in [1 .. Len(occur) -> all]
    BY <1>4
  <2> QED BY <2>1, Zenon
<1> QED BY <1>2, <1>3, <1>4, <1>5, Zenon

(* A route matches what its pattern describes.                              *)
LEMMA MatchesDescribed ==
  ASSUME NEW S, NEW p, p.text \in Seq(S), p.conds \in Seq(Range(p.conds)), ~ParseFails(p),
         NEW method \in Verb, NEW path \in Seq(S)
  PROVE  MatchesRoute(RouteOf(p), ParseCondFlags(<<method>>).flags, path) <=> Describes(p, method, path)
<1> DEFINE flags == ParseCondFlags(<<method>>).flags
           isP == Last(p.text) = "/"
<1>0. PICK text \in Seq(S) : text = Literal(p.text)
  BY LiteralType, Zenon
<1>1. text = Described(p)
  BY <1>0, LiteralType
<1>2. PICK occur \in Seq(Variable) : occur = VarsOf(text)
  BY VarsOfType, Zenon
<1>3. ~DuplicateVar(occur)
  BY <1>0, <1>2, Zenon DEF ParseFails
<1> DEFINE C == ParseCondFlags(p.conds).flags = {} \/ ParseCondFlags(p.conds).flags \cap flags # {}
           M == Submatches(text, isP, path) # {}
           N == \A i \in VarsAt(text) : VarName[text[i]] # "_"
<1>4. Describes(p, method, path) <=> C /\ M /\ N
  <2>1. C <=> p.conds \in {<<>>, <<"*">>} \/ method \in Range(p.conds)
    BY ConditionsDescribed, Zenon
  <2> HIDE DEF C
  <2> QED BY <1>1, <2>1, Zenon DEF Describes
<1>5. MatchesRoute(RouteOf(p), flags, path) <=>
        /\ C
        /\ IsPrefix(EntryPrefix(text), path)
        /\ IF VarsAt(text) = {} THEN isP \/ path = EntryPrefix(text)
           ELSE M /\ Len(occur) = Cardinality(DOMAIN VarIndex(occur))
  BY <1>0, <1>2, RouteFields, Zenon DEF MatchesRoute
<1> HIDE DEF C, flags
<1>6. ASSUME VarsAt(text) = {}
      PROVE  MatchesRoute(RouteOf(p), flags, path) <=> Describes(p, method, path)
  <2>1. M <=> Fits(text, isP, path)
    BY <1>6, SubmatchesOfPlain
  <2>2. EntryPrefix(text) = text
    BY <1>6 DEF EntryPrefix
  <2>3. IsPrefix(path, path)
    BY SelfPrefix
  <2>4. Fits(text, isP, path) <=> IsPrefix(text, path) /\ (isP \/ path = text)
    BY <2>3, Zenon DEF Fits
  <2>5. N
    BY <1>6
  <2> HIDE DEF M, N, isP
  <2> QED BY <1>4, <1>5, <1>6, <2>1, <2>2, <2>4, <2>5, Zenon
<1>7. ASSUME VarsAt(text) # {}
      PROVE  MatchesRoute(RouteOf(p), flags, path) <=> Describes(p, method, path)
  <2>1. M => IsPrefix(EntryPrefix(text), path)
    <3> SUFFICES ASSUME NEW s \in Submatches(text, isP, path) PROVE IsPrefix(EntryPrefix(text), path)
      BY Zenon
    <3>1. s \in [1 .. Len(VarsOf(text)) -> Seq(S)] /\ Fits(Substitute(text, s), isP, path)
      BY SubmatchesType, Zenon
    <3>2. PICK e \in Seq(S) : e = EntryPrefix(text)
      BY <3>1, SubstituteKeepsPrefix, Zenon
    <3>3. PICK t \in Seq(S) : t = Substitute(text, s)
      BY <3>1, SubstituteKeepsPrefix, Zenon
    <3>4. IsPrefix(e, t)
      BY <3>1, <3>2, <3>3, SubstituteKeepsPrefix
    <3>5. IsPrefix(t, path) \/ t = path
      BY <3>1, <3>3, Zenon DEF Fits
    <3>6. IsPrefix(e, path)
      BY <3>4, <3>5, PrefixTransitive
    <3> QED BY <3>2, <3>6
  <2>2. Len(occur) = Cardinality(DOMAIN VarIndex(occur)) <=> \A k \in 1 .. Len(occur) : VarName[occur[k]] # "_"
    BY <1>3, VarIndexPositions
  <2>3. N <=> \A k \in 1 .. Len(occur) : VarName[occur[k]] # "_"
    <3>1. /\ \A i \in VarsAt(text) : \E k \in 1 .. Len(occur) : occur[k] = text[i]
          /\ \A k \in 1 .. Len(occur) : \E i \in VarsAt(text) : occur[k] = text[i]
      BY <1>2, VarsOfType, Zenon
    <3>2. ASSUME N, NEW k \in 1 .. Len(occur) PROVE VarName[occur[k]] # "_"
      <4>1. PICK i \in VarsAt(text) : occur[k] = text[i]
        BY <3>1
      <4> QED BY <3>2, <4>1
    <3>3. ASSUME \A k \in 1 .. Len(occur) : VarName[occur[k]] # "_", NEW i \in VarsAt(text)
          PROVE  VarName[text[i]] # "_"
      <4>1. PICK k \in 1 .. Len(occur) : occur[k] = text[i]
        BY <3>1
      <4> QED BY <3>3, <4>1
    <3> QED BY <3>2, <3>3, Zenon
  <2> HIDE DEF M, N, isP
  <2> QED BY <1>4, <1>5, <1>7, <2>1, <2>2, <2>3, Zenon
<1> QED BY <1>6, <1>7 DEF flags

(* The values of match m put in pattern p make a path.                      *)
ValuesMake(S, p, m, path) ==
  LET occur == VarsOf(Described(p))
  IN  /\ m.values \in [1 .. Len(occur) -> Seq(S)]
      /\ \A k \in 1 .. Len(occur) : m.values[k] # <<>>
      /\ \A k \in 1 .. Len(occur) : MatchVar(m, VarName[occur[k]]) = m.values[k]
      /\ Fits(Substitute(Described(p), m.values), Last(p.text) = "/", path)

LEMMA MatchFits ==
  ASSUME NEW S, NEW p, p.text \in Seq(S), p.conds \in Seq(Range(p.conds)), ~ParseFails(p),
         NEW method \in Verb, NEW path \in Seq(S),
         MatchesRoute(RouteOf(p), ParseCondFlags(<<method>>).flags, path),
         NEW m, m = Match(RouteOf(p), path)
  PROVE  ValuesMake(S, p, m, path)
<1> DEFINE isP == Last(p.text) = "/"
<1>0. PICK text \in Seq(S) : text = Literal(p.text)
  BY LiteralType, Zenon
<1>1. text = Described(p)
  BY <1>0, LiteralType
<1>2. PICK occur \in Seq(Variable) : occur = VarsOf(text)
  BY VarsOfType, Zenon
<1>3. ~DuplicateVar(occur)
  BY <1>0, <1>2, Zenon DEF ParseFails
<1>4. /\ m.Route = RouteOf(p)
      /\ m.values = IF VarsAt(text) = {} THEN <<>> ELSE FindStringSubmatch(text, isP, path)
  <2>1. /\ m.Route = RouteOf(p)
        /\ m.values = IF VarsAt(RouteOf(p).Pattern) = {} THEN <<>>
                      ELSE FindStringSubmatch(RouteOf(p).Pattern, RouteOf(p).IsPrefix, path)
    BY DEF Match
  <2> QED BY <1>0, <2>1, RouteFields, Zenon
<1>5. Describes(p, method, path)
  BY MatchesDescribed
<1>6. Submatches(text, isP, path) # {} /\ \A i \in VarsAt(text) : VarName[text[i]] # "_"
  BY <1>1, <1>5, Zenon DEF Describes
<1>7. /\ m.values \in [1 .. Len(occur) -> Seq(S)]
      /\ \A k \in 1 .. Len(occur) : m.values[k] # <<>>
      /\ Fits(Substitute(text, m.values), isP, path)
  <2>1. CASE VarsAt(text) = {}
    <3>1. Len(occur) = 0 /\ m.values = <<>>
      BY <1>2, <1>4, <2>1, VarsOfType
    <3>2. m.values \in [1 .. Len(VarsOf(text)) -> Seq(S)] /\ \A k \in 1 .. Len(occur) : FALSE
      BY <1>2, <3>1
    <3>3. Substitute(text, m.values) = text
      BY <2>1, <3>2, SubstituteKeepsPrefix
    <3>4. Fits(text, isP, path)
      BY <1>6, <2>1, SubmatchesOfPlain
    <3> QED BY <1>2, <3>2, <3>3, <3>4, Zenon
  <2>2. CASE VarsAt(text) # {}
    <3>1. m.values = FindStringSubmatch(text, isP, path)
      BY <1>4, <2>2, Zenon
    <3>2. m.values \in Submatches(text, isP, path)
      BY <1>6, <3>1, FindStringSubmatchFinds
    <3>3. PICK s \in Submatches(text, isP, path) : s = m.values
      BY <3>2, Zenon
    <3>4. /\ s \in [1 .. Len(VarsOf(text)) -> Seq(S)]
          /\ \A k \in 1 .. Len(VarsOf(text)) : s[k] # <<>>
          /\ Fits(Substitute(text, s), isP, path)
      <4> HIDE DEF isP
      <4> QED BY SubmatchesType, Zenon
    <3> QED BY <1>2, <3>3, <3>4, Zenon
  <2> QED BY <2>1, <2>2
<1>8. \A k \in 1 .. Len(occur) : MatchVar(m, VarName[occur[k]]) = m.values[k]
  <2> TAKE k \in 1 .. Len(occur)
  <2>1. m.Route.Vars = VarIndex(occur)
    BY <1>0, <1>2, <1>4, RouteFields, Zenon
  <2>2. VarName[occur[k]] # "_"
    <3>1. \E i \in VarsAt(text) : occur[k] = text[i]
      BY <1>2, VarsOfType, Zenon
    <3> QED BY <1>6, <3>1, Zenon
  <2>3. VarName[occur[k]] \in DOMAIN VarIndex(occur) /\ VarIndex(occur)[VarName[occur[k]]] = k
    BY <1>3, <2>2, VarIndexPositions
  <2> QED BY <2>1, <2>3, Zenon DEF MatchVar
<1> QED BY <1>1, <1>2, <1>7, <1>8, Zenon DEF ValuesMake

-----------------------------------------------------------------------------
(* The routes of the table, and the method and path a request is matched by. *)
RoutesInv ==
  routes \in Seq({Route(ParseCondFlags(p.conds).flags, p.text, p) : p \in {q \in Patterns : ~ParseFails(q)}})

Served(request) ==
  FirstMatch(routes, ParseCondFlags(<<request.method>>).flags, RelativeTo(base, request.path))

(* What a request has become is what ServeHTTP made of it, and the location *)
(* of a redirect to a cleaner URL is one that is not redirected again.      *)
HandlerInv ==
  InHandler =>
    /\ ~OutsideOf(base, tx.request.path)
    /\ tx.match = Served(tx.request) /\ tx.match # NoMatch
    /\ Cleans(tx.request) => CleanPath(tx.request.path) = tx.request.path

AnswerInv ==
  IsAnswered =>
    /\ tx.answer \in Answers
    /\ tx.code \in {0, 200, 301, 302, 303, 307, 308, 400, 404, 500}
    /\ tx.answer \in {"404", "files"} =>
         ~OutsideOf(base, tx.request.path) /\ Served(tx.request) = NoMatch
    /\ tx.answer = "clean" =>
         /\ tx.location = CleanPath(tx.request.path)
         /\ tx.request.hops = 0 /\ Cleans(tx.request) /\ tx.code = 301
    /\ tx.answer \in Redirects => tx.location = Target

TxInv ==
  /\ tx.phase \in {"waiting", "handler", "answered"}
  /\ tx.phase # "waiting" => tx.request \in Requests
  /\ HandlerInv
  /\ AnswerInv

DispatchInv == BaseInv /\ RoutesInv /\ HeaderInv /\ TxInv

(* What an answer is.                                                       *)
LEMMA AnswerFields ==
  ASSUME NEW request, NEW answer, NEW code, NEW location, Answer(request, answer, code, location)
  PROVE  /\ IsAnswered' /\ ~InHandler' /\ tx'.phase = "answered" /\ tx'.request = request
         /\ tx'.answer = answer /\ tx'.code = code /\ tx'.location = location
BY DEF Answer, IsAnswered, InHandler

(* ServeHTTP keeps what is known of a request, if it cleans the path of     *)
(* none that a redirect to a clean path led to.                             *)
LEMMA ServeHTTPInv ==
  ASSUME NEW request \in Requests, ServeHTTP(request),
         request.hops = 0 \/ (Cleans(request) /\ CleanPath(request.path) = request.path)
  PROVE  TxInv'
<1> DEFINE clean == IF Cleans(request) THEN CleanPath(request.path) ELSE request.path
           flags == ParseCondFlags(<<request.method>>).flags
           m == FirstMatch(routes, flags, RelativeTo(base, request.path))
           Given(answer, code) ==
             /\ code \in {0, 400, 404, 500}
             /\ answer \in {"not allowed", "gotalk", "500", "404", "files"}
             /\ answer \in {"404", "files"} => ~OutsideOf(base, request.path) /\ m = NoMatch
<1>1. /\ \/ Answer(request, "not allowed", 400, <<>>)
         \/ clean # request.path /\ Answer(request, "clean", 301, clean)
         \/ Answer(request, "gotalk", 0, <<>>)
         \/ clean = request.path /\ MaybeServeHTTP(request)
      /\ UNCHANGED <<base, routes>>
  BY Zenon DEF ServeHTTP
<1>2. MaybeServeHTTP(request) =>
        \/ Answer(request, "500", 500, <<>>)
        \/ /\ ~OutsideOf(base, request.path) /\ m = NoMatch
           /\ Answer(request, "404", 404, <<>>) \/ Answer(request, "files", 0, <<>>)
        \/ /\ ~OutsideOf(base, request.path) /\ m # NoMatch
           /\ tx' = [phase |-> "handler", request |-> request, match |-> m]
  BY Zenon DEF MaybeServeHTTP
<1>3. Served(request)' = m
  BY <1>1 DEF Served
<1>4. OutsideOf(base, request.path)' = OutsideOf(base, request.path)
  BY <1>1 DEF OutsideOf
<1> HIDE DEF m, flags
<1> DEFINE Stops == \E answer, code, location : Answer(request, answer, code, location) /\ Given(answer, code)
<1>5. ASSUME Stops PROVE TxInv'
  <2>0. PICK answer, code, location : Answer(request, answer, code, location) /\ Given(answer, code)
    BY <1>5
  <2>1. /\ IsAnswered' /\ ~InHandler' /\ tx'.phase = "answered" /\ tx'.request = request
        /\ tx'.answer = answer /\ tx'.code = code
    <3>1. Answer(request, answer, code, location)
      BY <2>0
    <3> QED BY <3>1, AnswerFields
  <2>2. answer \in Answers \ Redirects /\ answer # "clean"
    BY <2>0 DEF Answers, Redirects
  <2>3. code \in {0, 200, 301, 302, 303, 307, 308, 400, 404, 500}
    BY <2>0
  <2>4. answer \in {"404", "files"} =>
          ~OutsideOf(base, tx.request.path)' /\ (Served(tx.request) = NoMatch)'
    <3>1. Served(tx.request)' = m /\ OutsideOf(base, tx.request.path)' = OutsideOf(base, request.path)
      BY <1>3, <1>4, <2>1, Zenon
    <3>2. NoMatch' = NoMatch
      BY DEF NoMatch
    <3> QED BY <2>0, <3>1, <3>2, Zenon
  <2>5. AnswerInv'
    BY <2>1, <2>2, <2>3, <2>4, Zenon DEF AnswerInv
  <2>6. HandlerInv'
    BY <2>1, Zenon DEF HandlerInv
  <2> QED BY <2>1, <2>5, <2>6 DEF TxInv
<1>6. CASE clean # request.path /\ Answer(request, "clean", 301, clean)
  <2>1. Cleans(request) /\ clean = CleanPath(request.path) /\ request.hops = 0
    BY <1>6
  <2>2. /\ IsAnswered' /\ ~InHandler' /\ tx'.phase = "answered" /\ tx'.request = request
        /\ tx'.answer = "clean" /\ tx'.code = 301 /\ tx'.location = CleanPath(request.path)
    BY <1>6, <2>1, AnswerFields
  <2>3. Cleans(tx.request)'
    BY <2>1, <2>2 DEF Cleans
  <2>4. AnswerInv'
    BY <2>1, <2>2, <2>3 DEF AnswerInv, Answers, Redirects
  <2>5. HandlerInv'
    BY <2>2, Zenon DEF HandlerInv
  <2> QED BY <2>2, <2>4, <2>5 DEF TxInv
<1>7. CASE /\ clean = request.path /\ ~OutsideOf(base, request.path) /\ m # NoMatch
           /\ tx' = [phase |-> "handler", request |-> request, match |-> m]
  <2>1. tx'.phase = "handler" /\ tx'.request = request /\ tx'.match = m
    BY <1>7
  <2>2. InHandler' /\ ~IsAnswered'
    BY <2>1 DEF InHandler, IsAnswered
  <2>3. Cleans(tx.request)' => CleanPath(request.path) = request.path
    BY <1>7, <2>1 DEF Cleans
  <2>4. HandlerInv'
    BY <1>3, <1>4, <1>7, <2>1, <2>3, Zenon DEF HandlerInv
  <2>5. AnswerInv'
    BY <2>2, Zenon DEF AnswerInv
  <2> QED BY <2>1, <2>4, <2>5 DEF TxInv
<1> HIDE DEF clean, Given
<1>8. CASE Answer(request, "not allowed", 400, <<>>)
  <2>1. Given("not allowed", 400)
    BY DEF Given
  <2>2. Stops
    <3>1. PICK answer, code : answer = "not allowed" /\ code = 400
      OBVIOUS
    <3>2. Answer(request, answer, code, <<>>) /\ Given(answer, code)
      BY <1>8, <2>1, <3>1
    <3> QED BY <3>2, Zenon
  <2> QED BY <1>5, <2>2, Zenon
<1>9. CASE Answer(request, "gotalk", 0, <<>>)
  <2>1. Given("gotalk", 0)
    BY DEF Given
  <2>2. Stops
    <3> WITNESS "gotalk", 0, <<>>
    <3> QED BY <1>9, <2>1
  <2> QED BY <1>5, <2>2, Zenon
<1>10. CASE Answer(request, "500", 500, <<>>)
  <2>1. Given("500", 500)
    BY DEF Given
  <2>2. Stops
    <3> WITNESS "500", 500, <<>>
    <3> QED BY <1>10, <2>1
  <2> QED BY <1>5, <2>2, Zenon
<1>11. CASE /\ ~OutsideOf(base, request.path) /\ m = NoMatch
            /\ Answer(request, "404", 404, <<>>) \/ Answer(request, "files", 0, <<>>)
  <2>1. Given("404", 404) /\ Given("files", 0)
    BY <1>11 DEF Given
  <2>2. Stops
    BY <1>11, <2>1
  <2> QED BY <1>5, <2>2, Zenon
<1> QED BY <1>1, <1>2, <1>6, <1>7, <1>8, <1>9, <1>10, <1>11, Zenon

(* What a request is.                                                       *)
LEMMA RequestType ==
  ASSUME NEW request \in Requests
  PROVE  /\ request.method \in Verb /\ request.path \in Seq(PathChars)
         /\ request.recent \in BOOLEAN /\ request.hops \in Nat
BY DEF Requests

(* No step breaks what is known of the routes and of the request.           *)
LEMMA DispatchInvStep == ASSUME DispatchInv, [Next]_vars PROVE TxInv' /\ RoutesInv'
<1>1. "/" \in PathChars
  BY DEF PathChars
<1>2. CASE UNCHANGED <<base, routes, tx>>
  BY <1>2 DEF DispatchInv, RoutesInv, TxInv, HandlerInv, AnswerInv, InHandler, IsAnswered, Served,
               OutsideOf, Cleans
<1>3. ASSUME NEW p \in Patterns, Add(p) PROVE TxInv' /\ RoutesInv'
  <2>1. tx.phase = "waiting" /\ tx' = tx /\ routes' = AddRoute(routes, p)
    BY <1>3 DEF Add
  <2>2. TxInv'
    BY <2>1 DEF TxInv, HandlerInv, AnswerInv, InHandler, IsAnswered
  <2>3. RoutesInv'
    <3>1. CASE ParseFails(p)
      BY <2>1, <3>1 DEF AddRoute, DispatchInv, RoutesInv
    <3>2. CASE ~ParseFails(p)
      <4> DEFINE r == Route(ParseCondFlags(p.conds).flags, p.text, p)
                 Rs == {Route(ParseCondFlags(q.conds).flags, q.text, q) : q \in {q \in Patterns : ~ParseFails(q)}}
      <4>1. r \in Rs
        BY <3>2
      <4>2. routes' = Append(routes, r) /\ routes \in Seq(Rs)
        BY <2>1, <3>2 DEF AddRoute, DispatchInv, RoutesInv
      <4> HIDE DEF r, Rs
      <4>3. routes' \in Seq(Rs)
        BY <4>1, <4>2
      <4> QED BY <4>3 DEF RoutesInv, Rs
    <3> QED BY <3>1, <3>2
  <2> QED BY <2>2, <2>3
<1>4. ASSUME NEW method \in Verb, NEW path \in Paths, NEW recent \in BOOLEAN,
             Request(method, path, recent)
      PROVE  TxInv' /\ RoutesInv'
  <2>1. PICK request : request = [method |-> method, path |-> path, recent |-> recent, hops |-> 0]
    OBVIOUS
  <2>2. request \in Requests /\ request.hops = 0
    BY <2>1, PathAssumption DEF Requests
  <2>3. ServeHTTP(request)
    BY <1>4, <2>1, Zenon DEF Request
  <2>4. routes' = routes
    BY <2>3 DEF ServeHTTP
  <2> QED BY <2>2, <2>3, <2>4, ServeHTTPInv DEF DispatchInv, RoutesInv
<1>5. ASSUME NEW answer, NEW code \in {200, 301, 302, 303, 307, 308}, NEW location,
             InHandler, Answer(tx.request, answer, code, location),
             answer = "handled" \/ (answer \in Redirects /\ location = Target)
      PROVE  TxInv'
  <2>1. /\ IsAnswered' /\ ~InHandler' /\ tx'.phase = "answered" /\ tx'.request = tx.request
        /\ tx'.answer = answer /\ tx'.code = code /\ tx'.location = location
    BY <1>5, AnswerFields
  <2>2. tx.request \in Requests
    BY <1>5 DEF DispatchInv, TxInv, InHandler
  <2>3. answer \in Answers /\ answer \notin {"404", "files", "clean"} /\ (answer \in Redirects => location = Target)
    BY <1>5 DEF Answers, Redirects
  <2>4. AnswerInv'
    BY <1>5, <2>1, <2>3 DEF AnswerInv
  <2>5. HandlerInv'
    BY <2>1, Zenon DEF HandlerInv
  <2> QED BY <2>1, <2>2, <2>4, <2>5 DEF TxInv
<1>6. ASSUME NEW kind \in Redirects, Redirect(kind) PROVE TxInv' /\ RoutesInv'
  <2>1. PICK code \in RedirectCodes(kind, tx.request.recent) : Answer(tx.request, kind, code, Target)
    BY <1>6 DEF Redirect
  <2>2. code \in {200, 301, 302, 303, 307, 308}
    BY <2>1 DEF RedirectCodes
  <2>3. InHandler /\ routes' = routes
    BY <1>6 DEF Redirect
  <2> QED BY <1>5, <2>1, <2>2, <2>3 DEF DispatchInv, RoutesInv
<1>7. CASE Return
  <2>1. InHandler /\ Answer(tx.request, "handled", 200, <<>>) /\ routes' = routes
    BY <1>7 DEF Return
  <2>2. TxInv'
    <3>1. 200 \in {200, 301, 302, 303, 307, 308}
      OBVIOUS
    <3> QED BY <1>5, <2>1, <3>1, Zenon
  <2> QED BY <2>1, <2>2 DEF DispatchInv, RoutesInv
<1>8. CASE Follow
  <2>1. IsAnswered /\ tx.answer \in Redirects \cup {"clean"} /\ tx.request \in Requests /\ AnswerInv
    BY <1>8 DEF Follow, DispatchInv, TxInv, IsAnswered
  <2>2. PICK method \in NextMethods(tx.request.method, tx.code) :
          ServeHTTP([method |-> method, path |-> tx.location, recent |-> tx.request.recent,
                     hops |-> IF tx.answer = "clean" THEN tx.request.hops + 1 ELSE 0])
    BY <1>8 DEF Follow
  <2>3. /\ tx.request.method \in Verb /\ tx.request.path \in Seq(PathChars)
        /\ tx.request.recent \in BOOLEAN /\ tx.request.hops \in Nat
    BY <2>1, RequestType
  <2>4. method \in {tx.request.method, "GET"} /\ method \in Verb
    BY <2>2, <2>3, MethodAssumption DEF NextMethods, Verb
  <2>5. CASE tx.answer = "clean"
    <3>1. tx.location = CleanPath(tx.request.path) /\ tx.request.hops = 0 /\ Cleans(tx.request)
      BY <2>1, <2>5 DEF AnswerInv
    <3>2. PICK path \in Seq(PathChars) : path = tx.location
      BY <1>1, <2>3, <3>1, CleanPathIsClean, Zenon
    <3>3. path # <<>> /\ IsClean(path)
      BY <1>1, <2>3, <3>1, <3>2, CleanPathIsClean
    <3>4. CleanPath(path) = path
      BY <1>1, <3>3, CleanPathOfClean
    <3>5. PICK request : request = [method |-> method, path |-> path, recent |-> tx.request.recent,
                                    hops |-> tx.request.hops + 1]
      OBVIOUS
    <3>6. request \in Requests
      BY <2>3, <2>4, <3>5 DEF Requests
    <3>7. Cleans(request) /\ request.path = path
      BY <2>4, <3>1, <3>5 DEF Cleans
    <3>8. ServeHTTP(request)
      BY <2>2, <2>5, <3>2, <3>5, Zenon
    <3>9. routes' = routes
      BY <3>8 DEF ServeHTTP
    <3>10. TxInv'
      BY <3>4, <3>6, <3>7, <3>8, ServeHTTPInv
    <3> QED BY <3>9, <3>10 DEF DispatchInv, RoutesInv
  <2>6. CASE tx.answer \in Redirects
    <3>1. tx.location = Target /\ tx.answer # "clean"
      BY <2>1, <2>6 DEF AnswerInv, Redirects
    <3>2. PICK request : request = [method |-> method, path |-> Target, recent |-> tx.request.recent,
                                    hops |-> 0]
      OBVIOUS
    <3>3. request \in Requests /\ request.hops = 0
      BY <2>3, <2>4, <3>2, PathAssumption DEF Requests
    <3>4. ServeHTTP(request)
      BY <2>2, <3>1, <3>2, Zenon
    <3>5. routes' = routes
      BY <3>4 DEF ServeHTTP
    <3>6. TxInv'
      BY <3>3, <3>4, ServeHTTPInv
    <3> QED BY <3>5, <3>6 DEF DispatchInv, RoutesInv
  <2> QED BY <2>1, <2>5, <2>6
<1>9. CASE Done
  <2>1. tx' = Waiting /\ routes' = routes
    BY <1>9 DEF Done
  <2>2. TxInv'
    BY <2>1 DEF TxInv, HandlerInv, AnswerInv, InHandler, IsAnswered, Waiting
  <2> QED BY <2>1, <2>2 DEF DispatchInv, RoutesInv
<1>10. ASSUME NEW line \in Lines, SetCookie(line) PROVE TxInv' /\ RoutesInv'
  BY <1>2, <1>10 DEF SetCookie
<1>11. CASE UNCHANGED vars
  BY <1>2, <1>11 DEF vars
<1> QED BY <1>3, <1>4, <1>6, <1>7, <1>8, <1>9, <1>10, <1>11 DEF Next

(* The inductive invariant holds.                                           *)
LEMMA DispatchIsInv == Spec => []DispatchInv
<1>1. Init => DispatchInv
  <2> SUFFICES ASSUME Init PROVE DispatchInv
    OBVIOUS
  <2>1. BaseInv
    BY BasePathAssumption DEF Init, BaseInv, BasePathSettles
  <2>2. HeaderInv
    BY NoCookies DEF Init, HeaderInv, CookiesByName
  <2>3. RoutesInv
    BY DEF Init, RoutesInv
  <2>4. TxInv
    BY DEF Init, TxInv, HandlerInv, AnswerInv, InHandler, IsAnswered, Waiting
  <2> QED BY <2>1, <2>2, <2>3, <2>4 DEF DispatchInv
<1>2. DispatchInv /\ [Next]_vars => DispatchInv'
  BY BaseInvStep, HeaderInvStep, DispatchInvStep DEF DispatchInv
<1> QED BY <1>1, <1>2, PTL DEF Spec

(* What begins with the base path is the base path and the path under it. *)
LEMMA RelativePath ==
  ASSUME NEW S, NEW T, NEW b \in Seq(S), NEW path \in Seq(T), ~OutsideOf(b, path)
  PROVE  RelativeTo(b, path) \in Seq(T) /\ b \o RelativeTo(b, path) = path
<1>1. Len(b) <= Len(path) /\ SubSeq(b, 1, Len(b)) = SubSeq(path, 1, Len(b))
  BY DEF OutsideOf, IsPrefix
<1>2. Len(b) \in 0 .. Len(path)
  BY <1>1
<1>3. SubSeq(b, 1, Len(b)) = b
  OBVIOUS
<1>4. /\ SubSeq(path, Len(b) + 1, Len(path)) \in Seq(T)
      /\ SubSeq(path, 1, Len(b)) \o SubSeq(path, Len(b) + 1, Len(path)) = path
  BY <1>2, SplitSeq
<1> QED BY <1>1, <1>3, <1>4, Zenon DEF RelativeTo

(* A match is told from none.                                               *)
LEMMA MatchIsAMatch == ASSUME NEW r, NEW path PROVE Match(r, path) # NoMatch
<1>1. "Route" \in DOMAIN Match(r, path)
  BY DEF Match
<1>2. "Route" \notin DOMAIN NoMatch
  BY DEF NoMatch
<1> QED BY <1>1, <1>2

(* The search ends at the first route that matches, or at the end. *)
LEMMA FirstMatchFirst ==
  ASSUME NEW rs, Len(rs) \in Nat, NEW flags, NEW path
  PROVE  \/ /\ FirstMatch(rs, flags, path) = NoMatch
            /\ \A i \in 1 .. Len(rs) : ~MatchesRoute(rs[i], flags, path)
         \/ \E i \in 1 .. Len(rs) :
              /\ FirstMatch(rs, flags, path) = Match(rs[i], path)
              /\ FirstMatch(rs, flags, path) # NoMatch
              /\ MatchesRoute(rs[i], flags, path)
              /\ \A j \in 1 .. i - 1 : ~MatchesRoute(rs[j], flags, path)
<1> DEFINE found == Matching(rs, flags, path)
<1>1. found \subseteq 1 .. Len(rs) /\ \A i \in 1 .. Len(rs) : i \in found <=> MatchesRoute(rs[i], flags, path)
  BY DEF Matching
<1> HIDE DEF found
<1>2. CASE found = {}
  <2>1. FirstMatch(rs, flags, path) = NoMatch
    BY <1>2, Zenon DEF FirstMatch, found
  <2> QED BY <1>1, <1>2, <2>1
<1>3. CASE found # {}
  <2>1. found \subseteq Nat
    BY <1>1
  <2>2. Min(found) \in found /\ \A y \in found : Min(found) <= y
    BY <1>3, <2>1, MinOfPositions
  <2>3. PICK i \in found : i = Min(found)
    BY <2>2, Zenon
  <2>4. FirstMatch(rs, flags, path) = Match(rs[i], path)
    BY <1>3, <2>3, Zenon DEF FirstMatch, found
  <2>5. i \in 1 .. Len(rs) /\ MatchesRoute(rs[i], flags, path)
    BY <1>1, <2>3
  <2>6. \A j \in 1 .. i - 1 : ~MatchesRoute(rs[j], flags, path)
    BY <1>1, <2>2, <2>3, <2>5
  <2> QED BY <2>4, <2>5, <2>6, MatchIsAMatch, Zenon
<1> QED BY <1>2, <1>3

(* The characters of paths and texts. *)
AllChars == PathChars \cup UNION {Range(p.text) : p \in Patterns}

(* Texts and paths are of these.                                            *)
LEMMA AllCharsType ==
  /\ \A p \in Patterns : p.text \in Seq(AllChars) /\ p.conds \in Seq(Range(p.conds))
  /\ \A path \in Seq(PathChars) : path \in Seq(AllChars)
<1>1. ASSUME NEW p \in Patterns PROVE p.text \in Seq(AllChars)
  <2>1. p.text \in Seq(Range(p.text)) /\ Range(p.text) \subseteq AllChars
    BY PatternAssumption DEF AllChars
  <2> QED BY <2>1
<1>2. PathChars \subseteq AllChars
  BY DEF AllChars
<1> HIDE DEF AllChars
<1>3. \A path \in Seq(PathChars) : path \in Seq(AllChars)
  BY <1>2
<1> QED BY <1>1, <1>3, PatternAssumption

(* A route of the table is made of the pattern its handler was added for.   *)
LEMMA RoutesHavePatterns ==
  ASSUME RoutesInv, NEW i \in 1 .. Len(routes)
  PROVE  /\ routes[i].Handler \in Patterns /\ ~ParseFails(routes[i].Handler)
         /\ routes[i] = RouteOf(routes[i].Handler)
<1> DEFINE Rs == {Route(ParseCondFlags(p.conds).flags, p.text, p) : p \in {q \in Patterns : ~ParseFails(q)}}
<1>1. routes \in Seq(Rs)
  BY DEF RoutesInv
<1> HIDE DEF Rs
<1>2. routes[i] \in Rs
  BY <1>1
<1>3. PICK p \in Patterns : ~ParseFails(p) /\ routes[i] = RouteOf(p)
  BY <1>2, Zenon DEF Rs, RouteOf
<1>4. routes[i].Handler = p
  BY <1>3, RouteFields, Zenon
<1> QED BY <1>3, <1>4, Zenon

(* Router.Match finds a route under the base path when its pattern          *)
(* describes the path there.                                                *)
LEMMA RoutesAreDescribed ==
  ASSUME BaseInv, RoutesInv, NEW request \in Requests, ~OutsideOf(base, request.path)
  PROVE  /\ RelativeTo(base, request.path) \in Seq(AllChars)
         /\ base \o RelativeTo(base, request.path) = request.path
         /\ \A i \in 1 .. Len(routes) :
              MatchesRoute(routes[i], ParseCondFlags(<<request.method>>).flags, RelativeTo(base, request.path))
                <=> Describes(routes[i].Handler, request.method, RelativeTo(base, request.path))
<1>1. request.method \in Verb /\ request.path \in Seq(PathChars)
  BY RequestType
<1>2. base \in Seq(Chars)
  BY DEF BaseInv
<1>3. RelativeTo(base, request.path) \in Seq(PathChars) /\ base \o RelativeTo(base, request.path) = request.path
  BY <1>1, <1>2, RelativePath
<1>4. PICK path \in Seq(AllChars) : path = RelativeTo(base, request.path)
  BY <1>3, AllCharsType, Zenon
<1>5. ASSUME NEW i \in 1 .. Len(routes)
      PROVE  MatchesRoute(routes[i], ParseCondFlags(<<request.method>>).flags, path)
                <=> Describes(routes[i].Handler, request.method, path)
  <2>1. PICK p \in Patterns : p = routes[i].Handler /\ ~ParseFails(p) /\ routes[i] = RouteOf(p)
    BY RoutesHavePatterns, Zenon
  <2>2. p.text \in Seq(AllChars) /\ p.conds \in Seq(Range(p.conds))
    BY AllCharsType, Zenon
  <2>3. MatchesRoute(RouteOf(p), ParseCondFlags(<<request.method>>).flags, path)
          <=> Describes(p, request.method, path)
    BY <1>1, <2>1, <2>2, MatchesDescribed
  <2> QED BY <2>1, <2>3, Zenon
<1> QED BY <1>3, <1>4, <1>5, Zenon
-----------------------------------------------------------------------------

(* Whatever URL is requested, in whatever way a client got there, a handler *)
(* only sees a clean path (Server.ServeHTTP, cleanPath); by                 *)
(* CleanPathIsClean and CleanPathOfClean, which are proved for every path   *)
(* by induction over its characters.                                        *)
THEOREM HandlersSeeCleanPaths == Spec => []HandlerSeesCleanPath
<1>1. DispatchInv => HandlerSeesCleanPath
  <2> SUFFICES ASSUME DispatchInv, InHandler, tx.request.method # "CONNECT"
               PROVE  IsClean(tx.request.path)
    BY DEF HandlerSeesCleanPath
  <2>1. tx.request \in Requests /\ CleanPath(tx.request.path) = tx.request.path
    BY DEF DispatchInv, TxInv, HandlerInv, Cleans, InHandler
  <2>2. tx.request.path \in Seq(PathChars)
    BY <2>1, RequestType
  <2>3. "/" \in PathChars
    BY DEF PathChars
  <2>4. IsClean(CleanPath(tx.request.path))
    BY <2>2, <2>3, CleanPathIsClean
  <2> QED BY <2>1, <2>4, Zenon
<1> QED BY <1>1, DispatchIsInv, PTL

(* No redirect to a cleaner URL leads to another one, and it keeps the      *)
(* slash at the end of a path (Server.ServeHTTP, cleanPath).                *)
THEOREM CleanPathsAreFinal == Spec => []RedirectedOnce
<1>1. DispatchInv => RedirectedOnce
  <2> SUFFICES ASSUME DispatchInv, IsAnswered, tx.answer = "clean"
               PROVE  /\ tx.request.hops = 0
                      /\ tx.request.path # <<>> /\ Last(tx.request.path) = "/" => Last(tx.location) = "/"
    BY DEF RedirectedOnce
  <2>1. /\ tx.request \in Requests /\ tx.request.hops = 0
        /\ tx.location = CleanPath(tx.request.path)
    BY DEF DispatchInv, TxInv, AnswerInv, IsAnswered
  <2>2. tx.request.path \in Seq(PathChars)
    BY <2>1, RequestType
  <2>3. "/" \in PathChars
    BY DEF PathChars
  <2>4. tx.request.path # <<>> /\ Last(tx.request.path) = "/" => Last(CleanPath(tx.request.path)) = "/"
    BY <2>2, <2>3, CleanPathIsClean
  <2> QED BY <2>1, <2>4, Zenon
<1> QED BY <1>1, DispatchIsInv, PTL

(* Whatever patterns were added, and whichever of them failed, the handler  *)
(* of a request is the one of the first pattern that describes its path,    *)
(* and a request without a handler has no such pattern (Router.Add,         *)
(* Route.Parse, Router.Match).                                              *)
THEOREM FirstPatternServes == Spec => []ServedByFirst
<1>1. ASSUME DispatchInv, NEW request \in Requests, ~OutsideOf(base, request.path)
      PROVE  LET path == RelativeTo(base, request.path) IN
             \/ /\ Served(request) = NoMatch
                /\ \A i \in 1 .. Len(routes) : ~Describes(routes[i].Handler, request.method, path)
             \/ \E i \in 1 .. Len(routes) :
                  /\ Served(request) = Match(routes[i], path) /\ Served(request) # NoMatch
                  /\ Describes(routes[i].Handler, request.method, path)
                  /\ \A j \in 1 .. i - 1 : ~Describes(routes[j].Handler, request.method, path)
  <2> DEFINE flags == ParseCondFlags(<<request.method>>).flags
             path == RelativeTo(base, request.path)
             D(i) == Describes(routes[i].Handler, request.method, path)
             M(i) == MatchesRoute(routes[i], flags, path)
  <2>1. Len(routes) \in Nat
    BY DEF DispatchInv, RoutesInv
  <2>2. \A i \in 1 .. Len(routes) : M(i) <=> D(i)
    BY <1>1, RoutesAreDescribed, Zenon DEF DispatchInv
  <2>3. \/ /\ Served(request) = NoMatch
           /\ \A i \in 1 .. Len(routes) : ~M(i)
        \/ \E i \in 1 .. Len(routes) :
             /\ Served(request) = Match(routes[i], path) /\ Served(request) # NoMatch
             /\ M(i) /\ \A j \in 1 .. i - 1 : ~M(j)
    BY <2>1, FirstMatchFirst, Zenon DEF Served
  <2> HIDE DEF D, M
  <2>4. \A i \in 1 .. Len(routes) : \A j \in 1 .. i - 1 : j \in 1 .. Len(routes)
    BY <2>1
  <2>5. \/ /\ Served(request) = NoMatch
           /\ \A i \in 1 .. Len(routes) : ~D(i)
        \/ \E i \in 1 .. Len(routes) :
             /\ Served(request) = Match(routes[i], path) /\ Served(request) # NoMatch
             /\ D(i) /\ \A j \in 1 .. i - 1 : ~D(j)
    BY <2>2, <2>3, <2>4, Zenon
  <2> QED BY <2>5, Zenon DEF D
<1>2. DispatchInv => ServedByFirst
  <2> SUFFICES ASSUME DispatchInv PROVE ServedByFirst
    OBVIOUS
  <2>1. ASSUME InHandler
        PROVE  \E i \in 1 .. Len(routes) :
                 /\ tx.match.Route = routes[i]
                 /\ Describes(routes[i].Handler, tx.request.method, Path)
                 /\ \A j \in 1 .. i - 1 : ~Describes(routes[j].Handler, tx.request.method, Path)
    <3>1. /\ tx.request \in Requests /\ ~OutsideOf(base, tx.request.path)
          /\ tx.match = Served(tx.request) /\ tx.match # NoMatch
      BY <2>1 DEF DispatchInv, TxInv, HandlerInv, InHandler
    <3>2. PICK i \in 1 .. Len(routes) :
            /\ Served(tx.request) = Match(routes[i], Path)
            /\ Describes(routes[i].Handler, tx.request.method, Path)
            /\ \A j \in 1 .. i - 1 : ~Describes(routes[j].Handler, tx.request.method, Path)
      BY <1>1, <3>1, Zenon DEF Path
    <3>3. tx.match.Route = routes[i]
      BY <3>1, <3>2 DEF Match
    <3> QED BY <3>2, <3>3, Zenon
  <2>2. ASSUME IsAnswered, tx.answer \in {"404", "files"}
        PROVE  \A i \in 1 .. Len(routes) : ~Describes(routes[i].Handler, tx.request.method, Path)
    <3>1. /\ tx.request \in Requests /\ ~OutsideOf(base, tx.request.path)
          /\ Served(tx.request) = NoMatch
      BY <2>2 DEF DispatchInv, TxInv, AnswerInv, IsAnswered
    <3> QED BY <1>1, <3>1, Zenon DEF Path
  <2> QED BY <2>1, <2>2, Zenon DEF ServedByFirst
<1> QED BY <1>2, DispatchIsInv, PTL

(* A handler runs with the match of its pattern and the path under the base. *)
LEMMA HandlerMatch ==
  ASSUME DispatchInv, InHandler
  PROVE  \E p \in Patterns :
           LET occur == VarsOf(Described(p)) IN
           /\ tx.match = Match(RouteOf(p), Path)
           /\ base \o Path = tx.request.path
           /\ Len(occur) \in Nat
           /\ tx.match.values \in [1 .. Len(occur) -> Seq(AllChars)]
           /\ \A k \in 1 .. Len(occur) : tx.match.values[k] # <<>>
           /\ \A k \in 1 .. Len(occur) : MatchVar(tx.match, VarName[occur[k]]) = tx.match.values[k]
           /\ Fits(Substitute(Described(p), tx.match.values), Last(p.text) = "/", Path)
<1>1. /\ tx.request \in Requests /\ ~OutsideOf(base, tx.request.path)
      /\ tx.match = Served(tx.request) /\ tx.match # NoMatch
  BY DEF DispatchInv, TxInv, HandlerInv, InHandler
<1>2. Len(routes) \in Nat
  BY DEF DispatchInv, RoutesInv
<1>3. PICK i \in 1 .. Len(routes) :
        /\ tx.match = Match(routes[i], Path)
        /\ MatchesRoute(routes[i], ParseCondFlags(<<tx.request.method>>).flags, Path)
  BY <1>1, <1>2, FirstMatchFirst, Zenon DEF Served, Path
<1>4. PICK p \in Patterns : ~ParseFails(p) /\ routes[i] = RouteOf(p)
  BY RoutesHavePatterns DEF DispatchInv
<1>5. PICK path \in Seq(AllChars) : path = Path
  <2>1. Path \in Seq(AllChars)
    BY <1>1, RoutesAreDescribed DEF DispatchInv, Path
  <2> QED BY <2>1, Zenon
<1>6. base \o Path = tx.request.path
  BY <1>1, RoutesAreDescribed DEF DispatchInv, Path
<1>7. PICK method \in Verb : method = tx.request.method
  BY <1>1, RequestType, Zenon
<1>8. p.text \in Seq(AllChars) /\ p.conds \in Seq(Range(p.conds))
  BY AllCharsType
<1>9. PICK m : m = tx.match
  OBVIOUS
<1>10. m = Match(RouteOf(p), path) /\ MatchesRoute(RouteOf(p), ParseCondFlags(<<method>>).flags, path)
  BY <1>3, <1>4, <1>5, <1>7, <1>9, Zenon
<1> DEFINE occur == VarsOf(Described(p))
<1>11. ValuesMake(AllChars, p, m, path)
  <2>1. m = Match(RouteOf(p), path)
    BY <1>10
  <2>2. MatchesRoute(RouteOf(p), ParseCondFlags(<<method>>).flags, path)
    BY <1>10
  <2>3. ~ParseFails(p)
    BY <1>4
  <2>4. p.text \in Seq(AllChars)
    BY <1>8
  <2>5. p.conds \in Seq(Range(p.conds))
    BY <1>8
  <2> QED BY <2>1, <2>2, <2>3, <2>4, <2>5, MatchFits
<1>12. Len(occur) \in Nat
  <2>1. Described(p) \in Seq(AllChars)
    BY <1>4, <1>8, LiteralType
  <2> QED BY <2>1, VarsOfType
<1> HIDE DEF occur
<1> QED BY <1>5, <1>6, <1>9, <1>10, <1>11, <1>12, Zenon DEF occur, ValuesMake

(* Whatever the variables of a pattern may be made of, the values a handler *)
(* reads make the path it serves (Route.Parse, Match.Var).                  *)
THEOREM VarsMakeThePath == Spec => []VarsMakePath
<1>1. ASSUME DispatchInv, InHandler
      PROVE  LET p     == tx.match.Route.Handler
                 occur == VarsOf(Described(p))
             IN  /\ base \o tx.match.Path = tx.request.path
                 /\ Fits(Substitute(Described(p),
                                    [k \in 1 .. Len(occur) |-> MatchVar(tx.match, VarName[occur[k]])]),
                         Last(p.text) = "/", tx.match.Path)
  <2>1. PICK p \in Patterns :
           LET occur == VarsOf(Described(p)) IN
           /\ tx.match = Match(RouteOf(p), Path)
           /\ base \o Path = tx.request.path
           /\ tx.match.values \in [1 .. Len(occur) -> Seq(AllChars)]
           /\ \A k \in 1 .. Len(occur) : MatchVar(tx.match, VarName[occur[k]]) = tx.match.values[k]
           /\ Fits(Substitute(Described(p), tx.match.values), Last(p.text) = "/", Path)
    BY <1>1, HandlerMatch, Zenon
  <2>2. tx.match.Path = Path /\ tx.match.Route = RouteOf(p)
    BY <2>1 DEF Match
  <2>3. tx.match.Route.Handler = p
    BY <2>2, RouteFields, Zenon
  <2> DEFINE occur == VarsOf(Described(p))
  <2>4. [k \in 1 .. Len(occur) |-> MatchVar(tx.match, VarName[occur[k]])] = tx.match.values
    BY <2>1
  <2> HIDE DEF occur
  <2>5. Fits(Substitute(Described(p), [k \in 1 .. Len(occur) |-> MatchVar(tx.match, VarName[occur[k]])]),
             Last(p.text) = "/", Path)
    BY <2>1, <2>4, Zenon
  <2> QED BY <2>1, <2>2, <2>3, <2>5, Zenon DEF occur
<1>2. DispatchInv => VarsMakePath
  BY <1>1, Zenon DEF VarsMakePath
<1> QED BY <1>2, DispatchIsInv, PTL

(* The state of a server and of the request it serves is well formed, and   *)
(* no value of a variable is empty.                                         *)
THEOREM DispatchTypes == Spec => []TypeOK
<1>1. ASSUME DispatchInv, NEW i \in 1 .. Len(routes)
      PROVE  routes[i].Conditions \subseteq Method /\ routes[i].Handler \in Patterns
  <2>1. PICK p \in Patterns : p = routes[i].Handler /\ routes[i] = RouteOf(p)
    BY <1>1, RoutesHavePatterns DEF DispatchInv
  <2>2. routes[i].Conditions = ParseCondFlags(p.conds).flags
    BY <2>1, RouteFields, Zenon
  <2>3. ParseCondFlags(p.conds).flags \subseteq Method
    BY DEF ParseCondFlags
  <2> QED BY <2>1, <2>2, <2>3, Zenon
<1>2. ASSUME DispatchInv, InHandler, NEW k \in 1 .. Len(tx.match.values)
      PROVE  tx.match.values[k] # <<>>
  <2>1. PICK n \in Nat : /\ tx.match.values \in [1 .. n -> Seq(AllChars)]
                         /\ \A j \in 1 .. n : tx.match.values[j] # <<>>
    BY <1>2, HandlerMatch, Zenon
  <2>2. Len(tx.match.values) = n
    BY <2>1
  <2> QED BY <1>2, <2>1, <2>2, Zenon
<1>3. DispatchInv => TypeOK
  <2> SUFFICES ASSUME DispatchInv PROVE TypeOK
    OBVIOUS
  <2>1. base \in Seq(Chars) /\ adds \in 0 .. 2
    BY DEF DispatchInv, BaseInv
  <2>2. /\ tx.phase \in {"waiting", "handler", "answered"}
        /\ tx.phase # "waiting" => tx.request \in Requests
    BY DEF DispatchInv, TxInv
  <2>3. IsAnswered => tx.answer \in Answers /\ tx.code \in {0, 200, 301, 302, 303, 307, 308, 400, 404, 500}
    BY DEF DispatchInv, TxInv, AnswerInv
  <2>4. Range(header) \subseteq Lines /\ cookies \in Seq(Lines)
    BY DEF DispatchInv, HeaderInv, Range
  <2> QED BY <1>1, <1>2, <2>1, <2>2, <2>3, <2>4 DEF TypeOK
<1> QED BY <1>3, DispatchIsInv, PTL
=============================================================================
