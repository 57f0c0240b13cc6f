------------------------------ MODULE Cookies ------------------------------
(***************************************************************************)
(* util.HeaderSetCookie on the Set-Cookie lines of a response header. A    *)
(* line is a sequence of words, among them blanks, "=" and ";".            *)
(***************************************************************************)
EXTENDS Integers, Sequences, FiniteSetsExt

At(line, word) == {i \in 1 .. Len(line) : line[i] = word}

IsFirst(i, S) == i \in S /\ \A j \in S : i <= j

Blank == {" ", "\t", "\n", "\r"}

(* textproto.TrimString of the words before position e: blanks go from both *)
(* ends, those between other words stay.                                    *)
TrimmedBefore(line, e) ==
  LET kept == {i \in 1 .. e - 1 : line[i] \notin Blank}
  IN  IF kept = {} THEN <<>> ELSE SubSeq(line, Min(kept), Max(kept))

(* The words before the first "=", none unless a ";" comes after it. *)
parseCookieName(line) ==
  IF \E e, i \in 1 .. Len(line) : IsFirst(e, At(line, "=")) /\ IsFirst(i, At(line, ";")) /\ e < i
  THEN TrimmedBefore(line, CHOOSE e \in At(line, "=") : IsFirst(e, At(line, "=")))
  ELSE <<>>

(* The first line that carries name. *)
Existing(lines, name) ==
  {i \in 1 .. Len(lines) :
     /\ parseCookieName(lines[i]) = name
     /\ \A j \in 1 .. i - 1 : parseCookieName(lines[j]) # name}

(* The mutant assigns the cookie to the loop's copy of the line it found. *)
HeaderSetCopy(lines, cookie) ==
  LET name == parseCookieName(cookie)
  IN  IF name = <<>> \/ Existing(lines, name) # {} THEN lines ELSE Append(lines, cookie)

(* A cookie without name is an error and leaves the header alone. *)
HeaderSetCookie(lines, cookie) ==
  LET name  == parseCookieName(cookie)
      found == Existing(lines, name)
  IN  IF name = <<>> THEN lines
      ELSE IF found = {} THEN Append(lines, cookie)
      ELSE [i \in 1 .. Len(lines) |-> IF i \in found THEN cookie ELSE lines[i]]

-----------------------------------------------------------------------------
(* What a header must be after cookies were set in this order: each name has *)
(* a line, each line is the last cookie of its name, and lines are in the    *)
(* order in which their names were first set, so that none has two.          *)
KeepsLast(lines, cookies) ==
  /\ \A p \in 1 .. Len(cookies) : parseCookieName(cookies[p]) # <<>> =>
       \E i \in 1 .. Len(lines) : parseCookieName(lines[i]) = parseCookieName(cookies[p])
  /\ \A i \in 1 .. Len(lines) : \E p \in 1 .. Len(cookies) :
       /\ lines[i] = cookies[p]
       /\ parseCookieName(cookies[p]) # <<>>
       /\ \A q \in p + 1 .. Len(cookies) : parseCookieName(cookies[q]) # parseCookieName(cookies[p])
  /\ \A j \in 1 .. Len(lines) : \A i \in 1 .. j - 1 : \E p \in 1 .. Len(cookies) :
       /\ parseCookieName(cookies[p]) = parseCookieName(lines[i])
       /\ \A q \in 1 .. p : parseCookieName(cookies[q]) # parseCookieName(lines[j])
=============================================================================
