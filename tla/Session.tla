------------------------------ MODULE Session ------------------------------
(***************************************************************************)
(* session.Session as values and functions: what Set, Del, Clear, Load,    *)
(* Save, LoadHTTP and SaveHTTP make of a session record, of the storage    *)
(* and of the Set-Cookie header. An operation that can fail has a set of   *)
(* outcomes, one for each fault the constants allow.                       *)
(*                                                                         *)
(* A stored value is abstracted to the client whose request wrote it.      *)
(***************************************************************************)
EXTENDS Integers

CONSTANTS
  Client,      \* the HTTP clients (browsers)
  Key,         \* names of session values
  ID,          \* well-formed session identifiers
  NoID,        \* the empty identifier ""
  Nil,         \* a nil map
  Absent,      \* the value of a key that is not in a map
  NoData,      \* storage holds nothing for an identifier
  NoCookie,    \* no session cookie
  Faults,      \* operations that may fail
  HasStorage,  \* the store was given a Storage
  TTLSeconds   \* Store.TTL in whole seconds

ASSUME SessionAssumption ==
  /\ NoID \notin ID
  /\ NoCookie \notin ID \cup {NoID}
  /\ Absent \notin Client
  /\ Nil \notin [Key -> Client \cup {Absent}]
  /\ NoData \notin [Key -> Client \cup {Absent}]
  /\ Faults \subseteq {"get", "decode", "set", "del", "refresh", "encode", "uuid"}
  /\ HasStorage \in BOOLEAN
  /\ TTLSeconds \in Nat

Map     == [Key -> Client \cup {Absent}]
Empty   == [k \in Key |-> Absent]
Values  == Map \cup {Nil}
HasData(v) == v \notin {Nil, Empty}

(* Whatever values v holds, requests of client c wrote. *)
WrittenBy(c, v) == v \in Map => \A k \in Key : v[k] \in {c, Absent}

Sessions   == [ID : ID \cup {NoID}, values : Values, dirty : BOOLEAN]
NewSession == [ID |-> NoID, values |-> Nil, dirty |-> FALSE]

(* What a Storage holds; the empty identifier is a key like any other. *)
Storage == [ID \cup {NoID} -> Map \cup {NoData}]

(* A Set-Cookie line of the response header. *)
Cookies == [ID : ID \cup {NoID}, maxAge : Int]

-----------------------------------------------------------------------------
(* v is a client, or Absent for a nil value. *)
SetToNil(s, k) ==
  IF s.values = Nil THEN s
  ELSE [s EXCEPT !.values = [@ EXCEPT ![k] = Absent], !.dirty = TRUE]

SetTo(s, k, c) ==
  [s EXCEPT !.values = [(IF @ = Nil THEN Empty ELSE @) EXCEPT ![k] = c],
            !.dirty = TRUE]

Del(s, k) ==
  IF s.values = Nil THEN s
  ELSE [s EXCEPT !.values = [@ EXCEPT ![k] = Absent],
                 !.dirty = @ \/ s.values[k] # Absent]

Clear(s) ==
  IF HasData(s.values) THEN [s EXCEPT !.values = Nil, !.dirty = TRUE] ELSE s

-----------------------------------------------------------------------------
(* The mutant takes "" for a valid identifier. *)
AnyCookieIsValid(id) == id # NoCookie

isValidSessionID(id) == id \in ID

(* The mutant decodes whatever storage returns, nothing included. *)
LoadUnchecked(id, d) == {[NewSession EXCEPT !.ID = id, !.values = d[id]]}

(* Load of a session just made: what it is found to be, or new on any error. *)
Load(id, d) ==
  {[NewSession EXCEPT !.ID = id, !.values = v] : v \in {d[id]} \ {NoData}}
    \cup {NewSession : f \in Faults \cap {"get", "decode"}}
    \cup {NewSession : v \in {d[id]} \cap {NoData}}

(* Session.LoadHTTP of a session just made. *)
LoadCookie(cookie, d) == IF isValidSessionID(cookie) THEN Load(cookie, d) ELSE {NewSession}

(* Store.LoadHTTP: always a session, empty when there is none to load. *)
LoadHTTP(cookie, d) == IF HasStorage THEN LoadCookie(cookie, d) ELSE {NewSession}

-----------------------------------------------------------------------------
(* Save: the outcome is the session, the storage and what was returned. *)
Outcome(s, d, err) == [s |-> s, db |-> d, err |-> err]

Fails(op, s, d) == {Outcome(s, d, "error") : f \in Faults \cap {op}}

SaveDel(s, d) ==
  {Outcome([s EXCEPT !.ID = NoID, !.dirty = FALSE],
           [d EXCEPT ![s.ID] = NoData], "nil")}
    \cup Fails("del", s, d)

(* The identifiers Save may store under: the error of uuid.Gen is overwritten *)
(* by the result of SetSessionData, which then stores under "".               *)
SaveIDs(s, fresh) ==
  IF s.ID # NoID THEN {s.ID}
  ELSE fresh \cup {NoID : f \in Faults \cap {"uuid"}}

(* Without storage SetSessionData is a call on a nil interface: it panics *)
(* after the identifier was assigned.                                     *)
SaveSet(s, d, fresh) ==
  Fails("encode", s, d) \cup
  UNION { LET t == [s EXCEPT !.ID = i] IN
          IF ~HasStorage THEN {Outcome(t, d, "panic")}
          ELSE {Outcome([t EXCEPT !.dirty = FALSE], [d EXCEPT ![i] = s.values], "nil")}
                 \cup Fails("set", t, d)
        : i \in SaveIDs(s, fresh) }

(* A refresh of data that is gone returns "not found". *)
SaveRefresh(s, d) ==
  {Outcome(s, d, IF d[s.ID] = NoData THEN "error" ELSE "nil")}
    \cup Fails("refresh", s, d)

Save(s, d, fresh) ==
  IF s.dirty
  THEN IF HasData(s.values) THEN SaveSet(s, d, fresh)
       ELSE IF HasStorage THEN SaveDel(s, d)
       ELSE {Outcome(s, d, "panic")}
  ELSE IF s.ID = NoID THEN {Outcome(s, d, "nil")}
  ELSE IF HasStorage THEN SaveRefresh(s, d)
  ELSE {Outcome(s, d, "panic")}

bakeSessionIDCookie(s) ==
  [ID |-> s.ID, maxAge |-> IF HasData(s.values) THEN TTLSeconds ELSE -1]

(* Mutants: the cookie is made before Save has assigned ID; whether to set  *)
(* it is asked after Save, which has cleared dirty and, on delete, ID.      *)
BakeThenSave(s, d, h, fresh) ==
  { [s |-> o.s, db |-> o.db, err |-> o.err,
     header |-> IF o.err = "nil" /\ (s.dirty \/ s.ID # NoID)
                THEN bakeSessionIDCookie(s) ELSE h] : o \in Save(s, d, fresh) }

SaveThenAsk(s, d, h, fresh) ==
  { [s |-> o.s, db |-> o.db, err |-> o.err,
     header |-> IF o.err = "nil" /\ (o.s.dirty \/ o.s.ID # NoID)
                THEN bakeSessionIDCookie(o.s) ELSE h] : o \in Save(s, d, fresh) }

(* h is the session cookie in the response header so far: HeaderSetCookie *)
(* replaces a cookie of the same name, so there is at most one.           *)
SaveHTTP(s, d, h, fresh) ==
  { [s |-> o.s, db |-> o.db, err |-> o.err,
     header |-> IF o.err = "nil" /\ (s.dirty \/ s.ID # NoID)
                THEN bakeSessionIDCookie(o.s) ELSE h] : o \in Save(s, d, fresh) }
=============================================================================
