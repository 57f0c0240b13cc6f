------------------------- MODULE TransactionProofs -------------------------
(***************************************************************************)
(* For every set of clients, requests, keys and identifiers:               *)
(*                                                                         *)
(*  - whatever fails and whatever the surroundings do, a handler never     *)
(*    finds in its session what a request of another client wrote. The     *)
(*    invariant that carries the proof is OneHolder: an identifier is      *)
(*    mentioned by the cookies, sessions and responses of one client only; *)
(*  - with a Storage, a panic before anything was sent is answered with    *)
(*    status 500 (AnsweredInv);                                            *)
(*  - a client that sends one request at a time reads what its last one    *)
(*    wrote, and loses what its last one cleared (MemoryInv).              *)
(***************************************************************************)
EXTENDS Transaction, TLAPS

-----------------------------------------------------------------------------
(* What the operations on a session can make of its identifier, its values *)
(* and the storage, for every choice of faults.                            *)
(* The empty map is one, and is told from a nil one and from no data.      *)
LEMMA EmptyIsMap == Empty \in Map /\ Nil \notin Map /\ NoData \notin Map
BY SessionAssumption DEF Empty, Map

(* A client's own value, a nil value and a deletion leave a well-formed     *)
(* session with the same identifier and nothing of another client.          *)
LEMMA SetToProperties ==
  ASSUME NEW s \in Sessions, NEW k \in Key, NEW c \in Client, WrittenBy(c, s.values)
  PROVE  /\ SetTo(s, k, c) \in Sessions
         /\ SetTo(s, k, c).ID = s.ID
         /\ WrittenBy(c, SetTo(s, k, c).values)
<1> DEFINE m == IF s.values = Nil THEN Empty ELSE s.values
<1>1. m \in Map /\ WrittenBy(c, m)
      BY EmptyIsMap DEF Sessions, Values, WrittenBy, Empty
<1>2. [m EXCEPT ![k] = c] \in Map /\ WrittenBy(c, [m EXCEPT ![k] = c])
      BY <1>1 DEF Map, WrittenBy
<1>3. SetTo(s, k, c) = [s EXCEPT !.values = [m EXCEPT ![k] = c], !.dirty = TRUE]
      BY DEF SetTo
<1> HIDE DEF m
<1> QED
    BY <1>2, <1>3 DEF Sessions, Values

LEMMA RemoveProperties ==
  ASSUME NEW s \in Sessions, NEW k \in Key, NEW c \in Client, WrittenBy(c, s.values),
         NEW t \in {SetToNil(s, k), Del(s, k)}
  PROVE  t \in Sessions /\ t.ID = s.ID /\ WrittenBy(c, t.values)
<1>1. CASE s.values = Nil
      BY <1>1 DEF SetToNil, Del
<1>2. CASE s.values # Nil
  <2> DEFINE m == [s.values EXCEPT ![k] = Absent]
  <2>1. s.values \in Map
        BY <1>2 DEF Sessions, Values
  <2>2. m \in Map /\ WrittenBy(c, m)
        BY <2>1 DEF Map, WrittenBy
  <2>3. PICK b \in BOOLEAN : t = [s EXCEPT !.values = m, !.dirty = b]
    <3>1. CASE t = SetToNil(s, k)
          BY <1>2, <3>1 DEF SetToNil
    <3>2. CASE t = Del(s, k)
      <4>1. (s.dirty \/ s.values[k] # Absent) \in BOOLEAN
            BY DEF Sessions
      <4> QED
          BY <1>2, <3>2, <4>1 DEF Del
    <3> QED
        BY <3>1, <3>2
  <2> HIDE DEF m
  <2> QED
      BY <2>2, <2>3 DEF Sessions, Values
<1> QED
    BY <1>1, <1>2

LEMMA ClearProperties ==
  ASSUME NEW s \in Sessions, NEW c \in Client, WrittenBy(c, s.values)
  PROVE  Clear(s) \in Sessions /\ Clear(s).ID = s.ID /\ WrittenBy(c, Clear(s).values)
BY EmptyIsMap DEF Clear, Sessions, Values, WrittenBy

LEMMA NewSessionProperties ==
  /\ NewSession \in Sessions /\ NewSession.ID = NoID
  /\ \A c \in Client : WrittenBy(c, NewSession.values)
BY EmptyIsMap DEF NewSession, Sessions, Values, WrittenBy

(* A session that is loaded is the one the cookie names, or a new one.      *)
LEMMA LoadProperties ==
  ASSUME NEW d \in Storage, NEW cookie, NEW s \in LoadHTTP(cookie, d)
  PROVE  \/ s = NewSession
         \/ /\ cookie \in ID /\ s \in Sessions /\ s.ID = cookie
            /\ s.values = d[cookie] /\ d[cookie] \in Map
<1>1. CASE s = NewSession
      BY <1>1
<1>2. CASE s # NewSession
  <2>1. cookie \in ID /\ s \in Load(cookie, d)
        BY <1>2 DEF LoadHTTP, LoadCookie, isValidSessionID
  <2>2. /\ d[cookie] # NoData
        /\ s = [NewSession EXCEPT !.ID = cookie, !.values = d[cookie]]
        BY <1>2, <2>1 DEF Load
  <2>3. d[cookie] \in Map
        BY <2>1, <2>2 DEF Storage
  <2> QED
      BY <2>1, <2>2, <2>3 DEF NewSession, Sessions, Values
<1> QED
    BY <1>1, <1>2

-----------------------------------------------------------------------------
(* The storage after a Save differs at one identifier: removed, or holding  *)
(* the values of the session under its own identifier or a fresh one.       *)
Saved(s, d, e, fresh) ==
  \A i \in ID : \/ e[i] = d[i]
                \/ e[i] = NoData
                \/ e[i] = s.values /\ (i = s.ID \/ i \in fresh)

SaveResult(s, d, fresh, o) ==
  /\ o.s \in Sessions
  /\ o.s.values = s.values
  /\ o.s.ID \in {s.ID, NoID} \cup fresh
  /\ o.db \in Storage
  /\ Saved(s, d, o.db, fresh)

LEMMA UnchangedResult ==
  ASSUME NEW s \in Sessions, NEW d \in Storage, NEW fresh \in SUBSET ID, NEW err
  PROVE  SaveResult(s, d, fresh, Outcome(s, d, err))
BY DEF SaveResult, Saved, Outcome

LEMMA SaveDelProperties ==
  ASSUME NEW s \in Sessions, NEW d \in Storage, NEW fresh \in SUBSET ID, NEW o \in SaveDel(s, d)
  PROVE  SaveResult(s, d, fresh, o)
<1>1. CASE o \in Fails("del", s, d)
      BY <1>1, UnchangedResult DEF Fails
<1>2. CASE o = Outcome([s EXCEPT !.ID = NoID, !.dirty = FALSE], [d EXCEPT ![s.ID] = NoData], "nil")
  <2>1. s.ID \in ID \cup {NoID}
        BY DEF Sessions
  <2>2. o.db = [d EXCEPT ![s.ID] = NoData] /\ o.db \in Storage
        BY <1>2, <2>1 DEF Outcome, Storage
  <2>3. o.s = [s EXCEPT !.ID = NoID, !.dirty = FALSE] /\ o.s \in Sessions
        BY <1>2 DEF Outcome, Sessions
  <2>4. Saved(s, d, o.db, fresh)
        BY <2>1, <2>2 DEF Saved, Storage
  <2> QED
      BY <2>2, <2>3, <2>4 DEF SaveResult, Sessions
<1> QED
    BY <1>1, <1>2 DEF SaveDel

LEMMA SaveSetProperties ==
  ASSUME NEW s \in Sessions, NEW d \in Storage, NEW fresh \in SUBSET ID,
         HasData(s.values), NEW o \in SaveSet(s, d, fresh)
  PROVE  SaveResult(s, d, fresh, o)
<1>1. CASE o \in Fails("encode", s, d)
      BY <1>1, UnchangedResult DEF Fails
<1>2. CASE o \notin Fails("encode", s, d)
  <2>1. PICK i \in SaveIDs(s, fresh) :
          LET t == [s EXCEPT !.ID = i] IN
          o \in IF ~HasStorage THEN {Outcome(t, d, "panic")}
                ELSE {Outcome([t EXCEPT !.dirty = FALSE], [d EXCEPT ![i] = s.values], "nil")}
                       \cup Fails("set", t, d)
        BY <1>2 DEF SaveSet
  <2> DEFINE t == [s EXCEPT !.ID = i]
  <2>2. i \in ID \cup {NoID} /\ i \in {s.ID, NoID} \cup fresh /\ (i \in ID => i = s.ID \/ i \in fresh)
        BY SessionAssumption DEF SaveIDs, Sessions
  <2>3. t \in Sessions /\ t.values = s.values /\ t.ID = i
        BY <2>2 DEF Sessions
  <2>4. s.values \in Map
        BY DEF HasData, Sessions, Values
  <2>5. CASE \E err \in {"panic", "error"} : o = Outcome(t, d, err)
    <3>1. o.s = t /\ o.db = d
          BY <2>5 DEF Outcome
    <3> HIDE DEF t
    <3>2. Saved(s, d, o.db, fresh)
          BY <3>1 DEF Saved
    <3> QED
        BY <2>2, <2>3, <3>1, <3>2 DEF SaveResult
  <2>6. CASE o = Outcome([t EXCEPT !.dirty = FALSE], [d EXCEPT ![i] = s.values], "nil")
    <3>1. o.db = [d EXCEPT ![i] = s.values] /\ o.db \in Storage
          BY <2>2, <2>4, <2>6 DEF Outcome, Storage
    <3>2. o.s \in Sessions /\ o.s.values = s.values /\ o.s.ID = i
          BY <2>3, <2>6 DEF Outcome, Sessions
    <3>3. Saved(s, d, o.db, fresh)
          BY <2>2, <3>1 DEF Saved, Storage
    <3> QED
        BY <2>2, <3>1, <3>2, <3>3 DEF SaveResult
  <2> QED
      BY <2>1, <2>5, <2>6 DEF Fails
<1> QED
    BY <1>1, <1>2

LEMMA SaveProperties ==
  ASSUME NEW s \in Sessions, NEW d \in Storage, NEW fresh \in SUBSET ID, NEW o \in Save(s, d, fresh)
  PROVE  SaveResult(s, d, fresh, o)
<1>1. CASE o \in SaveSet(s, d, fresh) /\ HasData(s.values)
      BY <1>1, SaveSetProperties
<1>2. CASE o \in SaveDel(s, d)
      BY <1>2, SaveDelProperties
<1>3. CASE \E err : o = Outcome(s, d, err)
      BY <1>3, UnchangedResult
<1> QED
    BY <1>1, <1>2, <1>3 DEF Save, SaveRefresh, Fails

(* SaveHTTP never names an identifier in a cookie that the session has not. *)
LEMMA SaveHTTPProperties ==
  ASSUME NEW s \in Sessions, NEW d \in Storage, NEW fresh \in SUBSET ID,
         NEW h \in Cookies \cup {NoCookie}, NEW o \in SaveHTTP(s, d, h, fresh)
  PROVE  /\ SaveResult(s, d, fresh, o)
         /\ o.header \in Cookies \cup {NoCookie}
         /\ o.header = h \/ o.header.ID = o.s.ID
<1>1. PICK p \in Save(s, d, fresh) :
        /\ o.s = p.s /\ o.db = p.db
        /\ o.header = h \/ o.header = bakeSessionIDCookie(p.s)
      BY DEF SaveHTTP
<1>2. SaveResult(s, d, fresh, p)
      BY SaveProperties
<1>3. bakeSessionIDCookie(p.s) \in Cookies /\ bakeSessionIDCookie(p.s).ID = p.s.ID
      BY <1>2, SessionAssumption DEF SaveResult, bakeSessionIDCookie, Cookies, Sessions
<1> QED
    BY <1>1, <1>2, <1>3 DEF SaveResult

-----------------------------------------------------------------------------
(* What a session remembers: cookie k of the request and cookie h of the    *)
(* response header, together the cookie the client will present next, name  *)
(* what is stored of a session that has no unsaved change.                  *)
Current(k, h) ==
  IF h = NoCookie THEN k ELSE IF h.maxAge > 0 THEN h.ID ELSE NoCookie

Remembered(k, h, s, d) ==
  /\ ~s.dirty /\ s.ID # NoID =>
       HasData(s.values) /\ Current(k, h) = s.ID /\ d[s.ID] = s.values
  /\ ~s.dirty /\ s.ID = NoID =>
       ~HasData(s.values) /\ (h # NoCookie => h.maxAge < 0)
  /\ \A i \in ID : d[i] # NoData /\ (k = i \/ (h # NoCookie /\ h.ID = i)) => s.ID = i

(* Storage never holds a session without data.                              *)
DataOnly(d) == \A i \in ID : d[i] # Empty

(* Saves may fail; loads and the generation of identifiers do not.          *)
ReliableLoads ==
  /\ HasStorage
  /\ TTLSeconds > 0
  /\ Faults \cap {"get", "decode", "uuid"} = {}

(* Every change of the values marks the session.                            *)
LEMMA EditsMarkDirty ==
  ASSUME NEW s \in Sessions
  PROVE  /\ Clear(s).ID = s.ID /\ (Clear(s).dirty \/ Clear(s) = s)
         /\ \A k \in Key, c \in Client :
              \A t \in {SetTo(s, k, c), SetToNil(s, k), Del(s, k)} :
                t.ID = s.ID /\ (t.dirty \/ t = s)
<1>1. Clear(s).ID = s.ID /\ (Clear(s).dirty \/ Clear(s) = s)
      BY DEF Clear, Sessions
<1>2. ASSUME NEW k \in Key, NEW c \in Client
      PROVE  SetTo(s, k, c).ID = s.ID /\ SetTo(s, k, c).dirty
      BY DEF SetTo, Sessions
<1>3. ASSUME NEW k \in Key
      PROVE  SetToNil(s, k).ID = s.ID /\ (SetToNil(s, k).dirty \/ SetToNil(s, k) = s)
      BY DEF SetToNil, Sessions
<1>4. ASSUME NEW k \in Key
      PROVE  Del(s, k).ID = s.ID /\ (Del(s, k).dirty \/ Del(s, k) = s)
  <2>1. CASE s.values = Nil
        BY <2>1 DEF Del
  <2>2. CASE s.values # Nil /\ s.values[k] # Absent
        BY <2>2 DEF Del, Sessions
  <2>3. CASE s.values # Nil /\ s.values[k] = Absent
    <3>1. s.values \in Map
          BY <2>3 DEF Sessions, Values
    <3>2. [s.values EXCEPT ![k] = Absent] = s.values
          BY <2>3, <3>1 DEF Map
    <3>3. Del(s, k) = [s EXCEPT !.values = s.values, !.dirty = s.dirty]
          BY <2>3, <3>2 DEF Del, Sessions
    <3> QED
        BY <3>3 DEF Sessions
  <2> QED
      BY <2>1, <2>2, <2>3
<1> QED
    BY <1>1, <1>2, <1>3, <1>4

LEMMA EditRemembers ==
  ASSUME NEW s \in Sessions, NEW t, t.ID = s.ID, t.dirty \/ t = s,
         NEW k, NEW h, NEW d, Remembered(k, h, s, d)
  PROVE  Remembered(k, h, t, d)
BY DEF Remembered

LEMMA LoadRemembers ==
  ASSUME ReliableLoads, NEW d \in Storage, DataOnly(d), NEW k \in ID \cup {NoID, NoCookie},
         NEW s \in LoadHTTP(k, d)
  PROVE  Remembered(k, NoCookie, s, d)
<1>1. NewSession.ID = NoID /\ NewSession.values = Nil /\ NewSession.dirty = FALSE
      BY DEF NewSession
<1>2. CASE k \in ID /\ d[k] # NoData
  <2>1. s = [NewSession EXCEPT !.ID = k, !.values = d[k]]
        BY <1>2 DEF LoadHTTP, LoadCookie, isValidSessionID, Load, ReliableLoads
  <2>2. s.ID = k /\ s.values = d[k] /\ s.dirty = FALSE
        BY <2>1 DEF NewSession
  <2>3. HasData(d[k])
        BY <1>2, EmptyIsMap DEF HasData, DataOnly, Storage
  <2> QED
      BY <1>2, <2>2, <2>3, SessionAssumption DEF Remembered, Current
<1>3. CASE ~(k \in ID /\ d[k] # NoData)
  <2>1. s = NewSession
        BY <1>3 DEF LoadHTTP, LoadCookie, isValidSessionID, Load, ReliableLoads
  <2>2. ~HasData(s.values)
        BY <1>1, <2>1 DEF HasData
  <2> QED
      BY <1>1, <1>3, <2>1, <2>2 DEF Remembered
<1> QED
    BY <1>2, <1>3

-----------------------------------------------------------------------------
(* A save touches the identifier of the session or a fresh one, and leaves   *)
(* what the client will present next in step with what is stored.           *)
SaveRemembers(k, h, s, d, fresh, p) ==
  /\ Remembered(k, p.header, p.s, p.db)
  /\ DataOnly(p.db)
  /\ \A i \in ID : p.db[i] = d[i] \/ i = s.ID \/ i \in fresh
  /\ s.dirty /\ ~p.s.dirty => p.header # NoCookie

LEMMA SaveHTTPRemembers ==
  ASSUME ReliableLoads, NoCookie \notin Cookies,
         NEW s \in Sessions, NEW d \in Storage, DataOnly(d),
         NEW fresh \in SUBSET ID, NEW k, NEW h \in Cookies \cup {NoCookie},
         \A i \in fresh : d[i] = NoData,
         Remembered(k, h, s, d), NEW p \in SaveHTTP(s, d, h, fresh)
  PROVE  SaveRemembers(k, h, s, d, fresh, p)
<1>1. PICK o \in Save(s, d, fresh) :
        p = [s |-> o.s, db |-> o.db, err |-> o.err,
             header |-> IF o.err = "nil" /\ (s.dirty \/ s.ID # NoID)
                        THEN bakeSessionIDCookie(o.s) ELSE h]
      BY DEF SaveHTTP
<1>2. /\ p.s = o.s /\ p.db = o.db
      /\ p.header = IF o.err = "nil" /\ (s.dirty \/ s.ID # NoID)
                    THEN bakeSessionIDCookie(o.s) ELSE h
      BY <1>1
<1>3. s.ID \in ID \cup {NoID} /\ NoID \notin ID /\ s.dirty \in BOOLEAN
      BY SessionAssumption DEF Sessions
<1>4. \A t : t.ID \in ID \cup {NoID} =>
        LET b == bakeSessionIDCookie(t) IN
        /\ b # NoCookie /\ b.ID = t.ID
        /\ b.maxAge = IF HasData(t.values) THEN TTLSeconds ELSE -1
      BY SessionAssumption DEF bakeSessionIDCookie, Cookies
<1>5. ASSUME o.s = s, o.db = d, p.header = h
      PROVE  SaveRemembers(k, h, s, d, fresh, p)
      BY <1>2, <1>5 DEF SaveRemembers
<1>6. ASSUME NEW op, o \in Fails(op, s, d)
      PROVE  SaveRemembers(k, h, s, d, fresh, p)
  <2>1. o = Outcome(s, d, "error")
        BY <1>6 DEF Fails
  <2>2. o.s = s /\ o.db = d /\ o.err = "error"
        BY <2>1 DEF Outcome
  <2> QED
      BY <1>2, <1>5, <2>2
<1>7. ASSUME s.dirty, ~HasData(s.values), o \in SaveDel(s, d)
      PROVE  SaveRemembers(k, h, s, d, fresh, p)
  <2>1. CASE o \in Fails("del", s, d)
        BY <1>6, <2>1
  <2>2. CASE o = Outcome([s EXCEPT !.ID = NoID, !.dirty = FALSE],
                         [d EXCEPT ![s.ID] = NoData], "nil")
    <3>1. /\ o.s = [s EXCEPT !.ID = NoID, !.dirty = FALSE]
          /\ o.db = [d EXCEPT ![s.ID] = NoData] /\ o.err = "nil"
          BY <2>2 DEF Outcome
    <3>2. o.s.ID = NoID /\ o.s.dirty = FALSE /\ o.s.values = s.values
          BY <3>1 DEF Sessions
    <3>3. \A i \in ID : o.db[i] = IF i = s.ID THEN NoData ELSE d[i]
          BY <1>3, <3>1 DEF Storage
    <3>4. p.header # NoCookie /\ p.header.ID = NoID /\ p.header.maxAge = -1
      <4>1. p.header = bakeSessionIDCookie(o.s)
            BY <1>2, <1>7, <3>1
      <4>2. o.s.ID \in ID \cup {NoID} /\ ~HasData(o.s.values)
            BY <1>7, <3>2
      <4> QED
          BY <1>4, <3>2, <4>1, <4>2
    <3>5. Empty # NoData
          BY EmptyIsMap
    <3> QED
        BY <1>2, <1>3, <1>7, <3>2, <3>3, <3>4, <3>5 DEF SaveRemembers, Remembered, DataOnly
  <2> QED
      BY <1>7, <2>1, <2>2 DEF SaveDel
<1>8. ASSUME s.dirty, HasData(s.values), o \in SaveSet(s, d, fresh)
      PROVE  SaveRemembers(k, h, s, d, fresh, p)
  <2>1. CASE o \in Fails("encode", s, d)
        BY <1>6, <2>1
  <2>2. CASE o \notin Fails("encode", s, d)
    <3>1. PICK i \in SaveIDs(s, fresh) :
            LET t == [s EXCEPT !.ID = i] IN
            o \in IF ~HasStorage THEN {Outcome(t, d, "panic")}
                  ELSE {Outcome([t EXCEPT !.dirty = FALSE], [d EXCEPT ![i] = s.values], "nil")}
                         \cup Fails("set", t, d)
          BY <1>8, <2>2 DEF SaveSet
    <3> DEFINE t == [s EXCEPT !.ID = i]
    <3>2. i \in ID /\ (i = s.ID \/ (s.ID = NoID /\ i \in fresh))
          BY <1>3 DEF SaveIDs, ReliableLoads
    <3>3. t.ID = i /\ t.dirty = s.dirty /\ t.values = s.values
          BY DEF Sessions
    <3>4. CASE o \in Fails("set", t, d)
      <4>1. o = Outcome(t, d, "error")
            BY <3>4 DEF Fails
      <4>2. o.s = t /\ o.db = d /\ o.err = "error"
            BY <4>1 DEF Outcome
      <4> HIDE DEF t
      <4> QED
          BY <1>2, <1>3, <1>8, <3>2, <3>3, <4>2 DEF SaveRemembers, Remembered
    <3>5. CASE o = Outcome([t EXCEPT !.dirty = FALSE], [d EXCEPT ![i] = s.values], "nil")
      <4>1. o.s = [t EXCEPT !.dirty = FALSE] /\ o.db = [d EXCEPT ![i] = s.values] /\ o.err = "nil"
            BY <3>5 DEF Outcome
      <4>2. o.s.ID = i /\ o.s.dirty = FALSE /\ o.s.values = s.values
            BY <4>1 DEF Sessions
      <4>3. \A j \in ID : o.db[j] = IF j = i THEN s.values ELSE d[j]
            BY <3>2, <4>1 DEF Storage
      <4>4. p.header # NoCookie /\ p.header.ID = i /\ p.header.maxAge = TTLSeconds
        <5>1. p.header = bakeSessionIDCookie(o.s)
              BY <1>2, <1>8, <4>1
        <5>2. o.s.ID \in ID \cup {NoID} /\ HasData(o.s.values)
              BY <1>8, <3>2, <4>2
        <5> QED
            BY <1>4, <4>2, <5>1, <5>2
      <4>5. Current(k, p.header) = i
            BY <4>4 DEF Current, ReliableLoads
      <4>6. s.values # Empty
            BY <1>8 DEF HasData
      <4> HIDE DEF t
      <4>7. Remembered(k, p.header, p.s, p.db)
            BY <1>2, <1>3, <1>8, <3>2, <4>2, <4>3, <4>4, <4>5 DEF Remembered
      <4> QED
          BY <1>2, <1>8, <3>2, <4>3, <4>4, <4>6, <4>7 DEF SaveRemembers, DataOnly
    <3> QED
        BY <3>1, <3>4, <3>5 DEF ReliableLoads
  <2> QED
      BY <2>1, <2>2
<1>9. ASSUME ~s.dirty, s.ID # NoID, o \in SaveRefresh(s, d)
      PROVE  SaveRemembers(k, h, s, d, fresh, p)
  <2>1. CASE o \in Fails("refresh", s, d) \/ o = Outcome(s, d, "error")
    <3>1. o.s = s /\ o.db = d /\ o.err = "error"
          BY <2>1 DEF Fails, Outcome
    <3> QED
        BY <1>2, <1>5, <3>1
  <2>2. CASE o = Outcome(s, d, "nil")
    <3>1. o.s = s /\ o.db = d /\ o.err = "nil"
          BY <2>2 DEF Outcome
    <3>2. HasData(s.values) /\ d[s.ID] = s.values
          BY <1>9 DEF Remembered
    <3>3. p.header # NoCookie /\ p.header.ID = s.ID /\ p.header.maxAge = TTLSeconds
          BY <1>2, <1>3, <1>4, <1>9, <3>1, <3>2
    <3>4. Current(k, p.header) = s.ID
          BY <3>3 DEF Current, ReliableLoads
    <3> QED
        BY <1>2, <1>9, <3>1, <3>2, <3>3, <3>4 DEF SaveRemembers, Remembered
  <2> QED
      BY <1>9, <2>1, <2>2 DEF SaveRefresh
<1>10. ASSUME ~s.dirty, s.ID = NoID, o = Outcome(s, d, "nil")
       PROVE  SaveRemembers(k, h, s, d, fresh, p)
       BY <1>2, <1>5, <1>10 DEF Outcome
<1> QED
    BY <1>7, <1>8, <1>9, <1>10 DEF Save, ReliableLoads

-----------------------------------------------------------------------------
(* A slot in use has a client; one that is idle holds nothing.             *)
OwnedSlots ==
  \A r \in Req : \/ tx[r] = IdleTransaction
                 \/ tx[r].owner \in Client /\ tx[r].phase # "idle"

IsolationInv == TypeOK /\ OwnedSlots /\ Isolation /\ OneHolder

(* Transaction u and storage e are what a step of a request of client c may *)
(* produce: u is well formed, every identifier in it is c's or fresh, and   *)
(* so is every identifier something was stored under.                       *)
Safe(c, u, e) ==
  /\ u \in Transactions
  /\ e \in Storage
  /\ u.owner = c
  /\ u.session # NoSession => WrittenBy(c, u.session.values)
  /\ \A i \in ID : Mentions(u, i) => Holds(c, i) \/ i \in Fresh
  /\ \A i \in ID : \/ e[i] = db[i]
                   \/ e[i] = NoData
                   \/ WrittenBy(c, e[i]) /\ (Holds(c, i) \/ i \in Fresh)

LEMMA CodesAreStatus == {200, 404, 500} \subseteq Codes /\ Status \subseteq Codes
BY DEF Codes

LEMMA IdleProperties ==
  /\ IdleTransaction \in Transactions
  /\ \A i \in ID : ~Mentions(IdleTransaction, i)
  /\ IdleTransaction.session = NoSession
  /\ IdleTransaction.owner = NoClient
BY SessionAssumption DEF IdleTransaction, Transactions, Phase, Codes, Mentions

-----------------------------------------------------------------------------
(* Changes of fields that name no identifier.                              *)
LEMMA SafePhase ==
  ASSUME NEW c \in Client, NEW u, NEW e, Safe(c, u, e),
         NEW p \in Phase, NEW code \in Codes, NEW b \in BOOLEAN
  PROVE  /\ Safe(c, [u EXCEPT !.phase = p], e)
         /\ Safe(c, [u EXCEPT !.status = code], e)
         /\ Safe(c, [u EXCEPT !.headerWritten = b], e)
<1>1. u \in Transactions
      BY DEF Safe
<1>2. /\ [u EXCEPT !.phase = p] \in Transactions
      /\ [u EXCEPT !.status = code] \in Transactions
      /\ [u EXCEPT !.headerWritten = b] \in Transactions
      BY <1>1 DEF Transactions
<1> QED
    BY <1>1, <1>2 DEF Safe, Mentions, Transactions

LEMMA SafeSession ==
  ASSUME NEW c \in Client, NEW u, NEW e, Safe(c, u, e),
         NEW s \in Sessions, WrittenBy(c, s.values),
         s.ID \in ID => Holds(c, s.ID) \/ s.ID \in Fresh
  PROVE  Safe(c, [u EXCEPT !.session = s], e)
<1>1. u \in Transactions /\ [u EXCEPT !.session = s] \in Transactions
      BY DEF Safe, Transactions
<1> QED
    BY <1>1 DEF Safe, Mentions, Transactions

(* The response carries the cookie of the header, which names nothing new. *)
LEMMA SafeSend ==
  ASSUME NEW c \in Client, NEW u, NEW e, Safe(c, u, e), NEW code \in Codes
  PROVE  Safe(c, Send(u, code), e)
<1>1. CASE Send(u, code) = u
      BY <1>1
<1>2. CASE Send(u, code) # u
  <2> DEFINE w == [status |-> code, cookie |-> u.header]
  <2>1. Send(u, code) = [u EXCEPT !.wire = w]
        BY <1>2 DEF Send
  <2>2. u \in Transactions /\ w \in Responses /\ [u EXCEPT !.wire = w] \in Transactions
        BY DEF Safe, Transactions, Responses
  <2>3. \A i \in ID : Mentions([u EXCEPT !.wire = w], i) => Mentions(u, i)
        BY <2>2 DEF Mentions, Transactions
  <2>4. /\ [u EXCEPT !.wire = w].owner = u.owner
        /\ [u EXCEPT !.wire = w].session = u.session
        BY <2>2 DEF Transactions
  <2> HIDE DEF w
  <2> QED
      BY <2>1, <2>2, <2>3, <2>4 DEF Safe
<1> QED
    BY <1>1, <1>2

(* A save assigns a fresh identifier or keeps the one there was, and stores *)
(* under it what the session holds.                                        *)
LEMMA SafeSave ==
  ASSUME NEW c \in Client, NEW u, NEW e, Safe(c, u, e), NEW o \in SaveSession(u, e)
  PROVE  Safe(c, o.t, o.db)
<1>1. CASE u.session = NoSession
      BY <1>1 DEF SaveSession, Result
<1>2. CASE u.session # NoSession
  <2>1. PICK p \in SaveHTTP(u.session, e, u.header, Fresh) :
          o = Result([u EXCEPT !.session = p.s, !.header = p.header,
                               !.phase = IF p.err = "panic" THEN "panicking" ELSE @], p.db)
        BY <1>2 DEF SaveSession
  <2>2. /\ u \in Transactions /\ u.session \in Sessions /\ u.header \in Cookies \cup {NoCookie}
        /\ e \in Storage /\ Fresh \in SUBSET ID
        BY <1>2 DEF Safe, Transactions, Fresh
  <2>3. /\ SaveResult(u.session, e, Fresh, p)
        /\ p.header \in Cookies \cup {NoCookie}
        /\ p.header = u.header \/ p.header.ID = p.s.ID
        BY <2>2, SaveHTTPProperties
  <2>4. PICK ph \in Phase :
          o.t = [u EXCEPT !.session = p.s, !.header = p.header, !.phase = ph]
    <3>1. u.phase \in Phase
          BY <2>2 DEF Transactions
    <3> QED
        BY <2>1, <3>1 DEF Result, Phase
  <2>5. o.db = p.db
        BY <2>1 DEF Result
  <2>6. p.s \in Sessions /\ p.s.values = u.session.values /\ p.db \in Storage
        BY <2>3 DEF SaveResult
  <2>7. o.t \in Transactions
        BY <2>2, <2>3, <2>4, <2>6 DEF Transactions
  <2>8. /\ o.t.owner = u.owner /\ o.t.session = p.s /\ o.t.header = p.header
        /\ o.t.cookie = u.cookie /\ o.t.wire = u.wire
        BY <2>2, <2>4 DEF Transactions
  <2>9. \A i \in ID : Mentions(o.t, i) => Mentions(u, i) \/ i \in Fresh
    <3>1. \A i \in ID : p.s.ID = i => Mentions(u, i) \/ i \in Fresh
          BY <1>2, <2>3, SessionAssumption DEF SaveResult, Mentions
    <3> QED
        BY <2>3, <2>8, <3>1 DEF Mentions
  <2>10. \A i \in ID : \/ p.db[i] = e[i]
                       \/ p.db[i] = NoData
                       \/ p.db[i] = u.session.values /\ (Mentions(u, i) \/ i \in Fresh)
    <3>1. Saved(u.session, e, p.db, Fresh)
          BY <2>3 DEF SaveResult
    <3>2. \A i \in ID : i = u.session.ID => Mentions(u, i)
          BY <1>2 DEF Mentions
    <3>3. ASSUME NEW i \in ID
          PROVE  \/ p.db[i] = e[i]
                 \/ p.db[i] = NoData
                 \/ p.db[i] = u.session.values /\ (i = u.session.ID \/ i \in Fresh)
          BY <3>1 DEF Saved
    <3> QED
        BY <3>2, <3>3
  <2>11. WrittenBy(c, u.session.values)
         BY <1>2 DEF Safe
  <2>12. \A i \in ID : \/ o.db[i] = db[i]
                       \/ o.db[i] = NoData
                       \/ WrittenBy(c, o.db[i]) /\ (Holds(c, i) \/ i \in Fresh)
         BY <2>5, <2>10, <2>11 DEF Safe
  <2> QED
      BY <2>5, <2>6, <2>7, <2>8, <2>9, <2>11, <2>12 DEF Safe
<1> QED
    BY <1>1, <1>2

LEMMA SafeWriteHeader ==
  ASSUME NEW c \in Client, NEW u, NEW e, Safe(c, u, e), NEW code \in Codes,
         NEW o \in WriteHeader(u, e, code)
  PROVE  Safe(c, o.t, o.db)
<1>1. CASE u.headerWritten
      BY <1>1 DEF WriteHeader, Result
<1>2. CASE ~u.headerWritten
  <2> DEFINE v == [u EXCEPT !.headerWritten = TRUE]
  <2>1. PICK p \in SaveSession(v, e) : o = Result(Send(p.t, code), p.db)
        BY <1>2 DEF WriteHeader
  <2>2. Safe(c, v, e)
        BY SafePhase, CodesAreStatus DEF Phase
  <2> HIDE DEF v
  <2>3. Safe(c, p.t, p.db)
        BY <2>1, <2>2, SafeSave
  <2>4. Safe(c, Send(p.t, code), p.db)
        BY <2>3, SafeSend
  <2> QED
      BY <2>1, <2>4 DEF Result
<1> QED
    BY <1>1, <1>2

LEMMA SafeWrite ==
  ASSUME NEW c \in Client, NEW u, NEW e, Safe(c, u, e), NEW o \in Write(u, e)
  PROVE  Safe(c, o.t, o.db)
<1>1. PICK p \in WriteHeader(u, e, u.status) : o = Result(Send(p.t, 200), p.db)
      BY DEF Write
<1>2. u.status \in Codes
      BY DEF Safe, Transactions
<1>3. Safe(c, p.t, p.db)
      BY <1>1, <1>2, SafeWriteHeader
<1>4. Safe(c, Send(p.t, 200), p.db)
      BY <1>3, SafeSend, CodesAreStatus
<1> QED
    BY <1>1, <1>4 DEF Result

LEMMA SafeRespond ==
  ASSUME NEW c \in Client, NEW u, NEW e, Safe(c, u, e), NEW code \in Codes,
         NEW o \in RespondWithMessage(u, e, code)
  PROVE  Safe(c, o.t, o.db)
<1>1. Safe(c, [u EXCEPT !.status = code], e)
      BY SafePhase DEF Phase
<1> QED
    BY <1>1, SafeWrite DEF RespondWithMessage

(* ServeHTTP returns: the slot is idle, or keeps what is on the wire.      *)
LEMMA SafeReturned ==
  ASSUME NEW c \in Client, NEW o, Safe(c, o.t, o.db)
  PROVE  /\ Returned(o).db = o.db
         /\ \/ Returned(o).t = IdleTransaction
            \/ Safe(c, Returned(o).t, o.db) /\ Returned(o).t.phase = "returned"
<1> DEFINE u == [o.t EXCEPT !.phase = "returned"]
           v == [IdleTransaction EXCEPT !.phase = "returned", !.owner = u.owner, !.wire = u.wire]
<1>1. o.t \in Transactions
      BY DEF Safe
<1>2. u.phase = "returned" /\ u.owner = c /\ u.wire = o.t.wire
      BY <1>1 DEF Safe, Transactions
<1>3. Returned(o).t = IdleTransaction \/ Returned(o).t = v
      BY <1>2 DEF Returned, Result, Settle, Recycled
<1>4. Safe(c, v, o.db) /\ v.phase = "returned"
  <2>1. /\ v \in Transactions /\ v.owner = c /\ v.session = NoSession /\ v.header = NoCookie
        /\ v.cookie = NoCookie /\ v.wire = o.t.wire /\ v.phase = "returned"
    <3>1. /\ IdleTransaction \in Transactions
          /\ IdleTransaction.session = NoSession /\ IdleTransaction.header = NoCookie
          /\ IdleTransaction.cookie = NoCookie
          BY IdleProperties DEF IdleTransaction
    <3>2. u.owner \in Client /\ u.wire = o.t.wire /\ u.owner = c
          BY <1>2
    <3>3. o.t.wire \in Responses \cup {NoResponse, Delivered}
          BY <1>1 DEF Transactions
    <3>4. v = [IdleTransaction EXCEPT !.phase = "returned", !.owner = c, !.wire = o.t.wire]
          BY <3>2
    <3> HIDE DEF v, u
    <3> QED
        BY <3>1, <3>3, <3>4 DEF Transactions, Phase
  <2> HIDE DEF v
  <2>2. \A i \in ID : Mentions(v, i) => Mentions(o.t, i)
        BY <2>1, SessionAssumption DEF Mentions
  <2> QED
      BY <2>1, <2>2 DEF Safe
<1> HIDE DEF u, v
<1> QED
    BY <1>3, <1>4 DEF Returned, Result

-----------------------------------------------------------------------------
(* Nothing of an identifier changes hands when slot r, of client c or idle, *)
(* becomes a safe transaction or idle and the storage a safe one.           *)
LEMMA SafeStep ==
  ASSUME IsolationInv, NEW c \in Client, NEW r \in Req,
         tx[r] = IdleTransaction \/ tx[r].owner = c,
         NEW u, NEW e,
         \/ u = IdleTransaction
         \/ Safe(c, u, e) /\ u.phase # "idle",
         \E v : Safe(c, v, e),
         tx' = [tx EXCEPT ![r] = u], db' = e, jar' = jar
  PROVE  IsolationInv'
<1>1. /\ TypeOK /\ OwnedSlots /\ Isolation /\ OneHolder
      /\ tx'[r] = u /\ \A q \in Req : q # r => tx'[q] = tx[q]
      BY DEF IsolationInv, TypeOK
<1>2. e \in Storage
      BY DEF Safe
<1>3. u \in Transactions /\ (u = IdleTransaction \/ (u.owner = c /\ u.phase # "idle"))
  <2>1. CASE u = IdleTransaction
        BY <2>1, IdleProperties
  <2>2. CASE Safe(c, u, e) /\ u.phase # "idle"
        BY <2>2 DEF Safe
  <2> QED
      BY <2>1, <2>2
<1>4. TypeOK'
      BY <1>1, <1>2, <1>3 DEF TypeOK
<1>5. OwnedSlots'
      BY <1>1, <1>3 DEF OwnedSlots
<1>6. Isolation'
      BY <1>1, <1>3, IdleProperties DEF Isolation, Safe
<1>7. \A i \in ID, x \in Client : Holds(x, i)' => Holds(x, i) \/ (x = c /\ i \in Fresh)
  <2> SUFFICES ASSUME NEW i \in ID, NEW x \in Client, Holds(x, i)'
               PROVE  Holds(x, i) \/ (x = c /\ i \in Fresh)
      OBVIOUS
  <2>1. CASE jar'[x] = i
        BY <2>1 DEF Holds
  <2>2. CASE jar'[x] # i
    <3>1. PICK q \in Req : tx'[q].owner = x /\ Mentions(tx'[q], i)
          BY <2>2 DEF Holds, Mentions
    <3>2. CASE q # r
          BY <1>1, <3>1, <3>2 DEF Holds
    <3>3. CASE q = r
          BY <1>1, <1>3, <3>1, <3>3, IdleProperties DEF Safe
    <3> QED
        BY <3>2, <3>3
  <2> QED
      BY <2>1, <2>2
<1>8. \A i \in Fresh : db[i] = NoData /\ \A x \in Client : ~Holds(x, i)
      BY DEF Fresh
<1>9. \A i \in ID : \/ e[i] = db[i] \/ e[i] = NoData
                    \/ WrittenBy(c, e[i]) /\ (Holds(c, i) \/ i \in Fresh)
      BY DEF Safe
<1>10. ASSUME NEW i \in ID, NEW x \in Client, Holds(x, i)' PROVE WrittenBy(x, e[i])
  <2>1. WrittenBy(x, NoData)
        BY EmptyIsMap DEF WrittenBy
  <2>2. WrittenBy(x, db[i])
        BY <1>1, <1>7, <1>8, <1>10, <2>1 DEF OneHolder
  <2>3. (Holds(c, i) \/ i \in Fresh) => x = c
        BY <1>1, <1>7, <1>8, <1>10 DEF OneHolder
  <2> QED
      BY <1>9, <2>1, <2>2, <2>3
<1>11. ASSUME NEW i \in ID, NEW x \in Client, NEW y \in Client, Holds(x, i)', Holds(y, i)'
       PROVE  y = x
       BY <1>1, <1>7, <1>8, <1>11 DEF OneHolder
<1>12. OneHolder'
  <2>1. \A i \in ID, x \in Client : Holds(x, i)' =>
          WrittenBy(x, db'[i]) /\ \A y \in Client : Holds(y, i)' => y = x
        BY <1>10, <1>11
  <2> QED
      BY <2>1 DEF OneHolder
<1> QED
    BY <1>4, <1>5, <1>6, <1>12 DEF IsolationInv

(* The form every step of a request takes.                                 *)
LEMMA SafeBecomes ==
  ASSUME IsolationInv, NEW c \in Client, NEW r \in Req,
         tx[r] = IdleTransaction \/ tx[r].owner = c,
         NEW outcomes,
         \A o \in outcomes :
           /\ \/ o.t = IdleTransaction
              \/ Safe(c, o.t, o.db) /\ o.t.phase # "idle"
           /\ \E v : Safe(c, v, o.db),
         Becomes(r, outcomes)
  PROVE  IsolationInv'
<1>1. PICK o \in outcomes : tx' = [tx EXCEPT ![r] = o.t] /\ db' = o.db /\ jar' = jar
      BY DEF Becomes
<1> QED
    BY <1>1, SafeStep

(* The transaction of a request in progress is safe before the step.       *)
LEMMA SafeBefore ==
  ASSUME IsolationInv, NEW r \in Req, tx[r] # IdleTransaction
  PROVE  tx[r].owner \in Client /\ tx[r].phase # "idle" /\ Safe(tx[r].owner, tx[r], db)
<1>1. tx[r] \in Transactions /\ db \in Storage /\ tx[r].owner \in Client /\ tx[r].phase # "idle"
      BY DEF IsolationInv, TypeOK, OwnedSlots
<1>2. \A i \in ID : Mentions(tx[r], i) => Holds(tx[r].owner, i)
      BY DEF Holds
<1> QED
    BY <1>1, <1>2 DEF Safe, IsolationInv, Isolation

-----------------------------------------------------------------------------
(* The steps of ServeHTTP and of a handler, one by one.                    *)
LEMMA ServeStep ==
  ASSUME IsolationInv, NEW r \in Req, NEW c \in Client, ServeHTTP(r, c)
  PROVE  IsolationInv'
<1> DEFINE t == NewTransaction(r, c)
<1>1. tx[r] = IdleTransaction
      BY DEF ServeHTTP, IsolationInv, OwnedSlots
<1>2. Safe(c, t, db) /\ t.phase = "handler"
  <2>1. jar[c] \in ID \cup {NoID, NoCookie} /\ db \in Storage
        BY DEF IsolationInv, TypeOK
  <2>2. /\ t \in Transactions /\ t.owner = c /\ t.cookie = jar[c] /\ t.phase = "handler"
        /\ t.session = NoSession /\ t.header = NoCookie /\ t.wire = NoResponse
    <3>1. t = [IdleTransaction EXCEPT !.phase = "handler", !.owner = c, !.cookie = jar[c]]
          BY <1>1 DEF NewTransaction
    <3>2. /\ IdleTransaction.session = NoSession /\ IdleTransaction.header = NoCookie
          /\ IdleTransaction.wire = NoResponse
          BY DEF IdleTransaction
    <3> HIDE DEF t
    <3> QED
        BY <2>1, <3>1, <3>2, IdleProperties DEF Transactions, Phase
  <2> HIDE DEF t
  <2>3. \A i \in ID : Mentions(t, i) => Holds(c, i)
        BY <2>2 DEF Mentions, Holds
  <2> QED
      BY <2>1, <2>2, <2>3 DEF Safe
<1> HIDE DEF t
<1>3. CASE Becomes(r, {Result(t, db)})
  <2>1. \A o \in {Result(t, db)} : Safe(c, o.t, o.db) /\ o.t.phase # "idle"
        BY <1>2 DEF Result
  <2> QED
      BY <1>1, <1>3, <2>1, SafeBecomes
<1>4. ASSUME NEW outcomes,
             \A p \in outcomes : \E o : p = Returned(o) /\ Safe(c, o.t, o.db),
             Becomes(r, outcomes)
      PROVE  IsolationInv'
  <2>1. ASSUME NEW p \in outcomes
        PROVE  /\ \/ p.t = IdleTransaction
                  \/ Safe(c, p.t, p.db) /\ p.t.phase # "idle"
               /\ \E v : Safe(c, v, p.db)
    <3>1. PICK o : p = Returned(o) /\ Safe(c, o.t, o.db)
          BY <1>4
    <3>2. /\ p.db = o.db
          /\ p.t = IdleTransaction \/ (Safe(c, p.t, o.db) /\ p.t.phase = "returned")
          BY <3>1, SafeReturned
    <3> QED
        BY <3>1, <3>2
  <2> QED
      BY <1>1, <1>4, <2>1, SafeBecomes
<1>5. ASSUME NEW code \in {404, 500},
             RespondAndReturn(r, t, code)
      PROVE  IsolationInv'
  <2>1. \A o \in RespondWithMessage(t, db, code) : Safe(c, o.t, o.db)
        BY <1>2, SafeRespond, CodesAreStatus
  <2> QED
      BY <1>4, <1>5, <2>1 DEF RespondAndReturn
<1>6. ASSUME NEW code \in {200, 404}, Becomes(r, {Returned(Result(Send(t, code), db))})
      PROVE  IsolationInv'
  <2> DEFINE o == Result(Send(t, code), db)
  <2>1. Safe(c, Send(t, code), db)
        BY <1>2, SafeSend, CodesAreStatus
  <2>2. Safe(c, o.t, o.db)
        BY <2>1 DEF Result
  <2> HIDE DEF o
  <2>3. \A p \in {Returned(o)} : p = Returned(o) /\ Safe(c, o.t, o.db)
        BY <2>2
  <2>4. Becomes(r, {Returned(o)})
        BY <1>6 DEF o
  <2> QED
      BY <1>4, <2>3, <2>4
<1> QED
    BY <1>3, <1>5, <1>6 DEF ServeHTTP, MaybeServeHTTP, ServeFallback, t

(* A phase other than idle survives the calls a handler makes.             *)
LEMMA BusyCalls ==
  ASSUME NEW u \in Transactions, NEW e, u.phase # "idle"
  PROVE  /\ \A code : Send(u, code).phase = u.phase
         /\ \A o \in SaveSession(u, e) : o.t.phase # "idle"
<1>1. ASSUME NEW code PROVE Send(u, code).phase = u.phase
      BY DEF Send, Transactions
<1>2. ASSUME NEW o \in SaveSession(u, e) PROVE o.t.phase # "idle"
  <2>1. CASE u.session = NoSession
        BY <1>2, <2>1 DEF SaveSession, Result
  <2>2. CASE u.session # NoSession
    <3>1. PICK p : o = Result([u EXCEPT !.session = p.s, !.header = p.header,
                                  !.phase = IF p.err = "panic" THEN "panicking" ELSE @], p.db)
          BY <1>2, <2>2 DEF SaveSession
    <3>2. o.t.phase = IF p.err = "panic" THEN "panicking" ELSE u.phase
          BY <3>1 DEF Result, Transactions
    <3> QED
        BY <3>2
  <2> QED
      BY <2>1, <2>2
<1> QED
    BY <1>1, <1>2

LEMMA BusyResponses ==
  ASSUME NEW c \in Client, NEW u, NEW e, Safe(c, u, e), u.phase # "idle", NEW code \in Codes
  PROVE  /\ \A o \in WriteHeader(u, e, code) : o.t.phase # "idle"
         /\ \A o \in Write(u, e) : o.t.phase # "idle"
         /\ \A o \in RespondWithMessage(u, e, code) : o.t.phase # "idle"
<1>1. ASSUME NEW v, Safe(c, v, e), v.phase # "idle", NEW k \in Codes,
             NEW o \in WriteHeader(v, e, k)
      PROVE  o.t.phase # "idle"
  <2>1. CASE v.headerWritten
        BY <1>1, <2>1 DEF WriteHeader, Result
  <2>2. CASE ~v.headerWritten
    <3> DEFINE w == [v EXCEPT !.headerWritten = TRUE]
    <3>1. PICK p \in SaveSession(w, e) : o = Result(Send(p.t, k), p.db)
          BY <1>1, <2>2 DEF WriteHeader
    <3>0. Safe(c, w, e)
          BY <1>1, SafePhase, CodesAreStatus DEF Phase
    <3>2. w.phase # "idle" /\ Safe(c, w, e)
          BY <1>1, <3>0 DEF Safe, Transactions
    <3> HIDE DEF w
    <3>3. w \in Transactions
          BY <3>2 DEF Safe
    <3>4. p.t.phase # "idle"
          BY <3>1, <3>2, <3>3, BusyCalls
    <3>5. p.t \in Transactions
          BY <3>1, <3>2, SafeSave DEF Safe
    <3> QED
        BY <3>1, <3>4, <3>5, BusyCalls DEF Result
  <2> QED
      BY <2>1, <2>2
<1>2. ASSUME NEW v, Safe(c, v, e), v.phase # "idle", NEW o \in Write(v, e)
      PROVE  o.t.phase # "idle"
  <2>1. v.status \in Codes
        BY <1>2 DEF Safe, Transactions
  <2>2. PICK p \in WriteHeader(v, e, v.status) : o = Result(Send(p.t, 200), p.db)
        BY <1>2 DEF Write
  <2>3. p.t.phase # "idle" /\ p.t \in Transactions
        BY <1>1, <1>2, <2>1, <2>2, SafeWriteHeader DEF Safe
  <2> QED
      BY <2>2, <2>3, BusyCalls DEF Result
<1>3. ASSUME NEW o \in RespondWithMessage(u, e, code) PROVE o.t.phase # "idle"
  <2>0. Safe(c, [u EXCEPT !.status = code], e)
        BY SafePhase DEF Phase
  <2>1. Safe(c, [u EXCEPT !.status = code], e) /\ [u EXCEPT !.status = code].phase # "idle"
        BY <2>0 DEF Safe, Transactions
  <2> QED
      BY <1>2, <1>3, <2>1 DEF RespondWithMessage
<1> QED
    BY <1>1, <1>2, <1>3

(* A step of a request in progress all of whose outcomes are safe.         *)
LEMMA HandlerBecomes ==
  ASSUME IsolationInv, NEW r \in Req, tx[r] # IdleTransaction, NEW outcomes,
         \A o \in outcomes : Safe(tx[r].owner, o.t, o.db) /\ o.t.phase # "idle",
         Becomes(r, outcomes)
  PROVE  IsolationInv'
<1>1. PICK c \in Client : c = tx[r].owner
      BY SafeBefore
<1> QED
    BY <1>1, SafeBecomes

LEMMA SessionStep ==
  ASSUME IsolationInv, NEW r \in Req, NEW s \in Sessions, InHandler(r),
         WrittenBy(tx[r].owner, s.values),
         s.ID \in ID => Holds(tx[r].owner, s.ID)
  PROVE  /\ tx[r] # IdleTransaction /\ tx[r].owner \in Client
         /\ Safe(tx[r].owner, [tx[r] EXCEPT !.session = s], db)
         /\ [tx[r] EXCEPT !.session = s].phase # "idle"
<1>1. tx[r] # IdleTransaction
      BY DEF InHandler, IdleTransaction
<1>2. tx[r].owner \in Client /\ Safe(tx[r].owner, tx[r], db) /\ tx[r].phase # "idle"
      BY <1>1, SafeBefore
<1>3. PICK c \in Client : c = tx[r].owner
      BY <1>2
<1>4. Safe(c, [tx[r] EXCEPT !.session = s], db)
      BY <1>2, <1>3, SafeSession
<1> QED
    BY <1>1, <1>2, <1>3, <1>4 DEF Safe, Transactions

(* The session of a slot, or one it loads, is its client's own.            *)
LEMMA OwnSession ==
  ASSUME IsolationInv, NEW r \in Req, InHandler(r), NEW s,
         \/ tx[r].session # NoSession /\ s = tx[r].session
         \/ s \in LoadHTTP(tx[r].cookie, db)
  PROVE  /\ s \in Sessions
         /\ WrittenBy(tx[r].owner, s.values)
         /\ s.ID \in ID => Holds(tx[r].owner, s.ID)
<1>1. tx[r] # IdleTransaction /\ tx[r] \in Transactions /\ db \in Storage
      BY DEF InHandler, IdleTransaction, IsolationInv, TypeOK
<1>2. tx[r].owner \in Client
      BY <1>1, SafeBefore
<1>3. CASE tx[r].session # NoSession /\ s = tx[r].session
  <2>1. s.ID \in ID => Mentions(tx[r], s.ID)
        BY <1>3 DEF Mentions
  <2> QED
      BY <1>1, <1>3, <2>1 DEF Transactions, IsolationInv, Isolation, Holds
<1>4. CASE s \in LoadHTTP(tx[r].cookie, db)
  <2>1. CASE s = NewSession
        BY <1>2, <2>1, NewSessionProperties, SessionAssumption
  <2>2. CASE s # NewSession
    <3>1. /\ tx[r].cookie \in ID /\ s \in Sessions /\ s.ID = tx[r].cookie
          /\ s.values = db[tx[r].cookie]
          BY <1>1, <1>4, <2>2, LoadProperties
    <3>2. Holds(tx[r].owner, tx[r].cookie)
          BY DEF Holds, Mentions
    <3>3. WrittenBy(tx[r].owner, db[tx[r].cookie])
          BY <1>2, <3>1, <3>2 DEF IsolationInv, OneHolder
    <3> QED
        BY <3>1, <3>2, <3>3
  <2> QED
      BY <2>1, <2>2
<1> QED
    BY <1>3, <1>4

-----------------------------------------------------------------------------
LEMMA HandlerStep ==
  ASSUME IsolationInv, NEW r \in Req, Handler(r)
  PROVE  IsolationInv'
<1>1. InHandler(r) /\ tx[r] # IdleTransaction
  <2>1. UseSession(r) => UsesSession(r)
        BY DEF UseSession, OnSession
  <2>2. UsesSession(r) => InHandler(r)
        BY DEF UsesSession
  <2>3. InHandler(r)
        BY <2>1, <2>2
        DEF Handler, GetSession, CallSaveSession, ClearSession, Respond, Panic, Return
  <2> QED
      BY <2>3 DEF InHandler, IdleTransaction
<1>2. PICK c \in Client : c = tx[r].owner
      BY <1>1, SafeBefore
<1>3. Safe(c, tx[r], db) /\ tx[r].phase # "idle"
      BY <1>1, <1>2, SafeBefore
<1>4. ASSUME NEW S, S \subseteq Sessions,
             \A s \in S : WrittenBy(c, s.values) /\ (s.ID \in ID => Holds(c, s.ID)),
             Becomes(r, {Result([tx[r] EXCEPT !.session = s], db) : s \in S})
      PROVE  IsolationInv'
  <2>1. \A s \in S : /\ Safe(c, [tx[r] EXCEPT !.session = s], db)
                     /\ [tx[r] EXCEPT !.session = s].phase # "idle"
        BY <1>1, <1>2, <1>4, SessionStep
  <2>2. ASSUME NEW o \in {Result([tx[r] EXCEPT !.session = s], db) : s \in S}
        PROVE  Safe(tx[r].owner, o.t, o.db) /\ o.t.phase # "idle"
    <3>1. PICK s \in S : o = Result([tx[r] EXCEPT !.session = s], db)
          BY <2>2
    <3>2. o.t = [tx[r] EXCEPT !.session = s] /\ o.db = db
          BY <3>1 DEF Result
    <3> QED
        BY <1>2, <2>1, <3>2
  <2> QED
      BY <1>1, <1>4, <2>2, HandlerBecomes
<1>5. ASSUME GetSession(r) PROVE IsolationInv'
  <2> DEFINE S == LoadHTTP(tx[r].cookie, db)
  <2>1. \A s \in S : s \in Sessions /\ WrittenBy(c, s.values) /\ (s.ID \in ID => Holds(c, s.ID))
        BY <1>1, <1>2, OwnSession
  <2>2. Becomes(r, {Result([tx[r] EXCEPT !.session = s], db) : s \in S})
        BY <1>5 DEF GetSession
  <2> HIDE DEF S
  <2>3. S \subseteq Sessions
        BY <2>1
  <2> QED
      BY <1>4, <2>1, <2>2, <2>3
<1>6. ASSUME NEW s \in Sessions, WrittenBy(c, s.values), s.ID = tx[r].session.ID,
             tx[r].session # NoSession, OnSession(r, s)
      PROVE  IsolationInv'
  <2>1. s.ID \in ID => Holds(c, s.ID)
        BY <1>1, <1>2, <1>6, OwnSession
  <2>2. {Result([tx[r] EXCEPT !.session = q], db) : q \in {s}}
          = {Result([tx[r] EXCEPT !.session = s], db)}
        OBVIOUS
  <2>3. Becomes(r, {Result([tx[r] EXCEPT !.session = q], db) : q \in {s}})
        BY <1>6, <2>2 DEF OnSession
  <2> DEFINE S == {s}
  <2>4. /\ S \subseteq Sessions
        /\ \A q \in S : WrittenBy(c, q.values) /\ (q.ID \in ID => Holds(c, q.ID))
        BY <1>6, <2>1
  <2>5. Becomes(r, {Result([tx[r] EXCEPT !.session = q], db) : q \in S})
        BY <2>3
  <2> HIDE DEF S
  <2> QED
      BY <1>4, <2>4, <2>5
<1>7. ASSUME UseSession(r) PROVE IsolationInv'
  <2> DEFINE s == tx[r].session
  <2>1. s # NoSession
        BY <1>7 DEF UseSession, OnSession, UsesSession
  <2>2. s \in Sessions /\ WrittenBy(c, s.values)
        BY <1>1, <1>2, <2>1, OwnSession
  <2>3. ASSUME NEW k \in Key, OnSession(r, SetTo(s, k, c)) PROVE IsolationInv'
        BY <1>6, <2>1, <2>2, <2>3, SetToProperties
  <2>4. ASSUME NEW k \in Key, OnSession(r, SetToNil(s, k)) PROVE IsolationInv'
        BY <1>6, <2>1, <2>2, <2>4, RemoveProperties
  <2>5. ASSUME NEW k \in Key, OnSession(r, Del(s, k)) PROVE IsolationInv'
        BY <1>6, <2>1, <2>2, <2>5, RemoveProperties
  <2>6. ASSUME OnSession(r, Clear(s)) PROVE IsolationInv'
        BY <1>6, <2>1, <2>2, <2>6, ClearProperties
  <2> QED
      BY <1>2, <1>7, <2>3, <2>4, <2>5, <2>6 DEF UseSession
<1>8. ASSUME NEW u, Safe(c, u, db), u.phase # "idle", Becomes(r, SaveSession(u, db))
      PROVE  IsolationInv'
  <2>1. ASSUME NEW o \in SaveSession(u, db)
        PROVE  Safe(c, o.t, o.db) /\ o.t.phase # "idle"
        BY <1>8, SafeSave, BusyCalls DEF Safe
  <2> QED
      BY <1>1, <1>2, <1>8, <2>1, HandlerBecomes
<1>9. ASSUME CallSaveSession(r) PROVE IsolationInv'
      BY <1>3, <1>8, <1>9 DEF CallSaveSession
<1>10. ASSUME ClearSession(r) PROVE IsolationInv'
  <2>1. PICK s : /\ \/ tx[r].session # NoSession /\ s = tx[r].session
                    \/ s \in LoadHTTP(tx[r].cookie, db)
                 /\ Becomes(r, SaveSession([tx[r] EXCEPT !.session = Clear(s)], db))
        BY <1>10 DEF ClearSession
  <2>2. s \in Sessions /\ WrittenBy(c, s.values) /\ (s.ID \in ID => Holds(c, s.ID))
        BY <1>1, <1>2, <2>1, OwnSession
  <2>3. /\ Clear(s) \in Sessions /\ WrittenBy(c, Clear(s).values)
        /\ Clear(s).ID \in ID => Holds(c, Clear(s).ID)
        BY <2>2, ClearProperties
  <2>4. /\ Safe(c, [tx[r] EXCEPT !.session = Clear(s)], db)
        /\ [tx[r] EXCEPT !.session = Clear(s)].phase # "idle"
        BY <1>1, <1>2, <2>3, SessionStep
  <2> QED
      BY <1>8, <2>1, <2>4
<1>11. ASSUME Respond(r) PROVE IsolationInv'
  <2>1. ASSUME NEW code \in Codes, NEW outcomes,
               outcomes \in {WriteHeader(tx[r], db, code), Write(tx[r], db),
                             RespondWithMessage(tx[r], db, code)},
               Becomes(r, outcomes)
        PROVE  IsolationInv'
    <3>1. ASSUME NEW o \in outcomes PROVE Safe(tx[r].owner, o.t, o.db) /\ o.t.phase # "idle"
          BY <1>2, <1>3, <2>1, SafeWriteHeader, SafeWrite, SafeRespond, BusyResponses
    <3> QED
        BY <1>1, <2>1, <3>1, HandlerBecomes
  <2> QED
      BY <1>11, <2>1, CodesAreStatus DEF Respond
<1>12. ASSUME Panic(r) PROVE IsolationInv'
  <2> DEFINE o == Result([tx[r] EXCEPT !.phase = "panicking"], db)
  <2>1. Safe(c, o.t, o.db)
        BY <1>3, SafePhase, CodesAreStatus DEF Result, Phase
  <2>2. o.t.phase # "idle"
        BY <1>3 DEF Result, Safe, Transactions
  <2>3. Becomes(r, {o})
        BY <1>12 DEF Panic
  <2> HIDE DEF o
  <2> QED
      BY <1>1, <1>2, <2>1, <2>2, <2>3, HandlerBecomes
<1>13. ASSUME Return(r) PROVE IsolationInv'
  <2> DEFINE o == Result(Send(tx[r], 200), db)
  <2>1. Safe(c, o.t, o.db)
        BY <1>3, SafeSend, CodesAreStatus DEF Result
  <2>2. Becomes(r, {Returned(o)})
        BY <1>13 DEF Return
  <2> HIDE DEF o
  <2>3. \A p \in {Returned(o)} :
          /\ \/ p.t = IdleTransaction
             \/ Safe(c, p.t, p.db) /\ p.t.phase # "idle"
          /\ \E v : Safe(c, v, p.db)
        BY <2>1, SafeReturned
  <2> QED
      BY <1>2, <2>2, <2>3, SafeBecomes
<1> QED
    BY <1>5, <1>7, <1>9, <1>10, <1>11, <1>12, <1>13 DEF Handler

(* The deferred function: a response, or a slot given up.                  *)
LEMMA RecoverStep ==
  ASSUME IsolationInv, NEW r \in Req, Recover(r)
  PROVE  IsolationInv'
<1>1. tx[r] # IdleTransaction
      BY DEF Recover, IdleTransaction
<1>2. PICK c \in Client : c = tx[r].owner
      BY <1>1, SafeBefore
<1> DEFINE u == [tx[r] EXCEPT !.phase = "handler"]
<1>3. Safe(c, u, db)
      BY <1>1, <1>2, SafeBefore, SafePhase, CodesAreStatus DEF Phase
<1> HIDE DEF u
<1>4. \A o \in RespondWithMessage(u, db, 500) : Safe(c, o.t, o.db)
      BY <1>3, SafeRespond, CodesAreStatus
<1> DEFINE outcomes ==
             { IF o.t.phase = "panicking" THEN Result(IdleTransaction, o.db) ELSE Returned(o)
               : o \in RespondWithMessage(u, db, 500) }
<1>5. Becomes(r, outcomes)
      BY DEF Recover, u
<1>6. ASSUME NEW p \in outcomes
      PROVE  /\ \/ p.t = IdleTransaction
                \/ Safe(c, p.t, p.db) /\ p.t.phase # "idle"
             /\ \E v : Safe(c, v, p.db)
  <2>1. PICK o \in RespondWithMessage(u, db, 500) :
          p = IF o.t.phase = "panicking" THEN Result(IdleTransaction, o.db) ELSE Returned(o)
        OBVIOUS
  <2>2. Safe(c, o.t, o.db)
        BY <1>4
  <2>3. CASE p = Result(IdleTransaction, o.db)
        BY <2>2, <2>3 DEF Result
  <2>4. CASE p = Returned(o)
        BY <2>2, <2>4, SafeReturned
  <2> QED
      BY <2>1, <2>3, <2>4
<1> HIDE DEF outcomes
<1> QED
    BY <1>2, <1>5, <1>6, SafeBecomes

(* What arrives leaves the wire, and a cookie that arrives was on it.      *)
LEMMA DeliveryStep ==
  ASSUME IsolationInv, NEW r \in Req, Receive(r) \/ Lose(r)
  PROVE  IsolationInv'
<1> DEFINE c == tx[r].owner
           w == tx[r].wire
           u == Settle([tx[r] EXCEPT !.wire = Delivered])
<1>1. /\ w \notin {NoResponse, Delivered} /\ tx' = [tx EXCEPT ![r] = u] /\ db' = db
      BY DEF Receive, Lose
<1>2. tx[r] # IdleTransaction
      BY <1>1 DEF IdleTransaction
<1>3. /\ c \in Client /\ tx[r].phase # "idle" /\ Safe(c, tx[r], db)
      /\ tx[r] \in Transactions /\ w \in Responses
      BY <1>1, <1>2, SafeBefore DEF Safe, Transactions
<1>4. /\ u = IdleTransaction
         \/ (u \in Transactions /\ u.owner = c /\ u.phase # "idle" /\ u.session = tx[r].session)
      /\ \A i \in ID : Mentions(u, i) => Mentions(tx[r], i)
  <2> DEFINE v == [tx[r] EXCEPT !.wire = Delivered]
  <2>1. /\ v \in Transactions /\ v.owner = c /\ v.phase = tx[r].phase /\ v.wire = Delivered
        /\ v.session = tx[r].session /\ v.header = tx[r].header /\ v.cookie = tx[r].cookie
        BY <1>3 DEF Transactions
  <2> HIDE DEF v
  <2>2. Settle(v) = IdleTransaction \/ Settle(v) = v
        BY <2>1 DEF Settle, Recycled
  <2>3. \A i \in ID : Mentions(v, i) => Mentions(tx[r], i)
        BY <2>1 DEF Mentions
  <2> QED
      BY <1>3, <2>1, <2>2, <2>3, IdleProperties DEF v
<1>5. \A x \in Client : \/ jar'[x] = jar[x]
                        \/ jar'[x] = NoCookie
                        \/ /\ x = c /\ w.cookie # NoCookie
                           /\ jar'[x] = w.cookie.ID /\ w.cookie.ID \in ID \cup {NoID}
  <2>1. jar \in [Client -> ID \cup {NoID, NoCookie}]
        BY DEF IsolationInv, TypeOK
  <2>2. w.cookie \in Cookies \cup {NoCookie}
        BY <1>3 DEF Responses
  <2>3. CASE Lose(r)
        BY <2>3 DEF Lose
  <2>4. CASE Receive(r)
        BY <2>1, <2>2, <2>4 DEF Receive, Cookies
  <2> QED
      BY <2>3, <2>4
<1>6. jar' \in [Client -> ID \cup {NoID, NoCookie}]
  <2>1. jar \in [Client -> ID \cup {NoID, NoCookie}]
        BY DEF IsolationInv, TypeOK
  <2>2. w.cookie \in Cookies \cup {NoCookie}
        BY <1>3 DEF Responses
  <2>3. CASE Lose(r)
        BY <2>1, <2>3 DEF Lose
  <2>4. CASE Receive(r)
        BY <2>1, <2>2, <2>4 DEF Receive, Cookies
  <2> QED
      BY <2>3, <2>4
<1> HIDE DEF u
<1>7. tx'[r] = u /\ \A q \in Req : q # r => tx'[q] = tx[q]
      BY <1>1 DEF IsolationInv, TypeOK
<1>8. TypeOK' /\ OwnedSlots' /\ Isolation'
      BY <1>1, <1>3, <1>4, <1>6, <1>7, IdleProperties
      DEF IsolationInv, TypeOK, OwnedSlots, Isolation
<1>9. \A i \in ID, x \in Client : Holds(x, i)' => Holds(x, i)
  <2> SUFFICES ASSUME NEW i \in ID, NEW x \in Client, Holds(x, i)' PROVE Holds(x, i)
      OBVIOUS
  <2>1. ASSUME x = c, w.cookie # NoCookie, w.cookie.ID = i PROVE Holds(x, i)
    <3>1. Mentions(tx[r], i)
          BY <1>1, <2>1 DEF Mentions
    <3> QED
        BY <2>1, <3>1 DEF Holds
  <2>2. CASE jar'[x] = i
        BY <1>5, <2>1, <2>2, SessionAssumption DEF Holds
  <2>3. CASE jar'[x] # i
    <3>1. PICK q \in Req : tx'[q].owner = x /\ Mentions(tx'[q], i)
          BY <2>3 DEF Holds, Mentions
    <3>2. tx[q].owner = x /\ Mentions(tx[q], i)
          BY <1>4, <1>7, <3>1, IdleProperties
    <3> QED
        BY <3>2 DEF Holds
  <2> QED
      BY <2>2, <2>3
<1>10. OneHolder'
  <2>1. \A i \in ID, x \in Client : Holds(x, i)' =>
          WrittenBy(x, db'[i]) /\ \A y \in Client : Holds(y, i)' => y = x
        BY <1>1, <1>9 DEF IsolationInv, OneHolder
  <2> QED
      BY <2>1 DEF OneHolder
<1> QED
    BY <1>8, <1>10 DEF IsolationInv

(* Data and cookies that are dropped take nothing to anyone.               *)
LEMMA DroppedStep ==
  ASSUME IsolationInv, UNCHANGED tx,
         \A c \in Client : jar'[c] \in {jar[c], NoCookie},
         \A i \in ID : db'[i] \in {db[i], NoData},
         jar' \in [Client -> ID \cup {NoID, NoCookie}], db' \in Storage
  PROVE  IsolationInv'
<1>1. TypeOK' /\ OwnedSlots' /\ Isolation'
      BY DEF IsolationInv, TypeOK, OwnedSlots, Isolation
<1>2. \A i \in ID, x \in Client : Holds(x, i)' => Holds(x, i)
  <2> SUFFICES ASSUME NEW i \in ID, NEW x \in Client, Holds(x, i)' PROVE Holds(x, i)
      OBVIOUS
  <2>1. CASE jar'[x] = i
        BY <2>1, SessionAssumption DEF Holds
  <2>2. CASE \E q \in Req : tx[q].owner = x /\ Mentions(tx[q], i)
        BY <2>2 DEF Holds
  <2> QED
      BY <2>1, <2>2 DEF Holds, Mentions
<1>3. \A x \in Client : WrittenBy(x, NoData)
      BY EmptyIsMap DEF WrittenBy
<1>4. \A i \in ID, x \in Client : Holds(x, i)' =>
        WrittenBy(x, db'[i]) /\ \A y \in Client : Holds(y, i)' => y = x
  <2> SUFFICES ASSUME NEW i \in ID, NEW x \in Client, Holds(x, i)'
               PROVE  WrittenBy(x, db'[i]) /\ \A y \in Client : Holds(y, i)' => y = x
      OBVIOUS
  <2>1. WrittenBy(x, db[i]) /\ \A y \in Client : Holds(y, i) => y = x
        BY <1>2 DEF IsolationInv, OneHolder
  <2>2. db'[i] = db[i] \/ db'[i] = NoData
        OBVIOUS
  <2> QED
      BY <1>2, <1>3, <2>1, <2>2
<1>5. OneHolder'
      BY <1>4 DEF OneHolder
<1> QED
    BY <1>1, <1>5 DEF IsolationInv

-----------------------------------------------------------------------------
LEMMA IsolationInit == Init => IsolationInv
<1> SUFFICES ASSUME Init PROVE IsolationInv
    OBVIOUS
<1>1. \A r \in Req : tx[r] = IdleTransaction
      BY DEF Init
<1>2. TypeOK
      BY IdleProperties DEF Init, TypeOK, Storage
<1>3. OwnedSlots /\ Isolation
      BY <1>1, IdleProperties DEF OwnedSlots, Isolation
<1>4. \A c \in Client, i \in ID : ~Holds(c, i)
      BY <1>1, IdleProperties, SessionAssumption DEF Init, Holds
<1>5. OneHolder
      BY <1>4 DEF OneHolder
<1> QED
    BY <1>2, <1>3, <1>5 DEF IsolationInv

LEMMA IsolationStep == IsolationInv /\ [Next]_vars => IsolationInv'
<1> SUFFICES ASSUME IsolationInv, [Next]_vars PROVE IsolationInv'
    OBVIOUS
<1> USE DEF Next
<1>1. ASSUME NEW r \in Req, NEW c \in Client, ServeHTTP(r, c) PROVE IsolationInv'
      BY <1>1, ServeStep
<1>2. ASSUME NEW r \in Req, Handler(r) PROVE IsolationInv'
      BY <1>2, HandlerStep
<1>3. ASSUME NEW r \in Req, Recover(r) PROVE IsolationInv'
      BY <1>3, RecoverStep
<1>4. ASSUME NEW r \in Req, Receive(r) \/ Lose(r) PROVE IsolationInv'
      BY <1>4, DeliveryStep
<1>5. /\ jar \in [Client -> ID \cup {NoID, NoCookie}]
      /\ db \in [ID \cup {NoID} -> Map \cup {NoData}]
      BY DEF IsolationInv, TypeOK, Storage
<1>6. ASSUME NEW i \in ID \cup {NoID}, Expire(i) PROVE IsolationInv'
  <2>1. /\ UNCHANGED tx /\ jar' = jar /\ db' \in Storage
        /\ \A j \in ID : db'[j] \in {db[j], NoData}
        BY <1>5, <1>6 DEF Expire, Storage
  <2> QED
      BY <1>5, <2>1, DroppedStep
<1>7. ASSUME NEW c \in Client, Forget(c) PROVE IsolationInv'
  <2>1. /\ UNCHANGED tx /\ db' = db /\ jar' \in [Client -> ID \cup {NoID, NoCookie}]
        /\ \A x \in Client : jar'[x] \in {jar[x], NoCookie}
        BY <1>5, <1>7 DEF Forget
  <2> QED
      BY <1>5, <2>1, DroppedStep DEF Storage
<1>8. CASE UNCHANGED vars
      BY <1>5, <1>8, DroppedStep DEF vars, Storage
<1> QED
    BY <1>1, <1>2, <1>3, <1>4, <1>6, <1>7, <1>8

LEMMA IsolationInvariant == Spec => []IsolationInv
BY IsolationInit, IsolationStep, PTL DEF Spec

-----------------------------------------------------------------------------
(* Every transaction, jar and stored value keeps its form: in particular no *)
(* outcome of Load, Save or SaveHTTP leaves a session that is none.         *)
THEOREM TransactionTypeOK == Spec => []TypeOK
<1>1. IsolationInv => TypeOK
      BY DEF IsolationInv
<1> QED
    BY <1>1, IsolationInvariant, PTL

(* An identifier is mentioned by the cookies, sessions and responses of one *)
(* client only, and what is stored under it is of that client's requests,   *)
(* whatever fails, expires, is lost or forgotten (LoadHTTP, SaveHTTP).      *)
THEOREM IdentifiersHaveOneHolder == Spec => []OneHolder
<1>1. IsolationInv => OneHolder
      BY DEF IsolationInv
<1> QED
    BY <1>1, IsolationInvariant, PTL

(* A handler never finds in its session what another client's request wrote *)
(* (Session.Load, Transaction.Session), however requests interleave.        *)
THEOREM SessionIsolation == Spec => []Isolation
<1>1. IsolationInv => Isolation
      BY DEF IsolationInv
<1> QED
    BY <1>1, IsolationInvariant, PTL
-----------------------------------------------------------------------------
(* With a Storage no save panics: once a handler has written the header,    *)
(* something was sent. Without one the response of a panicking save is only *)
(* marked as written, and Recover has nothing it could send.                *)
Answered(t) == t.headerWritten => t.wire # NoResponse

AnsweredSlots == \A r \in Req : Answered(tx[r])

(* Transaction u is a handler's and has kept its promise.                   *)
Handling(u) == u \in Transactions /\ u.phase = "handler" /\ Answered(u)

LEMMA SaveDoesNotPanic ==
  ASSUME HasStorage, NEW s \in Sessions, NEW d, NEW h, NEW fresh,
         NEW o \in SaveHTTP(s, d, h, fresh)
  PROVE  o.err # "panic"
<1>1. PICK p \in Save(s, d, fresh) : o.err = p.err
      BY DEF SaveHTTP
<1>2. \A op, t, e : \A q \in Fails(op, t, e) : q.err = "error"
      BY DEF Fails, Outcome
<1>3. p \in SaveDel(s, d) => p.err # "panic"
      BY <1>2 DEF SaveDel, Outcome
<1>4. p \in SaveRefresh(s, d) => p.err # "panic"
      BY <1>2 DEF SaveRefresh, Outcome
<1>5. ASSUME p \in SaveSet(s, d, fresh) PROVE p.err # "panic"
  <2>1. CASE p \in Fails("encode", s, d)
        BY <1>2, <2>1
  <2>2. CASE p \notin Fails("encode", s, d)
    <3>1. PICK i \in SaveIDs(s, fresh) :
            LET t == [s EXCEPT !.ID = i] IN
            p \in IF ~HasStorage THEN {Outcome(t, d, "panic")}
                  ELSE {Outcome([t EXCEPT !.dirty = FALSE], [d EXCEPT ![i] = s.values], "nil")}
                         \cup Fails("set", t, d)
          BY <1>5, <2>2 DEF SaveSet
    <3>2. CASE p \in Fails("set", [s EXCEPT !.ID = i], d)
          BY <1>2, <3>2
    <3>3. CASE p \notin Fails("set", [s EXCEPT !.ID = i], d)
          BY <3>1, <3>3 DEF Outcome
    <3> QED
        BY <3>2, <3>3
  <2> QED
      BY <2>1, <2>2
<1>6. p = Outcome(s, d, "nil") => p.err # "panic"
      BY DEF Outcome
<1> QED
    BY <1>1, <1>3, <1>4, <1>5, <1>6 DEF Save

LEMMA AnsweredSave ==
  ASSUME HasStorage, NEW c \in Client, NEW u, NEW e, Safe(c, u, e),
         u.phase = "handler", NEW o \in SaveSession(u, e)
  PROVE  /\ o.t \in Transactions /\ o.t.phase = "handler"
         /\ o.t.wire = u.wire /\ o.t.headerWritten = u.headerWritten
<1>1. u \in Transactions /\ o.t \in Transactions
      BY SafeSave DEF Safe
<1>2. CASE u.session = NoSession
      BY <1>1, <1>2 DEF SaveSession, Result
<1>3. CASE u.session # NoSession
  <2>1. PICK p \in SaveHTTP(u.session, e, u.header, Fresh) :
          o = Result([u EXCEPT !.session = p.s, !.header = p.header,
                               !.phase = IF p.err = "panic" THEN "panicking" ELSE @], p.db)
        BY <1>3 DEF SaveSession
  <2>2. u.session \in Sessions
        BY <1>1, <1>3 DEF Transactions
  <2>3. p.err # "panic"
        BY <2>2, SaveDoesNotPanic
  <2>4. o.t = [u EXCEPT !.session = p.s, !.header = p.header, !.phase = u.phase]
        BY <1>1, <2>1, <2>3 DEF Result, Transactions
  <2> QED
      BY <1>1, <2>4 DEF Transactions
<1> QED
    BY <1>2, <1>3

(* Sending answers: the first code is the one on the wire.                  *)
LEMMA AnsweredSend ==
  ASSUME NEW u \in Transactions, u.phase = "handler", NEW code \in Codes
  PROVE  /\ Send(u, code) \in Transactions /\ Send(u, code).phase = "handler"
         /\ Send(u, code).wire # NoResponse
         /\ Send(u, code).headerWritten = u.headerWritten
         /\ u.wire # NoResponse => Send(u, code) = u
         /\ u.wire = NoResponse =>
              Send(u, code).wire \in Responses /\ Send(u, code).wire.status = code
<1>1. CASE u.wire # NoResponse
      BY <1>1 DEF Send
<1>2. CASE u.wire = NoResponse
  <2> DEFINE w == [status |-> code, cookie |-> u.header]
  <2>1. w \in Responses /\ w.status = code
        BY DEF Transactions, Responses
  <2>2. Send(u, code) = [u EXCEPT !.wire = w]
        BY <1>2 DEF Send
  <2> HIDE DEF w
  <2> QED
      BY <1>2, <2>1, <2>2, WireAssumption DEF Transactions
<1> QED
    BY <1>1, <1>2

LEMMA AnsweredWriteHeader ==
  ASSUME HasStorage, NEW c \in Client, NEW u, NEW e, Safe(c, u, e), Handling(u),
         NEW code \in Codes, NEW o \in WriteHeader(u, e, code)
  PROVE  /\ o.t \in Transactions /\ o.t.phase = "handler" /\ o.t.wire # NoResponse
         /\ u.wire = NoResponse => o.t.wire \in Responses /\ o.t.wire.status = code
<1>1. CASE u.headerWritten
      BY <1>1 DEF WriteHeader, Result, Handling, Answered
<1>2. CASE ~u.headerWritten
  <2> DEFINE v == [u EXCEPT !.headerWritten = TRUE]
  <2>1. PICK p \in SaveSession(v, e) : o = Result(Send(p.t, code), p.db)
        BY <1>2 DEF WriteHeader
  <2>2. Safe(c, v, e)
        BY SafePhase, CodesAreStatus DEF Phase
  <2>3. v.phase = "handler" /\ v.wire = u.wire
        BY DEF Handling, Transactions
  <2> HIDE DEF v
  <2>4. p.t \in Transactions /\ p.t.phase = "handler" /\ p.t.wire = u.wire
        BY <2>1, <2>2, <2>3, AnsweredSave
  <2>5. o.t = Send(p.t, code)
        BY <2>1 DEF Result
  <2> QED
      BY <2>4, <2>5, AnsweredSend
<1> QED
    BY <1>1, <1>2

LEMMA AnsweredWrite ==
  ASSUME HasStorage, NEW c \in Client, NEW u, NEW e, Safe(c, u, e), Handling(u),
         NEW o \in Write(u, e)
  PROVE  /\ o.t \in Transactions /\ o.t.phase = "handler" /\ o.t.wire # NoResponse
         /\ u.wire = NoResponse => o.t.wire \in Responses /\ o.t.wire.status = u.status
<1>1. u.status \in Codes
      BY DEF Handling, Transactions
<1>2. PICK p \in WriteHeader(u, e, u.status) : o = Result(Send(p.t, 200), p.db)
      BY DEF Write
<1>3. /\ p.t \in Transactions /\ p.t.phase = "handler" /\ p.t.wire # NoResponse
      /\ u.wire = NoResponse => p.t.wire \in Responses /\ p.t.wire.status = u.status
      BY <1>1, <1>2, AnsweredWriteHeader
<1>4. o.t = p.t
      BY <1>2, <1>3, AnsweredSend, CodesAreStatus DEF Result
<1> QED
    BY <1>3, <1>4

LEMMA AnsweredRespond ==
  ASSUME HasStorage, NEW c \in Client, NEW u, NEW e, Safe(c, u, e), Handling(u),
         NEW code \in Codes, NEW o \in RespondWithMessage(u, e, code)
  PROVE  /\ o.t \in Transactions /\ o.t.phase = "handler" /\ o.t.wire # NoResponse
         /\ u.wire = NoResponse => o.t.wire \in Responses /\ o.t.wire.status = code
<1> DEFINE v == [u EXCEPT !.status = code]
<1>1. Safe(c, v, e)
      BY SafePhase DEF Phase
<1>2. v.wire = u.wire /\ v.status = code /\ Handling(v)
      BY DEF Handling, Answered, Transactions
<1>3. o \in Write(v, e)
      BY DEF RespondWithMessage
<1> HIDE DEF v
<1> QED
    BY <1>1, <1>2, <1>3, AnsweredWrite

(* The slot after ServeHTTP: its header is cleared, what is on the wire is  *)
(* still to be delivered.                                                   *)
LEMMA AnsweredReturned ==
  ASSUME NEW o, o.t \in Transactions
  PROVE  /\ Answered(Returned(o).t)
         /\ o.t.wire # Delivered => Returned(o).t.wire = o.t.wire
<1> DEFINE u == [o.t EXCEPT !.phase = "returned"]
<1>1. u.phase = "returned" /\ u.wire = o.t.wire
      BY DEF Transactions
<1>2. Returned(o).t = Recycled(u)
      BY <1>1 DEF Returned, Result, Settle
<1>3. Recycled(u).headerWritten = FALSE
      BY DEF Recycled, IdleTransaction
<1>4. u.wire # Delivered => Recycled(u).wire = u.wire
      BY DEF Recycled, IdleTransaction
<1> HIDE DEF u
<1> QED
    BY <1>1, <1>2, <1>3, <1>4 DEF Answered

LEMMA AnsweredBecomes ==
  ASSUME TypeOK, AnsweredSlots, NEW r \in Req, NEW outcomes,
         \A o \in outcomes : Answered(o.t), Becomes(r, outcomes)
  PROVE  AnsweredSlots'
<1>1. PICK o \in outcomes : tx' = [tx EXCEPT ![r] = o.t]
      BY DEF Becomes
<1>2. \A q \in Req : tx'[q] = IF q = r THEN o.t ELSE tx[q]
      BY <1>1 DEF TypeOK
<1> QED
    BY <1>2 DEF AnsweredSlots, Answered

LEMMA AnsweredIdle == Answered(IdleTransaction)
BY DEF Answered, IdleTransaction

LEMMA AnsweredServe ==
  ASSUME IsolationInv, AnsweredSlots, NEW r \in Req, NEW c \in Client, ServeHTTP(r, c)
  PROVE  AnsweredSlots'
<1> DEFINE t == NewTransaction(r, c)
<1>1. tx[r] = IdleTransaction /\ TypeOK
      BY DEF ServeHTTP, IsolationInv, OwnedSlots
<1>2. t \in Transactions /\ Answered(t) /\ t.wire = NoResponse /\ t.phase = "handler"
      /\ t.session = NoSession /\ t.header = NoCookie /\ t.owner = c /\ t.cookie = jar[c]
  <2>1. jar[c] \in ID \cup {NoID, NoCookie}
        BY <1>1 DEF TypeOK
  <2>2. t = [IdleTransaction EXCEPT !.phase = "handler", !.owner = c, !.cookie = jar[c]]
        BY <1>1 DEF NewTransaction
  <2>3. /\ IdleTransaction.headerWritten = FALSE /\ IdleTransaction.wire = NoResponse
        /\ IdleTransaction.session = NoSession /\ IdleTransaction.header = NoCookie
        BY DEF IdleTransaction
  <2> HIDE DEF t
  <2> QED
      BY <2>1, <2>2, <2>3, IdleProperties DEF Transactions, Phase, Answered
<1> HIDE DEF t
<1>3. Safe(c, t, db)
  <2>1. \A i \in ID : Mentions(t, i) => Holds(c, i)
        BY <1>2 DEF Mentions, Holds
  <2> QED
      BY <1>1, <1>2, <2>1 DEF Safe, TypeOK
<1>4. CASE Becomes(r, {Result(t, db)})
  <2>1. \A o \in {Result(t, db)} : Answered(o.t)
        BY <1>2 DEF Result
  <2> QED
      BY <1>1, <1>4, <2>1, AnsweredBecomes
<1>5. ASSUME NEW code \in {404, 500}, RespondAndReturn(r, t, code)
      PROVE  AnsweredSlots'
  <2> DEFINE outcomes == {Returned(o) : o \in RespondWithMessage(t, db, code)}
  <2>1. \A o \in RespondWithMessage(t, db, code) : o.t \in Transactions
        BY <1>3, SafeRespond, CodesAreStatus DEF Safe
  <2>2. \A p \in outcomes : Answered(p.t)
        BY <2>1, AnsweredReturned
  <2>3. Becomes(r, outcomes)
        BY <1>5 DEF RespondAndReturn
  <2> HIDE DEF outcomes
  <2> QED
      BY <1>1, <2>2, <2>3, AnsweredBecomes
<1>6. ASSUME NEW code \in {200, 404}, Becomes(r, {Returned(Result(Send(t, code), db))})
      PROVE  AnsweredSlots'
  <2> DEFINE o == Result(Send(t, code), db)
  <2>1. o.t \in Transactions
        BY <1>2, AnsweredSend, CodesAreStatus DEF Result
  <2> HIDE DEF o
  <2>2. \A p \in {Returned(o)} : Answered(p.t)
        BY <2>1, AnsweredReturned
  <2>3. Becomes(r, {Returned(o)})
        BY <1>6 DEF o
  <2> QED
      BY <1>1, <2>2, <2>3, AnsweredBecomes
<1> QED
    BY <1>4, <1>5, <1>6 DEF ServeHTTP, MaybeServeHTTP, ServeFallback, t

LEMMA AnsweredHandler ==
  ASSUME HasStorage, IsolationInv, AnsweredSlots, NEW r \in Req, Handler(r)
  PROVE  AnsweredSlots'
<1>1. InHandler(r) /\ tx[r] # IdleTransaction
  <2>1. UseSession(r) => UsesSession(r)
        BY DEF UseSession, OnSession
  <2>2. InHandler(r)
        BY <2>1
        DEF UsesSession, Handler, GetSession, CallSaveSession, ClearSession, Respond, Panic, Return
  <2> QED
      BY <2>2 DEF InHandler, IdleTransaction
<1>2. PICK c \in Client : c = tx[r].owner
      BY <1>1, SafeBefore
<1>3. TypeOK /\ Safe(c, tx[r], db) /\ tx[r].phase = "handler" /\ Handling(tx[r])
      BY <1>1, <1>2, SafeBefore DEF InHandler, Safe, Handling, AnsweredSlots, IsolationInv
<1>4. \A s, p : /\ Answered([tx[r] EXCEPT !.session = s])
                /\ Answered([tx[r] EXCEPT !.phase = p])
      BY <1>3 DEF Handling, Answered, Transactions
<1>5. ASSUME NEW S, Becomes(r, {Result([tx[r] EXCEPT !.session = s], db) : s \in S})
      PROVE  AnsweredSlots'
  <2>1. ASSUME NEW o \in {Result([tx[r] EXCEPT !.session = s], db) : s \in S}
        PROVE  Answered(o.t)
    <3>1. PICK s \in S : o = Result([tx[r] EXCEPT !.session = s], db)
          OBVIOUS
    <3>2. o.t = [tx[r] EXCEPT !.session = s]
          BY <3>1 DEF Result
    <3> QED
        BY <1>4, <3>2
  <2> QED
      BY <1>3, <1>5, <2>1, AnsweredBecomes
<1>6. GetSession(r) => AnsweredSlots'
      BY <1>5 DEF GetSession
<1>7. ASSUME NEW s, OnSession(r, s) PROVE AnsweredSlots'
  <2>1. {Result([tx[r] EXCEPT !.session = q], db) : q \in {s}}
          = {Result([tx[r] EXCEPT !.session = s], db)}
        OBVIOUS
  <2>2. Becomes(r, {Result([tx[r] EXCEPT !.session = q], db) : q \in {s}})
        BY <1>7, <2>1 DEF OnSession
  <2> QED
      BY <1>5, <2>2
<1>8. UseSession(r) => AnsweredSlots'
      BY <1>7 DEF UseSession
<1>9. ASSUME NEW u, Safe(c, u, db), Handling(u), Becomes(r, SaveSession(u, db))
      PROVE  AnsweredSlots'
  <2>1. \A o \in SaveSession(u, db) : Answered(o.t)
        BY <1>9, AnsweredSave DEF Handling, Answered
  <2> QED
      BY <1>3, <1>9, <2>1, AnsweredBecomes
<1>10. CallSaveSession(r) => AnsweredSlots'
       BY <1>3, <1>9 DEF CallSaveSession
<1>11. ASSUME ClearSession(r) PROVE AnsweredSlots'
  <2>1. PICK s : /\ \/ tx[r].session # NoSession /\ s = tx[r].session
                    \/ s \in LoadHTTP(tx[r].cookie, db)
                 /\ Becomes(r, SaveSession([tx[r] EXCEPT !.session = Clear(s)], db))
        BY <1>11 DEF ClearSession
  <2>2. s \in Sessions /\ WrittenBy(c, s.values) /\ (s.ID \in ID => Holds(c, s.ID))
        BY <1>1, <1>2, <2>1, OwnSession
  <2>3. /\ Clear(s) \in Sessions /\ WrittenBy(c, Clear(s).values)
        /\ Clear(s).ID \in ID => Holds(c, Clear(s).ID)
        BY <2>2, ClearProperties
  <2> DEFINE u == [tx[r] EXCEPT !.session = Clear(s)]
  <2>4. Safe(c, u, db)
        BY <1>1, <1>2, <2>3, SessionStep
  <2>5. Handling(u)
        BY <1>3, <1>4, <2>4 DEF Handling, Safe, Transactions
  <2>6. Becomes(r, SaveSession(u, db))
        BY <2>1
  <2> HIDE DEF u
  <2> QED
      BY <1>9, <2>4, <2>5, <2>6
<1>12. ASSUME Respond(r) PROVE AnsweredSlots'
  <2>1. ASSUME NEW code \in Codes, NEW outcomes,
               outcomes \in {WriteHeader(tx[r], db, code), Write(tx[r], db),
                             RespondWithMessage(tx[r], db, code)},
               Becomes(r, outcomes)
        PROVE  AnsweredSlots'
    <3>1. \A o \in outcomes : o.t.wire # NoResponse
          BY <1>3, <2>1, AnsweredWriteHeader, AnsweredWrite, AnsweredRespond
    <3> QED
        BY <1>3, <2>1, <3>1, AnsweredBecomes DEF Answered
  <2> QED
      BY <1>12, <2>1, CodesAreStatus DEF Respond
<1>13. ASSUME Panic(r) PROVE AnsweredSlots'
  <2> DEFINE o == Result([tx[r] EXCEPT !.phase = "panicking"], db)
  <2>1. o.t = [tx[r] EXCEPT !.phase = "panicking"]
        BY DEF Result
  <2>2. Becomes(r, {o})
        BY <1>13 DEF Panic
  <2> HIDE DEF o
  <2>3. Answered(o.t)
        BY <1>4, <2>1
  <2>4. \A p \in {o} : Answered(p.t)
        BY <2>3
  <2> QED
      BY <1>3, <2>2, <2>4, AnsweredBecomes
<1>14. ASSUME Return(r) PROVE AnsweredSlots'
  <2> DEFINE o == Result(Send(tx[r], 200), db)
  <2>1. o.t \in Transactions
        BY <1>3, AnsweredSend, CodesAreStatus DEF Result, Handling
  <2>2. Becomes(r, {Returned(o)})
        BY <1>14 DEF Return
  <2> HIDE DEF o
  <2>3. \A p \in {Returned(o)} : Answered(p.t)
        BY <2>1, AnsweredReturned
  <2> QED
      BY <1>3, <2>2, <2>3, AnsweredBecomes
<1> QED
    BY <1>6, <1>8, <1>10, <1>11, <1>12, <1>13, <1>14 DEF Handler

(* The deferred function of ServeHTTP: what a panicking slot may become.    *)
LEMMA RecoverAnswers ==
  ASSUME HasStorage, IsolationInv, AnsweredSlots, NEW r \in Req, Recover(r)
  PROVE  /\ AnsweredSlots'
         /\ tx[r].wire = NoResponse => tx'[r].wire \in Responses /\ tx'[r].wire.status = 500
<1>1. tx[r] # IdleTransaction /\ TypeOK
      BY DEF Recover, IdleTransaction, IsolationInv
<1>2. PICK c \in Client : c = tx[r].owner
      BY <1>1, SafeBefore
<1> DEFINE u == [tx[r] EXCEPT !.phase = "handler"]
<1>3. Safe(c, u, db)
      BY <1>1, <1>2, SafeBefore, SafePhase, CodesAreStatus DEF Phase
<1>4. Handling(u) /\ u.wire = tx[r].wire
  <2>1. tx[r] \in Transactions /\ Answered(tx[r])
        BY <1>1 DEF TypeOK, AnsweredSlots
  <2> QED
      BY <1>3, <2>1 DEF Handling, Safe, Answered, Transactions
<1>5. PICK p \in { IF o.t.phase = "panicking" THEN Result(IdleTransaction, o.db) ELSE Returned(o)
                    : o \in RespondWithMessage(u, db, 500) } :
        tx' = [tx EXCEPT ![r] = p.t]
      BY DEF Recover, Becomes
<1> HIDE DEF u
<1>6. PICK o \in RespondWithMessage(u, db, 500) :
        p = IF o.t.phase = "panicking" THEN Result(IdleTransaction, o.db) ELSE Returned(o)
      BY <1>5
<1>7. /\ o.t \in Transactions /\ o.t.phase = "handler"
      /\ u.wire = NoResponse => o.t.wire \in Responses /\ o.t.wire.status = 500
      BY <1>3, <1>4, <1>6, AnsweredRespond, CodesAreStatus
<1>8. p = Returned(o)
      BY <1>6, <1>7
<1>9. /\ Answered(p.t)
      /\ tx[r].wire = NoResponse => p.t.wire \in Responses /\ p.t.wire.status = 500
      BY <1>4, <1>7, <1>8, AnsweredReturned, WireAssumption
<1>10. \A q \in Req : tx'[q] = IF q = r THEN p.t ELSE tx[q]
       BY <1>1, <1>5 DEF TypeOK
<1> QED
    BY <1>9, <1>10 DEF AnsweredSlots, Answered

LEMMA AnsweredDelivery ==
  ASSUME IsolationInv, AnsweredSlots, NEW r \in Req, Receive(r) \/ Lose(r)
  PROVE  AnsweredSlots' /\ \A q \in Req : tx[q].wire = NoResponse => tx'[q] = tx[q]
<1> DEFINE v == [tx[r] EXCEPT !.wire = Delivered]
<1>1. TypeOK /\ tx[r] \in Transactions
      BY DEF IsolationInv, TypeOK
<1>2. v.wire = Delivered
      BY <1>1 DEF Transactions
<1>3. tx' = [tx EXCEPT ![r] = Settle(v)] /\ tx[r].wire # NoResponse
      BY DEF Receive, Lose
<1> HIDE DEF v
<1>4. Settle(v) = v \/ Settle(v) = IdleTransaction
      BY <1>2 DEF Settle, Recycled
<1>5. Answered(Settle(v))
      BY <1>2, <1>4, AnsweredIdle, WireAssumption DEF Answered
<1>6. \A q \in Req : tx'[q] = IF q = r THEN Settle(v) ELSE tx[q]
      BY <1>1, <1>3 DEF TypeOK
<1> QED
    BY <1>3, <1>5, <1>6 DEF AnsweredSlots, Answered

AnsweredInv == IsolationInv /\ AnsweredSlots

LEMMA AnsweredStep ==
  ASSUME HasStorage, AnsweredInv, [Next]_vars
  PROVE  AnsweredInv'
<1>1. IsolationInv /\ AnsweredSlots /\ IsolationInv'
      BY IsolationStep DEF AnsweredInv
<1>2. ASSUME NEW r \in Req, NEW c \in Client, ServeHTTP(r, c) PROVE AnsweredSlots'
      BY <1>1, <1>2, AnsweredServe
<1>3. ASSUME NEW r \in Req, Handler(r) PROVE AnsweredSlots'
      BY <1>1, <1>3, AnsweredHandler
<1>4. ASSUME NEW r \in Req, Recover(r) PROVE AnsweredSlots'
      BY <1>1, <1>4, RecoverAnswers
<1>5. ASSUME NEW r \in Req, Receive(r) \/ Lose(r) PROVE AnsweredSlots'
      BY <1>1, <1>5, AnsweredDelivery
<1>6. ASSUME NEW i \in ID \cup {NoID}, Expire(i) PROVE AnsweredSlots'
      BY <1>1, <1>6 DEF Expire, AnsweredSlots, Answered
<1>7. ASSUME NEW c \in Client, Forget(c) PROVE AnsweredSlots'
      BY <1>1, <1>7 DEF Forget, AnsweredSlots, Answered
<1>8. ASSUME UNCHANGED vars PROVE AnsweredSlots'
  <2>1. tx' = tx
        BY <1>8 DEF vars
  <2> QED
      BY <1>1, <2>1 DEF AnsweredSlots, Answered
<1> QED
    BY <1>1, <1>2, <1>3, <1>4, <1>5, <1>6, <1>7, <1>8 DEF Next, AnsweredInv

(* A slot changes by the steps of its own request only.                     *)
LEMMA OthersKeepSlot ==
  ASSUME TypeOK, NEW r \in Req, NEW q \in Req, q # r, NEW outcomes, Becomes(r, outcomes)
  PROVE  tx'[q] = tx[q]
<1>1. PICK o \in outcomes : tx' = [tx EXCEPT ![r] = o.t]
      BY DEF Becomes
<1> QED
    BY <1>1 DEF TypeOK

LEMMA HandlersKeepSlots ==
  ASSUME TypeOK, NEW r \in Req, NEW q \in Req, q # r,
         Handler(r) \/ Recover(r) \/ \E c \in Client : ServeHTTP(r, c)
  PROVE  tx'[q] = tx[q]
<1>1. ASSUME NEW outcomes, Becomes(r, outcomes) PROVE tx'[q] = tx[q]
      BY <1>1, OthersKeepSlot
<1>2. Recover(r) => tx'[q] = tx[q]
      BY <1>1 DEF Recover
<1>3. ASSUME NEW c \in Client, ServeHTTP(r, c) PROVE tx'[q] = tx[q]
      BY <1>1, <1>3 DEF ServeHTTP, MaybeServeHTTP, ServeFallback, RespondAndReturn
<1>4. UseSession(r) => tx'[q] = tx[q]
      BY <1>1 DEF UseSession, OnSession
<1>5. Respond(r) => tx'[q] = tx[q]
      BY <1>1 DEF Respond
<1>6. GetSession(r) \/ CallSaveSession(r) \/ ClearSession(r) => tx'[q] = tx[q]
      BY <1>1 DEF GetSession, CallSaveSession, ClearSession
<1>7. Panic(r) \/ Return(r) => tx'[q] = tx[q]
      BY <1>1 DEF Panic, Return
<1> QED
    BY <1>2, <1>3, <1>4, <1>5, <1>6, <1>7 DEF Handler

(* "recover panic and turn it into an error" (server.go:110): with a         *)
(* Storage, whatever calls, saves and their failures came before the panic,  *)
(* a request to which nothing was sent is answered with status 500 (the     *)
(* deferred function of ServeHTTP, WriteHeader, SaveHTTP).                   *)
THEOREM PanicsAreAnswered ==
  ASSUME HasStorage
  PROVE  Spec => PanicBecomesError
<1>1. Init => AnsweredInv
  <2>1. Init => AnsweredSlots
        BY AnsweredIdle DEF Init, AnsweredSlots
  <2> QED
      BY <2>1, IsolationInit DEF AnsweredInv
<1>2. AnsweredInv /\ [Next]_vars => AnsweredInv'
      BY AnsweredStep
<1>3. ASSUME AnsweredInv, [Next]_vars, NEW r \in Req,
             tx[r].phase = "panicking", tx[r].wire = NoResponse, tx'[r] # tx[r]
      PROVE  tx'[r].wire \in Responses /\ tx'[r].wire.status = 500
  <2>1. IsolationInv /\ AnsweredSlots /\ TypeOK
        BY <1>3 DEF AnsweredInv, IsolationInv
  <2>2. ~\E c \in Client : ServeHTTP(r, c)
        BY <1>3 DEF ServeHTTP
  <2>3. ~Handler(r)
        BY <1>3 DEF Handler, GetSession, UseSession, OnSession, UsesSession, CallSaveSession,
                    ClearSession, Respond, Panic, Return, InHandler
  <2>4. \A q \in Req : ~Receive(q) /\ ~Lose(q)
        BY <1>3, <2>1, AnsweredDelivery
  <2>5. \A q \in Req : q # r =>
          ~Handler(q) /\ ~Recover(q) /\ ~\E c \in Client : ServeHTTP(q, c)
        BY <1>3, <2>1, HandlersKeepSlots
  <2>6. /\ \A i \in ID \cup {NoID} : ~Expire(i)
        /\ \A c \in Client : ~Forget(c)
        /\ ~UNCHANGED vars
        BY <1>3 DEF Expire, Forget, vars
  <2>7. Recover(r)
        BY <1>3, <2>2, <2>3, <2>4, <2>5, <2>6 DEF Next
  <2> QED
      BY <1>3, <2>1, <2>7, RecoverAnswers
<1>4. AnsweredInv /\ [Next]_vars =>
        [\A r \in Req :
           tx[r].phase = "panicking" /\ tx[r].wire = NoResponse /\ tx'[r] # tx[r] =>
             tx'[r].wire \in Responses /\ tx'[r].wire.status = 500]_vars
      BY <1>3
<1> QED
    BY <1>1, <1>2, <1>4, PTL DEF Spec, PanicBecomesError

-----------------------------------------------------------------------------
(* What ReadYourWrites and ClearSessionRemovesData rest on: a client that    *)
(* sends one request at a time, handlers done with their session when they  *)
(* respond, and a storage that loads what it holds. Saves and responses may *)
(* fail and cookies may be forgotten.                                       *)
Calm == Serial /\ ReliableLoads /\ Env \cap {"expire", "late"} = {}

(* The session of t remembers what d holds of it, and the response on the   *)
(* wire carries the cookie of the header.                                   *)
Kept(t, d) ==
  /\ t.session = NoSession => t.header = NoCookie
  /\ t.session # NoSession =>
       /\ t.phase \in {"handler", "panicking"}
       /\ Remembered(t.cookie, t.header, t.session, d)
  /\ t.wire # NoResponse /\ t.phase # "returned" =>
       /\ t.headerWritten
       /\ t.wire # Delivered => t.wire.cookie = t.header

(* Until it is answered, the client keeps the cookie it sent or none.       *)
InStep(t) ==
  t.phase \in {"handler", "panicking"} /\ ~t.headerWritten =>
    jar[t.owner] \in {t.cookie, NoCookie}

OneAtATime ==
  \A r, q \in Req : r # q /\ tx[r].owner = tx[q].owner => tx[r].owner = NoClient

MemoryInv ==
  /\ IsolationInv
  /\ OneAtATime
  /\ DataOnly(db)
  /\ \A r \in Req : Kept(tx[r], db) /\ InStep(tx[r])

(* Storage e differs from db where client c has an identifier or nobody.    *)
Mine(c, e) == \A i \in ID : e[i] = db[i] \/ Holds(c, i) \/ i \in Fresh

(* An outcome that keeps the invariant when client c's slot becomes it.     *)
Keeps(c, o) ==
  /\ o.t.owner \in {c, NoClient}
  /\ Kept(o.t, o.db)
  /\ DataOnly(o.db)
  /\ Mine(c, o.db)
  /\ InStep(o.t)

(* What is stored of another client's session does not change.              *)
LEMMA OthersKept ==
  ASSUME MemoryInv, NEW c \in Client, NEW q \in Req, tx[q].owner # c,
         NEW e, Mine(c, e)
  PROVE  Kept(tx[q], e)
<1>1. CASE tx[q].session = NoSession
      BY <1>1 DEF MemoryInv, Kept
<1>2. CASE tx[q].session # NoSession
  <2> DEFINE t == tx[q]
  <2>1. IsolationInv /\ t \in Transactions /\ t.session \in Sessions /\ Kept(t, db)
        BY <1>2 DEF MemoryInv, IsolationInv, TypeOK, Transactions
  <2>2. t.owner \in Client /\ t.owner # c
        BY <1>2, <2>1, SafeBefore, IdleProperties
  <2>3. ASSUME NEW i \in ID, Mentions(t, i) PROVE e[i] = db[i]
    <3>1. Holds(t.owner, i)
          BY <2>3 DEF Holds
    <3>2. ~Holds(c, i) /\ i \notin Fresh
          BY <2>1, <2>2, <3>1 DEF IsolationInv, OneHolder, Fresh
    <3> QED
        BY <3>2 DEF Mine
  <2>4. \A i \in ID : \/ t.cookie = i
                      \/ t.header # NoCookie /\ t.header.ID = i
                      \/ t.session.ID = i => e[i] = db[i]
        BY <1>2, <2>3 DEF Mentions
  <2>5. t.session.ID \in ID \cup {NoID}
        BY <2>1 DEF Sessions
  <2>6. Remembered(t.cookie, t.header, t.session, db)
        BY <1>2, <2>1 DEF Kept
  <2> HIDE DEF t
  <2>7. \A i \in ID : Mentions(t, i) => e[i] = db[i]
        BY <2>3
  <2>8. Remembered(t.cookie, t.header, t.session, e)
        BY <1>2, <2>5, <2>6, <2>7 DEF Remembered, Mentions, t
  <2> QED
      BY <2>1, <2>8 DEF Kept, t
<1> QED
    BY <1>1, <1>2

LEMMA MemoryBecomes ==
  ASSUME MemoryInv, IsolationInv', NEW r \in Req, NEW c \in Client,
         tx[r].owner = c \/ \A q \in Req : tx[q].owner # c,
         NEW outcomes, \A o \in outcomes : Keeps(c, o), Becomes(r, outcomes)
  PROVE  MemoryInv'
<1>1. PICK o \in outcomes : tx' = [tx EXCEPT ![r] = o.t] /\ db' = o.db /\ jar' = jar
      BY DEF Becomes
<1>2. \A q \in Req : tx'[q] = IF q = r THEN o.t ELSE tx[q]
      BY <1>1 DEF MemoryInv, IsolationInv, TypeOK
<1>3. Keeps(c, o)
      OBVIOUS
<1>4. \A q \in Req : q # r => tx[q].owner # c
      BY EnvAssumption DEF MemoryInv, OneAtATime
<1>5. \A q \in Req : Kept(tx'[q], db')
      BY <1>1, <1>2, <1>3, <1>4, OthersKept DEF Keeps
<1>6. \A q \in Req : InStep(tx[q])'
      BY <1>1, <1>2, <1>3 DEF Keeps, InStep, MemoryInv
<1>7. OneAtATime'
  <2> SUFFICES ASSUME NEW p \in Req, NEW q \in Req, p # q, tx'[p].owner = tx'[q].owner
               PROVE  tx'[p].owner = NoClient
      BY DEF OneAtATime
  <2>1. o.t.owner \in {c, NoClient}
        BY <1>3 DEF Keeps
  <2> QED
      BY <1>2, <1>4, <2>1 DEF MemoryInv, OneAtATime
<1>8. DataOnly(db)'
      BY <1>1, <1>3 DEF Keeps, DataOnly
<1>9. \A q \in Req : Kept(tx[q], db)'
      BY <1>5 DEF Kept, Remembered, Current
<1> QED
    BY <1>6, <1>7, <1>8, <1>9 DEF MemoryInv

(* Transaction u of client c in its handler, before it calls anything.      *)
Ready(c, u) ==
  /\ Safe(c, u, db)
  /\ u.phase = "handler"
  /\ Kept(u, db)
  /\ \A i \in ID : Mentions(u, i) => Holds(c, i)
  /\ ~u.headerWritten => jar[c] \in {u.cookie, NoCookie}

(* What a save, or a response, makes of it.                                 *)
KeptSaved(c, u, o) ==
  /\ o.t \in Transactions
  /\ o.t.owner = c
  /\ o.t.phase = "handler"
  /\ o.t.cookie = u.cookie
  /\ Kept(o.t, o.db)
  /\ DataOnly(o.db)
  /\ Mine(c, o.db)

LEMMA KeptSave ==
  ASSUME Calm, DataOnly(db), NEW c \in Client, NEW u, Ready(c, u), u.wire = NoResponse,
         NEW o \in SaveSession(u, db)
  PROVE  /\ KeptSaved(c, u, o)
         /\ o.t.wire = NoResponse /\ o.t.headerWritten = u.headerWritten
         /\ u.session # NoSession =>
              /\ o.t.session \in Sessions /\ o.t.session.values = u.session.values
              /\ u.session.dirty /\ ~o.t.session.dirty => o.t.header # NoCookie
<1>1. /\ u \in Transactions /\ o.t \in Transactions /\ o.t.owner = c
      /\ o.t.phase = "handler" /\ o.t.wire = NoResponse /\ o.t.headerWritten = u.headerWritten
  <2>1. Safe(c, o.t, o.db) /\ Safe(c, u, db) /\ HasStorage /\ u.phase = "handler"
        BY SafeSave DEF Ready, Calm, ReliableLoads
  <2> QED
      BY <2>1, AnsweredSave DEF Safe
<1>2. CASE u.session = NoSession
  <2>1. o.t = u /\ o.db = db
        BY <1>2 DEF SaveSession, Result
  <2> QED
      BY <1>1, <1>2, <2>1 DEF Ready, KeptSaved, Mine
<1>3. CASE u.session # NoSession
  <2>1. PICK p \in SaveHTTP(u.session, db, u.header, Fresh) :
          o = Result([u EXCEPT !.session = p.s, !.header = p.header,
                               !.phase = IF p.err = "panic" THEN "panicking" ELSE @], p.db)
        BY <1>3 DEF SaveSession
  <2>2. /\ o.t.session = p.s /\ o.t.header = p.header /\ o.t.cookie = u.cookie /\ o.db = p.db
        BY <1>1, <2>1 DEF Result, Transactions
  <2>3. /\ u.session \in Sessions /\ u.header \in Cookies \cup {NoCookie}
        /\ db \in Storage /\ Fresh \in SUBSET ID /\ \A i \in Fresh : db[i] = NoData
        BY <1>1, <1>3 DEF Ready, Safe, Transactions, Fresh
  <2>4. Remembered(u.cookie, u.header, u.session, db)
        BY <1>3 DEF Ready, Kept
  <2>5. SaveRemembers(u.cookie, u.header, u.session, db, Fresh, p)
        BY <2>3, <2>4, SaveHTTPRemembers, EnvAssumption DEF Calm
  <2>6. p.s \in Sessions /\ p.s.values = u.session.values
        BY <2>3, SaveHTTPProperties DEF SaveResult
  <2>7. o.t.session \in Sessions /\ o.t.session # NoSession
        BY <2>2, <2>6, EnvAssumption
  <2>8. Kept(o.t, o.db)
        BY <1>1, <2>2, <2>5, <2>7 DEF Kept, SaveRemembers
  <2>9. Mine(c, o.db)
    <3>1. \A i \in ID : i = u.session.ID => Holds(c, i)
          BY <1>3 DEF Ready, Mentions
    <3> QED
        BY <2>2, <2>5, <3>1 DEF SaveRemembers, Mine
  <2> QED
      BY <1>1, <2>2, <2>5, <2>6, <2>7, <2>8, <2>9 DEF KeptSaved, SaveRemembers
<1> QED
    BY <1>2, <1>3

(* Sending puts the cookie of the header on the wire.                       *)
LEMMA KeptSend ==
  ASSUME NEW c, NEW u, NEW o, KeptSaved(c, u, o), o.t.headerWritten, NEW code \in Codes
  PROVE  KeptSaved(c, u, Result(Send(o.t, code), o.db)) /\ Send(o.t, code).headerWritten
<1> DEFINE v == Send(o.t, code)
           w == [status |-> code, cookie |-> o.t.header]
<1>1. /\ v \in Transactions /\ v.phase = "handler" /\ v.wire # NoResponse /\ v.headerWritten
      BY AnsweredSend DEF KeptSaved
<1>2. CASE v = o.t
      BY <1>1, <1>2 DEF KeptSaved, Result
<1>3. CASE v # o.t
  <2>1. v = [o.t EXCEPT !.wire = w]
        BY <1>3 DEF Send
  <2>2. /\ v.wire = w /\ w.cookie = o.t.header /\ v.header = o.t.header
        /\ v.session = o.t.session /\ v.cookie = o.t.cookie /\ v.owner = o.t.owner
        BY <2>1 DEF KeptSaved, Transactions
  <2> HIDE DEF v, w
  <2>3. Kept(v, o.db)
        BY <1>1, <2>2 DEF KeptSaved, Kept
  <2>4. Result(v, o.db).t = v /\ Result(v, o.db).db = o.db
        BY DEF Result
  <2> QED
      BY <1>1, <2>2, <2>3, <2>4 DEF KeptSaved, v
<1> QED
    BY <1>2, <1>3

LEMMA KeptWriteHeader ==
  ASSUME Calm, DataOnly(db), NEW c \in Client, NEW u, Ready(c, u), NEW code \in Codes,
         NEW o \in WriteHeader(u, db, code)
  PROVE  KeptSaved(c, u, o) /\ o.t.headerWritten
<1>1. u \in Transactions /\ u.owner = c
      BY DEF Ready, Safe
<1>2. CASE u.headerWritten
  <2>1. o.t = u /\ o.db = db
        BY <1>2 DEF WriteHeader, Result
  <2> QED
      BY <1>1, <1>2, <2>1 DEF Ready, KeptSaved, Mine
<1>3. CASE ~u.headerWritten
  <2> DEFINE v == [u EXCEPT !.headerWritten = TRUE]
  <2>1. PICK p \in SaveSession(v, db) : o = Result(Send(p.t, code), p.db)
        BY <1>3 DEF WriteHeader
  <2>2. Safe(c, v, db)
        BY SafePhase, CodesAreStatus DEF Phase, Ready
  <2>3. /\ v.phase = u.phase /\ v.wire = u.wire /\ v.headerWritten = TRUE
        /\ v.session = u.session /\ v.header = u.header /\ v.cookie = u.cookie
        BY <1>1 DEF Transactions
  <2> HIDE DEF v
  <2>4. u.wire = NoResponse /\ u.phase = "handler"
        BY <1>3 DEF Ready, Kept
  <2>5. Ready(c, v)
    <3>1. \A i \in ID : Mentions(v, i) => Holds(c, i)
          BY <2>3 DEF Ready, Mentions
    <3>2. Kept(v, db)
          BY <2>3, <2>4 DEF Ready, Kept
    <3> QED
        BY <2>2, <2>3, <2>4, <3>1, <3>2 DEF Ready
  <2>6. KeptSaved(c, v, p) /\ p.t.headerWritten
        BY <2>1, <2>3, <2>4, <2>5, KeptSave
  <2>7. KeptSaved(c, u, p)
        BY <2>3, <2>6 DEF KeptSaved
  <2>8. o.t = Send(p.t, code)
        BY <2>1 DEF Result
  <2> QED
      BY <2>1, <2>6, <2>7, <2>8, KeptSend
<1> QED
    BY <1>2, <1>3

LEMMA KeptWrite ==
  ASSUME Calm, DataOnly(db), NEW c \in Client, NEW u, Ready(c, u), NEW o \in Write(u, db)
  PROVE  KeptSaved(c, u, o) /\ o.t.headerWritten
<1>1. u.status \in Codes
      BY DEF Ready, Safe, Transactions
<1>2. PICK p \in WriteHeader(u, db, u.status) : o = Result(Send(p.t, 200), p.db)
      BY DEF Write
<1>3. KeptSaved(c, u, p) /\ p.t.headerWritten
      BY <1>1, <1>2, KeptWriteHeader
<1>4. o.t = Send(p.t, 200)
      BY <1>2 DEF Result
<1> QED
    BY <1>2, <1>3, <1>4, KeptSend, CodesAreStatus

LEMMA KeptRespond ==
  ASSUME Calm, DataOnly(db), NEW c \in Client, NEW u, Ready(c, u), NEW code \in Codes,
         NEW o \in RespondWithMessage(u, db, code)
  PROVE  KeptSaved(c, u, o) /\ o.t.headerWritten
<1> DEFINE v == [u EXCEPT !.status = code]
<1>1. Safe(c, v, db)
      BY SafePhase DEF Phase, Ready
<1>2. /\ v.phase = u.phase /\ v.wire = u.wire /\ v.headerWritten = u.headerWritten
      /\ v.session = u.session /\ v.header = u.header /\ v.cookie = u.cookie
      BY DEF Ready, Safe, Transactions
<1>3. o \in Write(v, db)
      BY DEF RespondWithMessage
<1> HIDE DEF v
<1>4. \A i \in ID : Mentions(v, i) => Holds(c, i)
      BY <1>2 DEF Ready, Mentions
<1>5. Kept(v, db)
      BY <1>2 DEF Ready, Kept
<1>6. Ready(c, v)
      BY <1>1, <1>2, <1>4, <1>5 DEF Ready
<1>7. KeptSaved(c, v, o) /\ o.t.headerWritten
      BY <1>3, <1>6, KeptWrite
<1> QED
    BY <1>2, <1>7 DEF KeptSaved

(* An outcome of a response that goes on, and one that returns.             *)
LEMMA KeepsSaved ==
  ASSUME NEW c \in Client, NEW u, NEW o, KeptSaved(c, u, o),
         o.t.headerWritten \/ jar[c] \in {u.cookie, NoCookie}
  PROVE  Keeps(c, o)
BY DEF KeptSaved, Keeps, InStep

LEMMA KeepsReturned ==
  ASSUME NEW c \in Client, NEW o, o.t \in Transactions, o.t.owner = c,
         DataOnly(o.db), Mine(c, o.db)
  PROVE  Keeps(c, Returned(o))
<1> DEFINE u == [o.t EXCEPT !.phase = "returned"]
<1>1. u.phase = "returned" /\ u.owner = c /\ Returned(o).db = o.db
      BY DEF Transactions, Returned, Result
<1>2. Returned(o).t = Recycled(u)
      BY <1>1 DEF Returned, Result, Settle
<1>3. /\ Recycled(u).session = NoSession /\ Recycled(u).header = NoCookie
      /\ Recycled(u).owner \in {c, NoClient}
      /\ \/ Recycled(u).phase = "returned"
         \/ Recycled(u).phase = "idle" /\ Recycled(u).wire = NoResponse
      BY <1>1 DEF Recycled, IdleTransaction
<1> HIDE DEF u
<1> QED
    BY <1>1, <1>2, <1>3 DEF Keeps, Kept, InStep

LEMMA KeepsIdle ==
  ASSUME NEW c \in Client, NEW e, DataOnly(e), Mine(c, e)
  PROVE  Keeps(c, Result(IdleTransaction, e))
BY DEF Keeps, Kept, InStep, Result, IdleTransaction

LEMMA SafeHandler ==
  ASSUME NEW c \in Client, NEW u, NEW e, Safe(c, u, e)
  PROVE  Safe(c, [u EXCEPT !.phase = "handler"], e)
<1>1. "handler" \in Phase /\ 200 \in Codes /\ TRUE \in BOOLEAN
      BY CodesAreStatus DEF Phase
<1> QED
    BY <1>1, SafePhase

(* The transaction of a handler is ready for what the handler calls.        *)
LEMMA HandlerIsReady ==
  ASSUME MemoryInv, NEW r \in Req, tx[r].phase \in {"handler", "panicking"}
  PROVE  /\ tx[r].owner \in Client
         /\ Ready(tx[r].owner, [tx[r] EXCEPT !.phase = "handler"])
         /\ tx[r].phase = "handler" => Ready(tx[r].owner, tx[r])
<1> DEFINE u == [tx[r] EXCEPT !.phase = "handler"]
<1>1. tx[r] # IdleTransaction /\ IsolationInv
      BY DEF IdleTransaction, MemoryInv
<1> PICK c \in Client : c = tx[r].owner
    BY <1>1, SafeBefore
<1>2. Safe(c, tx[r], db) /\ tx[r] \in Transactions
      BY <1>1, SafeBefore DEF IsolationInv, TypeOK
<1>3. Kept(tx[r], db) /\ InStep(tx[r])
      BY DEF MemoryInv
<1>4. \A i \in ID : Mentions(tx[r], i) => Holds(c, i)
      BY DEF Holds
<1>5. Safe(c, u, db)
      BY <1>2, SafeHandler
<1>6. /\ u.phase = "handler" /\ u.wire = tx[r].wire /\ u.headerWritten = tx[r].headerWritten
      /\ u.session = tx[r].session /\ u.header = tx[r].header /\ u.cookie = tx[r].cookie
      BY <1>2 DEF Transactions
<1> HIDE DEF u
<1>7. Kept(u, db)
      BY <1>3, <1>6 DEF Kept
<1>8. \A i \in ID : Mentions(u, i) => Holds(c, i)
      BY <1>4, <1>6 DEF Mentions
<1>9. ~tx[r].headerWritten => jar[c] \in {tx[r].cookie, NoCookie}
      BY <1>3 DEF InStep
<1> QED
    BY <1>2, <1>3, <1>4, <1>5, <1>6, <1>7, <1>8, <1>9 DEF Ready, u

(* The session of a handler is replaced by one that remembers as much.      *)
LEMMA ReadySession ==
  ASSUME MemoryInv, NEW r \in Req, InHandler(r), NEW s \in Sessions,
         WrittenBy(tx[r].owner, s.values), s.ID \in ID => Holds(tx[r].owner, s.ID),
         Remembered(tx[r].cookie, tx[r].header, s, db)
  PROVE  Ready(tx[r].owner, [tx[r] EXCEPT !.session = s])
<1> DEFINE c == tx[r].owner
           u == [tx[r] EXCEPT !.session = s]
<1>1. c \in Client /\ Ready(c, tx[r]) /\ tx[r] \in Transactions /\ IsolationInv
      BY HandlerIsReady DEF InHandler, MemoryInv, IsolationInv, TypeOK
<1>2. Safe(c, u, db)
      BY <1>1, SessionStep
<1>3. /\ u.phase = tx[r].phase /\ u.wire = tx[r].wire /\ u.headerWritten = tx[r].headerWritten
      /\ u.session = s /\ u.header = tx[r].header /\ u.cookie = tx[r].cookie
      BY <1>1 DEF Transactions
<1> HIDE DEF u, c
<1>4. Kept(u, db)
      BY <1>1, <1>3, EnvAssumption DEF Ready, Kept, c
<1>5. \A i \in ID : Mentions(u, i) => Holds(c, i)
      BY <1>1, <1>3 DEF Ready, Mentions, c
<1> QED
    BY <1>1, <1>2, <1>3, <1>4, <1>5 DEF Ready, u, c

(* A session the handler has or loads remembers, and so does one it clears. *)
LEMMA HandlerRemembers ==
  ASSUME Calm, MemoryInv, NEW r \in Req, InHandler(r), NEW s,
         \/ tx[r].session # NoSession /\ s = tx[r].session
         \/ tx[r].session = NoSession /\ s \in LoadHTTP(tx[r].cookie, db)
  PROVE  /\ s \in Sessions /\ Remembered(tx[r].cookie, tx[r].header, s, db)
         /\ Ready(tx[r].owner, [tx[r] EXCEPT !.session = s])
<1>1. /\ IsolationInv /\ Kept(tx[r], db) /\ DataOnly(db)
      /\ tx[r] \in Transactions /\ db \in Storage
      BY DEF MemoryInv, IsolationInv, TypeOK
<1>2. /\ s \in Sessions /\ WrittenBy(tx[r].owner, s.values)
      /\ s.ID \in ID => Holds(tx[r].owner, s.ID)
      BY <1>1, OwnSession
<1>3. CASE tx[r].session # NoSession /\ s = tx[r].session
  <2>1. Remembered(tx[r].cookie, tx[r].header, s, db)
        BY <1>1, <1>3 DEF Kept
  <2> QED
      BY <1>2, <2>1, ReadySession
<1>4. CASE tx[r].session = NoSession /\ s \in LoadHTTP(tx[r].cookie, db)
  <2>1. tx[r].header = NoCookie /\ tx[r].cookie \in ID \cup {NoID, NoCookie}
        BY <1>1, <1>4 DEF Kept, Transactions
  <2>2. Remembered(tx[r].cookie, tx[r].header, s, db)
        BY <1>1, <1>4, <2>1, LoadRemembers DEF Calm
  <2> QED
      BY <1>2, <2>2, ReadySession
<1> QED
    BY <1>3, <1>4

LEMMA ClearedIsReady ==
  ASSUME Calm, MemoryInv, NEW r \in Req, InHandler(r), NEW s,
         \/ tx[r].session # NoSession /\ s = tx[r].session
         \/ tx[r].session = NoSession /\ s \in LoadHTTP(tx[r].cookie, db)
  PROVE  /\ Clear(s) \in Sessions /\ ~HasData(Clear(s).values)
         /\ Remembered(tx[r].cookie, tx[r].header, Clear(s), db)
         /\ Ready(tx[r].owner, [tx[r] EXCEPT !.session = Clear(s)])
<1>1. s \in Sessions /\ Remembered(tx[r].cookie, tx[r].header, s, db)
      BY HandlerRemembers
<1>2. tx[r].owner \in Client /\ IsolationInv
      BY HandlerIsReady DEF InHandler, MemoryInv
<1>3. WrittenBy(tx[r].owner, s.values) /\ (s.ID \in ID => Holds(tx[r].owner, s.ID))
      BY <1>2, OwnSession
<1>4. /\ Clear(s) \in Sessions /\ Clear(s).ID = s.ID /\ WrittenBy(tx[r].owner, Clear(s).values)
      /\ Clear(s).dirty \/ Clear(s) = s
      BY <1>1, <1>2, <1>3, ClearProperties, EditsMarkDirty
<1>5. Remembered(tx[r].cookie, tx[r].header, Clear(s), db)
      BY <1>1, <1>4, EditRemembers
<1>6. ~HasData(Clear(s).values)
  <2>1. CASE HasData(s.values)
    <3>1. Clear(s).values = Nil
          BY <1>1, <2>1 DEF Clear, Sessions
    <3> QED
        BY <3>1 DEF HasData
  <2>2. CASE ~HasData(s.values)
        BY <2>2 DEF Clear
  <2> QED
      BY <2>1, <2>2
<1> QED
    BY <1>3, <1>4, <1>5, <1>6, ReadySession

LEMMA MemoryServe ==
  ASSUME Calm, MemoryInv, IsolationInv', NEW r \in Req, NEW c \in Client, ServeHTTP(r, c)
  PROVE  MemoryInv'
<1> DEFINE t == NewTransaction(r, c)
<1>1. /\ tx[r] = IdleTransaction /\ TypeOK /\ IsolationInv /\ DataOnly(db)
      /\ \A q \in Req : tx[q].owner # c
      BY DEF ServeHTTP, MemoryInv, IsolationInv, OwnedSlots, Calm
<1>2. /\ t \in Transactions /\ t.phase = "handler" /\ t.owner = c /\ t.cookie = jar[c]
      /\ t.session = NoSession /\ t.header = NoCookie /\ t.wire = NoResponse
      /\ t.headerWritten = FALSE
  <2>1. jar[c] \in ID \cup {NoID, NoCookie}
        BY <1>1 DEF TypeOK
  <2>2. t = [IdleTransaction EXCEPT !.phase = "handler", !.owner = c, !.cookie = jar[c]]
        BY <1>1 DEF NewTransaction
  <2>3. /\ IdleTransaction.headerWritten = FALSE /\ IdleTransaction.wire = NoResponse
        /\ IdleTransaction.session = NoSession /\ IdleTransaction.header = NoCookie
        BY DEF IdleTransaction
  <2> HIDE DEF t
  <2> QED
      BY <2>1, <2>2, <2>3, IdleProperties DEF Transactions, Phase
<1> HIDE DEF t
<1>3. Ready(c, t)
  <2>1. \A i \in ID : Mentions(t, i) => Holds(c, i)
        BY <1>2 DEF Mentions, Holds
  <2>2. Safe(c, t, db)
        BY <1>1, <1>2, <2>1 DEF Safe, TypeOK
  <2>3. Kept(t, db)
        BY <1>2 DEF Kept
  <2> QED
      BY <1>2, <2>1, <2>2, <2>3 DEF Ready
<1>4. Mine(c, db)
      BY DEF Mine
<1>5. CASE Becomes(r, {Result(t, db)})
  <2>1. Keeps(c, Result(t, db))
        BY <1>1, <1>2, <1>3, <1>4 DEF Ready, Keeps, InStep, Result
  <2> QED
      BY <1>1, <1>5, <2>1, MemoryBecomes
<1>6. ASSUME NEW code \in {404, 500}, RespondAndReturn(r, t, code)
      PROVE  MemoryInv'
  <2> DEFINE outcomes == {Returned(o) : o \in RespondWithMessage(t, db, code)}
  <2>1. \A o \in RespondWithMessage(t, db, code) : KeptSaved(c, t, o)
        BY <1>1, <1>3, KeptRespond, CodesAreStatus
  <2>2. \A p \in outcomes : Keeps(c, p)
        BY <2>1, KeepsReturned DEF KeptSaved
  <2>3. Becomes(r, outcomes)
        BY <1>6 DEF RespondAndReturn
  <2> HIDE DEF outcomes
  <2> QED
      BY <1>1, <2>2, <2>3, MemoryBecomes
<1>7. ASSUME NEW code \in {200, 404}, Becomes(r, {Returned(Result(Send(t, code), db))})
      PROVE  MemoryInv'
  <2> DEFINE o == Result(Send(t, code), db)
  <2>1. o.t \in Transactions /\ o.t.owner = c /\ o.db = db
    <3>1. Safe(c, Send(t, code), db)
          BY <1>3, SafeSend, CodesAreStatus DEF Ready
    <3> QED
        BY <3>1 DEF Safe, Result
  <2>2. Becomes(r, {Returned(o)})
        BY <1>7 DEF o
  <2> HIDE DEF o
  <2>3. Keeps(c, Returned(o))
        BY <1>1, <1>4, <2>1, KeepsReturned
  <2> QED
      BY <1>1, <2>2, <2>3, MemoryBecomes
<1> QED
    BY <1>5, <1>6, <1>7 DEF ServeHTTP, MaybeServeHTTP, ServeFallback, t

LEMMA MemoryHandler ==
  ASSUME Calm, MemoryInv, IsolationInv', NEW r \in Req, Handler(r)
  PROVE  MemoryInv'
<1>1. InHandler(r)
  <2>1. UseSession(r) => UsesSession(r)
        BY DEF UseSession, OnSession
  <2> QED
      BY <2>1
      DEF UsesSession, Handler, GetSession, CallSaveSession, ClearSession, Respond, Panic, Return
<1>2. /\ Ready(tx[r].owner, tx[r]) /\ tx[r] \in Transactions /\ DataOnly(db) /\ IsolationInv
      /\ "late" \notin Env
      BY <1>1, HandlerIsReady DEF InHandler, MemoryInv, IsolationInv, TypeOK, Calm
<1> PICK c \in Client : c = tx[r].owner
    BY <1>1, HandlerIsReady DEF InHandler
<1>3. Mine(c, db)
      BY DEF Mine
<1>4. ASSUME NEW u, Ready(c, u) PROVE Keeps(c, Result(u, db))
  <2>1. u.owner = c
        BY <1>4 DEF Ready, Safe
  <2> QED
      BY <1>2, <1>3, <1>4, <2>1 DEF Ready, Keeps, InStep, Result
<1>5. ASSUME NEW outcomes, \A o \in outcomes : Keeps(c, o), Becomes(r, outcomes)
      PROVE  MemoryInv'
      BY <1>5, MemoryBecomes
<1>6. ASSUME GetSession(r) PROVE MemoryInv'
  <2>1. tx[r].session = NoSession
        BY <1>6 DEF GetSession
  <2> DEFINE outcomes == {Result([tx[r] EXCEPT !.session = s], db) : s \in LoadHTTP(tx[r].cookie, db)}
  <2>2. \A s \in LoadHTTP(tx[r].cookie, db) : Ready(c, [tx[r] EXCEPT !.session = s])
        BY <1>1, <2>1, HandlerRemembers
  <2>3. \A o \in outcomes : Keeps(c, o)
        BY <1>4, <2>2
  <2>4. Becomes(r, outcomes)
        BY <1>6 DEF GetSession
  <2> HIDE DEF outcomes
  <2> QED
      BY <1>5, <2>3, <2>4
<1>7. ASSUME UseSession(r) PROVE MemoryInv'
  <2> DEFINE s == tx[r].session
  <2>1. s # NoSession
        BY <1>7 DEF UseSession, OnSession, UsesSession
  <2>2. s \in Sessions /\ WrittenBy(c, s.values) /\ (s.ID \in ID => Holds(c, s.ID))
        BY <1>1, <1>2, <2>1, OwnSession
  <2>3. Remembered(tx[r].cookie, tx[r].header, s, db)
        BY <1>1, <2>1, HandlerRemembers
  <2>4. ASSUME NEW q \in Sessions, q.ID = s.ID, q.dirty \/ q = s, WrittenBy(c, q.values),
               OnSession(r, q)
        PROVE  MemoryInv'
    <3>1. Remembered(tx[r].cookie, tx[r].header, q, db)
          BY <2>2, <2>3, <2>4, EditRemembers
    <3>2. Ready(c, [tx[r] EXCEPT !.session = q])
          BY <1>1, <2>2, <2>4, <3>1, ReadySession
    <3>3. Keeps(c, Result([tx[r] EXCEPT !.session = q], db))
          BY <1>4, <3>2
    <3>4. Becomes(r, {Result([tx[r] EXCEPT !.session = q], db)})
          BY <2>4 DEF OnSession
    <3> QED
        BY <1>5, <3>3, <3>4
  <2>5. ASSUME NEW k \in Key, OnSession(r, SetTo(s, k, c)) PROVE MemoryInv'
        BY <2>2, <2>4, <2>5, SetToProperties, EditsMarkDirty
  <2>6. ASSUME NEW k \in Key, OnSession(r, SetToNil(s, k)) PROVE MemoryInv'
        BY <2>2, <2>4, <2>6, RemoveProperties, EditsMarkDirty
  <2>7. ASSUME NEW k \in Key, OnSession(r, Del(s, k)) PROVE MemoryInv'
        BY <2>2, <2>4, <2>7, RemoveProperties, EditsMarkDirty
  <2>8. ASSUME OnSession(r, Clear(s)) PROVE MemoryInv'
        BY <2>2, <2>4, <2>8, ClearProperties, EditsMarkDirty
  <2> QED
      BY <1>7, <2>5, <2>6, <2>7, <2>8 DEF UseSession
<1>8. ASSUME NEW u, Ready(c, u), ~u.headerWritten, Becomes(r, SaveSession(u, db))
      PROVE  MemoryInv'
  <2>1. u.wire = NoResponse /\ jar[c] \in {u.cookie, NoCookie}
        BY <1>8 DEF Ready, Kept
  <2>2. \A o \in SaveSession(u, db) : KeptSaved(c, u, o)
        BY <1>2, <1>8, <2>1, KeptSave
  <2>3. \A o \in SaveSession(u, db) : Keeps(c, o)
        BY <2>1, <2>2, KeepsSaved
  <2> QED
      BY <1>5, <1>8, <2>3
<1>9. ASSUME CallSaveSession(r) PROVE MemoryInv'
  <2>1. ~tx[r].headerWritten /\ Becomes(r, SaveSession(tx[r], db))
        BY <1>2, <1>9 DEF CallSaveSession, UsesSession
  <2> QED
      BY <1>2, <1>8, <2>1
<1>10. ASSUME ClearSession(r) PROVE MemoryInv'
  <2>1. PICK s : /\ \/ tx[r].session # NoSession /\ s = tx[r].session
                    \/ tx[r].session = NoSession /\ s \in LoadHTTP(tx[r].cookie, db)
                 /\ Becomes(r, SaveSession([tx[r] EXCEPT !.session = Clear(s)], db))
        BY <1>10 DEF ClearSession
  <2> DEFINE u == [tx[r] EXCEPT !.session = Clear(s)]
  <2>2. Ready(c, u)
        BY <1>1, <2>1, ClearedIsReady
  <2>3. ~u.headerWritten
        BY <1>2, <1>10 DEF ClearSession, Transactions
  <2>4. Becomes(r, SaveSession(u, db))
        BY <2>1
  <2> HIDE DEF u
  <2> QED
      BY <1>8, <2>2, <2>3, <2>4
<1>11. ASSUME Respond(r) PROVE MemoryInv'
  <2>1. ASSUME NEW code \in Codes, NEW outcomes,
               outcomes \in {WriteHeader(tx[r], db, code), Write(tx[r], db),
                             RespondWithMessage(tx[r], db, code)},
               Becomes(r, outcomes)
        PROVE  MemoryInv'
    <3>1. \A o \in outcomes : KeptSaved(c, tx[r], o) /\ o.t.headerWritten
          BY <1>2, <2>1, KeptWriteHeader, KeptWrite, KeptRespond
    <3>2. \A o \in outcomes : Keeps(c, o)
          BY <3>1, KeepsSaved
    <3> QED
        BY <1>5, <2>1, <3>2
  <2> QED
      BY <1>11, <2>1, CodesAreStatus DEF Respond
<1>12. ASSUME Panic(r) PROVE MemoryInv'
  <2> DEFINE u == [tx[r] EXCEPT !.phase = "panicking"]
  <2>1. /\ u.phase = "panicking" /\ u.wire = tx[r].wire /\ u.headerWritten = tx[r].headerWritten
        /\ u.session = tx[r].session /\ u.header = tx[r].header /\ u.cookie = tx[r].cookie
        /\ u.owner = tx[r].owner
        BY <1>2 DEF Transactions
  <2>2. Becomes(r, {Result(u, db)})
        BY <1>12 DEF Panic
  <2> HIDE DEF u
  <2>3. Kept(u, db)
        BY <1>2, <2>1 DEF Ready, Kept
  <2>4. Keeps(c, Result(u, db))
        BY <1>2, <1>3, <2>1, <2>3 DEF Ready, Keeps, InStep, Result
  <2> QED
      BY <1>5, <2>2, <2>4
<1>13. ASSUME Return(r) PROVE MemoryInv'
  <2> DEFINE o == Result(Send(tx[r], 200), db)
  <2>1. o.t \in Transactions /\ o.t.owner = c /\ o.db = db
    <3>1. Safe(c, Send(tx[r], 200), db)
          BY <1>2, SafeSend, CodesAreStatus DEF Ready
    <3> QED
        BY <3>1 DEF Safe, Result
  <2>2. Becomes(r, {Returned(o)})
        BY <1>13 DEF Return
  <2> HIDE DEF o
  <2>3. Keeps(c, Returned(o))
        BY <1>2, <1>3, <2>1, KeepsReturned
  <2> QED
      BY <1>5, <2>2, <2>3
<1> QED
    BY <1>6, <1>7, <1>9, <1>10, <1>11, <1>12, <1>13 DEF Handler

LEMMA MemoryRecover ==
  ASSUME Calm, MemoryInv, IsolationInv', NEW r \in Req, Recover(r)
  PROVE  MemoryInv'
<1> DEFINE u == [tx[r] EXCEPT !.phase = "handler"]
<1> PICK c \in Client : c = tx[r].owner
    BY HandlerIsReady DEF Recover
<1>1. Ready(c, u) /\ DataOnly(db)
      BY HandlerIsReady DEF Recover, MemoryInv
<1> HIDE DEF u
<1>2. \A o \in RespondWithMessage(u, db, 500) : KeptSaved(c, u, o)
      BY <1>1, KeptRespond, CodesAreStatus
<1> DEFINE outcomes ==
             { IF o.t.phase = "panicking" THEN Result(IdleTransaction, o.db) ELSE Returned(o)
               : o \in RespondWithMessage(u, db, 500) }
<1>3. ASSUME NEW p \in outcomes PROVE Keeps(c, p)
  <2>1. PICK o \in RespondWithMessage(u, db, 500) :
          p = IF o.t.phase = "panicking" THEN Result(IdleTransaction, o.db) ELSE Returned(o)
        OBVIOUS
  <2>2. KeptSaved(c, u, o)
        BY <1>2
  <2>3. Keeps(c, Returned(o))
        BY <2>2, KeepsReturned DEF KeptSaved
  <2>4. Keeps(c, Result(IdleTransaction, o.db))
        BY <2>2, KeepsIdle DEF KeptSaved
  <2> QED
      BY <2>1, <2>3, <2>4
<1>4. Becomes(r, outcomes)
      BY DEF Recover, u
<1> HIDE DEF outcomes
<1> QED
    BY <1>3, <1>4, MemoryBecomes

LEMMA MemoryDelivery ==
  ASSUME MemoryInv, IsolationInv', NEW r \in Req, Receive(r) \/ Lose(r)
  PROVE  MemoryInv'
<1> DEFINE v == [tx[r] EXCEPT !.wire = Delivered]
<1>1. TypeOK /\ IsolationInv /\ tx[r] \in Transactions /\ Kept(tx[r], db) /\ tx[r] # IdleTransaction
  <2>1. tx[r].wire # NoResponse
        BY DEF Receive, Lose
  <2> QED
      BY <2>1 DEF MemoryInv, IsolationInv, TypeOK, IdleTransaction
<1>2. tx[r].owner \in Client /\ tx[r].wire # NoResponse
      BY <1>1, SafeBefore DEF Receive, Lose
<1>3. /\ v.wire = Delivered /\ v.phase = tx[r].phase /\ v.headerWritten = tx[r].headerWritten
      /\ v.session = tx[r].session /\ v.header = tx[r].header /\ v.cookie = tx[r].cookie
      /\ v.owner = tx[r].owner
      BY <1>1 DEF Transactions
<1>4. tx' = [tx EXCEPT ![r] = Settle(v)] /\ db' = db
      BY DEF Receive, Lose
<1> HIDE DEF v
<1>5. \/ Settle(v) = v /\ v.phase # "returned"
      \/ Settle(v) = IdleTransaction
      BY <1>3 DEF Settle, Recycled
<1>6. Kept(Settle(v), db) /\ Settle(v).owner \in {tx[r].owner, NoClient}
      /\ (Settle(v).phase \in {"handler", "panicking"} => Settle(v).headerWritten)
  <2>1. CASE Settle(v) = v /\ v.phase # "returned"
        BY <1>1, <1>2, <1>3, <2>1 DEF Kept
  <2>2. CASE Settle(v) = IdleTransaction
        BY <2>2 DEF Kept, IdleTransaction
  <2> QED
      BY <1>5, <2>1, <2>2
<1>7. \A q \in Req : tx'[q] = IF q = r THEN Settle(v) ELSE tx[q]
      BY <1>1, <1>4 DEF TypeOK
<1>8. \A q \in Req : q # r => tx[q].owner # tx[r].owner
      BY <1>2, EnvAssumption DEF MemoryInv, OneAtATime
<1>9. \A x \in Client : x # tx[r].owner => jar'[x] = jar[x]
      BY <1>1 DEF Receive, Lose, TypeOK
<1>10. OneAtATime'
  <2> SUFFICES ASSUME NEW p \in Req, NEW q \in Req, p # q, tx'[p].owner = tx'[q].owner
               PROVE  tx'[p].owner = NoClient
      BY DEF OneAtATime
  <2> QED
      BY <1>6, <1>7, <1>8 DEF MemoryInv, OneAtATime
<1>11. \A q \in Req : InStep(tx[q])'
  <2> SUFFICES ASSUME NEW q \in Req PROVE InStep(tx[q])'
      OBVIOUS
  <2>1. CASE q = r
        BY <1>6, <1>7, <2>1 DEF InStep
  <2>2. CASE q # r
    <3>1. tx'[q] = tx[q] /\ InStep(tx[q])
          BY <1>7, <2>2 DEF MemoryInv
    <3>2. tx[q].phase \in {"handler", "panicking"} => tx[q].owner \in Client
          BY HandlerIsReady
    <3> QED
        BY <1>8, <1>9, <2>2, <3>1, <3>2 DEF InStep
  <2> QED
      BY <2>1, <2>2
<1>12. DataOnly(db)'
       BY <1>4 DEF DataOnly, MemoryInv
<1>13. \A q \in Req : Kept(tx[q], db)'
  <2>1. \A q \in Req : Kept(tx'[q], db)
        BY <1>6, <1>7 DEF MemoryInv
  <2> QED
      BY <1>4, <2>1 DEF Kept, Remembered, Current
<1> QED
    BY <1>10, <1>11, <1>12, <1>13 DEF MemoryInv

LEMMA MemoryInit == Init => MemoryInv
<1> SUFFICES ASSUME Init PROVE MemoryInv
    OBVIOUS
<1>1. IsolationInv
      BY IsolationInit
<1>2. \A r \in Req : tx[r] = IdleTransaction
      BY DEF Init
<1>3. Kept(IdleTransaction, db) /\ InStep(IdleTransaction) /\ IdleTransaction.owner = NoClient
      BY DEF Kept, InStep, IdleTransaction
<1>4. DataOnly(db)
      BY EmptyIsMap DEF Init, DataOnly
<1> QED
    BY <1>1, <1>2, <1>3, <1>4 DEF MemoryInv, OneAtATime

LEMMA MemoryStep ==
  ASSUME Calm, MemoryInv, [Next]_vars
  PROVE  MemoryInv'
<1>1. IsolationInv /\ IsolationInv'
      BY IsolationStep DEF MemoryInv
<1>2. ASSUME NEW r \in Req, NEW c \in Client, ServeHTTP(r, c) PROVE MemoryInv'
      BY <1>1, <1>2, MemoryServe
<1>3. ASSUME NEW r \in Req, Handler(r) PROVE MemoryInv'
      BY <1>1, <1>3, MemoryHandler
<1>4. ASSUME NEW r \in Req, Recover(r) PROVE MemoryInv'
      BY <1>1, <1>4, MemoryRecover
<1>5. ASSUME NEW r \in Req, Receive(r) \/ Lose(r) PROVE MemoryInv'
      BY <1>1, <1>5, MemoryDelivery
<1>6. ASSUME tx' = tx, db' = db, \A c \in Client : jar'[c] \in {jar[c], NoCookie}
      PROVE  MemoryInv'
  <2>1. \A r \in Req : InStep(tx[r])'
    <3> SUFFICES ASSUME NEW r \in Req PROVE InStep(tx[r])'
        OBVIOUS
    <3>1. tx'[r] = tx[r] /\ InStep(tx[r])
          BY <1>6 DEF MemoryInv
    <3>2. tx[r].phase \in {"handler", "panicking"} => tx[r].owner \in Client
          BY HandlerIsReady
    <3> QED
        BY <1>6, <3>1, <3>2 DEF InStep
  <2>2. DataOnly(db)' /\ OneAtATime'
        BY <1>6 DEF MemoryInv, DataOnly, OneAtATime
  <2>3. \A r \in Req : Kept(tx[r], db)'
        BY <1>6 DEF MemoryInv, Kept, Remembered, Current
  <2> QED
      BY <1>1, <2>1, <2>2, <2>3 DEF MemoryInv
<1>7. ASSUME NEW c \in Client, Forget(c) PROVE MemoryInv'
      BY <1>1, <1>6, <1>7 DEF Forget, IsolationInv, TypeOK
<1>8. CASE UNCHANGED vars
      BY <1>6, <1>8 DEF vars
<1>9. \A i \in ID \cup {NoID} : ~Expire(i)
      BY DEF Expire, Calm
<1> QED
    BY <1>2, <1>3, <1>4, <1>5, <1>7, <1>8, <1>9 DEF Next

(* What the client loads with the cookie a response leaves it.              *)
LEMMA ReceiveRemembers ==
  ASSUME Calm, MemoryInv, NEW r \in Req, Receive(r), tx[r].session # NoSession,
         ~tx[r].session.dirty, jar[tx[r].owner] = tx[r].cookie,
         NEW s \in LoadHTTP(jar'[tx[r].owner], db)
  PROVE  DataOf(s.values) = DataOf(tx[r].session.values)
<1> DEFINE t == tx[r]
           k == Current(t.cookie, t.header)
<1>1. /\ t \in Transactions /\ t.session \in Sessions /\ db \in Storage /\ t.owner \in Client
      /\ Kept(t, db) /\ t.phase \in {"handler", "panicking"} /\ jar \in [Client -> ID \cup {NoID, NoCookie}]
  <2>1. Kept(t, db) /\ t.phase \in {"handler", "panicking"}
        BY DEF MemoryInv, Kept
  <2>2. t.owner \in Client
        BY <2>1, HandlerIsReady
  <2> QED
      BY <2>1, <2>2 DEF MemoryInv, IsolationInv, TypeOK, Transactions
<1>2. Remembered(t.cookie, t.header, t.session, db) /\ t.wire.cookie = t.header
      BY <1>1 DEF Kept, Receive
<1>3. jar'[t.owner] = k
      BY <1>1, <1>2 DEF Receive, Current
<1> HIDE DEF k
<1>4. NewSession.values = Nil
      BY DEF NewSession
<1>5. CASE t.session.ID # NoID
  <2>1. /\ k = t.session.ID /\ k \in ID /\ db[k] = t.session.values /\ db[k] # NoData
        BY <1>1, <1>2, <1>5, EmptyIsMap DEF Remembered, k, Sessions, Values, HasData
  <2>2. s = [NewSession EXCEPT !.ID = k, !.values = db[k]]
        BY <1>3, <2>1 DEF LoadHTTP, LoadCookie, isValidSessionID, Load, Calm, ReliableLoads
  <2>3. s.values = t.session.values
        BY <2>1, <2>2 DEF NewSession
  <2> QED
      BY <2>3
<1>6. CASE t.session.ID = NoID
  <2>1. ~HasData(t.session.values) /\ (t.header # NoCookie => t.header.maxAge < 0)
        BY <1>2, <1>6 DEF Remembered
  <2>2. k \in ID => k = t.cookie
        BY <1>1, <2>1, SessionAssumption DEF k, Current, Transactions, Cookies
  <2>3. k \in ID => db[k] = NoData
        BY <1>2, <1>6, <2>2, SessionAssumption DEF Remembered
  <2>4. s = NewSession
        BY <1>3, <2>3 DEF LoadHTTP, LoadCookie, isValidSessionID, Load, Calm, ReliableLoads
  <2> QED
      BY <1>4, <2>1, <2>4 DEF HasData, DataOf
<1> QED
    BY <1>5, <1>6

(* What the client can still present after a ClearSession that saved.       *)
LEMMA ClearedIsGone ==
  ASSUME Calm, MemoryInv, MemoryInv', NEW r \in Req, ClearSession(r),
         tx'[r].phase = "handler", ~tx'[r].session.dirty
  PROVE  /\ \A i \in ID : Holds(tx[r].owner, i)' => db'[i] = NoData
         /\ tx'[r].header # NoCookie => tx'[r].header.maxAge < 0
         /\ tx[r].cookie \in ID /\ db[tx[r].cookie] # NoData => tx'[r].header # NoCookie
<1>1. /\ InHandler(r) /\ ~tx[r].headerWritten /\ tx[r] \in Transactions /\ DataOnly(db)
      /\ IsolationInv
      BY DEF ClearSession, MemoryInv, IsolationInv, TypeOK, InHandler, Calm
<1> PICK c \in Client : c = tx[r].owner
    BY <1>1, HandlerIsReady DEF InHandler
<1>2. PICK s : /\ \/ tx[r].session # NoSession /\ s = tx[r].session
                  \/ tx[r].session = NoSession /\ s \in LoadHTTP(tx[r].cookie, db)
               /\ Becomes(r, SaveSession([tx[r] EXCEPT !.session = Clear(s)], db))
      BY DEF ClearSession
<1> DEFINE u == [tx[r] EXCEPT !.session = Clear(s)]
<1>3. /\ Clear(s) \in Sessions /\ ~HasData(Clear(s).values) /\ Ready(c, u)
      /\ Remembered(tx[r].cookie, tx[r].header, Clear(s), db)
      BY <1>1, <1>2, ClearedIsReady
<1>4. /\ u.session = Clear(s) /\ u.cookie = tx[r].cookie /\ u.header = tx[r].header
      /\ ~u.headerWritten /\ u.session # NoSession
      BY <1>1, <1>3, EnvAssumption DEF Transactions
<1>5. PICK o \in SaveSession(u, db) : tx' = [tx EXCEPT ![r] = o.t] /\ db' = o.db /\ jar' = jar
      BY <1>2 DEF Becomes
<1> HIDE DEF u
<1>6. u.wire = NoResponse
      BY <1>3, <1>4 DEF Ready, Kept
<1>7. /\ KeptSaved(c, u, o) /\ o.t.wire = NoResponse
      /\ o.t.session \in Sessions /\ o.t.session.values = Clear(s).values
      /\ Clear(s).dirty /\ ~o.t.session.dirty => o.t.header # NoCookie
      BY <1>1, <1>3, <1>4, <1>5, <1>6, KeptSave
<1>8. tx'[r] = o.t /\ \A q \in Req : q # r => tx'[q] = tx[q]
      BY <1>1, <1>5 DEF IsolationInv, TypeOK
<1>9. /\ Remembered(o.t.cookie, o.t.header, o.t.session, o.db) /\ o.t.cookie = tx[r].cookie
      /\ ~o.t.session.dirty /\ o.t.owner = c
      BY <1>4, <1>7, <1>8, EnvAssumption DEF KeptSaved, Kept
<1>10. o.t.session.ID = NoID /\ (o.t.header # NoCookie => o.t.header.maxAge < 0)
       BY <1>3, <1>7, <1>9 DEF Remembered
<1>11. ASSUME NEW i \in ID, Holds(c, i)' PROVE o.db[i] = NoData
  <2>1. CASE jar'[c] = i
    <3>1. tx[r].cookie = i
          BY <1>1, <1>3, <1>4, <1>5, <2>1, SessionAssumption DEF Ready
    <3> QED
        BY <1>9, <1>10, <3>1, SessionAssumption DEF Remembered
  <2>2. CASE jar'[c] # i
    <3>1. PICK q \in Req : tx'[q].owner = c /\ Mentions(tx'[q], i)
          BY <1>11, <2>2 DEF Holds, Mentions
    <3>2. q = r
          BY <1>8, <1>9, <3>1, EnvAssumption DEF MemoryInv, OneAtATime
    <3>3. o.t.cookie = i \/ (o.t.header # NoCookie /\ o.t.header.ID = i)
          BY <1>7, <1>8, <1>10, <3>1, <3>2, SessionAssumption DEF Mentions
    <3> QED
        BY <1>9, <1>10, <3>3, SessionAssumption DEF Remembered
  <2> QED
      BY <2>1, <2>2
<1>12. ASSUME tx[r].cookie \in ID, db[tx[r].cookie] # NoData PROVE o.t.header # NoCookie
  <2>1. Clear(s).ID = tx[r].cookie /\ Clear(s).ID # NoID
        BY <1>3, <1>12, SessionAssumption DEF Remembered
  <2>2. Clear(s).dirty
        BY <1>3, <2>1 DEF Remembered
  <2> QED
      BY <1>7, <1>9, <2>2
<1>13. tx'[r].owner = c
       BY <1>8, <1>9
<1> QED
    BY <1>5, <1>8, <1>10, <1>11, <1>12, <1>13

(* Once a response has arrived, the client's next request loads the session *)
(* as its handler left it, however often it was changed and saved, whatever  *)
(* saves failed and cookies were lost before (Save, SaveHTTP, LoadHTTP,     *)
(* bakeSessionIDCookie, HeaderSetCookie).                                   *)
THEOREM NextRequestReadsWrites ==
  ASSUME Calm
  PROVE  Spec => ReadYourWrites
<1>1. MemoryInv /\ [Next]_vars => MemoryInv'
      BY MemoryStep
<1>2. MemoryInv /\ [Next]_vars =>
        [\A r \in Req :
           /\ Receive(r) /\ tx[r].headerWritten /\ tx[r].session # NoSession
           /\ ~tx[r].session.dirty
           /\ jar[tx[r].owner] = tx[r].cookie
           =>
             \A s \in LoadHTTP(jar'[tx[r].owner], db) :
               DataOf(s.values) = DataOf(tx[r].session.values)]_vars
      BY ReceiveRemembers
<1> QED
    BY <1>1, <1>2, MemoryInit, PTL DEF Spec, ReadYourWrites

(* A ClearSession that saved leaves the client no identifier with data, and *)
(* the response deletes the cookie that had some (Clear, Save, SaveHTTP).   *)
THEOREM ClearedDataIsGone ==
  ASSUME Calm
  PROVE  Spec => ClearSessionRemovesData
<1>1. MemoryInv /\ [Next]_vars => MemoryInv'
      BY MemoryStep
<1>2. MemoryInv /\ MemoryInv' =>
        [\A r \in Req :
           ClearSession(r) /\ tx'[r].phase = "handler" /\ ~tx'[r].session.dirty =>
             /\ \A i \in ID : Holds(tx[r].owner, i)' => db'[i] = NoData
             /\ tx'[r].header # NoCookie => tx'[r].header.maxAge < 0
             /\ tx[r].cookie \in ID /\ db[tx[r].cookie] # NoData => tx'[r].header # NoCookie]_vars
      BY ClearedIsGone
<1> QED
    BY <1>1, <1>2, MemoryInit, PTL DEF Spec, ClearSessionRemovesData
=============================================================================
