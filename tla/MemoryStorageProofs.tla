------------------------ MODULE MemoryStorageProofs ------------------------
(***************************************************************************)
(* For every set of callers, identifiers and data and every ttl:           *)
(* MemoryStorage is well typed and, however its calls overlap, implements  *)
(* SessionStorage, the store itself being the abstract store.              *)
(***************************************************************************)
EXTENDS MemoryStorage, TLAPS

(* What a call's session has now, and what the call has loaded, are among   *)
(* what the session has had since the call began; an entry whose turn it is *)
(* to be deleted had expired.                                               *)
HadInCall ==
  \A c \in Caller :
    /\ call[c] # Idle => store[call[c].id] \in had[c]
    /\ pc[c] # "load" => entry[c] \in had[c]
    /\ pc[c] = "delete" => SS!Expired(entry[c], now)

StoreInv == TypeOK /\ HadInCall

-----------------------------------------------------------------------------
(* A call that returns leaves a well-typed answer and is over.             *)
LEMMA ReturnType ==
  ASSUME TypeOK, NEW c \in Caller, NEW err \in {"nil", "not found", "expired"},
         NEW data \in Data \cup {None}, Return(c, err, data)
  PROVE  /\ ret' \in [Caller -> Returns]
         /\ call' \in [Caller -> Calls \cup {Idle}]
         /\ pc' \in [Caller -> {"load", "check", "delete", "store"}]
         /\ entry' \in [Caller -> Entries \cup {None}]
         /\ \A d \in Caller : pc'[d] # "load" => call'[d] # Idle /\ entry'[d] # None
BY DEF TypeOK, Return, Returns

(* What a caller past its Load holds is a call with an entry.              *)
LEMMA AtCall ==
  ASSUME TypeOK, NEW c \in Caller, NEW op, NEW p, At(c, op, p)
  PROVE  /\ SS!InCall(c, op) /\ pc[c] = p
         /\ call[c] # Idle /\ call[c].id \in ID
         /\ p # "load" => entry[c] \in Entries /\ entry[c] # None /\ entry[c].data \in Data
BY DEF TypeOK, At, Calls, Entries, SS!InCall

LEMMA PutType ==
  ASSUME TypeOK, NEW c \in Caller, NEW i \in ID, NEW e \in Entries \cup {None}, Put(c, i, e)
  PROVE  /\ store' \in [ID -> Entries \cup {None}]
         /\ had' \in [Caller -> SUBSET (Entries \cup {None})]
<1>1. store' \in [ID -> Entries \cup {None}]
      BY DEF TypeOK, Put
<1>2. \A d \in Caller : had[d] \cup {e} \in SUBSET (Entries \cup {None})
      BY DEF TypeOK
<1>3. \A d \in Caller :
        (IF d = c THEN {} ELSE IF Uses(d, i) THEN had[d] \cup {e} ELSE had[d])
          \in SUBSET (Entries \cup {None})
      BY <1>2 DEF TypeOK
<1> QED
    BY <1>1, <1>3 DEF Put

LEMMA LeaveType ==
  ASSUME TypeOK, NEW c \in Caller, Leave(c)
  PROVE  /\ store' \in [ID -> Entries \cup {None}]
         /\ had' \in [Caller -> SUBSET (Entries \cup {None})]
BY DEF TypeOK, Leave

LEMMA NewEntry ==
  ASSUME now \in Nat, NEW d \in Data
  PROVE  [data |-> d, expires |-> now + TTL] \in Entries
BY MemoryAssumption DEF Entries

LEMMA BeginType ==
  ASSUME TypeOK, NEW c \in Caller, NEW op \in {"Get", "Refresh"}, NEW i \in ID, Begin(c, op, i)
  PROVE  TypeOK'
<1>1. [op |-> op, id |-> i] \in Calls /\ [op |-> op, id |-> i] # Idle
      BY MemoryAssumption DEF Calls
<1>2. call' \in [Caller -> Calls \cup {Idle}]
      BY <1>1 DEF Begin, TypeOK
<1>3. had' \in [Caller -> SUBSET (Entries \cup {None})]
  <2>1. {store[i]} \in SUBSET (Entries \cup {None})
        BY DEF TypeOK
  <2> QED
      BY <2>1 DEF Begin, TypeOK
<1>4. \A d \in Caller : pc[d] # "load" => call'[d] # Idle
      BY <1>1 DEF Begin, TypeOK
<1> QED
    BY <1>2, <1>3, <1>4 DEF Begin, TypeOK

LEMMA LoadType ==
  ASSUME TypeOK, NEW c \in Caller, NEW op, NEW p \in {"check", "store"}, Load(c, op, p)
  PROVE  TypeOK'
<1> DEFINE e == store[call[c].id]
<1>1. /\ now' = now /\ call[c] # Idle
      /\ e \in Entries \cup {None}
      BY AtCall DEF Load, TypeOK
<1>2. CASE Leave(c) /\ Return(c, "not found", None)
      BY <1>1, <1>2, ReturnType, LeaveType DEF TypeOK
<1>3. CASE e # None /\ GoOn(c, p, e) /\ UNCHANGED <<store, had>>
      BY <1>1, <1>3 DEF TypeOK, GoOn
<1> QED
    BY <1>2, <1>3 DEF Load

LEMMA TypeStep == TypeOK /\ [Next]_vars => TypeOK'
<1> SUFFICES ASSUME TypeOK, [Next]_vars PROVE TypeOK'
    OBVIOUS
<1>1. CASE UNCHANGED vars
      BY <1>1 DEF vars, TypeOK
<1>2. CASE Tick
      BY <1>2 DEF Tick, TypeOK
<1>3. ASSUME NEW c \in Caller, NEW i \in ID, GetSessionData(c, i) \/ RefreshSessionData(c, i)
      PROVE  TypeOK'
      BY <1>3, BeginType DEF GetSessionData, RefreshSessionData
<1>4. ASSUME NEW c \in Caller, NEW i \in ID, NEW e \in Entries \cup {None},
             NEW err \in {"nil", "expired"}, Put(c, i, e), Return(c, err, None), now' = now
      PROVE  TypeOK'
  <2>1. /\ store' \in [ID -> Entries \cup {None}]
        /\ had' \in [Caller -> SUBSET (Entries \cup {None})]
        BY <1>4, PutType
  <2>2. err \in {"nil", "not found", "expired"} /\ None \in Data \cup {None}
        OBVIOUS
  <2>3. /\ ret' \in [Caller -> Returns]
        /\ call' \in [Caller -> Calls \cup {Idle}]
        /\ pc' \in [Caller -> {"load", "check", "delete", "store"}]
        /\ entry' \in [Caller -> Entries \cup {None}]
        /\ \A d \in Caller : pc'[d] # "load" => call'[d] # Idle /\ entry'[d] # None
        BY <1>4, <2>2, ReturnType
  <2> QED
      BY <1>4, <2>1, <2>3 DEF TypeOK
<1>5. ASSUME NEW c \in Caller, NEW i \in ID, DelSessionData(c, i) PROVE TypeOK'
      BY <1>4, <1>5 DEF DelSessionData
<1>6. ASSUME NEW c \in Caller, NEW i \in ID, NEW d \in Data, SetSessionData(c, i, d) PROVE TypeOK'
  <2>1. [data |-> d, expires |-> now + TTL] \in Entries
        BY NewEntry DEF TypeOK
  <2> QED
      BY <1>4, <1>6, <2>1 DEF SetSessionData
<1>7. ASSUME NEW c \in Caller, Load(c, "Get", "check") \/ Load(c, "Refresh", "store") PROVE TypeOK'
      BY <1>7, LoadType
<1>8. ASSUME NEW c \in Caller, GetCheck(c) PROVE TypeOK'
  <2>1. At(c, "Get", "check") /\ now' = now
        BY <1>8 DEF GetCheck
  <2>2. entry[c] \in Entries /\ entry[c] # None /\ entry[c].data \in Data /\ call[c] # Idle
        BY <2>1, AtCall
  <2>3. CASE Leave(c) /\ Return(c, "nil", entry[c].data)
        BY <2>1, <2>2, <2>3, ReturnType, LeaveType DEF TypeOK
  <2>4. CASE GoOn(c, "delete", entry[c]) /\ UNCHANGED <<store, had>>
        BY <2>1, <2>2, <2>4 DEF TypeOK, GoOn
  <2> QED
      BY <1>8, <2>3, <2>4 DEF GetCheck
<1>9. ASSUME NEW c \in Caller, GetDelete(c) PROVE TypeOK'
  <2>1. call[c].id \in ID
        BY <1>9, AtCall DEF GetDelete
  <2> QED
      BY <1>4, <1>9, <2>1 DEF GetDelete
<1>10. ASSUME NEW c \in Caller, RefreshStore(c) PROVE TypeOK'
  <2>1. call[c].id \in ID /\ entry[c].data \in Data
        BY <1>10, AtCall DEF RefreshStore
  <2>2. [data |-> entry[c].data, expires |-> now + TTL] \in Entries
        BY <2>1, NewEntry DEF TypeOK
  <2> QED
      BY <1>4, <1>10, <2>1, <2>2 DEF RefreshStore
<1> QED
    BY <1>1, <1>2, <1>3, <1>5, <1>6, <1>7, <1>8, <1>9, <1>10 DEF Next

(* The clock, the map, the answers and the calls in progress stay in their  *)
(* types under every interleaving of any number of callers.                 *)
THEOREM StorageTypeOK == Spec => []TypeOK
<1>1. Init => TypeOK
      BY DEF Init, TypeOK, Returns
<1> QED
    BY <1>1, TypeStep, PTL DEF Spec

-----------------------------------------------------------------------------
(* The call of c ends and puts an entry: other calls for the identifier     *)
(* have seen it, those for others are not concerned.                        *)
LEMMA PutInvariant ==
  ASSUME StoreInv, NEW c \in Caller, NEW i \in ID, NEW e, NEW err, NEW data,
         Put(c, i, e), Return(c, err, data), now' = now
  PROVE  HadInCall'
<1> SUFFICES ASSUME NEW d \in Caller
             PROVE  /\ call'[d] # Idle => store'[call'[d].id] \in had'[d]
                    /\ pc'[d] # "load" => entry'[d] \in had'[d]
                    /\ pc'[d] = "delete" => SS!Expired(entry'[d], now)
    BY DEF HadInCall, SS!Expired
<1>1. CASE d = c
      BY <1>1 DEF StoreInv, TypeOK, Return
<1>2. CASE d # c
  <2>1. call'[d] = call[d] /\ pc'[d] = pc[d] /\ entry'[d] = entry[d]
        BY <1>2 DEF StoreInv, TypeOK, Return
  <2>2. had'[d] = IF Uses(d, i) THEN had[d] \cup {e} ELSE had[d]
        BY <1>2 DEF Put
  <2>3. call[d] # Idle => call[d].id \in ID
        BY DEF StoreInv, TypeOK, Calls
  <2>4. \A j \in ID : store'[j] = IF j = i THEN e ELSE store[j]
        BY DEF StoreInv, TypeOK, Put
  <2> QED
      BY <2>1, <2>2, <2>3, <2>4 DEF StoreInv, HadInCall, Uses
<1> QED
    BY <1>1, <1>2

LEMMA LeaveInvariant ==
  ASSUME StoreInv, NEW c \in Caller, NEW err, NEW data,
         Leave(c), Return(c, err, data), now' = now
  PROVE  HadInCall'
BY DEF StoreInv, HadInCall, TypeOK, Leave, Return, SS!Expired

LEMMA InvariantStep == StoreInv /\ [Next]_vars => StoreInv'
<1> SUFFICES ASSUME StoreInv, [Next]_vars PROVE HadInCall'
    BY TypeStep DEF StoreInv
<1>1. CASE UNCHANGED vars
      BY <1>1 DEF vars, StoreInv, HadInCall, SS!Expired
<1>2. CASE Tick
  <2>1. \A c \in Caller : pc[c] = "delete" => entry[c].expires \in Nat
        BY DEF StoreInv, TypeOK, Entries
  <2> QED
      BY <1>2, <2>1 DEF Tick, StoreInv, TypeOK, HadInCall, SS!Expired
<1>3. ASSUME NEW c \in Caller, NEW i \in ID, NEW op, Begin(c, op, i) PROVE HadInCall'
      BY <1>3 DEF Begin, StoreInv, TypeOK, HadInCall, SS!Expired
<1>4. ASSUME NEW c \in Caller, NEW op, NEW p \in {"check", "store"}, Load(c, op, p) PROVE HadInCall'
  <2>1. now' = now /\ store[call[c].id] \in had[c]
        BY <1>4 DEF Load, At, StoreInv, HadInCall
  <2>2. CASE Leave(c) /\ Return(c, "not found", None)
        BY <2>1, <2>2, LeaveInvariant
  <2>3. CASE GoOn(c, p, store[call[c].id]) /\ UNCHANGED <<store, had>>
        BY <2>1, <2>3 DEF GoOn, StoreInv, TypeOK, HadInCall, SS!Expired
  <2> QED
      BY <1>4, <2>2, <2>3 DEF Load
<1>5. ASSUME NEW c \in Caller, GetCheck(c) PROVE HadInCall'
  <2>1. now' = now /\ pc[c] = "check"
        BY <1>5 DEF GetCheck, At
  <2>2. CASE Leave(c) /\ Return(c, "nil", entry[c].data)
        BY <2>1, <2>2, LeaveInvariant
  <2>3. CASE ~Good(entry[c]) /\ GoOn(c, "delete", entry[c]) /\ UNCHANGED <<store, had>>
        BY <2>1, <2>3 DEF Good, GoOn, StoreInv, TypeOK, HadInCall, SS!Expired
  <2> QED
      BY <1>5, <2>2, <2>3 DEF GetCheck
<1>6. ASSUME NEW c \in Caller, GetDelete(c) \/ RefreshStore(c) PROVE HadInCall'
  <2>1. call[c].id \in ID
        BY <1>6, AtCall DEF GetDelete, RefreshStore, StoreInv
  <2> QED
      BY <1>6, <2>1, PutInvariant DEF GetDelete, RefreshStore
<1>7. ASSUME NEW c \in Caller, NEW i \in ID,
             DelSessionData(c, i) \/ \E d \in Data : SetSessionData(c, i, d)
      PROVE  HadInCall'
      BY <1>7, PutInvariant DEF DelSessionData, SetSessionData
<1> QED
    BY <1>1, <1>2, <1>3, <1>4, <1>5, <1>6, <1>7 DEF Next, GetSessionData, RefreshSessionData

LEMMA InvariantHolds == Spec => []StoreInv
<1>1. Init => StoreInv
      BY DEF Init, StoreInv, TypeOK, Returns, HadInCall
<1> QED
    BY <1>1, InvariantStep, PTL DEF Spec

-----------------------------------------------------------------------------
LEMMA SamePut ==
  ASSUME NEW c, NEW i, NEW e, Put(c, i, e)
  PROVE  SS!Put(c, i, e)
BY DEF Put, SS!Put, Uses

LEMMA SameReturn ==
  ASSUME NEW c, NEW err, NEW data, Return(c, err, data)
  PROVE  SS!Answer(c, err, data)
BY DEF Return, SS!Answer

(* Each step is one of SessionStorage or changes nothing it can see.        *)
LEMMA RefinementStep ==
  ASSUME StoreInv, [Next]_vars
  PROVE  [SS!SNext]_SS!svars
<1>1. CASE UNCHANGED vars
      BY <1>1 DEF vars, SS!svars
<1>2. CASE Tick
      BY <1>2 DEF Tick, SS!SNext, SS!Tick
<1>3. ASSUME NEW c \in Caller, NEW i \in ID, NEW op \in {"Get", "Refresh"}, Begin(c, op, i)
      PROVE  SS!SNext
  <2>1. SS!Begin(c, op, i)
        BY <1>3 DEF Begin, SS!Begin
  <2> QED
      BY <2>1 DEF SS!SNext
<1>4. ASSUME NEW c \in Caller, NEW i \in ID, DelSessionData(c, i) PROVE SS!SNext
  <2>1. SS!Del(c, i)
        BY <1>4, SamePut, SameReturn DEF DelSessionData, SS!Del
  <2> QED
      BY <2>1 DEF SS!SNext
<1>5. ASSUME NEW c \in Caller, NEW i \in ID, NEW d \in Data, SetSessionData(c, i, d)
      PROVE  SS!SNext
  <2>1. SS!Set(c, i, d)
        BY <1>5, SamePut, SameReturn DEF SetSessionData, SS!Set
  <2> QED
      BY <2>1 DEF SS!SNext
<1>6. ASSUME NEW c \in Caller, NEW op, NEW p, Load(c, op, p)
      PROVE  [SS!SNext]_SS!svars
  <2>1. CASE GoOn(c, p, store[call[c].id]) /\ UNCHANGED <<store, had>>
        BY <1>6, <2>1 DEF Load, GoOn, SS!svars
  <2>2. CASE store[call[c].id] = None /\ Leave(c) /\ Return(c, "not found", None)
    <3>1. call[c] # Idle /\ None \in had[c]
          BY <1>6, <2>2 DEF Load, At, StoreInv, HadInCall
    <3>2. SS!NotFound(c)
          BY <1>6, <2>2, <3>1, SameReturn DEF Load, Leave, SS!Leave, SS!NotFound
    <3> QED
        BY <3>2 DEF SS!SNext
  <2> QED
      BY <1>6, <2>1, <2>2 DEF Load
<1>7. ASSUME NEW c \in Caller, NEW op, NEW p, p # "load", At(c, op, p)
      PROVE  /\ SS!InCall(c, op) /\ call[c].id \in ID
             /\ entry[c] \in had[c] \ {None}
             /\ p = "delete" => SS!Expired(entry[c], now)
      BY <1>7, AtCall DEF StoreInv, HadInCall
<1>8. ASSUME NEW c \in Caller, GetCheck(c) PROVE [SS!SNext]_SS!svars
  <2>1. SS!InCall(c, "Get") /\ entry[c] \in had[c] \ {None}
        BY <1>7, <1>8 DEF GetCheck
  <2>2. CASE Good(entry[c]) /\ Leave(c) /\ Return(c, "nil", entry[c].data)
    <3>1. SS!Get(c, entry[c])
          BY <1>8, <2>1, <2>2, SameReturn DEF GetCheck, Good, Leave, SS!Leave, SS!Get, SS!Expired
    <3> QED
        BY <2>1, <3>1 DEF SS!SNext
  <2>3. CASE GoOn(c, "delete", entry[c]) /\ UNCHANGED <<store, had>>
        BY <1>8, <2>3 DEF GetCheck, GoOn, SS!svars
  <2> QED
      BY <1>8, <2>2, <2>3 DEF GetCheck
<1>9. ASSUME NEW c \in Caller, GetDelete(c) PROVE SS!SNext
  <2>1. SS!InCall(c, "Get") /\ entry[c] \in had[c] \ {None} /\ SS!Expired(entry[c], now)
        BY <1>7, <1>9 DEF GetDelete
  <2>2. SS!Get(c, entry[c])
        BY <1>9, <2>1, SamePut, SameReturn DEF GetDelete, SS!Get
  <2> QED
      BY <2>1, <2>2 DEF SS!SNext
<1>10. ASSUME NEW c \in Caller, RefreshStore(c) PROVE SS!SNext
  <2>1. SS!InCall(c, "Refresh") /\ entry[c] \in had[c] \ {None}
        BY <1>7, <1>10 DEF RefreshStore
  <2>2. SS!Refresh(c, entry[c])
        BY <1>10, <2>1, SamePut, SameReturn DEF RefreshStore, SS!Refresh
  <2> QED
      BY <2>1, <2>2 DEF SS!SNext
<1> QED
    BY <1>1, <1>2, <1>3, <1>4, <1>5, <1>6, <1>8, <1>9, <1>10
    DEF Next, GetSessionData, RefreshSessionData

(* However the calls of any number of callers overlap, also those for one   *)
(* identifier, MemoryStorage behaves as a Storage: a GetSessionData or      *)
(* RefreshSessionData answers from what the session had during the call,    *)
(* and what it changes is what SessionStorage allows.                       *)
THEOREM MemoryImplementsStorage == Spec => ImplementsStorage
<1>1. Init => SS!SInit
      BY DEF Init, SS!SInit
<1>2. StoreInv /\ [Next]_vars => [SS!SNext]_SS!svars
      BY RefinementStep
<1> QED
    BY <1>1, <1>2, InvariantHolds, PTL DEF Spec, ImplementsStorage, SS!SSpec
=============================================================================
