--------------------------- MODULE SessionStorage ---------------------------
(***************************************************************************)
(* What a Storage promises callers whose calls overlap. An entry lives     *)
(* until its time is over. SetSessionData and DelSessionData take effect   *)
(* at once. GetSessionData and RefreshSessionData answer from some entry   *)
(* (or its absence) the session had while the call was in progress: never  *)
(* from what it had before the call began, or was never given.             *)
(***************************************************************************)
EXTENDS Naturals

CONSTANTS
  Caller,  \* goroutines that call the storage
  ID,      \* session identifiers
  Data,    \* what is stored
  TTL,     \* the ttl argument of Set and Refresh
  MaxNow,  \* bound on the clock
  None,    \* no entry, no data
  Idle     \* a caller that is in no call

VARIABLES
  store,  \* store[i]: the entry of identifier i
  now,    \* the clock
  ret,    \* ret[c]: what the last call of c returned
  call,   \* call[c]: the Get or Refresh that c is in
  had     \* had[c]: what that call's session has had since the call began

svars == <<store, now, ret, call, had>>

Entries == [data : Data, expires : Nat]
Errors  == {"nil", "not found", "expired"}
Returns == [err : Errors, data : Data \cup {None}]
Calls   == [op : {"Get", "Refresh"}, id : ID]

Expired(e, t) == t > e.expires

InCall(c, op) == call[c] # Idle /\ call[c].op = op

(* The call of c is over, with this answer. *)
Answer(c, err, data) ==
  /\ ret'  = [ret EXCEPT ![c] = [err |-> err, data |-> data]]
  /\ call' = [call EXCEPT ![c] = Idle]

(* Caller c puts entry e for i as its call ends; calls in progress for i     *)
(* have seen it.                                                             *)
Put(c, i, e) ==
  /\ store' = [store EXCEPT ![i] = e]
  /\ had' = [d \in Caller |->
               IF d = c THEN {}
               ELSE IF call[d] # Idle /\ call[d].id = i THEN had[d] \cup {e} ELSE had[d]]

Leave(c) == had' = [had EXCEPT ![c] = {}] /\ UNCHANGED store

SInit ==
  /\ store = [i \in ID |-> None]
  /\ now = 0
  /\ ret = [c \in Caller |-> [err |-> "nil", data |-> None]]
  /\ call = [c \in Caller |-> Idle]
  /\ had = [c \in Caller |-> {}]

Begin(c, op, i) ==
  /\ call[c] = Idle
  /\ call' = [call EXCEPT ![c] = [op |-> op, id |-> i]]
  /\ had' = [had EXCEPT ![c] = {store[i]}]
  /\ UNCHANGED <<store, now, ret>>

NotFound(c) ==
  /\ call[c] # Idle
  /\ None \in had[c]
  /\ Leave(c)
  /\ Answer(c, "not found", None)
  /\ UNCHANGED now

Get(c, e) ==
  /\ InCall(c, "Get")
  /\ e \in had[c] \ {None}
  /\ \/ ~Expired(e, now) /\ Leave(c) /\ Answer(c, "nil", e.data)
     \/ Expired(e, now) /\ Put(c, call[c].id, None) /\ Answer(c, "expired", None)
  /\ UNCHANGED now

Refresh(c, e) ==
  /\ InCall(c, "Refresh")
  /\ e \in had[c] \ {None}
  /\ Put(c, call[c].id, [data |-> e.data, expires |-> now + TTL])
  /\ Answer(c, "nil", None)
  /\ UNCHANGED now

Set(c, i, d) ==
  /\ call[c] = Idle
  /\ Put(c, i, [data |-> d, expires |-> now + TTL])
  /\ Answer(c, "nil", None)
  /\ UNCHANGED now

Del(c, i) ==
  /\ call[c] = Idle
  /\ Put(c, i, None)
  /\ Answer(c, "nil", None)
  /\ UNCHANGED now

Tick == now < MaxNow /\ now' = now + 1 /\ UNCHANGED <<store, ret, call, had>>

SNext ==
  \/ \E c \in Caller :
       \/ \E i \in ID : \/ \E op \in {"Get", "Refresh"} : Begin(c, op, i)
                        \/ Del(c, i)
                        \/ \E d \in Data : Set(c, i, d)
       \/ NotFound(c)
       \/ \E e \in had[c] : Get(c, e) \/ Refresh(c, e)
  \/ Tick

SSpec == SInit /\ [][SNext]_svars
=============================================================================
