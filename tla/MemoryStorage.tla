--------------------------- MODULE MemoryStorage ---------------------------
(***************************************************************************)
(* session.MemoryStorage: each operation of the sync.Map is one step, so   *)
(* Get is a Load and perhaps a Delete, Refresh a Load and a Store, and the *)
(* steps of concurrent calls interleave, also those for one identifier.    *)
(***************************************************************************)
EXTENDS Naturals

CONSTANTS Caller, ID, Data, TTL, MaxNow, None, Idle

VARIABLES
  store, now, ret, call,
  pc,     \* pc[c]: what c does next in its call
  entry,  \* entry[c]: the entry the call has loaded
  had     \* history: what the session of c's call has had since it began

vars == <<store, now, ret, call, pc, entry, had>>

SS == INSTANCE SessionStorage

Entries == [data : Data, expires : Nat]
Returns == [err : {"nil", "not found", "expired"}, data : Data \cup {None}]
Calls   == [op : {"Get", "Refresh"}, id : ID]

ASSUME MemoryAssumption ==
  /\ TTL \in Nat
  /\ MaxNow \in Nat
  /\ None \notin Data
  /\ None \notin Entries
  /\ Idle \notin Calls

TypeOK ==
  /\ store \in [ID -> Entries \cup {None}]
  /\ now \in Nat
  /\ ret \in [Caller -> Returns]
  /\ call \in [Caller -> Calls \cup {Idle}]
  /\ pc \in [Caller -> {"load", "check", "delete", "store"}]
  /\ entry \in [Caller -> Entries \cup {None}]
  /\ had \in [Caller -> SUBSET (Entries \cup {None})]
  /\ \A c \in Caller : pc[c] # "load" => call[c] # Idle /\ entry[c] # None

Init ==
  /\ store = [i \in ID |-> None]
  /\ now = 0
  /\ ret = [c \in Caller |-> [err |-> "nil", data |-> None]]
  /\ call = [c \in Caller |-> Idle]
  /\ pc = [c \in Caller |-> "load"]
  /\ entry = [c \in Caller |-> None]
  /\ had = [c \in Caller |-> {}]

-----------------------------------------------------------------------------
Uses(c, i) == call[c] # Idle /\ call[c].id = i

(* sync.Map.Store or Delete, the last of its call by c: the calls that are   *)
(* in progress for i have had e.                                             *)
Put(c, i, e) ==
  /\ store' = [store EXCEPT ![i] = e]
  /\ had' = [d \in Caller |-> IF d = c THEN {}
                              ELSE IF Uses(d, i) THEN had[d] \cup {e} ELSE had[d]]

Leave(c) == had' = [had EXCEPT ![c] = {}] /\ UNCHANGED store

(* The call goes on at p with the entry it has loaded. *)
GoOn(c, p, e) ==
  /\ pc' = [pc EXCEPT ![c] = p]
  /\ entry' = [entry EXCEPT ![c] = e]
  /\ UNCHANGED <<ret, call>>

Return(c, err, data) ==
  /\ ret' = [ret EXCEPT ![c] = [err |-> err, data |-> data]]
  /\ call' = [call EXCEPT ![c] = Idle]
  /\ pc' = [pc EXCEPT ![c] = "load"]
  /\ entry' = [entry EXCEPT ![c] = None]

-----------------------------------------------------------------------------
Begin(c, op, i) ==
  /\ call[c] = Idle
  /\ call' = [call EXCEPT ![c] = [op |-> op, id |-> i]]
  /\ had' = [had EXCEPT ![c] = {store[i]}]
  /\ UNCHANGED <<store, now, ret, pc, entry>>

GetSessionData(c, i)     == Begin(c, "Get", i)
RefreshSessionData(c, i) == Begin(c, "Refresh", i)

At(c, op, p) == call[c] # Idle /\ call[c].op = op /\ pc[c] = p

(* The mutant ignores that nothing may have been loaded. *)
LoadIgnoringOk(c, op, p) ==
  /\ At(c, op, "load")
  /\ GoOn(c, p, store[call[c].id])
  /\ UNCHANGED <<store, now, had>>

(* Get and Refresh start with sync.Map.Load. *)
Load(c, op, p) ==
  /\ At(c, op, "load")
  /\ LET e == store[call[c].id] IN
     \/ e = None /\ Leave(c) /\ Return(c, "not found", None)
     \/ e # None /\ GoOn(c, p, e) /\ UNCHANGED <<store, had>>
  /\ UNCHANGED now

(* The mutant has an entry expire an instant early. *)
GoodBefore(e) == now < e.expires

Good(e) == ~(now > e.expires)

GetCheck(c) ==
  /\ At(c, "Get", "check")
  /\ \/ Good(entry[c]) /\ Leave(c) /\ Return(c, "nil", entry[c].data)
     \/ ~Good(entry[c]) /\ GoOn(c, "delete", entry[c]) /\ UNCHANGED <<store, had>>
  /\ UNCHANGED now

(* The expired entry was loaded earlier; what is deleted is what is there. *)
GetDelete(c) ==
  /\ At(c, "Get", "delete")
  /\ Put(c, call[c].id, None)
  /\ Return(c, "expired", None)
  /\ UNCHANGED now

(* The data loaded is stored again, with a new time. *)
RefreshStore(c) ==
  /\ At(c, "Refresh", "store")
  /\ Put(c, call[c].id, [data |-> entry[c].data, expires |-> now + TTL])
  /\ Return(c, "nil", None)
  /\ UNCHANGED now

SetSessionData(c, i, d) ==
  /\ call[c] = Idle
  /\ Put(c, i, [data |-> d, expires |-> now + TTL])
  /\ Return(c, "nil", None)
  /\ UNCHANGED now

DelSessionData(c, i) ==
  /\ call[c] = Idle
  /\ Put(c, i, None)
  /\ Return(c, "nil", None)
  /\ UNCHANGED now

Tick == now < MaxNow /\ now' = now + 1 /\ UNCHANGED <<store, ret, call, pc, entry, had>>

Next ==
  \/ \E c \in Caller :
       \/ \E i \in ID : \/ GetSessionData(c, i)
                        \/ RefreshSessionData(c, i)
                        \/ DelSessionData(c, i)
                        \/ \E d \in Data : SetSessionData(c, i, d)
       \/ Load(c, "Get", "check") \/ GetCheck(c) \/ GetDelete(c)
       \/ Load(c, "Refresh", "store") \/ RefreshStore(c)
  \/ Tick

Spec == Init /\ [][Next]_vars

-----------------------------------------------------------------------------
(* However calls overlap, a Get or Refresh of MemoryStorage answers from    *)
(* what its session had while the call was in progress, as SessionStorage   *)
(* says: storage.go:62-93 between Load, Delete and Store.                   *)
ImplementsStorage == SS!SSpec

(* RefreshSessionData extends the time of a session "without changing its   *)
(* data" (storage.go:31): its step leaves the data of every entry alone.    *)
RefreshKeepsData ==
  [][\A c \in Caller : RefreshStore(c) =>
       LET i == call[c].id IN
       store[i] # None /\ store'[i].data = store[i].data]_vars
=============================================================================
