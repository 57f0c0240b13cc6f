-------------------------- MODULE TransactionPool --------------------------
(***************************************************************************)
(* The life of Transaction objects: handed out by NewTransaction, used by  *)
(* a handler, found unreachable by the garbage collector, finalized into   *)
(* httpTransactionFreePool and handed out again for another request.       *)
(*                                                                         *)
(* The value of a field is abstracted to the set of requests whose data it *)
(* refers to; the zero value of the field is the empty set.                *)
(***************************************************************************)
EXTENDS FiniteSets

CONSTANTS
  Obj,   \* addresses a Transaction can be allocated at
  Req    \* requests; symbols for as many as are served

VARIABLES
  where,  \* where[o]: what the program and the collector hold of object o
  field   \* field[o][f]: the requests the value of field f derives from

vars == <<where, field>>

(* The fields NewTransaction assigns, and those a handler fills in.  *)
AssignedByNew   == {"ResponseWriter", "Request", "Server", "URL", "Status"}
FilledByHandler == {"headerWritten", "query", "session", "AuxData", "routeMatch"}
Field == AssignedByNew \cup FilledByHandler

Zeroed == [f \in Field |-> {}]

(* "retained": ServeHTTP has returned, but a goroutine of the handler still *)
(* refers to the object.                                                    *)
Where == {"free", "serving", "retained", "garbage", "pooled"}

Reachable(o) == where[o] \in {"serving", "retained"}

(* The request that o stands for, as the set of field Request. *)
Current(o) == field[o]["Request"]

(* Only AuxData, a map that handlers add to, can mix what several requests   *)
(* left: every other field is replaced as a whole.                           *)
TypeOK ==
  /\ where \in [Obj -> Where]
  /\ field \in [Obj -> [Field -> SUBSET Req]]
  /\ \A o \in Obj, f \in Field \ {"AuxData"} : \A q, r \in field[o][f] : q = r

Init ==
  /\ where = [o \in Obj |-> "free"]
  /\ field = [o \in Obj |-> Zeroed]

-----------------------------------------------------------------------------
(* A request is named afresh only when no object refers to it any more, so *)
(* that finitely many names stand for arbitrarily many requests.           *)
Unreferenced(r) == \A o \in Obj, f \in Field : r \notin field[o][f]

(* Get takes an object out of the pool, or calls New for a zeroed one: the *)
(* pool may miss an object another processor put back.                     *)
NewTransaction(o, r) ==
  /\ where[o] \in {"free", "pooled"}
  /\ Unreferenced(r)
  /\ where' = [where EXCEPT ![o] = "serving"]
  /\ field' = [field EXCEPT ![o] =
                 [f \in Field |-> IF f \in AssignedByNew THEN {r} ELSE @[f]]]

Store(o, f, refs) ==
  /\ Reachable(o)
  /\ field' = [field EXCEPT ![o][f] = refs]
  /\ UNCHANGED where

(* Session, Query and WriteHeader fill a field in on their first call only: *)
(* a field that is not zero is taken to be this request's.                  *)
FillOnce(o, f) == field[o][f] = {} /\ Store(o, f, Current(o))

Session(o)     == FillOnce(o, "session")
Query(o)       == FillOnce(o, "query")
WriteHeader(o) == FillOnce(o, "headerWritten")

(* SetAuxVar adds to the map the field holds; it makes one only if nil. *)
SetAuxVar(o) == Store(o, "AuxData", field[o]["AuxData"] \cup Current(o))

(* The mutant fills in the Match a pooled object still has. *)
MatchInPlace(o) == Store(o, "routeMatch", field[o]["routeMatch"] \cup Current(o))

(* Router.Match stores the match of this request, whatever was there. *)
Match(o) == Store(o, "routeMatch", Current(o))

-----------------------------------------------------------------------------
(* ServeHTTP returns: its frame and deferred function drop the object. *)
Return(o) ==
  /\ where[o] = "serving"
  /\ \E w \in {"retained", "garbage"} : where' = [where EXCEPT ![o] = w]
  /\ UNCHANGED field

Release(o) ==
  /\ where[o] = "retained"
  /\ where' = [where EXCEPT ![o] = "garbage"]
  /\ UNCHANGED field

(* The mutant forgets the session. *)
ClearedButSession == {"ResponseWriter", "Request", "URL", "headerWritten", "query"}

(* The fields gcTransaction clears before it puts the object back. *)
ClearedFields == {"ResponseWriter", "Request", "URL", "headerWritten", "query", "session"}

(* The finalizer runs once the object is unreachable. *)
gcTransaction(o) ==
  /\ where[o] = "garbage"
  /\ field' = [field EXCEPT ![o] =
                 [f \in Field |-> IF f \in ClearedFields THEN {} ELSE @[f]]]
  /\ where' = [where EXCEPT ![o] = "pooled"]

(* sync.Pool drops idle objects at a collection; no finalizer is set then. *)
PoolDrop(o) ==
  /\ where[o] = "pooled"
  /\ where' = [where EXCEPT ![o] = "free"]
  /\ field' = [field EXCEPT ![o] = Zeroed]

Handler(o) == Session(o) \/ Query(o) \/ WriteHeader(o) \/ SetAuxVar(o) \/ Match(o)

Collector(o) == gcTransaction(o) \/ PoolDrop(o)

Next ==
  \E o \in Obj :
    \/ \E r \in Req : NewTransaction(o, r)
    \/ Handler(o)
    \/ Return(o)
    \/ Release(o)
    \/ Collector(o)

Spec == Init /\ [][Next]_vars

-----------------------------------------------------------------------------
OwnOnly(o, f) == Reachable(o) => field[o][f] \subseteq Current(o)

(* Session, query, headerWritten and the fields NewTransaction assigns never *)
(* hold anything of another request while a handler can reach the object:   *)
(* what transaction.go's finalizer and constructor must achieve together.   *)
FieldsBelongToRequest ==
  \A o \in Obj, f \in Field \ {"AuxData", "routeMatch"} : OwnOnly(o, f)

(* AuxData "can be used to associate arbitrary data with a transaction"     *)
(* (transaction.go:30): what a handler reads there was set for its request. *)
AuxDataIsOfTransaction == \A o \in Obj : OwnOnly(o, "AuxData")
=============================================================================
