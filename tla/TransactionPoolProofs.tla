----------------------- MODULE TransactionPoolProofs -----------------------
(***************************************************************************)
(* For every set of objects and of requests: the state is well typed, and  *)
(* a recycled Transaction shows its handler nothing of another request in  *)
(* the fields that the constructor assigns or the finalizer clears.        *)
(***************************************************************************)
EXTENDS TransactionPool, TLAPS

(* An object that is pooled or was never used holds nothing in those fields. *)
FreshHoldsNothing ==
  \A o \in Obj, f \in FilledByHandler \ {"AuxData", "routeMatch"} :
    where[o] \in {"free", "pooled"} => field[o][f] = {}

(* What a field that is replaced as a whole may hold. *)
AtMostOne(refs) == \A q, r \in refs : q = r

PoolInv == TypeOK /\ FieldsBelongToRequest /\ FreshHoldsNothing

-----------------------------------------------------------------------------
(* Every step keeps the two functions within their types.                  *)
LEMMA TypeStep == TypeOK /\ [Next]_vars => TypeOK'
<1> SUFFICES ASSUME TypeOK, [Next]_vars PROVE TypeOK'
    OBVIOUS
<1> USE DEF TypeOK
<1>1. CASE UNCHANGED vars
      BY <1>1 DEF vars
<1>2. ASSUME NEW o \in Obj, NEW r \in Req, NewTransaction(o, r) PROVE TypeOK'
      BY <1>2 DEF NewTransaction, Where
<1>3. ASSUME NEW o \in Obj, Handler(o) PROVE TypeOK'
  <2>1. Current(o) \in SUBSET Req /\ AtMostOne(Current(o))
        BY DEF Current, Field, AssignedByNew, AtMostOne
  <2>2. ASSUME NEW f \in Field, NEW refs \in SUBSET Req, f # "AuxData" => AtMostOne(refs),
               Store(o, f, refs)
        PROVE  TypeOK'
    <3>1. \A p \in Obj, g \in Field :
            field'[p][g] = IF p = o /\ g = f THEN refs ELSE field[p][g]
          BY <2>2 DEF Store
    <3>2. \A p \in Obj, g \in Field \ {"AuxData"} : \A q, r \in field'[p][g] : q = r
          BY <2>2, <3>1 DEF AtMostOne
    <3>3. where' \in [Obj -> Where] /\ field' \in [Obj -> [Field -> SUBSET Req]]
          BY <2>2 DEF Store
    <3> QED
        BY <3>2, <3>3
  <2>3. field[o]["AuxData"] \in SUBSET Req
        BY DEF Field, FilledByHandler
  <2>4. FilledByHandler \subseteq Field
        BY DEF Field
  <2>5. CASE Session(o)
        BY <2>1, <2>2, <2>4, <2>5 DEF Session, FillOnce, FilledByHandler
  <2>6. CASE Query(o)
        BY <2>1, <2>2, <2>4, <2>6 DEF Query, FillOnce, FilledByHandler
  <2>7. CASE WriteHeader(o)
        BY <2>1, <2>2, <2>4, <2>7 DEF WriteHeader, FillOnce, FilledByHandler
  <2>8. CASE SetAuxVar(o)
    <3>1. field[o]["AuxData"] \cup Current(o) \in SUBSET Req
          BY <2>1, <2>3
    <3> QED
        BY <2>2, <2>4, <2>8, <3>1 DEF SetAuxVar, FilledByHandler
  <2>9. CASE Match(o)
        BY <2>1, <2>2, <2>4, <2>9 DEF Match, FilledByHandler
  <2> QED
      BY <1>3, <2>5, <2>6, <2>7, <2>8, <2>9 DEF Handler
<1>4. ASSUME NEW o \in Obj, Return(o) \/ Release(o) PROVE TypeOK'
      BY <1>4 DEF Return, Release, Where
<1>5. ASSUME NEW o \in Obj, gcTransaction(o) PROVE TypeOK'
  <2>1. \A p \in Obj, f \in Field :
          field'[p][f] = IF p = o /\ f \in ClearedFields THEN {} ELSE field[p][f]
        BY <1>5 DEF gcTransaction
  <2>2. [f \in Field |-> IF f \in ClearedFields THEN {} ELSE field[o][f]]
          \in [Field -> SUBSET Req]
        OBVIOUS
  <2>3. where' \in [Obj -> Where] /\ field' \in [Obj -> [Field -> SUBSET Req]]
        BY <1>5, <2>2 DEF gcTransaction, Where
  <2>4. \A p \in Obj, f \in Field \ {"AuxData"} : \A q, r \in field'[p][f] : q = r
        BY <2>1
  <2> QED
      BY <2>3, <2>4
<1>6. ASSUME NEW o \in Obj, PoolDrop(o) PROVE TypeOK'
  <2>1. Zeroed \in [Field -> SUBSET Req]
        BY DEF Zeroed
  <2>2. where' \in [Obj -> Where] /\ field' \in [Obj -> [Field -> SUBSET Req]]
        BY <1>6, <2>1 DEF PoolDrop, Where
  <2>3. \A p \in Obj, f \in Field : field'[p][f] = IF p = o THEN {} ELSE field[p][f]
        BY <1>6 DEF PoolDrop, Zeroed
  <2>4. \A p \in Obj, f \in Field \ {"AuxData"} : \A q, r \in field'[p][f] : q = r
        BY <2>3
  <2> QED
      BY <2>2, <2>4
<1> QED
    BY <1>1, <1>2, <1>3, <1>4, <1>5, <1>6 DEF Next, Collector

(* For every set of objects and requests the two functions keep their types *)
(* through allocation, use, finalization and reuse of Transaction objects.  *)
THEOREM PoolTypeOK == Spec => []TypeOK
<1>1. Init => TypeOK
      BY DEF Init, TypeOK, Zeroed, Where
<1> QED
    BY <1>1, TypeStep, PTL DEF Spec

-----------------------------------------------------------------------------
(* Handing out, using, finalizing and dropping objects keeps the fields of  *)
(* unreachable objects empty and those of reachable ones their request's.   *)
LEMMA OwnershipStep == PoolInv /\ [Next]_vars => PoolInv'
<1> SUFFICES ASSUME PoolInv, [Next]_vars PROVE PoolInv'
    OBVIOUS
<1>0. TypeOK'
      BY TypeStep DEF PoolInv
<1> USE DEF PoolInv, FieldsBelongToRequest, FreshHoldsNothing, OwnOnly, Reachable,
            Current
<1>1. CASE UNCHANGED vars
      BY <1>0, <1>1 DEF vars
<1>2. ASSUME NEW o \in Obj, NEW r \in Req, NewTransaction(o, r) PROVE PoolInv'
      BY <1>0, <1>2 DEF NewTransaction, TypeOK, Field, AssignedByNew, FilledByHandler
<1>3. ASSUME NEW o \in Obj, Handler(o) PROVE PoolInv'
      BY <1>0, <1>3 DEF Handler, Session, Query, WriteHeader, SetAuxVar, Match, FillOnce, Store,
         TypeOK, Field, AssignedByNew, FilledByHandler
<1>4. ASSUME NEW o \in Obj, Return(o) \/ Release(o) PROVE PoolInv'
      BY <1>0, <1>4 DEF Return, Release, TypeOK
<1>5. ASSUME NEW o \in Obj, gcTransaction(o) PROVE PoolInv'
      BY <1>0, <1>5 DEF gcTransaction, ClearedFields, TypeOK, Field, AssignedByNew, FilledByHandler
<1>6. ASSUME NEW o \in Obj, PoolDrop(o) PROVE PoolInv'
      BY <1>0, <1>6 DEF PoolDrop, Zeroed, TypeOK, Field, AssignedByNew, FilledByHandler
<1> QED
    BY <1>1, <1>2, <1>3, <1>4, <1>5, <1>6 DEF Next, Collector

LEMMA OwnershipInvariant == Spec => []PoolInv
<1>1. Init => PoolInv
      BY DEF Init, PoolInv, TypeOK, Zeroed, Where, FieldsBelongToRequest, FreshHoldsNothing,
         OwnOnly, Reachable, Field, FilledByHandler, AssignedByNew
<1> QED
    BY <1>1, OwnershipStep, PTL DEF Spec

(* A handler never finds the session, query, header state, request, URL or  *)
(* response writer of another request in its Transaction (gcTransaction and *)
(* NewTransaction, over any schedule of the collector and the pool).        *)
THEOREM RecycledTransactionIsClean == Spec => []FieldsBelongToRequest
BY OwnershipInvariant, PTL DEF PoolInv
=============================================================================
