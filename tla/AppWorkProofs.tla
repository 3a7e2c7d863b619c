---------------------------- MODULE AppWorkProofs ----------------------------
(***************************************************************************)
(* What the steps of units of work, migrations and object moves preserve,  *)
(* whatever process they run in.  AppProcessProofs puts the lemmas         *)
(* together.                                                               *)
(***************************************************************************)
EXTENDS UnitOfWork, Migrator, ObjectMove, TLAPS

-----------------------------------------------------------------------------
(* Moves *)

\* Where the content of a Move that is alone on its keys may be, at each stage.
ContentAt(j) ==
    LET s == objects[mv[j].src]
        d == objects[mv[j].dst]
    IN  /\ mv[j].pc = "copy" => s = orig[j] /\ d = before[j]
        /\ mv[j].pc \in {"head", "get", "put", "delete"} =>
               s = orig[j] /\ orig[j] # NoObject /\ mv[j].src # mv[j].dst
        /\ mv[j].pc \in {"head", "get", "put"} => d = orig[j] \/ d = before[j]
        /\ mv[j].pc = "put" => mv[j].body = orig[j]
        /\ mv[j].pc = "delete" => d = orig[j] \/ Shadowed(j)
        /\ mv[j].pc = "ok" => s = NoObject /\ orig[j] # NoObject /\ (d = orig[j] \/ Shadowed(j))
        /\ mv[j].pc = "error" => s = orig[j] \/ d = orig[j] \/ Shadowed(j)

MoveOK(j) ==
    /\ mv[j].pc \in {"idle", "deleteOnly"} => ~IsMove(j)
    /\ mv[j].pc # "idle" => mv[j].src \in Keys
    /\ IsMove(j) /\ alone[j] => ContentAt(j)

\* The inductive strengthening of MoveKeepsContent.
MoveInv == \A j \in Movers : MoveOK(j)

\* The steps that may change the state of the object store and its callers.
MoveAction ==
    \/ \E j \in Movers : MoveStep(j)
    \/ \E j \in Movers, src, dst \in Keys : CallMove(j, src, dst)
    \/ \E j \in Movers, k \in Keys : CallDelete(j, k)
    \/ \E k \in Keys, c \in Uploads : Upload(k, c)

\* At first no goroutine moves anything.
LEMMA MoveInitial == MoveInit => MoveTypeOK /\ MoveInv
  BY MoveAssumption DEF MoveInit, MoveTypeOK, MoveInv, MoveOK, MoveStates, MoveStages, IsMove, Contents

\* A request of j to the store leaves the two keys of any other Move that is
\* still alone on them as they were.
LEMMA StoreEffect ==
  ASSUME MoveTypeOK, NEW j \in Movers, NEW k \in Keys \union {NoObject},
         NEW c \in Contents \union {NoObject}, Store(j, k, c)
  PROVE  /\ objects' \in [Keys -> Contents \union {NoObject}]
         /\ alone' \in [Movers -> BOOLEAN]
         /\ alone'[j] = alone[j]
         /\ \A i \in Movers \ {j} :
                alone'[i] => /\ alone[i]
                             /\ k \notin {mv[i].src, mv[i].dst}
         /\ \A l \in Keys : objects'[l] = IF l = k THEN c ELSE objects[l]
  BY DEF Store, Touch, MoveTypeOK

\* A Move whose record and keys a step leaves alone stays as it should be.
LEMMA MoveOKOther ==
  ASSUME MoveTypeOK, NEW i \in Movers, MoveOK(i), mv'[i] = mv[i], orig'[i] = orig[i], before'[i] = before[i],
         alone'[i] => /\ alone[i]
                      /\ \A l \in Keys : l \in {mv[i].src, mv[i].dst} => objects'[l] = objects[l]
  PROVE  MoveOK(i)'
  <1>1. mv[i].dst \in Keys \union {NoObject} /\ mv[i].src \in Keys \union {NoObject}
    BY DEF MoveTypeOK, MoveStates
  <1>2. IsMove(i) => mv[i].pc # "idle" /\ mv[i].src \in Keys /\ mv[i].dst \in Keys
    BY <1>1 DEF MoveOK, IsMove
  <1>3. SUFFICES ASSUME IsMove(i), alone'[i] PROVE ContentAt(i)'
    BY DEF MoveOK, IsMove
  <1>4. ContentAt(i) /\ objects'[mv[i].src] = objects[mv[i].src] /\ objects'[mv[i].dst] = objects[mv[i].dst]
    BY <1>2, <1>3 DEF MoveOK
  <1> QED
    BY <1>4 DEF ContentAt, Shadowed

\* What a step of j's own Move may do to the rest: its record is the only one
\* that changes, and j's own Move has to be looked at by itself.
LEMMA MoveStepKeeps ==
  ASSUME MoveTypeOK, MoveInv, NEW j \in Movers, MoveStep(j)
  PROVE  MoveTypeOK' /\ MoveInv'
  <1> DEFINE Quiet == objects' = objects /\ alone' = alone
  <1>1. /\ mv[j].pc \in MoveStages
        /\ mv[j].src \in Keys \union {NoObject} /\ mv[j].dst \in Keys \union {NoObject}
        /\ mv[j].body \in Contents \union {NoObject}
        /\ IsMove(j) => mv[j].dst \in Keys
    BY DEF MoveTypeOK, MoveStates, IsMove
  <1>2. mv[j].src \in Keys => objects[mv[j].src] \in Contents \union {NoObject}
    BY DEF MoveTypeOK
  <1>3. MoveOK(j)
    BY DEF MoveInv
  <1>4. mv[j].pc # "idle" => mv[j].src \in Keys
    BY <1>3 DEF MoveOK
  <1>5. ASSUME uploads' = uploads, orig' = orig, before' = before, mv' \in [Movers -> MoveStates],
               \A i \in Movers \ {j} : mv'[i] = mv[i],
               \/ Quiet
               \/ Store(j, mv[j].dst, objects[mv[j].src]) /\ mv[j].src \in Keys
               \/ Store(j, mv[j].dst, mv[j].body)
               \/ Store(j, mv[j].src, NoObject),
               MoveOK(j)'
        PROVE  MoveTypeOK' /\ MoveInv'
    <2>1. /\ objects' \in [Keys -> Contents \union {NoObject}]
          /\ alone' \in [Movers -> BOOLEAN]
          /\ \A i \in Movers \ {j} :
                 alone'[i] => /\ alone[i]
                              /\ \A l \in Keys : l \in {mv[i].src, mv[i].dst} => objects'[l] = objects[l]
      <3>1. CASE Quiet
        BY <3>1 DEF MoveTypeOK
      <3>2. CASE Store(j, mv[j].dst, objects[mv[j].src]) /\ mv[j].src \in Keys
        BY <3>2, <1>1, <1>2, StoreEffect
      <3>3. CASE Store(j, mv[j].dst, mv[j].body)
        BY <3>3, <1>1, StoreEffect
      <3>4. CASE Store(j, mv[j].src, NoObject)
        BY <3>4, <1>1, StoreEffect
      <3> QED
        BY <1>5, <3>1, <3>2, <3>3, <3>4
    <2>2. MoveTypeOK'
      BY <1>5, <2>1 DEF MoveTypeOK
    <2>3. \A i \in Movers \ {j} : MoveOK(i)'
      <3> SUFFICES ASSUME NEW i \in Movers \ {j} PROVE MoveOK(i)'
        OBVIOUS
      <3>1. MoveOK(i) /\ mv'[i] = mv[i] /\ orig'[i] = orig[i] /\ before'[i] = before[i]
        BY <1>5 DEF MoveInv
      <3> QED
        BY <2>1, <3>1, MoveOKOther
    <2> QED
      BY <1>5, <2>2, <2>3 DEF MoveInv
  <1>6. CASE CopyObject(j)
    <2>1. /\ mv' \in [Movers -> MoveStates]
          /\ \A i \in Movers \ {j} : mv'[i] = mv[i]
          /\ mv'[j].pc = "head" /\ mv'[j].src = mv[j].src /\ mv'[j].dst = mv[j].dst /\ mv'[j].body = mv[j].body
      BY <1>6, <1>1, <1>2, <1>4 DEF CopyObject, MoveTo, MoveStates, MoveStages, MoveTypeOK
    <2>2. /\ mv[j].pc # "idle" /\ mv[j].src \in Keys
          /\ orig' = orig /\ before' = before
          /\ (IsMove(j) /\ alone'[j] => ContentAt(j)')
      <3>1. mv[j].pc # "idle" /\ mv[j].src \in Keys /\ orig' = orig /\ before' = before
        BY <1>6, <1>4 DEF CopyObject
      <3>2. SUFFICES ASSUME IsMove(j), alone'[j] PROVE ContentAt(j)'
        BY <3>1
      <3>3. alone[j] /\ \A l \in Keys : objects'[l] = IF l = mv[j].dst THEN objects[mv[j].src] ELSE objects[l]
        BY <3>1, <3>2, <1>6, <1>1, <1>2, StoreEffect DEF CopyObject
      <3> QED
        BY <3>1, <3>2, <3>3, <2>1, <1>1, <1>3, <1>6 DEF CopyObject, IsMove, MoveOK, ContentAt, Shadowed, Copyable
    <2>3. mv'[j].pc \notin {"idle", "deleteOnly"} /\ MoveOK(j)'
      BY <2>1, <2>2 DEF MoveOK, IsMove
    <2> QED
      BY <1>5, <2>1, <2>2, <2>3, <1>6 DEF CopyObject, storeVars, NoStore, Copyable
  <1>7. CASE CopyInvisible(j)
    <2>1. /\ mv' \in [Movers -> MoveStates]
          /\ \A i \in Movers \ {j} : mv'[i] = mv[i]
          /\ mv'[j].pc = "head" /\ mv'[j].src = mv[j].src /\ mv'[j].dst = mv[j].dst /\ mv'[j].body = mv[j].body
      BY <1>7, <1>1, <1>2, <1>4 DEF CopyInvisible, MoveTo, MoveStates, MoveStages, MoveTypeOK
    <2>2. /\ mv[j].pc # "idle" /\ mv[j].src \in Keys
          /\ orig' = orig /\ before' = before
          /\ (IsMove(j) /\ alone'[j] => ContentAt(j)')
      BY <1>7, <1>1, <1>3, <1>4, <2>1 DEF CopyInvisible, NoStore, storeVars, Copyable, IsMove, MoveOK, ContentAt, Shadowed, MoveTypeOK
    <2>3. mv'[j].pc \notin {"idle", "deleteOnly"} /\ MoveOK(j)'
      BY <2>1, <2>2 DEF MoveOK, IsMove
    <2> QED
      BY <1>5, <2>1, <2>2, <2>3, <1>7 DEF CopyInvisible, storeVars, NoStore, Copyable
  <1>8. CASE CopyFails(j)
    <2>1. /\ mv' \in [Movers -> MoveStates]
          /\ \A i \in Movers \ {j} : mv'[i] = mv[i]
          /\ mv'[j].pc = "error" /\ mv'[j].src = mv[j].src /\ mv'[j].dst = mv[j].dst /\ mv'[j].body = mv[j].body
      BY <1>8, <1>1, <1>2, <1>4 DEF CopyFails, MoveTo, MoveStates, MoveStages, MoveTypeOK
    <2>2. /\ mv[j].pc # "idle" /\ mv[j].src \in Keys
          /\ orig' = orig /\ before' = before
          /\ (IsMove(j) /\ alone'[j] => ContentAt(j)')
      <3>1. mv[j].pc # "idle" /\ mv[j].src \in Keys /\ orig' = orig /\ before' = before
        BY <1>8, <1>4 DEF CopyFails
      <3>2. SUFFICES ASSUME IsMove(j), alone'[j] PROVE ContentAt(j)'
        BY <3>1
      <3>3. CASE NoStore
        BY <3>1, <3>2, <3>3, <2>1, <1>1, <1>3, <1>8 DEF CopyFails, NoStore, MoveOK, ContentAt, Shadowed
      <3>4. CASE Store(j, mv[j].dst, objects[mv[j].src])
        <4>1. alone[j] /\ \A l \in Keys : objects'[l] = IF l = mv[j].dst THEN objects[mv[j].src] ELSE objects[l]
          BY <3>1, <3>2, <3>4, <1>1, <1>2, StoreEffect
        <4> QED
          BY <4>1, <3>1, <3>2, <2>1, <1>1, <1>3, <1>8 DEF CopyFails, IsMove, MoveOK, ContentAt, Shadowed, Copyable
      <3> QED
        BY <3>3, <3>4, <1>8 DEF CopyFails
    <2>3. mv'[j].pc \notin {"idle", "deleteOnly"} /\ MoveOK(j)'
      BY <2>1, <2>2 DEF MoveOK, IsMove
    <2> QED
      BY <1>5, <2>1, <2>2, <2>3, <1>8 DEF CopyFails, storeVars, NoStore, Copyable
  <1>9. CASE HeadObject(j)
    <2>1. /\ mv' \in [Movers -> MoveStates]
          /\ \A i \in Movers \ {j} : mv'[i] = mv[i]
          /\ mv'[j].pc = "delete" /\ mv'[j].src = mv[j].src /\ mv'[j].dst = mv[j].dst /\ mv'[j].body = mv[j].body
      BY <1>9, <1>1, <1>2, <1>4 DEF HeadObject, MoveTo, MoveStates, MoveStages, MoveTypeOK
    <2>2. /\ mv[j].pc # "idle" /\ mv[j].src \in Keys
          /\ orig' = orig /\ before' = before
          /\ (IsMove(j) /\ alone'[j] => ContentAt(j)')
      BY <1>9, <1>1, <1>3, <1>4, <2>1 DEF HeadObject, storeVars, Copyable, IsMove, MoveOK, ContentAt, Shadowed, MoveTypeOK
    <2>3. mv'[j].pc \notin {"idle", "deleteOnly"} /\ MoveOK(j)'
      BY <2>1, <2>2 DEF MoveOK, IsMove
    <2> QED
      BY <1>5, <2>1, <2>2, <2>3, <1>9 DEF HeadObject, storeVars, NoStore, Copyable
  <1>10. CASE HeadFails(j)
    <2>1. /\ mv' \in [Movers -> MoveStates]
          /\ \A i \in Movers \ {j} : mv'[i] = mv[i]
          /\ mv'[j].pc = "get" /\ mv'[j].src = mv[j].src /\ mv'[j].dst = mv[j].dst /\ mv'[j].body = mv[j].body
      BY <1>10, <1>1, <1>2, <1>4 DEF HeadFails, MoveTo, MoveStates, MoveStages, MoveTypeOK
    <2>2. /\ mv[j].pc # "idle" /\ mv[j].src \in Keys
          /\ orig' = orig /\ before' = before
          /\ (IsMove(j) /\ alone'[j] => ContentAt(j)')
      BY <1>10, <1>1, <1>3, <1>4, <2>1 DEF HeadFails, storeVars, Copyable, IsMove, MoveOK, ContentAt, Shadowed, MoveTypeOK
    <2>3. mv'[j].pc \notin {"idle", "deleteOnly"} /\ MoveOK(j)'
      BY <2>1, <2>2 DEF MoveOK, IsMove
    <2> QED
      BY <1>5, <2>1, <2>2, <2>3, <1>10 DEF HeadFails, storeVars, NoStore, Copyable
  <1>11. CASE GetObject(j)
    <2>1. /\ mv' \in [Movers -> MoveStates]
          /\ \A i \in Movers \ {j} : mv'[i] = mv[i]
          /\ mv'[j].pc = "put" /\ mv'[j].src = mv[j].src /\ mv'[j].dst = mv[j].dst /\ mv'[j].body = objects[mv[j].src]
      BY <1>11, <1>1, <1>2, <1>4 DEF GetObject, MoveTo, MoveStates, MoveStages, MoveTypeOK
    <2>2. /\ mv[j].pc # "idle" /\ mv[j].src \in Keys
          /\ orig' = orig /\ before' = before
          /\ (IsMove(j) /\ alone'[j] => ContentAt(j)')
      BY <1>11, <1>1, <1>3, <1>4, <2>1 DEF GetObject, storeVars, Copyable, IsMove, MoveOK, ContentAt, Shadowed, MoveTypeOK
    <2>3. mv'[j].pc \notin {"idle", "deleteOnly"} /\ MoveOK(j)'
      BY <2>1, <2>2 DEF MoveOK, IsMove
    <2> QED
      BY <1>5, <2>1, <2>2, <2>3, <1>11 DEF GetObject, storeVars, NoStore, Copyable
  <1>12. CASE GetFails(j)
    <2>1. /\ mv' \in [Movers -> MoveStates]
          /\ \A i \in Movers \ {j} : mv'[i] = mv[i]
          /\ mv'[j].pc = "error" /\ mv'[j].src = mv[j].src /\ mv'[j].dst = mv[j].dst /\ mv'[j].body = mv[j].body
      BY <1>12, <1>1, <1>2, <1>4 DEF GetFails, MoveTo, MoveStates, MoveStages, MoveTypeOK
    <2>2. /\ mv[j].pc # "idle" /\ mv[j].src \in Keys
          /\ orig' = orig /\ before' = before
          /\ (IsMove(j) /\ alone'[j] => ContentAt(j)')
      BY <1>12, <1>1, <1>3, <1>4, <2>1 DEF GetFails, storeVars, Copyable, IsMove, MoveOK, ContentAt, Shadowed, MoveTypeOK
    <2>3. mv'[j].pc \notin {"idle", "deleteOnly"} /\ MoveOK(j)'
      BY <2>1, <2>2 DEF MoveOK, IsMove
    <2> QED
      BY <1>5, <2>1, <2>2, <2>3, <1>12 DEF GetFails, storeVars, NoStore, Copyable
  <1>13. CASE PutObject(j)
    <2>1. /\ mv' \in [Movers -> MoveStates]
          /\ \A i \in Movers \ {j} : mv'[i] = mv[i]
          /\ mv'[j].pc = "delete" /\ mv'[j].src = mv[j].src /\ mv'[j].dst = mv[j].dst /\ mv'[j].body = mv[j].body
      BY <1>13, <1>1, <1>2, <1>4 DEF PutObject, MoveTo, MoveStates, MoveStages, MoveTypeOK
    <2>2. /\ mv[j].pc # "idle" /\ mv[j].src \in Keys
          /\ orig' = orig /\ before' = before
          /\ (IsMove(j) /\ alone'[j] => ContentAt(j)')
      <3>1. mv[j].pc # "idle" /\ mv[j].src \in Keys /\ orig' = orig /\ before' = before
        BY <1>13, <1>4 DEF PutObject
      <3>2. SUFFICES ASSUME IsMove(j), alone'[j] PROVE ContentAt(j)'
        BY <3>1
      <3>3. alone[j] /\ \A l \in Keys : objects'[l] = IF l = mv[j].dst THEN mv[j].body ELSE objects[l]
        BY <3>1, <3>2, <1>13, <1>1, <1>2, StoreEffect DEF PutObject
      <3> QED
        BY <3>1, <3>2, <3>3, <2>1, <1>1, <1>3, <1>13 DEF PutObject, IsMove, MoveOK, ContentAt, Shadowed, Copyable
    <2>3. mv'[j].pc \notin {"idle", "deleteOnly"} /\ MoveOK(j)'
      BY <2>1, <2>2 DEF MoveOK, IsMove
    <2> QED
      BY <1>5, <2>1, <2>2, <2>3, <1>13 DEF PutObject, storeVars, NoStore, Copyable
  <1>14. CASE PutFails(j)
    <2>1. /\ mv' \in [Movers -> MoveStates]
          /\ \A i \in Movers \ {j} : mv'[i] = mv[i]
          /\ mv'[j].pc = "error" /\ mv'[j].src = mv[j].src /\ mv'[j].dst = mv[j].dst /\ mv'[j].body = mv[j].body
      BY <1>14, <1>1, <1>2, <1>4 DEF PutFails, MoveTo, MoveStates, MoveStages, MoveTypeOK
    <2>2. /\ mv[j].pc # "idle" /\ mv[j].src \in Keys
          /\ orig' = orig /\ before' = before
          /\ (IsMove(j) /\ alone'[j] => ContentAt(j)')
      <3>1. mv[j].pc # "idle" /\ mv[j].src \in Keys /\ orig' = orig /\ before' = before
        BY <1>14, <1>4 DEF PutFails
      <3>2. SUFFICES ASSUME IsMove(j), alone'[j] PROVE ContentAt(j)'
        BY <3>1
      <3>3. CASE NoStore
        BY <3>1, <3>2, <3>3, <2>1, <1>1, <1>3, <1>14 DEF PutFails, NoStore, MoveOK, ContentAt, Shadowed
      <3>4. CASE Store(j, mv[j].dst, mv[j].body)
        <4>1. alone[j] /\ \A l \in Keys : objects'[l] = IF l = mv[j].dst THEN mv[j].body ELSE objects[l]
          BY <3>1, <3>2, <3>4, <1>1, <1>2, StoreEffect
        <4> QED
          BY <4>1, <3>1, <3>2, <2>1, <1>1, <1>3, <1>14 DEF PutFails, IsMove, MoveOK, ContentAt, Shadowed, Copyable
      <3> QED
        BY <3>3, <3>4, <1>14 DEF PutFails
    <2>3. mv'[j].pc \notin {"idle", "deleteOnly"} /\ MoveOK(j)'
      BY <2>1, <2>2 DEF MoveOK, IsMove
    <2> QED
      BY <1>5, <2>1, <2>2, <2>3, <1>14 DEF PutFails, storeVars, NoStore, Copyable
  <1>15. CASE DeleteObject(j)
    <2>1. /\ mv' \in [Movers -> MoveStates]
          /\ \A i \in Movers \ {j} : mv'[i] = mv[i]
          /\ mv'[j].pc = "ok" /\ mv'[j].src = mv[j].src /\ mv'[j].dst = mv[j].dst /\ mv'[j].body = mv[j].body
      BY <1>15, <1>1, <1>2, <1>4 DEF DeleteObject, MoveTo, MoveStates, MoveStages, MoveTypeOK
    <2>2. /\ mv[j].pc # "idle" /\ mv[j].src \in Keys
          /\ orig' = orig /\ before' = before
          /\ (IsMove(j) /\ alone'[j] => ContentAt(j)')
      <3>1. mv[j].pc # "idle" /\ mv[j].src \in Keys /\ orig' = orig /\ before' = before
        BY <1>15, <1>4 DEF DeleteObject
      <3>2. SUFFICES ASSUME IsMove(j), alone'[j] PROVE ContentAt(j)'
        BY <3>1
      <3>3. alone[j] /\ \A l \in Keys : objects'[l] = IF l = mv[j].src THEN NoObject ELSE objects[l]
        BY <3>1, <3>2, <1>15, <1>1, <1>2, StoreEffect DEF DeleteObject
      <3> QED
        BY <3>1, <3>2, <3>3, <2>1, <1>1, <1>3, <1>15 DEF DeleteObject, IsMove, MoveOK, ContentAt, Shadowed, Copyable
    <2>3. mv'[j].pc \notin {"idle", "deleteOnly"} /\ MoveOK(j)'
      BY <2>1, <2>2 DEF MoveOK, IsMove
    <2> QED
      BY <1>5, <2>1, <2>2, <2>3, <1>15 DEF DeleteObject, storeVars, NoStore, Copyable
  <1>16. CASE DeleteFails(j)
    <2>1. /\ mv' \in [Movers -> MoveStates]
          /\ \A i \in Movers \ {j} : mv'[i] = mv[i]
          /\ mv'[j].pc = "error" /\ mv'[j].src = mv[j].src /\ mv'[j].dst = mv[j].dst /\ mv'[j].body = mv[j].body
      BY <1>16, <1>1, <1>2, <1>4 DEF DeleteFails, MoveTo, MoveStates, MoveStages, MoveTypeOK
    <2>2. /\ mv[j].pc # "idle" /\ mv[j].src \in Keys
          /\ orig' = orig /\ before' = before
          /\ (IsMove(j) /\ alone'[j] => ContentAt(j)')
      <3>1. mv[j].pc # "idle" /\ mv[j].src \in Keys /\ orig' = orig /\ before' = before
        BY <1>16, <1>4 DEF DeleteFails
      <3>2. SUFFICES ASSUME IsMove(j), alone'[j] PROVE ContentAt(j)'
        BY <3>1
      <3>3. CASE NoStore
        BY <3>1, <3>2, <3>3, <2>1, <1>1, <1>3, <1>16 DEF DeleteFails, NoStore, MoveOK, ContentAt, Shadowed
      <3>4. CASE Store(j, mv[j].src, NoObject)
        <4>1. alone[j] /\ \A l \in Keys : objects'[l] = IF l = mv[j].src THEN NoObject ELSE objects[l]
          BY <3>1, <3>2, <3>4, <1>1, <1>2, StoreEffect
        <4> QED
          BY <4>1, <3>1, <3>2, <2>1, <1>1, <1>3, <1>16 DEF DeleteFails, IsMove, MoveOK, ContentAt, Shadowed, Copyable
      <3> QED
        BY <3>3, <3>4, <1>16 DEF DeleteFails
    <2>3. mv'[j].pc \notin {"idle", "deleteOnly"} /\ MoveOK(j)'
      BY <2>1, <2>2 DEF MoveOK, IsMove
    <2> QED
      BY <1>5, <2>1, <2>2, <2>3, <1>16 DEF DeleteFails, storeVars, NoStore, Copyable
  <1> QED
    BY <1>6, <1>7, <1>8, <1>9, <1>10, <1>11, <1>12, <1>13, <1>14, <1>15, <1>16 DEF MoveStep, MoveProgress, MoveFault

\* A call of Move starts with the content at the source; a call of Delete is no Move.
LEMMA MoveCallKeeps ==
  ASSUME MoveTypeOK, MoveInv, NEW j \in Movers, NEW src \in Keys, NEW dst \in Keys,
         CallMove(j, src, dst) \/ CallDelete(j, src)
  PROVE  MoveTypeOK' /\ MoveInv'
  <1>1. /\ MoveTypeOK'
        /\ objects' = objects /\ alone' = alone
        /\ \A i \in Movers \ {j} : mv'[i] = mv[i] /\ orig'[i] = orig[i] /\ before'[i] = before[i]
    <2>1. objects' = objects /\ uploads' = uploads /\ alone' = alone
      BY DEF CallMove, CallDelete, storeVars
    <2>2. mv' \in [Movers -> MoveStates] /\ \A i \in Movers \ {j} : mv'[i] = mv[i]
      BY DEF CallMove, CallDelete, MoveTypeOK, MoveStates, MoveStages
    <2>3. /\ orig' \in [Movers -> Contents \union {NoObject}]
          /\ before' \in [Movers -> Contents \union {NoObject}]
          /\ \A i \in Movers \ {j} : orig'[i] = orig[i] /\ before'[i] = before[i]
      <3>1. objects[src] \in Contents \union {NoObject} /\ objects[dst] \in Contents \union {NoObject}
        BY DEF MoveTypeOK
      <3> QED
        BY <3>1 DEF CallMove, CallDelete, MoveTypeOK
    <2> QED
      BY <2>1, <2>2, <2>3 DEF MoveTypeOK
  <1>2. MoveOK(j)'
    <2>1. CASE CallMove(j, src, dst)
      BY <2>1, <1>1 DEF CallMove, MoveOK, ContentAt, Shadowed, IsMove, MoveTypeOK, MoveStates
    <2>2. CASE CallDelete(j, src)
      BY <2>2, <1>1 DEF CallDelete, MoveInv, MoveOK, IsMove, MoveTypeOK, MoveStates
    <2> QED
      BY <2>1, <2>2
  <1>3. \A i \in Movers \ {j} : MoveOK(i)'
    <2> SUFFICES ASSUME NEW i \in Movers \ {j} PROVE MoveOK(i)'
      OBVIOUS
    <2>1. MoveOK(i)
      BY DEF MoveInv
    <2> QED
      BY <1>1, <2>1, MoveOKOther
  <1> QED
    BY <1>1, <1>2, <1>3 DEF MoveInv

\* An upload takes its key away from every Move.
LEMMA UploadKeeps ==
  ASSUME MoveTypeOK, MoveInv, NEW k \in Keys, NEW c \in Uploads, Upload(k, c)
  PROVE  MoveTypeOK' /\ MoveInv'
  <1>1. /\ MoveTypeOK'
        /\ mv' = mv /\ orig' = orig /\ before' = before
        /\ \A l \in Keys \ {k} : objects'[l] = objects[l]
        /\ \A i \in Movers : alone'[i] => alone[i] /\ k \notin {mv[i].src, mv[i].dst}
    BY DEF Upload, Touch, MoveTypeOK, Contents
  <1>2. ASSUME NEW i \in Movers PROVE MoveOK(i)'
    <2>1. MoveOK(i)
      BY DEF MoveInv
    <2> QED
      BY <1>1, <2>1, MoveOKOther
  <1> QED
    BY <1>1, <1>2 DEF MoveInv

\* Moves, deletions and uploads keep the types and the invariant of the store.
LEMMA MoveActionKeeps ==
  ASSUME MoveTypeOK, MoveInv, MoveAction \/ UNCHANGED moveVars
  PROVE  MoveTypeOK' /\ MoveInv'
  <1>1. CASE UNCHANGED moveVars
    <2>1. MoveTypeOK'
      BY <1>1 DEF moveVars, MoveTypeOK
    <2>2. ASSUME NEW i \in Movers PROVE MoveOK(i)'
      <3>1. MoveOK(i) /\ mv' = mv /\ orig' = orig /\ before' = before /\ objects' = objects /\ alone' = alone
        BY <1>1 DEF moveVars, MoveInv
      <3> QED
        BY <3>1, MoveOKOther
    <2> QED
      BY <2>1, <2>2 DEF MoveInv
  <1>2. CASE \E j \in Movers : MoveStep(j)
    BY <1>2, MoveStepKeeps
  <1>3. CASE \E j \in Movers, src, dst \in Keys : CallMove(j, src, dst)
    BY <1>3, MoveCallKeeps
  <1>4. CASE \E j \in Movers, k \in Keys : CallDelete(j, k)
    BY <1>4, MoveCallKeeps
  <1>5. CASE \E k \in Keys, c \in Uploads : Upload(k, c)
    BY <1>5, UploadKeeps
  <1> QED
    BY <1>1, <1>2, <1>3, <1>4, <1>5 DEF MoveAction

\* The invariant implies what the run checks.
LEMMA MoveInvImplies == MoveTypeOK /\ MoveInv => MoveKeepsContent
  <1> SUFFICES ASSUME MoveTypeOK, NEW j \in Movers, MoveOK(j), IsMove(j), alone[j]
               PROVE  /\ orig[j] \in {objects[mv[j].src], objects[mv[j].dst]} \/ Shadowed(j)
                      /\ mv[j].pc = "ok" => /\ orig[j] # NoObject
                                            /\ objects[mv[j].dst] = orig[j] \/ Shadowed(j)
                                            /\ objects[mv[j].src] = NoObject
    BY DEF MoveInv, MoveKeepsContent
  <1>1. mv[j].pc \in MoveStages
    BY DEF MoveTypeOK, MoveStates
  <1> QED
    BY <1>1 DEF MoveOK, ContentAt, Shadowed, MoveStages

-----------------------------------------------------------------------------
(* Units of work *)

\* The types of the state of UnitOfWork without the counter of the pool.
UowTypes ==
    /\ closed \in BOOLEAN
    /\ routes \in [Events -> Seq(Handlers)]
    /\ pending \in SUBSET Late
    /\ depth \in [Jobs -> 0..MaxDepth]
    /\ frame \in [Jobs -> [Levels -> Frames]]
    /\ units \in [Jobs -> Nat]
    /\ res \in [Jobs -> {"none", "running", "ok", "error"}]
    /\ db \in SUBSET Writes
    /\ owed \in SUBSET Writes
    /\ succeeded \in SUBSET Units
    /\ rolledback \in SUBSET Units

InSeq(s, h) == \E i \in DOMAIN s : s[i] = h

\* Subscriber h joins the transaction and is subscribed to one of the events.
StillRaised(events, h) == \E i \in DOMAIN events : h \in Subscribed(events[i])

\* A write that frame f owes: it is staged, or the use case or one of the
\* subscribers that f still has to call will stage it.
Due(f, w) ==
    /\ f.pc # "begin"
    /\ f.pc = "fn" => w[2] = Own \/ (Calls[w[2]] = None /\ StillRaised(Emits[f.use], w[2]))
    /\ f.pc = "publish" =>
           w \in f.staged \/ (Calls[w[2]] = None /\ (InSeq(f.calls, w[2]) \/ StillRaised(f.events, w[2])))

\* A unit of work that has not ended: nothing of it is decided or visible,
\* and whatever it owes is on its way.
UnitOpen(f) ==
    /\ f.unit \notin succeeded
    /\ f.unit \notin rolledback
    /\ \A w \in db : w[1] # f.unit
    /\ \A w \in f.staged : w[1] = f.unit
    /\ \A w \in owed : w[1] = f.unit => Due(f, w)

\* The calls of Do that job j is inside of: each is a unit of its own, and
\* all but the last wait for a subscriber that calls a use case.
Stack(j) ==
    /\ depth[j] > 0 => res[j] = "running"
    /\ depth[j] = 0 => res[j] # "running"
    /\ \A d \in 1..depth[j] : /\ frame[j][d].use \in UseCases
                              /\ frame[j][d].unit[1] = j
                              /\ frame[j][d].unit[2] <= units[j]
    /\ \A c, d \in 1..depth[j] : c # d => frame[j][c].unit # frame[j][d].unit
    /\ \A d \in 1..depth[j] : d < depth[j] => /\ frame[j][d].pc = "publish"
                                              /\ frame[j][d].calls # <<>>
                                              /\ Calls[Head(frame[j][d].calls)] # None

Known(x) == x[2] <= units[x[1]]

\* No history mentions a unit that has not begun.
History ==
    /\ \A w \in db \union owed : Known(w[1])
    /\ \A x \in succeeded \union rolledback : Known(x)

Whole ==
    /\ \A w \in owed : w[1] \in succeeded => w \in db
    /\ \A w \in db, v \in owed : w[1] = v[1] => v \in db
    /\ \A w \in db : w[1] \notin rolledback

\* The inductive strengthening of UnitAtomic.
UowInv ==
    /\ \A j \in Jobs : Stack(j)
    /\ \A j \in Jobs : \A d \in 1..depth[j] : UnitOpen(frame[j][d])
    /\ History
    /\ Whole

\* At first there is no unit of work.
LEMMA UowInitial ==
  ASSUME UowInit, closed \in BOOLEAN
  PROVE  UowTypes
  <1>1. \A j \in Jobs : NoFrame(j) \in Frames
    BY DEF NoFrame, NewFrame, Frames, Units
  <1> QED
    BY <1>1, UowAssumption DEF UowInit, UowTypes, Levels

\* ... and nothing that the invariant could be about.
LEMMA UowInitialInv == UowInit => UowInv
  BY UowAssumption DEF UowInit, UowInv, Stack, History, Whole

\* The invariant implies what the run checks.
LEMMA UowInvImplies == UowInv => UnitAtomic
  BY DEF UowInv, UnitOpen, Whole, UnitAtomic

\* The first element of a sequence and the rest are all of it.
LEMMA HeadTail ==
  ASSUME NEW S, NEW s \in Seq(S), s # <<>>
  PROVE  /\ Head(s) \in S
         /\ Tail(s) \in Seq(S)
         /\ \A h : InSeq(s, h) => h = Head(s) \/ InSeq(Tail(s), h)
  <1>1. Head(s) \in S /\ Tail(s) \in Seq(S)
    OBVIOUS
  <1>2. ASSUME NEW i \in DOMAIN s, i # 1
        PROVE  i - 1 \in DOMAIN Tail(s) /\ Tail(s)[i - 1] = s[i]
    BY <1>2
  <1>3. Head(s) = s[1]
    OBVIOUS
  <1> QED
    BY <1>1, <1>2, <1>3 DEF InSeq

\* The frame that a step replaces, and the ones that it leaves.
LEMMA SetFrame ==
  ASSUME frame \in [Jobs -> [Levels -> Frames]], NEW j \in Jobs, NEW l \in Levels, NEW g \in Frames,
         frame' = [frame EXCEPT ![j][l] = g]
  PROVE  /\ frame' \in [Jobs -> [Levels -> Frames]]
         /\ frame'[j][l] = g
         /\ \A d \in Levels : d # l => frame'[j][d] = frame[j][d]
         /\ \A i \in Jobs : i # j => frame'[i] = frame[i]
  OBVIOUS

\* The top frame of a job that is inside a call of Do.
LEMMA TopFrame ==
  ASSUME UowTypes, UowInv, NEW j \in Jobs, depth[j] > 0
  PROVE  /\ depth[j] \in Levels
         /\ depth[j] \in 1..depth[j]
         /\ Top(j) = frame[j][depth[j]]
         /\ Top(j) \in Frames
         /\ Top(j).use \in UseCases
         /\ UnitOpen(Top(j))
         /\ Top(j).unit[1] = j
  <1>1. depth[j] \in Levels /\ depth[j] \in 1..depth[j]
    BY UowAssumption DEF UowTypes, Levels
  <1> QED
    BY <1>1 DEF UowTypes, UowInv, Stack, Top

\* A step in which the innermost call of Do of j goes on as g.
LEMMA StayKeeps ==
  ASSUME UowTypes, UowInv, NEW j \in Jobs, depth[j] > 0,
         NEW g \in Frames, g.unit = Top(j).unit, g.use = Top(j).use, SetTop(j, g),
         UNCHANGED <<closed, routes, pending, depth, units, res, db, succeeded, rolledback>>,
         owed \subseteq owed', owed' \in SUBSET Writes,
         \A w \in owed' \ owed : w[1] = Top(j).unit,
         \A w \in g.staged : w[1] = Top(j).unit,
         \A w \in owed' : w[1] = Top(j).unit => Due(g, w)
  PROVE  UowTypes' /\ UowInv'
  <1> DEFINE D == depth[j]
  <1>1. /\ D \in Levels /\ D \in 1..D
        /\ Top(j) = frame[j][D] /\ Top(j) \in Frames /\ Top(j).use \in UseCases
        /\ UnitOpen(Top(j)) /\ Top(j).unit[1] = j
    BY TopFrame
  <1>2. /\ frame' \in [Jobs -> [Levels -> Frames]]
        /\ frame'[j][D] = g
        /\ \A d \in Levels : d # D => frame'[j][d] = frame[j][d]
        /\ \A i \in Jobs : i # j => frame'[i] = frame[i]
    <2>1. frame' = [frame EXCEPT ![j][D] = g] /\ frame \in [Jobs -> [Levels -> Frames]]
      BY DEF SetTop, UowTypes
    <2> HIDE DEF D
    <2> QED
      BY <2>1, <1>1, SetFrame
  <1>3. UowTypes'
    BY <1>2 DEF UowTypes
  <1>4. \A i \in Jobs : \A d \in 1..depth[i] : d \in Levels /\ frame[i][d] \in Frames
    BY UowAssumption DEF UowTypes, Levels
  <1>5. ASSUME NEW i \in Jobs PROVE Stack(i)'
    <2>1. Stack(i) /\ depth' = depth /\ units' = units /\ res' = res /\ depth[i] \in Nat
      BY UowAssumption DEF UowInv, UowTypes
    <2>2. CASE i # j
      BY <2>1, <2>2, <1>2 DEF Stack
    <2>3. CASE i = j
      <3>1. \A d \in 1..D : /\ frame'[j][d].unit = frame[j][d].unit
                            /\ frame'[j][d].use = frame[j][d].use
                            /\ d < D => frame'[j][d] = frame[j][d]
        BY <1>1, <1>2, <1>4, <2>1, <2>3
      <3> QED
        BY <2>1, <2>3, <3>1 DEF Stack
    <2> QED
      BY <2>2, <2>3
  <1>6. ASSUME NEW i \in Jobs, NEW d \in 1..depth[i], <<i, d>> # <<j, D>>
        PROVE  frame'[i][d] = frame[i][d] /\ frame[i][d].unit # Top(j).unit /\ UnitOpen(frame[i][d])
    <2>1. Stack(i) /\ UnitOpen(frame[i][d]) /\ d \in Levels
      BY <1>4 DEF UowInv
    <2>2. CASE i # j
      BY <2>1, <2>2, <1>1, <1>2 DEF Stack
    <2>3. CASE i = j
      BY <2>1, <2>3, <1>6, <1>1, <1>2 DEF Stack
    <2> QED
      BY <2>2, <2>3
  <1>7. ASSUME NEW i \in Jobs, NEW d \in 1..depth'[i] PROVE UnitOpen(frame[i][d])'
    <2>1. \A f, w : Due(f, w)' = Due(f, w)
      BY DEF Due, StillRaised, Subscribed
    <2>2. CASE i = j /\ d = D
      <3>1. \A w \in owed' : w[1] = g.unit => Due(g, w)'
        BY <2>1
      <3> QED
        BY <2>2, <3>1, <1>1, <1>2 DEF UnitOpen
    <2>3. CASE ~(i = j /\ d = D)
      <3>1. d \in 1..depth[i] /\ <<i, d>> # <<j, D>>
        BY <2>3
      <3>2. frame'[i][d] = frame[i][d] /\ frame[i][d].unit # Top(j).unit /\ UnitOpen(frame[i][d])
        BY <3>1, <1>6
      <3>3. \A w \in owed' : w[1] = frame[i][d].unit => Due(frame[i][d], w)'
        BY <3>2, <2>1 DEF UnitOpen
      <3> QED
        BY <3>2, <3>3 DEF UnitOpen
    <2> QED
      BY <2>2, <2>3
  <1>8. Top(j).unit \in Units /\ Known(Top(j).unit)
    BY <1>1 DEF UowInv, Stack, Known, Frames
  <1>9. History'
    BY <1>8 DEF UowInv, History, Known
  <1>10. Whole'
    BY <1>1 DEF UowInv, Whole, UnitOpen
  <1> QED
    BY <1>3, <1>5, <1>7, <1>9, <1>10 DEF UowInv

\* A call of Do by a job whose frames, if it has any, wait for a subscriber
\* that calls a use case.
LEMMA PushKeeps ==
  ASSUME UowTypes, UowInv, NEW j \in Jobs, NEW u \in UseCases, PushDo(j, u),
         UNCHANGED <<closed, routes, pending, db, owed, succeeded, rolledback>>,
         res' = [res EXCEPT ![j] = "running"],
         depth[j] > 0 => /\ Top(j).pc = "publish"
                         /\ Top(j).calls # <<>>
                         /\ Calls[Head(Top(j).calls)] # None
  PROVE  UowTypes' /\ UowInv'
  <1> DEFINE D == depth[j] + 1
             g == NewFrame(<<j, units[j] + 1>>, u)
  <1>1. depth[j] \in Nat /\ D \in Levels /\ D \in Nat /\ D # 0 /\ units[j] \in Nat
    BY UowAssumption DEF UowTypes, Levels, PushDo
  <1>2. /\ g \in Frames /\ g.unit = <<j, units[j] + 1>> /\ g.use = u /\ g.staged = {} /\ g.pc = "begin"
        /\ g.unit[1] = j /\ g.unit[2] = units[j] + 1
    <2>1. <<j, units[j] + 1>> \in Units /\ <<>> \in Seq(Events) /\ <<>> \in Seq(Handlers)
      BY <1>1 DEF Units
    <2> QED
      BY <2>1 DEF NewFrame, Frames
  <1>3. /\ frame' \in [Jobs -> [Levels -> Frames]]
        /\ frame'[j][D] = g
        /\ \A d \in Levels : d # D => frame'[j][d] = frame[j][d]
        /\ \A i \in Jobs : i # j => frame'[i] = frame[i]
    <2>1. frame' = [frame EXCEPT ![j][D] = g] /\ frame \in [Jobs -> [Levels -> Frames]]
      BY DEF PushDo, UowTypes
    <2> HIDE DEF D, g
    <2> QED
      BY <2>1, <1>1, <1>2, SetFrame
  <1> HIDE DEF g
  <1>4. /\ depth' \in [Jobs -> 0..MaxDepth] /\ depth'[j] = D
        /\ \A i \in Jobs : i # j => depth'[i] = depth[i]
        /\ units' \in [Jobs -> Nat] /\ units'[j] = units[j] + 1
        /\ \A i \in Jobs : i # j => units'[i] = units[i]
        /\ res' \in [Jobs -> {"none", "running", "ok", "error"}] /\ res'[j] = "running"
        /\ \A i \in Jobs : i # j => res'[i] = res[i]
    BY <1>1, UowAssumption DEF UowTypes, PushDo, Levels
  <1>5. UowTypes'
    BY <1>3, <1>4 DEF UowTypes
  <1>6. \A i \in Jobs : \A d \in 1..depth[i] : d \in Levels /\ frame[i][d] \in Frames
    BY UowAssumption DEF UowTypes, Levels
  <1>7. \A d \in 1..depth[j] : d # D /\ d \in Levels /\ frame'[j][d] = frame[j][d]
    BY <1>1, <1>3, <1>6
  <1>8. \A d \in 1..D : d = D \/ d \in 1..depth[j]
    BY <1>1
  <1>9. ASSUME NEW i \in Jobs PROVE Stack(i)'
    <2>1. Stack(i)
      BY DEF UowInv
    <2>2. CASE i # j
      <3>1. depth'[i] = depth[i] /\ units'[i] = units[i] /\ res'[i] = res[i] /\ frame'[i] = frame[i]
        BY <2>2, <1>3, <1>4
      <3> QED
        BY <2>1, <3>1 DEF Stack
    <2>3. CASE i = j
      <3>1. \A d \in 1..depth[j] : /\ frame'[j][d].use \in UseCases
                                  /\ frame'[j][d].unit[1] = j
                                  /\ frame'[j][d].unit[2] \in Nat
                                  /\ frame'[j][d].unit[2] <= units[j]
        BY <2>1, <2>3, <1>6, <1>7 DEF Stack, Frames, Units
      <3>2. \A d \in 1..D : /\ frame'[j][d].use \in UseCases
                            /\ frame'[j][d].unit[1] = j
                            /\ frame'[j][d].unit[2] <= units'[j]
        BY <3>1, <1>1, <1>2, <1>3, <1>4, <1>8
      <3>3. \A c, d \in 1..D : c # d => frame'[j][c].unit # frame'[j][d].unit
        <4>1. \A d \in 1..depth[j] : frame'[j][d].unit # g.unit
          BY <3>1, <1>1, <1>2
        <4> QED
          BY <4>1, <2>1, <2>3, <1>3, <1>7, <1>8 DEF Stack
      <3>4. \A d \in 1..D : d < D => /\ frame'[j][d].pc = "publish"
                                     /\ frame'[j][d].calls # <<>>
                                     /\ Calls[Head(frame'[j][d].calls)] # None
        <4> SUFFICES ASSUME NEW d \in 1..D, d < D
                     PROVE  /\ frame'[j][d].pc = "publish"
                            /\ frame'[j][d].calls # <<>>
                            /\ Calls[Head(frame'[j][d].calls)] # None
          OBVIOUS
        <4>1. d \in 1..depth[j] /\ frame'[j][d] = frame[j][d]
          BY <1>7, <1>8
        <4>2. CASE d = depth[j]
          BY <4>1, <4>2, <1>1 DEF Top
        <4>3. CASE d < depth[j]
          BY <4>1, <4>3, <2>1, <2>3 DEF Stack
        <4> QED
          BY <4>1, <4>2, <4>3, <1>1
      <3> QED
        BY <2>3, <3>2, <3>3, <3>4, <1>1, <1>4 DEF Stack
    <2> QED
      BY <2>2, <2>3
  <1>10. ASSUME NEW x \in Units, Known(x) PROVE Known(x)' /\ x # g.unit
    BY <1>10, <1>1, <1>2, <1>4 DEF Known, Units, UowTypes
  <1>11. History'
    BY <1>10 DEF UowInv, UowTypes, History, Writes
  <1>12. ASSUME NEW i \in Jobs, NEW d \in 1..depth'[i] PROVE UnitOpen(frame[i][d])'
    <2>1. \A f, w : Due(f, w)' = Due(f, w)
      BY DEF Due, StillRaised, Subscribed
    <2>2. CASE i = j /\ d = D
      <3>1. \A x \in succeeded \union rolledback : x # g.unit
        BY <1>10 DEF UowInv, UowTypes, History
      <3>2. \A w \in db \union owed : w[1] # g.unit
        BY <1>10 DEF UowInv, UowTypes, History, Writes
      <3> QED
        BY <2>2, <3>1, <3>2, <1>2, <1>3 DEF UnitOpen
    <2>3. CASE ~(i = j /\ d = D)
      <3>1. d \in 1..depth[i] /\ frame'[i][d] = frame[i][d]
        BY <2>3, <1>3, <1>4, <1>7, <1>8
      <3>2. UnitOpen(frame[i][d])
        BY <3>1 DEF UowInv
      <3> QED
        BY <3>1, <3>2, <2>1 DEF UnitOpen
    <2> QED
      BY <2>2, <2>3
  <1>13. Whole'
    BY DEF UowInv, Whole
  <1> QED
    BY <1>5, <1>9, <1>11, <1>12, <1>13 DEF UowInv

\* An error on the way out of fn.
LEMMA AbortFrame ==
  ASSUME NEW f \in Frames
  PROVE  /\ Abort(f) \in Frames
         /\ Abort(f).unit = f.unit /\ Abort(f).use = f.use
         /\ Abort(f).staged = f.staged /\ Abort(f).pc = "rollback"
  <1>1. <<>> \in Seq(Events) /\ <<>> \in Seq(Handlers)
    OBVIOUS
  <1>2. Abort(f) \in Frames
    BY <1>1 DEF Abort, Frames
  <1>3. Abort(f).unit = f.unit /\ Abort(f).use = f.use /\ Abort(f).staged = f.staged
    BY DEF Abort, Frames
  <1>4. Abort(f).pc = "rollback"
    BY DEF Abort, Frames
  <1> QED
    BY <1>2, <1>3, <1>4

\* A frame that is abandoned, or that goes on behind a subscriber.
LEMMA ResumedFrame ==
  ASSUME NEW f \in Frames, f.pc = "publish", f.calls # <<>>, NEW g \in Resumed(f)
  PROVE  /\ g \in Frames
         /\ g.unit = f.unit /\ g.use = f.use /\ g.staged = f.staged
         /\ g.pc = "rollback" \/ (g.pc = "publish" /\ g.calls = Tail(f.calls) /\ g.events = f.events)
  <1>1. Tail(f.calls) \in Seq(Handlers)
    BY HeadTail DEF Frames
  <1>2. CASE g = [f EXCEPT !.calls = Tail(@)]
    BY <1>1, <1>2 DEF Frames
  <1>3. CASE g = Abort(f)
    BY <1>3, AbortFrame
  <1> QED
    BY <1>2, <1>3 DEF Resumed

\* What Do leaves of the stack when it returns: the caller, if it is a
\* subscriber, goes on behind it or aborts.
LEMMA ReturnEffect ==
  ASSUME UowTypes, UowInv, NEW j \in Jobs, NEW r \in {"ok", "error"}, depth[j] > 0, Return(j, r)
  PROVE  /\ frame' \in [Jobs -> [Levels -> Frames]]
         /\ \A i \in Jobs : i # j => frame'[i] = frame[i]
         /\ \A d \in 1..(depth[j] - 1) : d # depth[j] - 1 => frame'[j][d] = frame[j][d]
         /\ depth[j] > 1 =>
                LET p == frame[j][depth[j] - 1]
                    g == frame'[j][depth[j] - 1]
                IN  /\ g.unit = p.unit /\ g.use = p.use /\ g.staged = p.staged
                    /\ g.pc = "rollback" \/ (g.pc = "publish" /\ g.calls = Tail(p.calls) /\ g.events = p.events)
         /\ depth' \in [Jobs -> 0..MaxDepth] /\ depth'[j] = depth[j] - 1
         /\ \A i \in Jobs : i # j => depth'[i] = depth[i]
         /\ res' \in [Jobs -> {"none", "running", "ok", "error"}]
         /\ res'[j] = IF depth[j] = 1 THEN r ELSE "running"
         /\ \A i \in Jobs : i # j => res'[i] = res[i]
         /\ UNCHANGED <<routes, pending, units>>
  <1> DEFINE D == depth[j]
  <1>1. D \in Nat /\ D > 0 /\ D \in Levels /\ NoFrame(j) \in Frames
    BY UowAssumption DEF UowTypes, Levels, NoFrame, NewFrame, Frames, Units
  <1>2. Stack(j) /\ frame \in [Jobs -> [Levels -> Frames]]
    BY DEF UowInv, UowTypes
  <1>3. /\ depth' \in [Jobs -> 0..MaxDepth] /\ depth'[j] = D - 1
        /\ \A i \in Jobs : i # j => depth'[i] = depth[i]
        /\ UNCHANGED <<routes, pending, units>>
    BY <1>1, UowAssumption DEF Return, UowTypes
  <1>4. CASE D = 1
    <2>1. frame' = [frame EXCEPT ![j][1] = NoFrame(j)] /\ res' = [res EXCEPT ![j] = r]
      BY <1>4 DEF Return
    <2>2. /\ res' \in [Jobs -> {"none", "running", "ok", "error"}] /\ res'[j] = r
          /\ \A i \in Jobs : i # j => res'[i] = res[i]
      BY <2>1 DEF UowTypes
    <2>3. frame' \in [Jobs -> [Levels -> Frames]] /\ \A i \in Jobs : i # j => frame'[i] = frame[i]
      <3>1. 1 \in Levels
        BY <1>1, <1>4
      <3> QED
        BY <1>1, <1>2, <2>1, <3>1, SetFrame
    <2> QED
      BY <1>3, <1>4, <2>2, <2>3
  <1>5. CASE D > 1
    <2> DEFINE p == frame[j][D - 1]
    <2>1. /\ D - 1 \in Levels /\ D - 1 \in 1..D /\ D - 1 < D
          /\ p \in Frames /\ p.pc = "publish" /\ p.calls # <<>> /\ res[j] = "running"
      <3>1. D - 1 \in Levels /\ D - 1 \in 1..D /\ D - 1 < D
        BY <1>1, <1>5, UowAssumption DEF Levels
      <3> QED
        BY <3>1, <1>1, <1>2 DEF Stack
    <2>2. PICK g \in Resumed(p) :
              frame' = [frame EXCEPT ![j] = [@ EXCEPT ![D - 1] = g, ![D] = NoFrame(j)]]
      BY <1>5 DEF Return
    <2>3. /\ g \in Frames
          /\ g.unit = p.unit /\ g.use = p.use /\ g.staged = p.staged
          /\ g.pc = "rollback" \/ (g.pc = "publish" /\ g.calls = Tail(p.calls) /\ g.events = p.events)
      BY <2>1, ResumedFrame
    <2> HIDE DEF p
    <2>4. /\ frame' \in [Jobs -> [Levels -> Frames]]
          /\ \A i \in Jobs : i # j => frame'[i] = frame[i]
          /\ frame'[j][D - 1] = g
          /\ \A d \in Levels : d # D - 1 /\ d # D => frame'[j][d] = frame[j][d]
      <3> DEFINE F == [frame[j] EXCEPT ![D - 1] = g, ![D] = NoFrame(j)]
      <3>1. frame[j] \in [Levels -> Frames] /\ D - 1 # D
        BY <1>1, <1>2
      <3> HIDE DEF D
      <3>2. /\ F \in [Levels -> Frames]
            /\ F[D - 1] = g
            /\ \A d \in Levels : d # D - 1 /\ d # D => F[d] = frame[j][d]
        BY <1>1, <2>1, <2>3, <3>1
      <3>3. frame' = [frame EXCEPT ![j] = F]
        BY <2>2
      <3> HIDE DEF F
      <3> QED
        BY <1>2, <3>2, <3>3
    <2>5. \A d \in 1..(D - 1) : d \in Levels /\ d # D
      BY <1>1, UowAssumption DEF Levels
    <2>6. p = frame[j][D - 1]
      BY DEF p
    <2>7. res' = res
      BY <1>5 DEF Return
    <2> QED
      BY <1>3, <1>5, <2>1, <2>3, <2>4, <2>5, <2>6, <2>7 DEF UowTypes
  <1> QED
    BY <1>1, <1>4, <1>5

\* Do returns, having committed everything or nothing of its unit.
LEMMA PopKeeps ==
  ASSUME UowTypes, UowInv, NEW j \in Jobs, NEW r \in {"ok", "error"}, depth[j] > 0, Return(j, r),
         UNCHANGED <<closed, owed>>,
         succeeded' \in {succeeded, succeeded \union {Top(j).unit}},
         rolledback' \in {rolledback, rolledback \union {Top(j).unit}},
         \/ db' = db /\ succeeded' = succeeded
         \/ /\ db' = db \union Top(j).staged /\ rolledback' = rolledback
            /\ \A w \in owed : w[1] = Top(j).unit => w \in Top(j).staged
  PROVE  UowTypes' /\ UowInv'
  <1> DEFINE D == depth[j]
             x == Top(j).unit
  <1>1. /\ D \in Levels /\ D \in 1..D /\ D \in Nat
        /\ Top(j) = frame[j][D] /\ Top(j) \in Frames
        /\ UnitOpen(Top(j)) /\ x[1] = j /\ x \in Units /\ Top(j).staged \in SUBSET Writes
    BY TopFrame DEF Frames, Levels
  <1>2. Known(x)
    BY <1>1 DEF UowInv, Stack, Known
  <1>3. /\ frame' \in [Jobs -> [Levels -> Frames]]
        /\ \A i \in Jobs : i # j => frame'[i] = frame[i]
        /\ \A d \in 1..(D - 1) : d # D - 1 => frame'[j][d] = frame[j][d]
        /\ depth' \in [Jobs -> 0..MaxDepth] /\ depth'[j] = D - 1
        /\ \A i \in Jobs : i # j => depth'[i] = depth[i]
        /\ res' \in [Jobs -> {"none", "running", "ok", "error"}]
        /\ res'[j] = IF D = 1 THEN r ELSE "running"
        /\ \A i \in Jobs : i # j => res'[i] = res[i]
        /\ UNCHANGED <<routes, pending, units>>
    BY ReturnEffect
  <1>4. ASSUME D > 1
        PROVE  LET p == frame[j][D - 1]
                   g == frame'[j][D - 1]
               IN  /\ g.unit = p.unit /\ g.use = p.use /\ g.staged = p.staged
                   /\ g.pc = "rollback" \/ (g.pc = "publish" /\ g.calls = Tail(p.calls) /\ g.events = p.events)
    BY <1>4, ReturnEffect
  <1>5. UowTypes'
    BY <1>1, <1>3 DEF UowTypes
  <1>6. \A i \in Jobs : Stack(i) /\ \A d \in 1..depth[i] : UnitOpen(frame[i][d])
    BY DEF UowInv
  <1>7. \A d \in 1..(D - 1) : /\ d \in 1..D /\ d < D /\ d # D
                              /\ frame'[j][d].unit = frame[j][d].unit
                              /\ frame'[j][d].use = frame[j][d].use
                              /\ d < D - 1 => frame'[j][d] = frame[j][d]
    BY <1>1, <1>3, <1>4
  <1>8. ASSUME NEW i \in Jobs PROVE Stack(i)'
    <2>1. CASE i # j
      <3>1. depth'[i] = depth[i] /\ units'[i] = units[i] /\ res'[i] = res[i] /\ frame'[i] = frame[i]
        BY <2>1, <1>3
      <3> QED
        BY <1>6, <3>1 DEF Stack
    <2>2. CASE i = j
      <3>1. Stack(j) /\ depth'[j] = D - 1 /\ units' = units
        BY <1>3, <1>6
      <3>2. /\ depth'[j] > 0 => res'[j] = "running"
            /\ depth'[j] = 0 => res'[j] # "running"
        BY <1>1, <1>3
      <3>3. \A d \in 1..(D - 1) : /\ frame'[j][d].use \in UseCases
                                 /\ frame'[j][d].unit[1] = j
                                 /\ frame'[j][d].unit[2] <= units'[j]
        BY <3>1, <1>7 DEF Stack
      <3>4. ASSUME NEW c \in 1..(D - 1), NEW d \in 1..(D - 1), c # d
            PROVE  frame'[j][c].unit # frame'[j][d].unit
        BY <3>1, <3>4, <1>7 DEF Stack
      <3>5. ASSUME NEW d \in 1..(D - 1), d < D - 1
            PROVE  /\ frame'[j][d].pc = "publish"
                   /\ frame'[j][d].calls # <<>>
                   /\ Calls[Head(frame'[j][d].calls)] # None
        <4>1. d \in 1..D /\ d < D /\ frame'[j][d] = frame[j][d]
          BY <3>5, <1>7
        <4> QED
          BY <3>1, <4>1 DEF Stack
      <3> QED
        BY <2>2, <3>1, <3>2, <3>3, <3>4, <3>5 DEF Stack
    <2> QED
      BY <2>1, <2>2
  <1>9. ASSUME NEW y, y # x
        PROVE  /\ y \notin succeeded => y \notin succeeded'
               /\ y \notin rolledback => y \notin rolledback'
               /\ (\A w \in db : w[1] # y) => \A w \in db' : w[1] # y
    BY <1>1, <1>9 DEF UnitOpen
  <1>10. \A f, w : Due(f, w)' = Due(f, w)
    BY <1>3 DEF Due, StillRaised, Subscribed
  <1>11. ASSUME NEW i \in Jobs, NEW d \in 1..depth'[i] PROVE UnitOpen(frame[i][d])'
    <2>1. /\ d \in 1..depth[i] /\ frame[i][d].unit # x /\ UnitOpen(frame[i][d])
          /\ frame'[i][d].unit = frame[i][d].unit
      <3>1. CASE i # j
        BY <3>1, <1>1, <1>3, <1>6 DEF Stack
      <3>2. CASE i = j
        BY <3>2, <1>1, <1>3, <1>6, <1>7 DEF Stack
      <3> QED
        BY <3>1, <3>2
    <2>2. /\ frame'[i][d].unit \notin succeeded'
          /\ frame'[i][d].unit \notin rolledback'
          /\ \A w \in db' : w[1] # frame'[i][d].unit
      BY <2>1, <1>9 DEF UnitOpen
    <2>3. CASE frame'[i][d] = frame[i][d]
      <3>1. \A w \in owed' : w[1] = frame'[i][d].unit => Due(frame[i][d], w)'
        BY <2>1, <2>3, <1>10 DEF UnitOpen
      <3> QED
        BY <2>1, <2>2, <2>3, <3>1 DEF UnitOpen
    <2>4. CASE frame'[i][d] # frame[i][d]
      <3> DEFINE p == frame[j][D - 1]
                 g == frame'[j][D - 1]
      <3>1. i = j /\ d = D - 1 /\ D > 1 /\ D - 1 \in 1..D /\ D - 1 < D /\ D - 1 \in Levels
        BY <2>1, <2>4, <1>1, <1>3, <1>7 DEF Levels
      <3>2. /\ g.unit = p.unit /\ g.staged = p.staged
            /\ g.pc = "rollback" \/ (g.pc = "publish" /\ g.calls = Tail(p.calls) /\ g.events = p.events)
        BY <3>1, <1>4
      <3>3. p.pc = "publish" /\ p.calls # <<>> /\ Calls[Head(p.calls)] # None /\ p.calls \in Seq(Handlers)
        BY <3>1, <1>6 DEF Stack, UowTypes, Frames
      <3>4. ASSUME NEW w \in owed, w[1] = g.unit PROVE Due(g, w)
        <4>1. Due(p, w)
          BY <3>1, <3>2, <3>4, <2>1 DEF UnitOpen
        <4>2. InSeq(p.calls, w[2]) => w[2] = Head(p.calls) \/ InSeq(Tail(p.calls), w[2])
          BY <3>3, HeadTail
        <4> QED
          BY <4>1, <4>2, <3>2, <3>3 DEF Due
      <3>5. \A w \in owed' : w[1] = frame'[i][d].unit => Due(frame[i][d], w)'
        BY <3>1, <3>4, <1>10
      <3>6. \A w \in g.staged : w[1] = g.unit
        BY <2>1, <3>1, <3>2 DEF UnitOpen
      <3> QED
        BY <2>2, <3>1, <3>5, <3>6 DEF UnitOpen
    <2> QED
      BY <2>3, <2>4
  <1>12. History'
    <2>1. \A y : Known(y)' = Known(y)
      BY <1>3 DEF Known
    <2>2. \A w \in Top(j).staged : w[1] = x
      BY <1>1 DEF UnitOpen
    <2> QED
      BY <2>1, <2>2, <1>2 DEF UowInv, History
  <1>13. Whole'
    BY <1>1 DEF UowInv, Whole, UnitOpen
  <1> QED
    BY <1>5, <1>8, <1>11, <1>12, <1>13 DEF UowInv

\* The subscribers of the events that are left are those of the next one and of the rest.
LEMMA RaisedNext ==
  ASSUME NEW s \in Seq(Events), s # <<>>, NEW h, StillRaised(s, h)
  PROVE  InSeq(routes[Head(s)], h) \/ StillRaised(Tail(s), h)
  <1>1. PICK i \in DOMAIN s : h \in Subscribed(s[i])
    BY DEF StillRaised
  <1>2. CASE s[i] = Head(s)
    BY <1>1, <1>2 DEF Subscribed, InSeq
  <1>3. CASE InSeq(Tail(s), s[i])
    BY <1>1, <1>3 DEF InSeq, StillRaised
  <1> QED
    BY <1>2, <1>3, HeadTail DEF InSeq

\* The steps of a unit of work that stay inside the innermost call of Do.
LEMMA InsideKeeps ==
  ASSUME UowTypes, UowInv, NEW j \in Jobs,
         \/ Begin(j) \/ Write(j) \/ Publish(j) \/ HandlerWrites(j) \/ HandlerFails(j) \/ UseCaseFails(j)
  PROVE  UowTypes' /\ UowInv'
  <1> DEFINE f == Top(j)
  <1>1. depth[j] > 0
    BY DEF Begin, Write, Publish, HandlerWrites, HandlerFails, UseCaseFails, Dispatching, In
  <1>2. f \in Frames /\ f.use \in UseCases /\ UnitOpen(f)
    BY <1>1, TopFrame
  <1>3. /\ f.unit \in Units /\ f.pc \in {"begin", "fn", "publish", "rollback"}
        /\ f.events \in Seq(Events) /\ f.calls \in Seq(Handlers) /\ f.staged \in SUBSET Writes
    BY <1>2 DEF Frames
  <1>4. /\ f.unit \notin succeeded /\ f.unit \notin rolledback
        /\ \A w \in f.staged : w[1] = f.unit
        /\ \A w \in owed : w[1] = f.unit => Due(f, w)
    BY <1>2 DEF UnitOpen
  <1>5. \A w \in owed : w \in Writes /\ w = <<w[1], w[2]>>
    BY DEF UowTypes, Writes
  <1>6. CASE Begin(j)
    <2> DEFINE g == [f EXCEPT !.pc = "fn"]
               O == Owed(f.unit, f.use)
    <2>1. /\ SetTop(j, g) /\ owed' = owed \union O
          /\ UNCHANGED <<closed, routes, pending, depth, units, res, db, succeeded, rolledback>>
          /\ f.pc = "begin"
      BY <1>6 DEF Begin, Acquire, In
    <2>2. g \in Frames /\ g.unit = f.unit /\ g.use = f.use /\ g.staged = f.staged /\ g.pc = "fn"
      BY <1>2 DEF Frames
    <2>3. \A w \in O : /\ w \in Writes /\ w[1] = f.unit
                       /\ w[2] = Own \/ (Calls[w[2]] = None /\ StillRaised(Emits[f.use], w[2]))
      BY <1>3 DEF Owed, Writes, StillRaised
    <2> HIDE DEF g, f, O
    <2>4. \A w \in owed' : w[1] = f.unit => Due(g, w)
      BY <1>4, <2>1, <2>2, <2>3 DEF Due
    <2>5. owed' \in SUBSET Writes
      BY <2>1, <2>3 DEF UowTypes
    <2>6. f = Top(j)
      BY DEF f
    <2> QED
      BY <1>1, <1>4, <2>1, <2>2, <2>3, <2>4, <2>5, <2>6, StayKeeps
  <1>7. CASE Write(j)
    <2> DEFINE g == [[f EXCEPT !.pc = "publish", !.events = Emits[f.use]] EXCEPT !.staged = @ \union {<<f.unit, Own>>}]
    <2>1. /\ SetTop(j, g) /\ owed' = owed /\ f.pc = "fn"
          /\ UNCHANGED <<closed, routes, pending, depth, units, res, db, succeeded, rolledback>>
      BY <1>1, <1>7 DEF Write, ORM, In, poolVars
    <2>2. Emits[f.use] \in Seq(Events) /\ <<f.unit, Own>> \in Writes
      BY <1>2, <1>3, UowAssumption DEF Writes
    <2>3. /\ g \in Frames /\ g.unit = f.unit /\ g.use = f.use
          /\ g.staged = f.staged \union {<<f.unit, Own>>} /\ g.pc = "publish" /\ g.events = Emits[f.use]
      BY <1>2, <2>2 DEF Frames
    <2> HIDE DEF g, f
    <2>4. ASSUME NEW w \in owed, w[1] = f.unit PROVE Due(g, w)
      BY <1>4, <1>5, <2>1, <2>3, <2>4 DEF Due
    <2>5. f = Top(j) /\ owed \in SUBSET Writes /\ \A w \in g.staged : w[1] = f.unit
      BY <1>4, <2>3 DEF f, UowTypes
    <2> QED
      BY <1>1, <2>1, <2>3, <2>4, <2>5, StayKeeps
  <1>8. CASE Publish(j)
    <2> DEFINE g == [f EXCEPT !.events = Tail(@), !.calls = Snapshot(Head(f.events))]
    <2>1. /\ SetTop(j, g) /\ owed' = owed /\ f.pc = "publish" /\ f.calls = <<>> /\ f.events # <<>>
          /\ UNCHANGED <<closed, routes, pending, depth, units, res, db, succeeded, rolledback>>
      BY <1>8 DEF Publish, In, poolVars
    <2>2. Tail(f.events) \in Seq(Events) /\ routes[Head(f.events)] \in Seq(Handlers)
      <3>1. Tail(f.events) \in Seq(Events) /\ Head(f.events) \in Events
        BY <1>3, <2>1, HeadTail
      <3> QED
        BY <3>1 DEF UowTypes
    <2>3. /\ g \in Frames /\ g.unit = f.unit /\ g.use = f.use /\ g.staged = f.staged /\ g.pc = "publish"
          /\ g.events = Tail(f.events) /\ g.calls = routes[Head(f.events)]
      BY <1>2, <2>1, <2>2 DEF Frames, Snapshot
    <2> HIDE DEF g, f
    <2>4. ASSUME NEW w \in owed, w[1] = f.unit PROVE Due(g, w)
      <3>1. Due(f, w) /\ ~InSeq(f.calls, w[2])
        BY <1>4, <2>1, <2>4 DEF InSeq
      <3>2. StillRaised(f.events, w[2]) => InSeq(routes[Head(f.events)], w[2]) \/ StillRaised(Tail(f.events), w[2])
        BY <1>3, <2>1, RaisedNext
      <3> QED
        BY <3>1, <3>2, <2>1, <2>3 DEF Due
    <2>5. f = Top(j) /\ owed \in SUBSET Writes
      BY DEF f, UowTypes
    <2> QED
      BY <1>1, <1>4, <2>1, <2>3, <2>4, <2>5, StayKeeps
  <1>9. CASE HandlerWrites(j)
    <2> DEFINE g == [[f EXCEPT !.calls = Tail(@)] EXCEPT !.staged = @ \union {<<f.unit, Head(f.calls)>>}]
    <2>1. /\ SetTop(j, g) /\ owed' = owed /\ f.pc = "publish" /\ f.calls # <<>>
          /\ UNCHANGED <<closed, routes, pending, depth, units, res, db, succeeded, rolledback>>
      BY <1>1, <1>9 DEF HandlerWrites, Dispatching, ORM, In, poolVars
    <2>2. /\ Tail(f.calls) \in Seq(Handlers) /\ <<f.unit, Head(f.calls)>> \in Writes
          /\ \A h : InSeq(f.calls, h) => h = Head(f.calls) \/ InSeq(Tail(f.calls), h)
      <3>1. Head(f.calls) \in Handlers
        BY <1>3, <2>1, HeadTail
      <3> QED
        BY <1>3, <2>1, <3>1, HeadTail DEF Writes
    <2>3. /\ g \in Frames /\ g.unit = f.unit /\ g.use = f.use /\ g.pc = "publish"
          /\ g.staged = f.staged \union {<<f.unit, Head(f.calls)>>}
          /\ g.events = f.events /\ g.calls = Tail(f.calls)
      BY <1>2, <2>1, <2>2 DEF Frames
    <2> HIDE DEF g, f
    <2>4. ASSUME NEW w \in owed, w[1] = f.unit PROVE Due(g, w)
      BY <1>4, <1>5, <2>1, <2>2, <2>3, <2>4 DEF Due
    <2>5. f = Top(j) /\ owed \in SUBSET Writes /\ \A w \in g.staged : w[1] = f.unit
      BY <1>4, <2>3 DEF f, UowTypes
    <2> QED
      BY <1>1, <2>1, <2>3, <2>4, <2>5, StayKeeps
  <1>10. CASE HandlerFails(j) \/ UseCaseFails(j)
    <2>1. /\ SetTop(j, Abort(f)) /\ owed' = owed
          /\ UNCHANGED <<closed, routes, pending, depth, units, res, db, succeeded, rolledback>>
      BY <1>10 DEF HandlerFails, UseCaseFails, poolVars
    <2>2. /\ Abort(f) \in Frames /\ Abort(f).unit = f.unit /\ Abort(f).use = f.use
          /\ Abort(f).staged = f.staged /\ Abort(f).pc = "rollback"
      BY <1>2, AbortFrame
    <2>3. \A w \in owed : Due(Abort(f), w)
      BY <2>2 DEF Due
    <2>4. owed \in SUBSET Writes
      BY DEF UowTypes
    <2> QED
      BY <1>1, <1>4, <2>1, <2>2, <2>3, <2>4, StayKeeps
  <1> QED
    BY <1>6, <1>7, <1>8, <1>9, <1>10

\* The steps with which a call of Do returns.
LEMMA LeavingKeeps ==
  ASSUME UowTypes, UowInv, NEW j \in Jobs,
         Commit(j) \/ CommitFails(j) \/ Rollback(j) \/ BeginFails(j)
  PROVE  UowTypes' /\ UowInv'
  <1>1. depth[j] > 0
    BY DEF Commit, CommitFails, Rollback, BeginFails, In
  <1>2. UnitOpen(Top(j))
    BY <1>1, TopFrame
  <1>3. ASSUME In(j, "publish"), Top(j).calls = <<>>, Top(j).events = <<>>
        PROVE  \A w \in owed : w[1] = Top(j).unit => w \in Top(j).staged
    BY <1>2, <1>3 DEF UnitOpen, Due, InSeq, StillRaised, In
  <1>4. CASE Rollback(j) \/ BeginFails(j)
    <2>1. /\ Return(j, "error") /\ UNCHANGED <<closed, owed, db, succeeded>>
          /\ rolledback' = rolledback \union {Top(j).unit}
      BY <1>4 DEF Rollback, BeginFails, Release, poolVars
    <2> QED
      BY <1>1, <2>1, PopKeeps
  <1>5. CASE Commit(j)
    <2>1. /\ Return(j, "ok") /\ UNCHANGED <<closed, owed, rolledback>>
          /\ succeeded' = succeeded \union {Top(j).unit} /\ db' = db \union Top(j).staged
          /\ \A w \in owed : w[1] = Top(j).unit => w \in Top(j).staged
      BY <1>3, <1>5 DEF Commit, Release
    <2> QED
      BY <1>1, <2>1, PopKeeps
  <1>6. CASE CommitFails(j)
    <2>1. /\ Return(j, "error") /\ UNCHANGED <<closed, owed, succeeded>>
          /\ \A w \in owed : w[1] = Top(j).unit => w \in Top(j).staged
          /\ \/ rolledback' = rolledback \union {Top(j).unit} /\ db' = db
             \/ rolledback' = rolledback /\ db' = db \union Top(j).staged
      BY <1>3, <1>6 DEF CommitFails, Release
    <2> QED
      BY <1>1, <2>1, PopKeeps
  <1> QED
    BY <1>4, <1>5, <1>6

\* A subscriber calls a use case inside the transaction of another.
LEMMA NestKeeps ==
  ASSUME UowTypes, UowInv, NEW j \in Jobs, HandlerNests(j)
  PROVE  UowTypes' /\ UowInv'
  <1>1. depth[j] > 0 /\ Top(j).pc = "publish" /\ Top(j).calls # <<>> /\ Calls[Head(Top(j).calls)] # None
    BY DEF HandlerNests, Dispatching, In
  <1>2. Calls[Head(Top(j).calls)] \in UseCases
    <2>1. Top(j).calls \in Seq(Handlers)
      BY <1>1, TopFrame DEF Frames
    <2>2. Head(Top(j).calls) \in Handlers
      BY <1>1, <2>1, HeadTail
    <2> QED
      BY <1>1, <2>2, UowAssumption
  <1>3. res' = [res EXCEPT ![j] = "running"]
    <2>1. res[j] = "running" /\ res' = res
      BY <1>1 DEF UowInv, Stack, HandlerNests
    <2> QED
      BY <2>1 DEF UowTypes
  <1>4. /\ PushDo(j, Calls[Head(Top(j).calls)])
        /\ UNCHANGED <<closed, routes, pending, db, owed, succeeded, rolledback>>
    BY DEF HandlerNests, poolVars
  <1> QED
    BY <1>1, <1>2, <1>3, <1>4, PushKeeps

\* A transport handler calls a use case.
LEMMA CallKeeps ==
  ASSUME UowTypes, UowInv, NEW j \in Jobs, NEW u \in UseCases, CallUseCase(j, u)
  PROVE  UowTypes' /\ UowInv'
  <1>1. ~(depth[j] > 0)
    BY UowAssumption DEF CallUseCase, UowInv, Stack, UowTypes
  <1>2. /\ PushDo(j, u) /\ res' = [res EXCEPT ![j] = "running"]
        /\ UNCHANGED <<closed, routes, pending, db, owed, succeeded, rolledback>>
    BY DEF CallUseCase, poolVars
  <1> QED
    BY <1>1, <1>2, PushKeeps

\* A write outside of any unit of work is a unit by itself.
LEMMA OutsideKeeps ==
  ASSUME UowTypes, UowInv, NEW j \in Jobs, WriteOutside(j)
  PROVE  UowTypes' /\ UowInv'
  <1>1. ~(depth[j] > 0) /\ depth[j] = 0 /\ units[j] \in Nat
    <2>1. depth[j] \in Nat /\ units[j] \in Nat
      BY UowAssumption DEF UowTypes
    <2>2. ~(depth[j] > 0)
      BY DEF WriteOutside, UowInv, Stack
    <2> QED
      BY <2>1, <2>2
  <1>2. <<j, units[j] + 1>> \in Units
    BY <1>1 DEF Units
  <1> PICK x \in Units : x = <<j, units[j] + 1>>
    BY <1>2
  <1>3. /\ db' = db \union {<<x, Own>>} /\ units' = [units EXCEPT ![j] = @ + 1]
        /\ res' = [res EXCEPT ![j] = "ok"]
        /\ UNCHANGED <<closed, routes, pending, depth, frame, owed, succeeded, rolledback>>
    BY <1>1 DEF WriteOutside, ORM, poolVars
  <1>4. x \in Units /\ <<x, Own>> \in Writes /\ x[1] = j /\ x[2] = units[j] + 1
    BY <1>1 DEF Writes
  <1>5. /\ units' \in [Jobs -> Nat] /\ units'[j] = units[j] + 1
        /\ \A i \in Jobs : i # j => units'[i] = units[i]
        /\ res' \in [Jobs -> {"none", "running", "ok", "error"}] /\ res'[j] = "ok"
        /\ \A i \in Jobs : i # j => res'[i] = res[i]
    BY <1>1, <1>3 DEF UowTypes
  <1>6. UowTypes'
    BY <1>3, <1>4, <1>5 DEF UowTypes
  <1>7. ASSUME NEW y \in Units, Known(y) PROVE Known(y)' /\ y # x
    BY <1>7, <1>1, <1>4, <1>5 DEF Known, Units, UowTypes
  <1>8. Known(x)'
    BY <1>4, <1>5 DEF Known
  <1>9. History'
    <2>1. \A w \in db \union owed : w[1] \in Units /\ Known(w[1])
      BY DEF UowInv, UowTypes, History, Writes
    <2>2. \A y \in succeeded \union rolledback : y \in Units /\ Known(y)
      BY DEF UowInv, UowTypes, History
    <2>3. <<x, Own>>[1] = x
      OBVIOUS
    <2> QED
      BY <1>3, <1>7, <1>8, <2>1, <2>2, <2>3 DEF History
  <1>10. Whole'
    <2>1. \A v \in owed : v[1] # x
      BY <1>7 DEF UowInv, UowTypes, History, Writes
    <2>2. x \notin rolledback
      BY <1>7 DEF UowInv, UowTypes, History
    <2> QED
      BY <1>3, <2>1, <2>2 DEF UowInv, Whole
  <1>11. \A i \in Jobs : \A d \in 1..depth[i] :
             /\ frame[i][d] \in Frames /\ frame[i][d].unit \in Units
             /\ Known(frame[i][d].unit) /\ UnitOpen(frame[i][d])
    <2> SUFFICES ASSUME NEW i \in Jobs, NEW d \in 1..depth[i]
                 PROVE  /\ frame[i][d] \in Frames /\ frame[i][d].unit \in Units
                        /\ Known(frame[i][d].unit) /\ UnitOpen(frame[i][d])
      OBVIOUS
    <2>1. d \in Levels /\ Stack(i) /\ UnitOpen(frame[i][d])
      BY UowAssumption DEF UowTypes, Levels, UowInv
    <2> QED
      BY <2>1 DEF UowTypes, Frames, Stack, Known
  <1>12. ASSUME NEW i \in Jobs PROVE Stack(i)'
    <2>1. Stack(i) /\ depth' = depth /\ frame' = frame
      BY <1>3 DEF UowInv
    <2>2. CASE i # j
      BY <2>1, <2>2, <1>5 DEF Stack
    <2>3. CASE i = j
      BY <2>1, <2>3, <1>1, <1>5 DEF Stack
    <2> QED
      BY <2>2, <2>3
  <1>13. ASSUME NEW i \in Jobs, NEW d \in 1..depth'[i] PROVE UnitOpen(frame[i][d])'
    <2>1. \A f, w : Due(f, w)' = Due(f, w)
      BY <1>3 DEF Due, StillRaised, Subscribed
    <2>2. d \in 1..depth[i] /\ frame' = frame
      BY <1>3
    <2>3. UnitOpen(frame[i][d]) /\ frame[i][d].unit # x
      BY <1>7, <1>11, <2>2
    <2> QED
      BY <1>3, <1>4, <2>1, <2>2, <2>3 DEF UnitOpen
  <1> QED
    BY <1>6, <1>9, <1>10, <1>12, <1>13 DEF UowInv

\* A registration only adds to the subscribers of an event.
LEMMA SubscribeKeeps ==
  ASSUME UowTypes, UowInv, NEW e \in Events, NEW h \in Handlers, Subscribe(e, h)
  PROVE  UowTypes' /\ UowInv'
  <1>1. /\ pending' \in SUBSET Late /\ routes' = [routes EXCEPT ![e] = Append(@, h)]
        /\ UNCHANGED <<closed, depth, frame, units, res, db, owed, succeeded, rolledback>>
    BY DEF Subscribe, poolVars, UowTypes
  <1>2. /\ routes' \in [Events -> Seq(Handlers)]
        /\ \A x \in Events : Subscribed(x) \subseteq Subscribed(x)'
    <2>1. routes[e] \in Seq(Handlers) /\ routes \in [Events -> Seq(Handlers)]
      BY DEF UowTypes
    <2>2. /\ Append(routes[e], h) \in Seq(Handlers)
          /\ \A i \in DOMAIN routes[e] : /\ i \in DOMAIN Append(routes[e], h)
                                         /\ Append(routes[e], h)[i] = routes[e][i]
      BY <2>1
    <2>3. routes'[e] = Append(routes[e], h) /\ \A x \in Events : x # e => routes'[x] = routes[x]
      BY <1>1, <2>1
    <2>4. routes' \in [Events -> Seq(Handlers)]
      BY <1>1, <2>1, <2>2
    <2>5. ASSUME NEW x \in Events PROVE Subscribed(x) \subseteq Subscribed(x)'
      BY <2>2, <2>3 DEF Subscribed
    <2> QED
      BY <2>4, <2>5
  <1>3. UowTypes'
    BY <1>1, <1>2 DEF UowTypes
  <1>4. ASSUME NEW s \in Seq(Events), NEW g, StillRaised(s, g) PROVE StillRaised(s, g)'
    BY <1>2, <1>4 DEF StillRaised
  <1>5. ASSUME NEW f \in Frames, f.use \in UseCases, NEW w, Due(f, w) PROVE Due(f, w)'
    <2>1. f.events \in Seq(Events) /\ Emits[f.use] \in Seq(Events)
      BY <1>5, UowAssumption DEF Frames
    <2> QED
      BY <1>4, <1>5, <2>1 DEF Due
  <1>6. ASSUME NEW i \in Jobs, NEW d \in 1..depth'[i] PROVE UnitOpen(frame[i][d])'
    <2>1. d \in 1..depth[i] /\ d \in Levels
      BY <1>1, UowAssumption DEF UowTypes, Levels
    <2>2. UnitOpen(frame[i][d]) /\ frame[i][d] \in Frames /\ frame[i][d].use \in UseCases
      BY <2>1 DEF UowInv, UowTypes, Stack
    <2>3. \A w \in owed : w[1] = frame[i][d].unit => Due(frame[i][d], w)'
      <3> SUFFICES ASSUME NEW w \in owed, w[1] = frame[i][d].unit PROVE Due(frame[i][d], w)'
        OBVIOUS
      <3>1. Due(frame[i][d], w)
        BY <2>2 DEF UnitOpen
      <3>2. PICK f \in Frames : f = frame[i][d]
        BY <2>2
      <3>3. Due(f, w)'
        BY <1>5, <2>2, <3>1, <3>2
      <3> QED
        BY <1>1, <3>2, <3>3
    <2> QED
      BY <1>1, <2>2, <2>3 DEF UnitOpen
  <1>7. (\A i \in Jobs : Stack(i)') /\ History' /\ Whole'
    BY <1>1 DEF UowInv, Stack, History, Known, Whole
  <1> QED
    BY <1>3, <1>6, <1>7 DEF UowInv

\* The steps that may change the state of the units of work.
UowAction ==
    \/ \E j \in Jobs : UowStep(j)
    \/ \E j \in Jobs, u \in UseCases : CallUseCase(j, u)
    \/ \E j \in Jobs : WriteOutside(j)
    \/ \E e \in Events, h \in Handlers : Subscribe(e, h)

\* Whatever happens, the units of work keep their types and their invariant.
LEMMA UowActionKeeps ==
  ASSUME UowTypes, UowInv, UowAction \/ (UNCHANGED uowVars /\ closed' \in BOOLEAN)
  PROVE  UowTypes' /\ UowInv'
  <1>1. CASE UNCHANGED uowVars /\ closed' \in BOOLEAN
    <2>1. UNCHANGED <<routes, pending, depth, frame, units, res, db, owed, succeeded, rolledback>>
      BY <1>1 DEF uowVars
    <2>2. UowTypes'
      BY <1>1, <2>1 DEF UowTypes
    <2>3. (\A i \in Jobs : Stack(i)') /\ History' /\ Whole'
      BY <2>1 DEF UowInv, Stack, History, Known, Whole
    <2>4. \A f, w : Due(f, w)' = Due(f, w)
      BY <2>1 DEF Due, StillRaised, Subscribed
    <2>5. \A i \in Jobs : \A d \in 1..depth'[i] : UnitOpen(frame[i][d])'
      BY <2>1, <2>4 DEF UowInv, UnitOpen
    <2> QED
      BY <2>2, <2>3, <2>5 DEF UowInv
  <1>2. CASE \E j \in Jobs : UowStep(j)
    BY <1>2, InsideKeeps, LeavingKeeps, NestKeeps DEF UowStep, UowProgress, UowFault
  <1>3. CASE \E j \in Jobs, u \in UseCases : CallUseCase(j, u)
    BY <1>3, CallKeeps
  <1>4. CASE \E j \in Jobs : WriteOutside(j)
    BY <1>4, OutsideKeeps
  <1>5. CASE \E e \in Events, h \in Handlers : Subscribe(e, h)
    BY <1>5, SubscribeKeeps
  <1> QED
    BY <1>1, <1>2, <1>3, <1>4, <1>5 DEF UowAction

-----------------------------------------------------------------------------
(* The contract of the unit of work *)

\* An open unit is undecided, and before BEGIN it has promised nothing.
LEMMA OpenUndecided ==
  ASSUME UowTypes, UowInv, NEW j \in Jobs, depth[j] > 0
  PROVE  /\ Top(j).unit \in Units
         /\ Contract!Undecided(Top(j).unit)
         /\ Top(j).pc = "begin" => Contract!Of(owed, Top(j).unit) = {}
  <1>1. Top(j) \in Frames /\ UnitOpen(Top(j))
    BY TopFrame
  <1> QED
    BY <1>1 DEF Frames, UnitOpen, Due, Contract!Undecided, Contract!Of

\* BEGIN is where the unit promises what it has to leave behind.
LEMMA BeginContract ==
  ASSUME UowTypes, UowInv, NEW j \in Jobs, Begin(j)
  PROVE  Contract!Next
  <1> DEFINE O == Owed(Top(j).unit, Top(j).use)
  <1>1. depth[j] > 0 /\ Top(j).pc = "begin"
    BY DEF Begin, In
  <1>2. /\ Top(j).unit \in Units /\ Contract!Undecided(Top(j).unit)
        /\ Contract!Of(owed, Top(j).unit) = {}
    BY <1>1, OpenUndecided
  <1>3. owed' = owed \union O /\ UNCHANGED <<db, succeeded, rolledback>>
    BY DEF Begin
  <1>4. O \in SUBSET ({Top(j).unit} \X (Handlers \union {Own}))
    BY DEF Owed
  <1> HIDE DEF O
  <1> QED
    BY <1>2, <1>3, <1>4 DEF Contract!Next, Contract!Begin

\* A unit that ends without a commit was undecided.
LEMMA RollbackContract ==
  ASSUME UowTypes, UowInv, NEW j \in Jobs, depth[j] > 0,
         rolledback' = rolledback \union {Top(j).unit}, UNCHANGED <<owed, db, succeeded>>
  PROVE  Contract!Next
  BY OpenUndecided DEF Contract!Next, Contract!Rollback

\* What COMMIT makes visible is the unit's own and all that it has promised:
\* no event is left to publish and no subscriber to call.
LEMMA CommitContract ==
  ASSUME UowTypes, UowInv, NEW j \in Jobs,
         In(j, "publish"), Top(j).calls = <<>>, Top(j).events = <<>>,
         db' = db \union Top(j).staged, succeeded' \in {succeeded, succeeded \union {Top(j).unit}},
         UNCHANGED <<owed, rolledback>>
  PROVE  Contract!Next
  <1>1. depth[j] > 0 /\ Top(j).pc = "publish"
    BY DEF In
  <1>2. Top(j) \in Frames /\ UnitOpen(Top(j))
    BY <1>1, TopFrame
  <1>3. Top(j).unit \in Units /\ Contract!Undecided(Top(j).unit)
    BY <1>1, OpenUndecided
  <1>4. Top(j).staged \in SUBSET ({Top(j).unit} \X (Handlers \union {Own}))
    BY <1>2 DEF Frames, UnitOpen, Writes
  <1>5. Contract!Of(owed, Top(j).unit) \subseteq Top(j).staged
    BY <1>1, <1>2 DEF Contract!Of, UnitOpen, Due, InSeq, StillRaised
  <1> QED
    BY <1>3, <1>4, <1>5 DEF Contract!Next, Contract!Commit

\* A write outside of any unit of work is a unit that commits at once.
LEMMA OutsideContract ==
  ASSUME UowTypes, UowInv, NEW j \in Jobs, WriteOutside(j)
  PROVE  Contract!Next
  <1>1. depth[j] = 0 /\ units[j] \in Nat
    <2>1. depth[j] \in Nat /\ units[j] \in Nat
      BY UowAssumption DEF UowTypes
    <2>2. ~(depth[j] > 0)
      BY DEF WriteOutside, UowInv, Stack
    <2> QED
      BY <2>1, <2>2
  <1>2. <<j, units[j] + 1>> \in Units
    BY <1>1 DEF Units
  <1> PICK x \in Units : x = <<j, units[j] + 1>>
    BY <1>2
  <1>3. db' = db \union {<<x, Own>>} /\ UNCHANGED <<owed, succeeded, rolledback>>
    BY <1>1 DEF WriteOutside, ORM
  <1>4. ~Known(x)
    BY <1>1 DEF Known
  <1>5. Contract!Undecided(x) /\ Contract!Of(owed, x) = {}
    BY <1>4 DEF UowInv, History, Contract!Undecided, Contract!Of
  <1>6. {<<x, Own>>} \in SUBSET ({x} \X (Handlers \union {Own}))
    OBVIOUS
  <1> QED
    BY <1>3, <1>5, <1>6 DEF Contract!Next, Contract!Commit

\* Whatever the jobs do, the contract of the unit of work allows it.
LEMMA UowActionContract ==
  ASSUME UowTypes, UowInv, UowAction
  PROVE  Contract!Next \/ UNCHANGED Contract!vars
  <1>1. ASSUME NEW j \in Jobs, UowStep(j)
        PROVE  Contract!Next \/ UNCHANGED Contract!vars
    <2>1. CASE Begin(j)
      BY <2>1, BeginContract
    <2>2. CASE Rollback(j) \/ BeginFails(j)
      BY <2>2, RollbackContract DEF Rollback, BeginFails, In
    <2>3. CASE Commit(j)
      BY <2>3, CommitContract DEF Commit
    <2>4. CASE CommitFails(j)
      BY <2>4, CommitContract, RollbackContract DEF CommitFails, In
    <2>5. CASE Write(j) \/ HandlerWrites(j)
      BY <2>5 DEF Write, HandlerWrites, ORM, In, Dispatching, Contract!vars
    <2>6. CASE Publish(j) \/ HandlerNests(j) \/ HandlerFails(j) \/ UseCaseFails(j)
      BY <2>6 DEF Publish, HandlerNests, HandlerFails, UseCaseFails, Contract!vars
    <2> QED
      BY <1>1, <2>1, <2>2, <2>3, <2>4, <2>5, <2>6 DEF UowStep, UowProgress, UowFault
  <1>2. ASSUME NEW j \in Jobs, WriteOutside(j) PROVE Contract!Next
    BY <1>2, OutsideContract
  <1>3. ASSUME NEW j \in Jobs, NEW u \in UseCases, CallUseCase(j, u) PROVE UNCHANGED Contract!vars
    BY <1>3 DEF CallUseCase, Contract!vars
  <1>4. ASSUME NEW e \in Events, NEW h \in Handlers, Subscribe(e, h) PROVE UNCHANGED Contract!vars
    BY <1>4 DEF Subscribe, Contract!vars
  <1> QED
    BY <1>1, <1>2, <1>3, <1>4 DEF UowAction

-----------------------------------------------------------------------------
(* Connections *)

\* When the innermost call of Do goes on as g, it has a connection if g has begun.
LEMMA StayOpen ==
  ASSUME UowTypes, UowInv, NEW j \in Jobs, depth[j] > 0, NEW g \in Frames, SetTop(j, g), depth' = depth
  PROVE  /\ g.pc # "begin" => OpenUnits' = OpenUnits \union {<<j, depth[j]>>}
         /\ (g.pc = "begin") = (Top(j).pc = "begin") => OpenUnits' = OpenUnits
         /\ <<j, depth[j]>> \in Jobs \X Levels
         /\ (<<j, depth[j]>> \in OpenUnits) = (Top(j).pc # "begin")
  <1> DEFINE D == depth[j]
  <1>1. D \in Levels /\ Top(j) = frame[j][D] /\ D \in Nat
    BY TopFrame DEF Levels
  <1>2. /\ frame'[j][D] = g
        /\ \A d \in Levels : d # D => frame'[j][d] = frame[j][d]
        /\ \A i \in Jobs : i # j => frame'[i] = frame[i]
    <2>1. frame' = [frame EXCEPT ![j][D] = g] /\ frame \in [Jobs -> [Levels -> Frames]]
      BY DEF SetTop, UowTypes
    <2> HIDE DEF D
    <2> QED
      BY <2>1, <1>1, SetFrame
  <1>3. \A i \in Jobs, d \in Levels :
            <<i, d>> \in OpenUnits' <=> IF i = j /\ d = D THEN g.pc # "begin" ELSE <<i, d>> \in OpenUnits
    BY <1>1, <1>2 DEF OpenUnits
  <1>4. (<<j, D>> \in OpenUnits) = (Top(j).pc # "begin") /\ <<j, D>> \in Jobs \X Levels
    BY <1>1 DEF OpenUnits
  <1>5. OpenUnits \subseteq Jobs \X Levels /\ OpenUnits' \subseteq Jobs \X Levels
    BY DEF OpenUnits
  <1> HIDE DEF D
  <1>6. g.pc # "begin" => OpenUnits' = OpenUnits \union {<<j, D>>}
    BY <1>3, <1>4, <1>5
  <1>7. (g.pc = "begin") = (Top(j).pc = "begin") => OpenUnits' = OpenUnits
    BY <1>3, <1>4, <1>5
  <1> QED
    BY <1>4, <1>6, <1>7 DEF D

\* A call of Do that has not begun has no connection.
LEMMA PushOpen ==
  ASSUME UowTypes, NEW j \in Jobs, NEW u, PushDo(j, u)
  PROVE  OpenUnits' = OpenUnits
  <1> DEFINE D == depth[j] + 1
             g == NewFrame(<<j, units[j] + 1>>, u)
  <1>1. D \in Levels /\ D \in Nat /\ g.pc = "begin"
    BY UowAssumption DEF UowTypes, Levels, PushDo, NewFrame
  <1>2. /\ frame' = [frame EXCEPT ![j][D] = g]
        /\ frame \in [Jobs -> [Levels -> Frames]]
        /\ depth \in [Jobs -> 0..MaxDepth] /\ depth'[j] = D
        /\ \A i \in Jobs : i # j => depth'[i] = depth[i]
    BY DEF PushDo, UowTypes
  <1> HIDE DEF g
  <1>3. /\ frame'[j][D] = g
        /\ \A d \in Levels : d # D => frame'[j][d] = frame[j][d]
        /\ \A i \in Jobs : i # j => frame'[i] = frame[i]
    BY <1>1, <1>2
  <1>4. ASSUME NEW i \in Jobs, NEW d \in Levels
        PROVE  (d <= depth'[i] /\ frame'[i][d].pc # "begin") <=> (d <= depth[i] /\ frame[i][d].pc # "begin")
    BY <1>1, <1>2, <1>3, UowAssumption DEF Levels
  <1> QED
    BY <1>4 DEF OpenUnits

\* A call of Do that returns has no connection afterwards, and its caller keeps its own.
LEMMA ReturnOpen ==
  ASSUME UowTypes, UowInv, NEW j \in Jobs, NEW r \in {"ok", "error"}, depth[j] > 0, Return(j, r)
  PROVE  OpenUnits' = OpenUnits \ {<<j, depth[j]>>}
  <1> DEFINE D == depth[j]
  <1>1. D \in Levels /\ D \in Nat /\ Stack(j)
    BY TopFrame DEF Levels, UowInv
  <1>2. /\ \A i \in Jobs : i # j => frame'[i] = frame[i]
        /\ \A d \in 1..(D - 1) : d # D - 1 => frame'[j][d] = frame[j][d]
        /\ D > 1 => frame'[j][D - 1].pc \in {"publish", "rollback"}
        /\ depth'[j] = D - 1
        /\ \A i \in Jobs : i # j => depth'[i] = depth[i]
    BY ReturnEffect
  <1>3. D > 1 => frame[j][D - 1].pc = "publish"
    BY <1>1 DEF Stack
  <1>4. ASSUME NEW d \in Levels
        PROVE  (d <= depth'[j] /\ frame'[j][d].pc # "begin") <=> (d # D /\ d <= D /\ frame[j][d].pc # "begin")
    <2>1. d \in Nat /\ d >= 1
      BY UowAssumption DEF Levels
    <2>2. CASE d = D - 1
      BY <2>1, <2>2, <1>1, <1>2, <1>3
    <2>3. CASE d # D - 1 /\ d <= D - 1
      BY <2>1, <2>3, <1>1, <1>2
    <2>4. CASE d > D - 1
      BY <2>1, <2>4, <1>1, <1>2
    <2> QED
      BY <2>1, <2>2, <2>3, <2>4, <1>1
  <1>5. ASSUME NEW i \in Jobs, NEW d \in Levels
        PROVE  (d <= depth'[i] /\ frame'[i][d].pc # "begin")
                   <=> (d <= depth[i] /\ frame[i][d].pc # "begin" /\ <<i, d>> # <<j, D>>)
    <2>1. CASE i = j
      BY <1>4, <2>1
    <2>2. CASE i # j
      BY <1>2, <2>2
    <2> QED
      BY <2>1, <2>2
  <1> QED
    BY <1>5 DEF OpenUnits

\* The units of work take a connection when they begin and give it back when
\* they end, and do nothing else to the pool.
LEMMA UowPool ==
  ASSUME UowTypes, UowInv, UowAction
  PROVE  \/ inUse' = inUse /\ OpenUnits' = OpenUnits
         \/ \E x \in Jobs \X Levels : x \notin OpenUnits /\ inUse' = inUse + 1 /\ OpenUnits' = OpenUnits \union {x}
         \/ \E x \in OpenUnits : inUse' = inUse - 1 /\ OpenUnits' = OpenUnits \ {x}
  <1>1. ASSUME NEW j \in Jobs, UowStep(j)
        PROVE  \/ inUse' = inUse /\ OpenUnits' = OpenUnits
               \/ \E x \in Jobs \X Levels : x \notin OpenUnits /\ inUse' = inUse + 1 /\ OpenUnits' = OpenUnits \union {x}
               \/ \E x \in OpenUnits : inUse' = inUse - 1 /\ OpenUnits' = OpenUnits \ {x}
    <2> DEFINE f == Top(j)
               x == <<j, depth[j]>>
    <2>1. depth[j] > 0
      BY <1>1 DEF UowStep, UowProgress, UowFault, Begin, Write, Publish, HandlerWrites, HandlerNests,
                  HandlerFails, UseCaseFails, Commit, Rollback, BeginFails, CommitFails, Dispatching, In
    <2>2. f \in Frames /\ f.use \in UseCases /\ f.unit \in Units /\ f.events \in Seq(Events)
          /\ f.calls \in Seq(Handlers) /\ f.staged \in SUBSET Writes
      BY <2>1, TopFrame DEF Frames
    <2>3. x \in Jobs \X Levels /\ (x \in OpenUnits) = (f.pc # "begin")
      BY <2>1, TopFrame DEF OpenUnits, Levels
    <2>4. CASE Begin(j)
      <3> DEFINE g == [f EXCEPT !.pc = "fn"]
      <3>1. SetTop(j, g) /\ depth' = depth /\ inUse' = inUse + 1 /\ f.pc = "begin"
        BY <2>4 DEF Begin, Acquire, In
      <3>2. g \in Frames /\ g.pc # "begin"
        BY <2>2 DEF Frames
      <3> HIDE DEF g
      <3>3. OpenUnits' = OpenUnits \union {x}
        BY <2>1, <3>1, <3>2, StayOpen
      <3> QED
        BY <2>3, <3>1, <3>3
    <2>5. CASE Write(j)
      <3> DEFINE g == [[f EXCEPT !.pc = "publish", !.events = Emits[f.use]] EXCEPT !.staged = @ \union {<<f.unit, Own>>}]
      <3>1. SetTop(j, g) /\ depth' = depth /\ inUse' = inUse /\ f.pc = "fn"
        BY <2>1, <2>5 DEF Write, ORM, In, poolVars
      <3>2. Emits[f.use] \in Seq(Events) /\ <<f.unit, Own>> \in Writes
        BY <2>2, UowAssumption DEF Writes
      <3>3. g \in Frames /\ g.pc = "publish"
        BY <2>2, <3>2 DEF Frames
      <3> HIDE DEF g
      <3> QED
        BY <2>1, <3>1, <3>3, StayOpen
    <2>6. CASE Publish(j)
      <3> DEFINE g == [f EXCEPT !.events = Tail(@), !.calls = Snapshot(Head(f.events))]
      <3>1. SetTop(j, g) /\ depth' = depth /\ inUse' = inUse /\ f.pc = "publish" /\ f.events # <<>>
        BY <2>6 DEF Publish, In, poolVars
      <3>2. Tail(f.events) \in Seq(Events) /\ Head(f.events) \in Events
        BY <2>2, <3>1, HeadTail
      <3>3. routes[Head(f.events)] \in Seq(Handlers)
        BY <3>2 DEF UowTypes
      <3>4. g \in Frames /\ g.pc = "publish"
        BY <2>2, <3>1, <3>2, <3>3 DEF Frames, Snapshot
      <3> HIDE DEF g
      <3> QED
        BY <2>1, <3>1, <3>4, StayOpen
    <2>7. CASE HandlerWrites(j)
      <3> DEFINE g == [[f EXCEPT !.calls = Tail(@)] EXCEPT !.staged = @ \union {<<f.unit, Head(f.calls)>>}]
      <3>1. SetTop(j, g) /\ depth' = depth /\ inUse' = inUse /\ f.pc = "publish" /\ f.calls # <<>>
        BY <2>1, <2>7 DEF HandlerWrites, Dispatching, ORM, In, poolVars
      <3>2. Tail(f.calls) \in Seq(Handlers) /\ Head(f.calls) \in Handlers
        BY <2>2, <3>1, HeadTail
      <3>3. <<f.unit, Head(f.calls)>> \in Writes
        BY <2>2, <3>2 DEF Writes
      <3>4. g \in Frames /\ g.pc = "publish"
        BY <2>2, <3>1, <3>2, <3>3 DEF Frames
      <3> HIDE DEF g
      <3> QED
        BY <2>1, <3>1, <3>4, StayOpen
    <2>8. CASE HandlerFails(j) \/ UseCaseFails(j)
      <3>1. SetTop(j, Abort(f)) /\ depth' = depth /\ inUse' = inUse /\ f.pc # "begin"
        BY <2>8 DEF HandlerFails, UseCaseFails, Dispatching, In, poolVars
      <3>2. Abort(f) \in Frames /\ Abort(f).pc = "rollback"
        BY <2>2, AbortFrame
      <3> QED
        BY <2>1, <3>1, <3>2, StayOpen
    <2>9. CASE HandlerNests(j)
      BY <2>9, PushOpen DEF HandlerNests, poolVars
    <2>10. CASE BeginFails(j)
      <3>1. OpenUnits' = OpenUnits \ {x} /\ inUse' = inUse
        BY <2>1, <2>10, ReturnOpen DEF BeginFails, poolVars
      <3>2. x \notin OpenUnits
        BY <2>3, <2>10 DEF BeginFails, In
      <3> QED
        BY <3>1, <3>2
    <2>11. CASE Commit(j) \/ CommitFails(j) \/ Rollback(j)
      <3>1. (Return(j, "ok") \/ Return(j, "error")) /\ inUse' = inUse - 1 /\ f.pc # "begin"
        BY <2>11 DEF Commit, CommitFails, Rollback, Release, In
      <3>2. OpenUnits' = OpenUnits \ {x}
        BY <2>1, <3>1, ReturnOpen
      <3> QED
        BY <2>3, <3>1, <3>2
    <2> QED
      BY <1>1, <2>4, <2>5, <2>6, <2>7, <2>8, <2>9, <2>10, <2>11 DEF UowStep, UowProgress, UowFault
  <1>2. ASSUME NEW j \in Jobs, NEW u \in UseCases, CallUseCase(j, u)
        PROVE  inUse' = inUse /\ OpenUnits' = OpenUnits
    BY <1>2, PushOpen DEF CallUseCase, poolVars
  <1>3. ASSUME NEW j \in Jobs, WriteOutside(j)
        PROVE  inUse' = inUse /\ OpenUnits' = OpenUnits
    <2>1. ~(depth[j] > 0)
      BY <1>3 DEF WriteOutside, UowInv, Stack
    <2> QED
      BY <1>3, <2>1 DEF WriteOutside, ORM, poolVars, OpenUnits
  <1>4. ASSUME NEW e \in Events, NEW h \in Handlers, Subscribe(e, h)
        PROVE  inUse' = inUse /\ OpenUnits' = OpenUnits
    BY <1>4 DEF Subscribe, poolVars, OpenUnits
  <1> QED
    BY <1>1, <1>2, <1>3, <1>4 DEF UowAction

\* The steps that may change the state of the migration commands.
MigAction ==
    \/ \E j \in Jobs : MigStep(j)
    \/ \E j \in Jobs, op \in Ops : CallMigrator(j, op)

\* A migration command takes one connection at a time and gives it back,
\* except when the migration files cannot be read.
LEMMA MigPool ==
  ASSUME MigTypeOK, MigAction
  PROVE  /\ MigTypeOK'
         /\ closed' = closed
         /\ \/ inUse' = inUse /\ leaked' = leaked /\ Migrating' = Migrating
            \/ \E j \in Jobs : j \notin Migrating /\ inUse' = inUse + 1 /\ leaked' = leaked /\ Migrating' = Migrating \union {j}
            \/ \E j \in Migrating : inUse' = inUse - 1 /\ leaked' = leaked /\ Migrating' = Migrating \ {j}
            \/ \E j \in Migrating : inUse' = inUse /\ leaked' = leaked + 1 /\ Migrating' = Migrating \ {j}
  <1>1. PICK j \in Jobs : MigStep(j) \/ \E op \in Ops : CallMigrator(j, op)
    BY DEF MigAction
  <1>2. mig \in [Jobs -> MigStates] /\ leaked \in Nat /\ mig[j] \in MigStates
    BY DEF MigTypeOK
  <1>3. CASE (\E op \in Ops : CallMigrator(j, op)) \/ WithConnection(j) \/ NewWithDatabaseInstance(j)
             \/ RunOp(j) \/ RunOpFails(j) \/ ConnFails(j)
    BY <1>2, <1>3 DEF CallMigrator, WithConnection, NewWithDatabaseInstance, RunOp, RunOpFails, ConnFails,
                      MigTo, MigFail, poolVars, MigStates, Migrating, Holding, MigTypeOK
  <1>4. CASE Conn(j)
    BY <1>2, <1>4 DEF Conn, Acquire, MigTo, MigStates, Migrating, Holding, MigTypeOK
  <1>5. ASSUME mig' \in [Jobs -> MigStates], \A i \in Jobs \ {j} : mig'[i] = mig[i],
               mig[j].pc \in Holding, mig'[j].pc \notin Holding
        PROVE  j \in Migrating /\ Migrating' = Migrating \ {j}
    BY <1>5 DEF Migrating
  <1>6. CASE WithConnectionFails(j)
    <2>1. mig' \in [Jobs -> MigStates] /\ \A i \in Jobs \ {j} : mig'[i] = mig[i]
      BY <1>2, <1>6 DEF WithConnectionFails, MigFail, MigStates, Ops
    <2>2. mig[j].pc \in Holding /\ mig'[j].pc \notin Holding
      BY <1>2, <1>6 DEF WithConnectionFails, MigFail, MigStates, Holding
    <2>3. closed' = closed /\ inUse' = inUse - 1 /\ leaked' = leaked
      BY <1>6 DEF WithConnectionFails, Release, poolVars
    <2> QED
      BY <1>2, <1>5, <2>1, <2>2, <2>3 DEF MigTypeOK
  <1>7. CASE NewWithDatabaseInstanceFails(j)
    <2>1. mig' \in [Jobs -> MigStates] /\ \A i \in Jobs \ {j} : mig'[i] = mig[i]
      BY <1>2, <1>7 DEF NewWithDatabaseInstanceFails, MigFail, MigStates, Ops
    <2>2. mig[j].pc \in Holding /\ mig'[j].pc \notin Holding
      BY <1>2, <1>7 DEF NewWithDatabaseInstanceFails, MigFail, MigStates, Holding
    <2>3. closed' = closed /\ inUse' = inUse /\ leaked' = leaked + 1
      BY <1>7 DEF NewWithDatabaseInstanceFails, Release, poolVars
    <2> QED
      BY <1>2, <1>5, <2>1, <2>2, <2>3 DEF MigTypeOK
  <1>8. CASE Close(j)
    <2>1. mig' \in [Jobs -> MigStates] /\ \A i \in Jobs \ {j} : mig'[i] = mig[i]
      BY <1>2, <1>8 DEF Close, MigFail, MigStates, Ops
    <2>2. mig[j].pc \in Holding /\ mig'[j].pc \notin Holding
      BY <1>2, <1>8 DEF Close, MigFail, MigStates, Holding
    <2>3. closed' = closed /\ inUse' = inUse - 1 /\ leaked' = leaked
      BY <1>8 DEF Close, Release, poolVars
    <2> QED
      BY <1>2, <1>5, <2>1, <2>2, <2>3 DEF MigTypeOK
  <1> QED
    BY <1>1, <1>3, <1>4, <1>6, <1>7, <1>8 DEF MigStep, MigProgress, MigFault

=============================================================================
