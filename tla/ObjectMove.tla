----------------------------- MODULE ObjectMove -----------------------------
(***************************************************************************)
(* Moving and deleting objects (concrete/s3).  Move is a server-side copy, *)
(* a check that the destination exists, a copy through the process when it *)
(* does not, and the deletion of the source: four requests, between which  *)
(* other goroutines and clients with an upload URL go on.  The object      *)
(* store is modelled from how Move uses it: a request that fails may have  *)
(* been carried out, a copy may be reported and not be visible, and an     *)
(* object is not copied onto itself.                                       *)
(***************************************************************************)
EXTENDS Naturals

CONSTANTS
    Movers,               \* goroutines that call Move or Delete
    Keys,                 \* object keys
    Uploads,              \* contents that clients upload
    NoObject,             \* there is no object under a key
    Stored                \* Stored[k]: what is under k at first

Contents == Uploads \union {Stored[k] : k \in Keys}

ASSUME MoveAssumption ==
    /\ NoObject \notin Uploads
    /\ Stored \in [Keys -> Contents]

VARIABLES
    objects,              \* objects[k]: content under key k
    uploads,              \* uploads still to come
    mv,                   \* mv[j]: the Move or Delete of j
    \* history
    orig, before,         \* orig[j], before[j]: source and destination when j's Move began
    alone                 \* alone[j]: all that happened to the two keys of j's Move is j's doing

storeVars == <<objects, uploads>>
moveVars == <<objects, uploads, mv, orig, before, alone>>

MoveStages == {"idle", "copy", "head", "get", "put", "delete", "deleteOnly", "ok", "error"}
Ended == {"ok", "error"}
MoveStates == [pc: MoveStages, src: Keys \union {NoObject}, dst: Keys \union {NoObject},
               body: Contents \union {NoObject}]

\* The types of the state.
MoveTypeOK ==
    /\ objects \in [Keys -> Contents \union {NoObject}]
    /\ uploads \in SUBSET Uploads
    /\ mv \in [Movers -> MoveStates]
    /\ orig \in [Movers -> Contents \union {NoObject}]
    /\ before \in [Movers -> Contents \union {NoObject}]
    /\ alone \in [Movers -> BOOLEAN]

MoveInit ==
    /\ objects = Stored
    /\ uploads \in SUBSET Uploads
    /\ mv = [j \in Movers |-> [pc |-> "idle", src |-> NoObject, dst |-> NoObject, body |-> NoObject]]
    /\ orig = [j \in Movers |-> NoObject]
    /\ before = [j \in Movers |-> NoObject]
    /\ alone = [j \in Movers |-> TRUE]

-----------------------------------------------------------------------------
(* The object store *)

\* Everybody whose Move is about key k, except those in who, no longer has k for itself.
Touch(k, who) ==
    alone' = [i \in Movers |-> alone[i] /\ (i \in who \/ k \notin {mv[i].src, mv[i].dst})]

\* k gets content c, which is NoObject for a deletion.
Store(j, k, c) ==
    /\ objects' = [objects EXCEPT ![k] = c]
    /\ Touch(k, {j})

NoStore == UNCHANGED <<objects, alone>>

MoveTo(j, pc) == mv' = [mv EXCEPT ![j].pc = pc]

\* A client uploads through a URL from UploadURL.
Upload(k, c) ==
    /\ c \in uploads
    /\ uploads' = uploads \ {c}
    /\ objects' = [objects EXCEPT ![k] = c]
    /\ Touch(k, {})
    /\ UNCHANGED <<mv, orig, before>>

-----------------------------------------------------------------------------
(* Move and Delete *)

CallMove(j, src, dst) ==
    /\ mv[j].pc = "idle"
    /\ mv' = [mv EXCEPT ![j].pc = "copy", ![j].src = src, ![j].dst = dst]
    /\ orig' = [orig EXCEPT ![j] = objects[src]]
    /\ before' = [before EXCEPT ![j] = objects[dst]]
    /\ UNCHANGED <<storeVars, alone>>

CallDelete(j, k) ==
    /\ mv[j].pc = "idle"
    /\ mv' = [mv EXCEPT ![j].pc = "deleteOnly", ![j].src = k]
    /\ UNCHANGED <<storeVars, orig, before, alone>>

Copyable(j) == mv[j].src # mv[j].dst /\ objects[mv[j].src] # NoObject

\* CopyObject succeeds.
CopyObject(j) ==
    /\ mv[j].pc = "copy"
    /\ Copyable(j)
    /\ Store(j, mv[j].dst, objects[mv[j].src])
    /\ MoveTo(j, "head")
    /\ UNCHANGED <<uploads, orig, before>>

\* CopyObject reports success and nothing is visible.  HeadObject then takes
\* an object that was already under the destination for the copy.
CopyInvisible(j) ==
    /\ mv[j].pc = "copy"
    /\ Copyable(j)
    /\ NoStore
    /\ MoveTo(j, "head")
    /\ UNCHANGED <<uploads, orig, before>>

\* CopyObject fails: there is no source, or an error after which the copy may exist.
CopyFails(j) ==
    /\ mv[j].pc = "copy"
    /\ \/ NoStore
       \/ Copyable(j) /\ Store(j, mv[j].dst, objects[mv[j].src])
    /\ MoveTo(j, "error")
    /\ UNCHANGED <<uploads, orig, before>>

HeadObject(j) ==
    /\ mv[j].pc = "head"
    /\ objects[mv[j].dst] # NoObject
    /\ MoveTo(j, "delete")
    /\ UNCHANGED <<storeVars, orig, before, alone>>

\* Variant: a copy that cannot be seen is taken for a success.
HeadUnverified(j) ==
    /\ mv[j].pc = "head"
    /\ MoveTo(j, "delete")
    /\ UNCHANGED <<storeVars, orig, before, alone>>

\* HeadObject fails: no such object, or any other error.
HeadFails(j) ==
    /\ mv[j].pc = "head"
    /\ MoveTo(j, "get")
    /\ UNCHANGED <<storeVars, orig, before, alone>>

\* copyObjectByStreaming: GetObject and ReadAll.
GetObject(j) ==
    /\ mv[j].pc = "get"
    /\ objects[mv[j].src] # NoObject
    /\ mv' = [mv EXCEPT ![j].pc = "put", ![j].body = objects[mv[j].src]]
    /\ UNCHANGED <<storeVars, orig, before, alone>>

GetFails(j) ==
    /\ mv[j].pc = "get"
    /\ MoveTo(j, "error")
    /\ UNCHANGED <<storeVars, orig, before, alone>>

PutObject(j) ==
    /\ mv[j].pc = "put"
    /\ Store(j, mv[j].dst, mv[j].body)
    /\ MoveTo(j, "delete")
    /\ UNCHANGED <<uploads, orig, before>>

PutFails(j) ==
    /\ mv[j].pc = "put"
    /\ NoStore \/ Store(j, mv[j].dst, mv[j].body)
    /\ MoveTo(j, "error")
    /\ UNCHANGED <<uploads, orig, before>>

\* DeleteObject, at the end of Move or by itself; it succeeds without an object too.
DeleteObject(j) ==
    /\ mv[j].pc \in {"delete", "deleteOnly"}
    /\ Store(j, mv[j].src, NoObject)
    /\ MoveTo(j, "ok")
    /\ UNCHANGED <<uploads, orig, before>>

DeleteFails(j) ==
    /\ mv[j].pc \in {"delete", "deleteOnly"}
    /\ NoStore \/ Store(j, mv[j].src, NoObject)
    /\ MoveTo(j, "error")
    /\ UNCHANGED <<uploads, orig, before>>

MoveProgress(j) ==
    CopyObject(j) \/ HeadObject(j) \/ GetObject(j) \/ PutObject(j) \/ DeleteObject(j)

MoveFault(j) ==
    \/ CopyInvisible(j) \/ CopyFails(j) \/ HeadFails(j) \/ GetFails(j) \/ PutFails(j) \/ DeleteFails(j)

MoveStep(j) == MoveProgress(j) \/ MoveFault(j)

-----------------------------------------------------------------------------
(* Properties *)

IsMove(j) == mv[j].dst # NoObject

\* The object j found under its destination is still there, in the place of
\* the copy that HeadObject took it for.
Shadowed(j) == before[j] # NoObject /\ objects[mv[j].dst] = before[j]

\* While nobody else changes the two keys, and whatever fails and however
\* often requests that failed were carried out: a Move onto a vacant
\* destination never loses the object (its content is under the source or
\* under the destination, and a Move that returned nil has moved it), and a
\* Move of nothing returns an error.  A Move onto an existing object may lose
\* the one it moves, in one way only: the source is deleted although the
\* destination holds what it held before, because HeadObject asks whether an
\* object is there and not which (S3.Move, s3.go:131-142).
MoveKeepsContent ==
    \A j \in Movers :
        IsMove(j) /\ alone[j] =>
            /\ orig[j] \in {objects[mv[j].src], objects[mv[j].dst]} \/ Shadowed(j)
            /\ mv[j].pc = "ok" => /\ orig[j] # NoObject
                                  /\ objects[mv[j].dst] = orig[j] \/ Shadowed(j)
                                  /\ objects[mv[j].src] = NoObject
=============================================================================
