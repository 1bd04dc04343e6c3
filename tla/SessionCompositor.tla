------------------------- MODULE SessionCompositor -------------------------
(***************************************************************************)
(* The other side of ext-session-lock-v1 as breadlock uses it: the         *)
(* compositor, outside this repository.  It hides the session and sends    *)
(* `locked', refuses and sends `finished', or ends a lock it had granted   *)
(* by other means of its own and sends `finished'.  unlock_and_destroy     *)
(* before `locked' was sent is a protocol error that ends the connection.  *)
(***************************************************************************)
EXTENDS Naturals, Sequences

VARIABLES
    session,     \* "open", "locked", "opened" on request of the locker,
                 \* "dismissed" by the compositor itself
    lockObject,  \* the ext_session_lock_v1 object: "asked", "active",
                 \* "inert" after `finished', "gone", or "error"
    toClient,    \* events of that object the client has not dispatched
    unlockReq    \* unlock_and_destroy: "none", "queued" in the client's
                 \* buffer, "sent", "served"

compositorVars == <<session, lockObject, toClient, unlockReq>>

CompositorTypeOK ==
    /\ session \in {"open", "locked", "opened", "dismissed"}
    /\ lockObject \in {"asked", "active", "inert", "gone", "error"}
    /\ toClient \in Seq({"locked", "finished"})
    /\ unlockReq \in {"none", "queued", "sent", "served"}

\* The client has just sent ext_session_lock_manager_v1.lock.
CompositorInit ==
    /\ session = "open"
    /\ lockObject = "asked"
    /\ toClient = <<>>
    /\ unlockReq = "none"

Grant ==
    /\ lockObject = "asked"
    /\ lockObject' = "active"
    /\ session' = "locked"
    /\ toClient' = Append(toClient, "locked")
    /\ UNCHANGED unlockReq

Refuse ==
    /\ lockObject = "asked"
    /\ lockObject' = "inert"
    /\ toClient' = Append(toClient, "finished")
    /\ UNCHANGED <<session, unlockReq>>

Dismiss ==
    /\ lockObject = "active"
    /\ lockObject' = "inert"
    /\ session' = "dismissed"
    /\ toClient' = Append(toClient, "finished")
    /\ UNCHANGED unlockReq

\* The only way from "locked" to "opened".
ReceiveUnlock ==
    /\ unlockReq = "sent"
    /\ unlockReq' = "served"
    /\ \/ /\ lockObject = "active"
          /\ session' = "opened"
          /\ lockObject' = "gone"
       \/ /\ lockObject = "inert"
          /\ lockObject' = IF session = "open" THEN "error" ELSE "gone"
          /\ UNCHANGED session
       \/ /\ lockObject = "asked"
          /\ lockObject' = "error"
          /\ UNCHANGED session
    /\ UNCHANGED toClient
=============================================================================
