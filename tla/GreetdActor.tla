---------------------------- MODULE GreetdActor ----------------------------
(***************************************************************************)
(* The greetd actor of breadgreet (greetd/mod.rs) and its client           *)
(* (greetd/client.rs): a task that takes the commands of the user          *)
(* interface from a channel, one at a time, makes each a roundtrip to      *)
(* greetd and emits what came of it.                                       *)
(*                                                                         *)
(* A roundtrip is given up after DEFAULT_ROUNDTRIP_TIMEOUT and costs the   *)
(* connection; the wait for greetd's answer to CancelSession has no limit. *)
(* Connecting is taken to be immediate.                                    *)
(***************************************************************************)
EXTENDS GreetdPeer, Sequences

CONSTANT MaxSessions    \* sessions are numbered 0..MaxSessions - 1

ASSUME SessionsAssumption == MaxSessions \in Nat

VARIABLES
    cmds,       \* the command channel, from the user interface
    inbox,      \* the input channel of the user interface
    client,     \* "none", "up", or "broken" when the socket has died
    actor,      \* "starting", "idle", "waiting" for an answer, "cancelling",
                \* or "failing": cancelling before an error is reported
    req         \* the command whose answer is awaited

actorVars == <<cmds, inbox, client, actor, req>>

Create(user) == [type |-> "CreateSession", arg |-> user]
Respond(n) == [type |-> "Respond", arg |-> n]     \* 1: Some(text), 0: None
Start(session) == [type |-> "StartSession", arg |-> session]
Cancel == [type |-> "CancelSession", arg |-> 0]
NoReq == [type |-> "none", arg |-> 0]

Commands ==
    {Create(u) : u \in Users} \union {Respond(n) : n \in 0..1} \union
    {Start(s) : s \in 0..(MaxSessions - 1)} \union {Cancel}

Event(type) == [type |-> type, arg |-> 0]

Events == {Event(t) : t \in Prompts \union {"Success", "Failure", "Started"}}

ActorTypeOK ==
    /\ cmds \in Seq(Commands)
    /\ client \in {"none", "up", "broken"}
    /\ actor \in {"starting", "idle", "waiting", "cancelling", "failing"}
    /\ req \in (Commands \ {Cancel}) \union {NoReq}
    /\ actor = "waiting" <=> req # NoReq
    /\ actor \in {"waiting", "cancelling", "failing"} => client # "none"

\* The first connect may have failed by the time the interface is up.
ActorInit ==
    /\ cmds = <<>>
    /\ client = "none"
    /\ actor \in {"starting", "idle"}
    /\ req = NoReq

Emit(type) == inbox' = Append(inbox, Event(type))

\* The first connect: a failure is reported and the actor lives on.
ActorStarts ==
    /\ actor = "starting"
    /\ actor' = "idle"
    /\ \/ client' = "up" /\ UNCHANGED inbox
       \/ Emit("Failure") /\ UNCHANGED client
    /\ UNCHANGED <<cmds, req, peerVars>>

\* CancelSession without a connection is dropped.
ActorCancels ==
    /\ actor = "idle"
    /\ cmds # <<>>
    /\ Head(cmds) = Cancel
    /\ cmds' = Tail(cmds)
    /\ actor' = IF client = "none" THEN "idle" ELSE "cancelling"
    /\ UNCHANGED <<inbox, client, req, peerVars>>

\* Any other command is sent, after a reconnect when one is needed; when
\* that fails the command is dropped and the failure reported.
ActorSends ==
    /\ actor = "idle"
    /\ cmds # <<>>
    /\ Head(cmds) # Cancel
    /\ cmds' = Tail(cmds)
    /\ \/ /\ client' = IF client = "none" THEN "up" ELSE client
          /\ actor' = "waiting"
          /\ req' = Head(cmds)
          /\ UNCHANGED inbox
       \/ /\ client = "none"
          /\ Emit("Failure")
          /\ UNCHANGED <<client, actor, req>>
    /\ UNCHANGED peerVars

\* greetd answers.  An error of its own is cancelled before it is reported.
Answered(resp) ==
    /\ actor = "waiting"
    /\ client = "up"
    /\ CASE req.type = "CreateSession" -> AnswerCreate(req.arg, resp)
         [] req.type = "Respond" -> AnswerRespond(resp)
         [] req.type = "StartSession" -> AnswerStart(resp)
    /\ req' = NoReq
    /\ IF resp = "Refused"
       THEN actor' = "failing" /\ UNCHANGED inbox
       ELSE /\ actor' = "idle"
            /\ Emit(IF req.type = "StartSession" THEN "Started" ELSE resp)
    /\ UNCHANGED <<cmds, client>>

\* Mutant: a roundtrip is waited for without a limit.
NeverTimedOut ==
    /\ actor = "waiting"
    /\ client = "broken"
    /\ client' = "none"
    /\ actor' = "idle"
    /\ req' = NoReq
    /\ Emit("Failure")
    /\ EndConversation
    /\ UNCHANGED cmds

\* The roundtrip times out or the socket has died: the client is dropped,
\* and with it the conversation.
RoundtripLost ==
    /\ actor = "waiting"
    /\ client' = "none"
    /\ actor' = "idle"
    /\ req' = NoReq
    /\ Emit("Failure")
    /\ EndConversation
    /\ UNCHANGED cmds

CancelDone ==
    /\ actor' = "idle"
    /\ IF actor = "failing" THEN Emit("Failure") ELSE UNCHANGED inbox
    /\ EndConversation
    /\ UNCHANGED <<cmds, client, req>>

\* cancel_session reads greetd's answer ...
CancelAnswered ==
    /\ actor \in {"cancelling", "failing"}
    /\ client = "up"
    /\ CancelDone

\* ... or finds the socket dead, and ignores it: the client is kept.
CancelFails ==
    /\ actor \in {"cancelling", "failing"}
    /\ client = "broken"
    /\ CancelDone

\* greetd goes away, or closes the socket.
ConnectionBreaks ==
    /\ client = "up"
    /\ client' = "broken"
    /\ EndConversation
    /\ UNCHANGED <<cmds, inbox, actor, req>>

Actor ==
    \/ ActorStarts
    \/ ActorCancels
    \/ ActorSends
    \/ \E resp \in Prompts \union {"Success", "Refused"} : Answered(resp)
    \/ RoundtripLost
    \/ CancelAnswered
    \/ CancelFails
    \/ ConnectionBreaks
=============================================================================
