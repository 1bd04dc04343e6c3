------------------------------ MODULE Greeter ------------------------------
(***************************************************************************)
(* The user interface of breadgreet (breadgreet/src/main.rs) composed with *)
(* the greetd actor.  Widgets and the actor put messages into one input    *)
(* channel; `update' takes them in order, each against the stage the       *)
(* interface is in by then, and answers with commands to the actor.  The   *)
(* events carry nothing that says which conversation they belong to.       *)
(*                                                                         *)
(* Labels, icons and the clock are left out, and so is pam_status_held,    *)
(* which only decides how long a label stays.  Text is abstracted to the   *)
(* account it names.  The command channel is never closed while the        *)
(* process runs, since run_actor returns only when its sender is dropped.  *)
(***************************************************************************)
EXTENDS GreetdActor

CONSTANTS
    MaxInbox,       \* bound: the user waits while this many inputs queue
    MaxCmds         \* bound: the user waits while this many commands queue

ASSUME QueueAssumption == MaxInbox \in Nat /\ MaxCmds \in Nat

VARIABLES
    stage,          \* Stage
    username,       \* username, 0 when empty; in auto mode the account that
                    \* user_idx selects
    sensitive,      \* the entry accepts input
    selected,       \* the session the picker shows
    typed,          \* typed_mode(): no account was resolved at start
    sessions,       \* the number of sessions found at start
    exited          \* process::exit was reached

uiVars == <<stage, username, sensitive, selected, typed, sessions, exited>>

vars == <<actorVars, peerVars, uiVars>>

Stages == {"Username", "Prompt", "Working", "Starting"}

\* Inputs of the widgets, next to the events of the actor.
UserInputs ==
    {Event("Submit"), Event("Cancel"), Event("AutoStart")} \union
    {[type |-> "UserSelected", arg |-> u] : u \in Users} \union
    {[type |-> "SessionSelected", arg |-> s] : s \in 0..MaxSessions}

TypeOK ==
    /\ PeerTypeOK
    /\ ActorTypeOK
    /\ inbox \in Seq(Events \union UserInputs)
    /\ stage \in Stages
    /\ username \in 0..MaxUsers
    /\ sensitive \in BOOLEAN
    /\ typed \in BOOLEAN
    /\ sessions \in 0..MaxSessions
    /\ selected \in {0} \union 0..(sessions - 1)
    /\ exited \in BOOLEAN

\* init.  The actor is spawned before AutoStart is sent, and may be heard
\* first.
Init ==
    /\ PeerInit
    /\ ActorInit
    /\ typed \in BOOLEAN
    /\ sessions \in {0, MaxSessions}
    /\ stage = IF typed THEN "Username" ELSE "Working"
    /\ username = IF typed THEN 0 ELSE 1
    /\ sensitive = (typed /\ sessions > 0)
    /\ selected = 0
    /\ exited = FALSE
    /\ LET early == IF actor = "idle" THEN <<Event("Failure")>> ELSE <<>>
       IN  inbox = IF typed THEN early ELSE Append(early, Event("AutoStart"))

Running == ~exited
-----------------------------------------------------------------------------
\* The user.  Only an entry that is sensitive emits `activate'.
Send(m) ==
    /\ Running
    /\ Len(inbox) < MaxInbox
    /\ Len(cmds) < MaxCmds
    /\ inbox' = Append(inbox, m)
    /\ UNCHANGED <<cmds, client, actor, req, peerVars, uiVars>>

PressEnter == sensitive /\ Send(Event("Submit"))

PressEscape == Send(Event("Cancel"))

PickUser(u) == ~typed /\ Send([type |-> "UserSelected", arg |-> u])

PickSession(s) == sessions > 0 /\ Send([type |-> "SessionSelected", arg |-> s])
-----------------------------------------------------------------------------
\* update takes the next input.
Update(type) ==
    /\ Running
    /\ inbox # <<>>
    /\ Head(inbox).type = type
    /\ inbox' = Tail(inbox)
    /\ UNCHANGED <<client, actor, req, peerVars, typed, sessions>>

\* Mutant: a reset forgets to cancel the conversation.
ResetAuthWithoutCancel(queue) ==
    IF typed
    THEN /\ cmds' = queue
         /\ stage' = "Username"
         /\ username' = 0
         /\ sensitive' = (sessions > 0)
    ELSE /\ cmds' = IF sessions > 0 THEN Append(queue, Create(username))
                                    ELSE queue
         /\ stage' = "Working"
         /\ sensitive' = FALSE
         /\ UNCHANGED username

\* reset_auth, after the commands in `queue': cancel, and start over.
ResetAuth(queue) ==
    IF typed
    THEN /\ cmds' = Append(queue, Cancel)
         /\ stage' = "Username"
         /\ username' = 0
         /\ sensitive' = (sessions > 0)
    ELSE /\ cmds' = IF sessions > 0
                    THEN queue \o <<Cancel, Create(username)>>
                    ELSE Append(queue, Cancel)
         /\ stage' = "Working"
         /\ sensitive' = FALSE
         /\ UNCHANGED username

ShowError == ResetAuth(cmds)

\* Mutant: the entry stays as it is while a command is in flight.
DispatchKeepsEntry(cmd, nextStage) ==
    /\ cmds' = Append(cmds, cmd)
    /\ stage' = nextStage
    /\ UNCHANGED sensitive

Dispatch(cmd, nextStage) ==
    /\ cmds' = Append(cmds, cmd)
    /\ stage' = nextStage
    /\ sensitive' = FALSE

Ignore == UNCHANGED <<cmds, stage, username, sensitive>>

\* handle_submit in the username stage, with the text of the entry.
SubmitName(text) ==
    CASE sessions = 0 -> ShowError
      [] sessions > 0 /\ text = 0 -> Ignore
      [] OTHER -> /\ username' = text
                  /\ Dispatch(Create(text), "Working")

SubmitAnswer == Dispatch(Respond(1), "Working") /\ UNCHANGED username

HandleSubmit ==
    /\ Update("Submit")
    /\ CASE stage = "Username" -> \E text \in 0..MaxUsers : SubmitName(text)
         [] stage = "Prompt" -> SubmitAnswer
         [] OTHER -> Ignore
    /\ UNCHANGED <<selected, exited>>

\* Mutant: an informational message is shown and not acknowledged.
HandleNoticeSilently(kind) ==
    /\ Update(kind)
    /\ Ignore
    /\ UNCHANGED <<selected, exited>>

\* handle_prompt: a message is shown and acknowledged, whatever the stage.
HandleNotice(kind) ==
    /\ Update(kind)
    /\ cmds' = Append(cmds, Respond(0))
    /\ UNCHANGED <<stage, username, sensitive, selected, exited>>

\* handle_prompt and show_auth_entry, whatever the stage.
HandleQuestion(kind) ==
    /\ Update(kind)
    /\ stage' = "Prompt"
    /\ sensitive' = TRUE
    /\ UNCHANGED <<cmds, username, selected, exited>>

\* start_session, whatever the stage.
HandleSuccess ==
    /\ Update("Success")
    /\ IF selected < sessions
       THEN Dispatch(Start(selected), "Starting") /\ UNCHANGED username
       ELSE ResetAuth(Append(cmds, Cancel))
    /\ UNCHANGED <<selected, exited>>

\* Mutant: an error is not let through once StartSession has been sent.
HandleFailureUnlessStarting ==
    /\ Update("Failure")
    /\ IF stage = "Starting" THEN Ignore ELSE ShowError
    /\ UNCHANGED <<selected, exited>>

\* show_error.
HandleFailure ==
    /\ Update("Failure")
    /\ ShowError
    /\ UNCHANGED <<selected, exited>>

HandleStarted ==
    /\ Update("Started")
    /\ exited' = TRUE
    /\ UNCHANGED <<cmds, stage, username, sensitive, selected>>

HandleAutoStart ==
    /\ Update("AutoStart")
    /\ IF sessions = 0
       THEN stage' = "Username" /\ UNCHANGED cmds
       ELSE cmds' = Append(cmds, Create(username)) /\ UNCHANGED stage
    /\ UNCHANGED <<username, sensitive, selected, exited>>

\* A position outside the list, MaxSessions here, is ignored.
HandleSessionSelected ==
    /\ Update("SessionSelected")
    /\ selected' = IF Head(inbox).arg < sessions THEN Head(inbox).arg
                                                 ELSE selected
    /\ UNCHANGED <<cmds, stage, username, sensitive, exited>>

\* switch_user: cancel, and open a conversation for the other account.
HandleUserSelected ==
    LET user == Head(inbox).arg IN
    /\ Update("UserSelected")
    /\ IF stage = "Starting" \/ user = username
       THEN Ignore
       ELSE /\ username' = user
            /\ cmds' = cmds \o <<Cancel, Create(user)>>
            /\ stage' = "Working"
            /\ sensitive' = FALSE
    /\ UNCHANGED <<selected, exited>>

\* cancel_auth.
HandleCancel ==
    /\ Update("Cancel")
    /\ IF stage \in {"Prompt", "Working"} THEN ResetAuth(cmds) ELSE Ignore
    /\ UNCHANGED <<selected, exited>>

User ==
    \/ PressEnter
    \/ PressEscape
    \/ \E u \in Users : PickUser(u)
    \/ \E s \in 0..MaxSessions : PickSession(s)

UpdateAny ==
    \/ HandleSubmit
    \/ \E kind \in Notices : HandleNotice(kind)
    \/ \E kind \in Questions : HandleQuestion(kind)
    \/ HandleSuccess
    \/ HandleFailure
    \/ HandleStarted
    \/ HandleAutoStart
    \/ HandleSessionSelected
    \/ HandleUserSelected
    \/ HandleCancel

ActorStep == Running /\ Actor /\ UNCHANGED uiVars

Next == User \/ UpdateAny \/ ActorStep

Spec == Init /\ [][Next]_vars

(***************************************************************************)
(* The interface handles its inputs and the actor its commands; a timeout  *)
(* elapses and a dead socket is noticed.  Nothing is assumed of greetd or  *)
(* of the user.                                                            *)
(***************************************************************************)
Fairness ==
    /\ WF_vars(UpdateAny)
    /\ WF_vars(ActorStep /\ ActorStarts)
    /\ WF_vars(ActorStep /\ ActorCancels)
    /\ WF_vars(ActorStep /\ ActorSends)
    /\ WF_vars(ActorStep /\ RoundtripLost)
    /\ WF_vars(ActorStep /\ CancelFails)

FairSpec == Spec /\ Fairness

\* greetd answers a CancelSession, though no other request need be.
FairPeerSpec == FairSpec /\ WF_vars(ActorStep /\ CancelAnswered)
-----------------------------------------------------------------------------
\* A command that will be answered is queued, or its event is.
Asked == \E i \in DOMAIN cmds : cmds[i] # Cancel

News == \E i \in DOMAIN inbox : inbox[i] \in Events \union {Event("AutoStart")}

Outstanding == actor \in {"waiting", "failing"} \/ Asked \/ News

\* The last command the interface has sent, as long as it is not answered.
Newest == IF cmds # <<>> THEN cmds[Len(cmds)] ELSE req

(* The spinner never turns with nothing to wait for: in the stages that    *)
(* take no input, an event is still to come, whatever stale events, errors *)
(* and user switches came in between.                                      *)
BusyHasWork ==
    Running /\ stage \in {"Working", "Starting"} /\ sessions > 0 => Outstanding

(* Input is on exactly in the stages that ask for it: an entry left        *)
(* disabled in the Prompt stage would leave the user without a way to log  *)
(* in, one left enabled in the others would send answers to nothing.       *)
EntryFollowsStage ==
    sensitive <=> stage = "Prompt" \/ (stage = "Username" /\ typed
                                         /\ sessions > 0)

(* In typed mode greetd is never asked to create a session while a         *)
(* conversation is open: whatever stale events arrive, reset_auth has      *)
(* cancelled the one before.                                               *)
TypedNeverStacks ==
    typed /\ actor = "waiting" /\ req.type = "CreateSession" => conv = NoConv

(* The comment on reset_auth: the stale conversation is cancelled first,   *)
(* so that the next CreateSession does not stack on a half-done one.       *)
CreateNeverStacks ==
    actor = "waiting" /\ req.type = "CreateSession" => conv = NoConv

(* The comment on sync_busy: the spinner, on in the Working and Starting   *)
(* stages, runs exactly while a request is in flight.                      *)
SpinnerMeansRequest ==
    Running /\ stage \in {"Working", "Starting"} =>
        Outstanding \/ actor = "cancelling" \/ cmds # <<>>

(* The comment on Stage::Working: a request is in flight, and input is     *)
(* disabled so that a second Enter cannot race it.                         *)
WorkingWhileRequested ==
    Newest.type \in {"CreateSession", "Respond"} => stage = "Working"

(* The comment on Stage::Starting: StartSession has been sent, and Escape  *)
(* must not cancel.                                                        *)
StartingStands == Newest.type = "StartSession" => stage = "Starting"

(* The comment on DEFAULT_ROUNDTRIP_TIMEOUT: a wedged peer must not wedge  *)
(* the greeter.  Working ends or the interface hears from the actor.       *)
NeverWedged ==
    stage = "Working" /\ sessions > 0
        ~> (stage # "Working" \/ inbox # <<>> \/ exited)

(* StartSession is answered: the process exits or says what went wrong.    *)
StartingEnds == stage = "Starting" ~> (stage # "Starting" \/ exited)
-----------------------------------------------------------------------------
(* The inductive strengthening of the invariants above: AutoStart comes    *)
(* before anything but the error of the first connect, in auto mode only,  *)
(* where an account is always selected.                                    *)
KickComesFirst ==
    \A i \in DOMAIN inbox :
        inbox[i].type = "AutoStart" =>
            /\ ~typed
            /\ stage = "Working"
            /\ \A j \in 1..(i - 1) : inbox[j] = Event("Failure")

AutoHasUser == ~typed => username \in Users

IInv ==
    /\ TypeOK
    /\ AutoHasUser
    /\ BusyHasWork
    /\ EntryFollowsStage
    /\ KickComesFirst

(* The strengthening of TypedNeverStacks, in typed mode.  Whatever opens a *)
(* conversation has a place: 0 is the one greetd may have when the actor   *)
(* is done with what it is at, then come the commands in the queue, and    *)
(* last what the user may enter.  Between any two stands a CancelSession.  *)
MayBeOpen ==
    /\ actor \notin {"cancelling", "failing"}
    /\ conv # NoConv \/ (actor = "waiting" /\ req.type = "CreateSession")

Opens(queue, open, entry, i) ==
    \/ i = 0 /\ open
    \/ i \in DOMAIN queue /\ queue[i].type = "CreateSession"
    \/ i = Len(queue) + 1 /\ entry

Apart(queue, open, entry) ==
    \A i, k \in 0..(Len(queue) + 1) :
        i < k /\ Opens(queue, open, entry, i) /\ Opens(queue, open, entry, k)
            => \E j \in (i + 1)..(k - 1) : queue[j] = Cancel

CreatesApart == typed => Apart(cmds, MayBeOpen, stage = "Username")

(* A conversation belongs to a connection.                                 *)
ConvHasClient == conv # NoConv => client # "none"

StackInv == CreatesApart /\ ConvHasClient /\ TypedNeverStacks

(* The greeter leaves the screen only when greetd has started a session,   *)
(* whatever stale events, errors and resets came in between.               *)
ExitMeansStarted == exited => started \in Users

(* The strengthening: no news of a start without one.                      *)
StartedIsTrue ==
    (\E i \in DOMAIN inbox : inbox[i] = Event("Started")) => started \in Users

LeaveInv == ExitMeansStarted /\ StartedIsTrue
=============================================================================
