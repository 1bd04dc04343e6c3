--------------------------- MODULE GreeterProofs ---------------------------
(***************************************************************************)
(* IInv is an inductive invariant of Greeter, for every number of          *)
(* accounts and sessions and for every queue bound: the greeter never      *)
(* waits for nothing, and its entry accepts input exactly when it asks.    *)
(* StackInv is inductive on top of it: in typed mode conversations never   *)
(* stack.                                                                  *)
(***************************************************************************)
EXTENDS Greeter, SequenceTheorems, TLAPS

Inputs == Events \union UserInputs

(* What Append and Tail do to a queue.                                     *)
LEMMA QueueAppend ==
    ASSUME NEW S, NEW q \in Seq(S), NEW x \in S
    PROVE  /\ Append(q, x) \in Seq(S)
           /\ Len(q) \in Nat
           /\ DOMAIN q = 1..Len(q)
           /\ DOMAIN Append(q, x) = 1..(Len(q) + 1)
           /\ \A i \in DOMAIN q : Append(q, x)[i] = q[i]
           /\ Append(q, x)[Len(q) + 1] = x
  OBVIOUS

LEMMA ShortAppend ==
    ASSUME NEW S, NEW x \in S, NEW y \in S
    PROVE  Append(<<>>, x) = <<x>> /\ Append(<<y>>, x) = <<y, x>>
<1>1. Append(<<>>, x) = <<x>>
  OBVIOUS
<1>2. Append(<<y>>, x) = <<y, x>>
  <2>1. /\ Append(<<y>>, x) \in Seq(S) /\ <<y, x>> \in Seq(S)
        /\ Len(Append(<<y>>, x)) = 2 /\ Len(<<y, x>>) = 2
        /\ Append(<<y>>, x)[1] = y /\ Append(<<y>>, x)[2] = x
    OBVIOUS
  <2>2. \A i \in 1..2 : Append(<<y>>, x)[i] = <<y, x>>[i]
    BY <2>1
  <2>3. QED
    BY <2>1, <2>2, SeqEqual
<1>3. QED
  BY <1>1, <1>2

LEMMA PairAppend ==
    ASSUME NEW S, NEW q \in Seq(S), NEW x \in S, NEW y \in S
    PROVE  q \o <<x, y>> = Append(Append(q, x), y)
  OBVIOUS

LEMMA QueueTail ==
    ASSUME NEW S, NEW q \in Seq(S), q # <<>>
    PROVE  /\ Tail(q) \in Seq(S)
           /\ Len(q) \in Nat \ {0}
           /\ Head(q) = q[1] /\ Head(q) \in S
           /\ DOMAIN q = 1..Len(q)
           /\ DOMAIN Tail(q) = 1..(Len(q) - 1)
           /\ \A i \in DOMAIN Tail(q) : Tail(q)[i] = q[i + 1]
  OBVIOUS

(* The messages and commands the handlers build.                           *)
LEMMA Vocabulary ==
    /\ \A t \in Prompts \union {"Success", "Failure", "Started"} :
           Event(t) \in Events
    /\ Events \subseteq Inputs
    /\ \A u \in Users : Create(u) \in Commands /\ Create(u) # Cancel
    /\ \A n \in 0..1 : Respond(n) \in Commands /\ Respond(n) # Cancel
    /\ \A s \in 0..(MaxSessions - 1) :
           Start(s) \in Commands /\ Start(s) # Cancel
    /\ Cancel \in Commands
    /\ \A m \in Events : m.type # "AutoStart"
    /\ \A m \in Inputs :
           m.type \in {"AutoStart", "Failure"} => m = Event(m.type)
    /\ \A m \in Inputs : m.type = "UserSelected" => m.arg \in Users
    /\ \A m \in Inputs : m.type = "SessionSelected" => m.arg \in 0..MaxSessions
    /\ \A m \in Inputs :
           m.type \in {"Submit", "Cancel", "UserSelected", "SessionSelected"}
               => m \notin Events \union {Event("AutoStart")}
<1>1. \A t \in Prompts \union {"Success", "Failure", "Started"} :
          Event(t) \in Events
  BY DEF Events
<1>2. Events \subseteq Inputs
  BY DEF Inputs
<1>3. \A u \in Users : Create(u) \in Commands /\ Create(u) # Cancel
  BY DEF Create, Cancel, Commands
<1>4. \A n \in 0..1 : Respond(n) \in Commands /\ Respond(n) # Cancel
  BY DEF Respond, Cancel, Commands
<1>5. \A s \in 0..(MaxSessions - 1) :
          Start(s) \in Commands /\ Start(s) # Cancel
  BY DEF Start, Cancel, Commands
<1>6. Cancel \in Commands
  BY DEF Commands
<1>7. \A m \in Events :
          /\ m.type \in Prompts \union {"Success", "Failure", "Started"}
          /\ m = Event(m.type)
  BY DEF Events, Event
<1>8. \A m \in UserInputs :
          \/ m \in {Event("Submit"), Event("Cancel"), Event("AutoStart")}
          \/ m.type = "UserSelected" /\ m.arg \in Users
          \/ m.type = "SessionSelected" /\ m.arg \in 0..MaxSessions
  BY DEF UserInputs
<1>9. \A m \in {Event("Submit"), Event("Cancel"), Event("AutoStart")} :
          m.type \in {"Submit", "Cancel", "AutoStart"} /\ m = Event(m.type)
  BY DEF Event
<1>10. \A m \in Events : m.type # "AutoStart"
  BY <1>7 DEF Prompts, Questions, Notices
<1>11. \A m \in Inputs :
          m.type \in {"AutoStart", "Failure"} => m = Event(m.type)
  BY <1>7, <1>8, <1>9 DEF Inputs
<1>12. \A m \in Inputs : m.type = "UserSelected" => m.arg \in Users
  BY <1>7, <1>8, <1>9 DEF Inputs, Prompts, Questions, Notices
<1>13. \A m \in Inputs : m.type = "SessionSelected" => m.arg \in 0..MaxSessions
  BY <1>7, <1>8, <1>9 DEF Inputs, Prompts, Questions, Notices
<1>14. \A m \in Inputs :
          m.type \in {"Submit", "Cancel", "UserSelected", "SessionSelected"}
               => m \notin Events \union {Event("AutoStart")}
  <2>1. Event("AutoStart").type = "AutoStart"
    BY DEF Event
  <2>2. QED
    BY <1>7, <2>1 DEF Prompts, Questions, Notices
<1>15. QED
  BY <1>1, <1>2, <1>3, <1>4, <1>5, <1>6, <1>10, <1>11, <1>12, <1>13, <1>14

(* What the commands carry.                                                *)
LEMMA CommandShapes ==
    \A c \in Commands :
        /\ c # NoReq
        /\ c.type = "CreateSession" => c.arg \in Users
        /\ c.type \in {"CreateSession", "Respond", "StartSession"}
             \/ c = Cancel
<1> SUFFICES ASSUME NEW c \in Commands
             PROVE  /\ c # NoReq
                    /\ c.type = "CreateSession" => c.arg \in Users
                    /\ c.type \in {"CreateSession", "Respond", "StartSession"}
                         \/ c = Cancel
  OBVIOUS
<1>1. CASE \E u \in Users : c = Create(u)
  BY <1>1 DEF Create, NoReq
<1>2. CASE \E n \in 0..1 : c = Respond(n)
  BY <1>2 DEF Respond, NoReq
<1>3. CASE \E s \in 0..(MaxSessions - 1) : c = Start(s)
  BY <1>3 DEF Start, NoReq
<1>4. CASE c = Cancel
  BY <1>4 DEF Cancel, NoReq
<1>5. QED
  BY <1>1, <1>2, <1>3, <1>4 DEF Commands

(* A command that will be answered has joined the queue.                   *)
LEMMA AppendAsks ==
    ASSUME NEW c \in Commands, c # Cancel,
           NEW q \in Seq(Commands), cmds' = Append(q, c)
    PROVE  cmds' \in Seq(Commands) /\ Asked'
<1>1. /\ cmds' \in Seq(Commands)
      /\ Len(q) \in Nat
      /\ DOMAIN cmds' = 1..(Len(q) + 1)
      /\ cmds'[Len(q) + 1] = c
  BY QueueAppend
<1>2. QED
  BY <1>1 DEF Asked

(* An event has joined the inputs.                                         *)
LEMMA EmitTells ==
    ASSUME IInv, NEW t \in Prompts \union {"Success", "Failure", "Started"},
           Emit(t), UNCHANGED <<stage, typed>>
    PROVE  inbox' \in Seq(Inputs) /\ News' /\ KickComesFirst'
<1>1. inbox \in Seq(Inputs) /\ KickComesFirst
  BY DEF IInv, TypeOK, Inputs
<1>2. Event(t) \in Events /\ Event(t) \in Inputs
  BY Vocabulary
<1>3. /\ inbox' \in Seq(Inputs)
      /\ Len(inbox) \in Nat
      /\ DOMAIN inbox = 1..Len(inbox)
      /\ DOMAIN inbox' = 1..(Len(inbox) + 1)
      /\ \A i \in DOMAIN inbox : inbox'[i] = inbox[i]
      /\ inbox'[Len(inbox) + 1] = Event(t)
  BY <1>1, <1>2, QueueAppend DEF Emit
<1>4. News'
  BY <1>2, <1>3 DEF News, Event
<1>5. Event(t).type # "AutoStart"
  BY <1>2, Vocabulary
<1>6. KickComesFirst'
  <2> SUFFICES ASSUME NEW i \in DOMAIN inbox', inbox'[i].type = "AutoStart"
               PROVE  /\ ~typed
                      /\ stage = "Working"
                      /\ \A j \in 1..(i - 1) : inbox'[j] = Event("Failure")
    BY DEF KickComesFirst, Event
  <2>1. i \in DOMAIN inbox /\ inbox[i].type = "AutoStart"
    BY <1>3, <1>5
  <2>2. QED
    BY <1>1, <1>3, <2>1 DEF KickComesFirst
<1>7. QED
  BY <1>3, <1>4, <1>6

(* The initial states satisfy the invariant.                               *)
LEMMA InitInv == Init => IInv
<1> SUFFICES ASSUME Init PROVE IInv
  OBVIOUS
<1> DEFINE failed == Event("Failure")
           kick == Event("AutoStart")
<1>1. typed \in BOOLEAN
  BY DEF Init
<1>2. failed \in Inputs /\ kick \in Inputs
  BY Vocabulary DEF Inputs, UserInputs
<1>3. /\ typed => inbox = <<>> \/ inbox = <<failed>>
      /\ ~typed => inbox = <<kick>> \/ inbox = <<failed, kick>>
  <2>1. \E s \in {<<>>, <<failed>>} :
            inbox = IF typed THEN s ELSE Append(s, kick)
    BY DEF Init
  <2>2. /\ Append(<<>>, kick) = <<kick>>
        /\ Append(<<failed>>, kick) = <<failed, kick>>
    BY <1>2, ShortAppend
  <2>3. QED
    BY <1>2, <2>1, <2>2, Zenon
<1>4. inbox \in Seq(Inputs)
  <2>1. \A x, y \in Inputs :
            /\ <<>> \in Seq(Inputs)
            /\ <<x>> \in Seq(Inputs)
            /\ <<y, x>> \in Seq(Inputs)
    OBVIOUS
  <2>2. QED
    BY <1>1, <1>2, <1>3, <2>1, Zenon
<1>5. PeerTypeOK /\ ActorTypeOK
  <2>1. conv = NoConv /\ started = 0 /\ 0 \in 0..MaxUsers
    BY UsersAssumption DEF Init, PeerInit, UsersAssumption
  <2>2. cmds = <<>> /\ req = NoReq /\ client = "none"
           /\ actor \in {"starting", "idle"}
    BY DEF Init, ActorInit
  <2>3. QED
    BY <2>1, <2>2 DEF PeerTypeOK, ActorTypeOK
<1>6. TypeOK
  <2>1. 1 \in 0..MaxUsers /\ 0 \in 0..MaxUsers
        /\ 0 \in 0..MaxSessions /\ MaxSessions \in 0..MaxSessions
    BY UsersAssumption, SessionsAssumption
       DEF UsersAssumption, SessionsAssumption
  <2>2. sensitive \in BOOLEAN /\ exited \in BOOLEAN
    BY DEF Init
  <2>3. stage \in Stages /\ username \in 0..MaxUsers
    BY <2>1 DEF Init, Stages
  <2>4. sessions \in 0..MaxSessions /\ selected = 0
    BY <2>1 DEF Init
  <2>5. selected \in {0} \union 0..(sessions - 1)
    BY <2>4
  <2>6. QED
    BY <1>1, <1>4, <1>5, <2>2, <2>3, <2>4, <2>5, Zenon DEF TypeOK, Inputs
<1>7. EntryFollowsStage /\ AutoHasUser
  <2>1. EntryFollowsStage
    BY DEF Init, EntryFollowsStage
  <2>2. 1 \in Users
    BY UsersAssumption DEF Users, UsersAssumption
  <2>3. AutoHasUser
    BY <2>2 DEF Init, AutoHasUser
  <2>4. QED
    BY <2>1, <2>3
<1>8. failed.type # "AutoStart"
  BY DEF Event
<1>9. KickComesFirst
  BY <1>1, <1>3, <1>8 DEF Init, KickComesFirst
<1>10. BusyHasWork
  <2>1. CASE typed
    BY <2>1 DEF Init, BusyHasWork
  <2>2. CASE inbox = <<kick>>
    BY <2>2 DEF BusyHasWork, Outstanding, News
  <2>3. CASE inbox = <<failed, kick>>
    <3>1. 2 \in DOMAIN inbox /\ inbox[2] = kick
      BY <2>3
    <3>2. QED
      BY <3>1 DEF BusyHasWork, Outstanding, News
  <2>4. QED
    BY <1>3, <2>1, <2>2, <2>3
<1>11. QED
  BY <1>6, <1>7, <1>9, <1>10 DEF IInv

(* The user puts an input into the queue.                                  *)
LEMMA SendInv ==
    ASSUME IInv, NEW m \in UserInputs, m # Event("AutoStart"), Send(m)
    PROVE  IInv'
<1>1. inbox \in Seq(Inputs) /\ KickComesFirst /\ m \in Inputs
  BY DEF IInv, TypeOK, Inputs
<1>2. m.type # "AutoStart"
  BY <1>1, Vocabulary
<1>3. /\ inbox' \in Seq(Inputs)
      /\ Len(inbox) \in Nat
      /\ DOMAIN inbox = 1..Len(inbox)
      /\ DOMAIN inbox' = 1..(Len(inbox) + 1)
      /\ \A i \in DOMAIN inbox : inbox'[i] = inbox[i]
      /\ inbox'[Len(inbox) + 1] = m
  BY <1>1, QueueAppend DEF Send
<1>4. TypeOK'
  BY <1>3 DEF IInv, TypeOK, Send, PeerTypeOK, ActorTypeOK, peerVars, uiVars,
              Inputs
<1>5. News => News'
  BY <1>3 DEF News, Event
<1>6. BusyHasWork' /\ EntryFollowsStage' /\ AutoHasUser'
  BY <1>5 DEF IInv, BusyHasWork, EntryFollowsStage, Outstanding, Asked,
              Running, Send, uiVars, AutoHasUser
<1>7. KickComesFirst'
  <2> SUFFICES ASSUME NEW i \in DOMAIN inbox', inbox'[i].type = "AutoStart"
               PROVE  /\ ~typed
                      /\ stage = "Working"
                      /\ \A j \in 1..(i - 1) : inbox'[j] = Event("Failure")
    BY DEF KickComesFirst, Event, Send, uiVars
  <2>1. i \in DOMAIN inbox /\ inbox[i].type = "AutoStart"
    BY <1>2, <1>3
  <2>2. QED
    BY <1>1, <1>3, <2>1 DEF KickComesFirst
<1>8. QED
  BY <1>4, <1>6, <1>7 DEF IInv

LEMMA UserInv == ASSUME IInv, User PROVE IInv'
<1>1. Event("Submit") # Event("AutoStart") /\ Event("Cancel") # Event("AutoStart")
  BY DEF Event
<1>2. CASE PressEnter \/ PressEscape
  BY <1>1, <1>2, SendInv DEF PressEnter, PressEscape, UserInputs
<1>3. CASE \E u \in Users : PickUser(u)
  <2>1. PICK u \in Users : Send([type |-> "UserSelected", arg |-> u])
    BY <1>3 DEF PickUser
  <2>2. [type |-> "UserSelected", arg |-> u] # Event("AutoStart")
    BY DEF Event
  <2>3. QED
    BY <2>1, <2>2, SendInv DEF UserInputs
<1>4. CASE \E s \in 0..MaxSessions : PickSession(s)
  <2>1. PICK s \in 0..MaxSessions :
            Send([type |-> "SessionSelected", arg |-> s])
    BY <1>4 DEF PickSession
  <2>2. [type |-> "SessionSelected", arg |-> s] # Event("AutoStart")
    BY DEF Event
  <2>3. QED
    BY <2>1, <2>2, SendInv DEF UserInputs
<1>5. QED
  BY <1>2, <1>3, <1>4 DEF User
-----------------------------------------------------------------------------
(* update has taken an input: an AutoStart that is left behind is only     *)
(* there if that was the error of the first connect, and an input of the   *)
(* user takes no news away.                                                *)
LEMMA TakeInput ==
    ASSUME IInv, NEW t, Update(t)
    PROVE  /\ Head(inbox) \in Inputs /\ Head(inbox).type = t
           /\ inbox' \in Seq(Inputs)
           /\ t # "Failure" \/ typed \/ stage' = "Working" => KickComesFirst'
           /\ t \in {"Submit", "Cancel", "UserSelected", "SessionSelected"}
                /\ News => News'
           /\ t = "AutoStart" => ~typed /\ stage = "Working"
<1>1. inbox \in Seq(Inputs) /\ inbox # <<>> /\ KickComesFirst
  BY DEF IInv, TypeOK, Inputs, Update
<1>2. /\ inbox' \in Seq(Inputs)
      /\ Len(inbox) \in Nat \ {0}
      /\ Head(inbox) = inbox[1] /\ Head(inbox) \in Inputs
      /\ DOMAIN inbox = 1..Len(inbox)
      /\ DOMAIN inbox' = 1..(Len(inbox) - 1)
      /\ \A i \in DOMAIN inbox' : inbox'[i] = inbox[i + 1]
  BY <1>1, QueueTail DEF Update
<1>3. Head(inbox).type = t /\ typed' = typed
  BY DEF Update
<1>4. ASSUME t # "Failure" \/ typed \/ stage' = "Working"
      PROVE  KickComesFirst'
  <2> SUFFICES ASSUME NEW i \in DOMAIN inbox', inbox'[i].type = "AutoStart"
               PROVE  /\ ~typed
                      /\ stage' = "Working"
                      /\ \A j \in 1..(i - 1) : inbox'[j] = Event("Failure")
    BY <1>3 DEF KickComesFirst, Event
  <2>1. i \in Nat /\ i + 1 \in DOMAIN inbox /\ inbox[i + 1].type = "AutoStart"
    BY <1>2
  <2>2. ~typed /\ \A j \in 1..i : inbox[j] = Event("Failure")
    BY <1>1, <2>1 DEF KickComesFirst
  <2>3. inbox[1] = Event("Failure")
    BY <1>2, <2>2
  <2>4. t = "Failure"
    BY <1>2, <1>3, <2>3 DEF Event
  <2>5. \A j \in 1..(i - 1) : inbox'[j] = Event("Failure")
    BY <1>2, <2>1, <2>2
  <2>6. QED
    BY <1>4, <2>2, <2>4, <2>5
<1>5. ASSUME t \in {"Submit", "Cancel", "UserSelected", "SessionSelected"}, News
      PROVE  News'
  <2>1. inbox[1] \notin Events \union {Event("AutoStart")}
    BY <1>2, <1>3, <1>5, Vocabulary
  <2>2. PICK i \in DOMAIN inbox : inbox[i] \in Events \union {Event("AutoStart")}
    BY <1>5 DEF News
  <2>3. i - 1 \in DOMAIN inbox' /\ inbox'[i - 1] = inbox[i]
    BY <1>2, <2>1, <2>2
  <2>4. QED
    BY <2>2, <2>3 DEF News, Event
<1>6. t = "AutoStart" => ~typed /\ stage = "Working"
  BY <1>1, <1>2, <1>3 DEF KickComesFirst
<1>7. QED
  BY <1>2, <1>3, <1>4, <1>5, <1>6

(* reset_auth asks for a conversation, or for a name.                      *)
LEMMA ResetAuthAsks ==
    ASSUME IInv, NEW q \in Seq(Commands), ResetAuth(q),
           UNCHANGED <<typed, sessions>>
    PROVE  /\ cmds' \in Seq(Commands)
           /\ stage' \in {"Username", "Working"}
           /\ username' \in 0..MaxUsers
           /\ sensitive' \in BOOLEAN
           /\ AutoHasUser' /\ EntryFollowsStage'
           /\ stage' = "Working" /\ sessions > 0 => Asked'
           /\ typed \/ stage' = "Working"
<1>1. typed \in BOOLEAN /\ username \in 0..MaxUsers /\ sessions \in Nat
  BY SessionsAssumption DEF IInv, TypeOK, SessionsAssumption
<1>2. CASE typed
  <2>1. /\ cmds' = Append(q, Cancel)
        /\ stage' = "Username" /\ username' = 0
        /\ sensitive' = (sessions > 0)
    BY <1>2 DEF ResetAuth
  <2>2. cmds' \in Seq(Commands)
    BY <2>1, Vocabulary, QueueAppend
  <2>3. 0 \in 0..MaxUsers
    BY UsersAssumption DEF UsersAssumption
  <2>4. sensitive' \in BOOLEAN
    BY <2>1
  <2>5. EntryFollowsStage'
    BY <1>2, <2>1 DEF EntryFollowsStage
  <2>6. QED
    BY <1>2, <2>1, <2>2, <2>3, <2>4, <2>5 DEF AutoHasUser
<1>3. CASE ~typed
  <2>1. username \in Users
    BY <1>3 DEF IInv, AutoHasUser
  <2>2. stage' = "Working" /\ sensitive' = FALSE /\ username' = username
    BY <1>3 DEF ResetAuth
  <2>3. Append(q, Cancel) \in Seq(Commands)
    BY Vocabulary, QueueAppend
  <2>4. CASE sessions > 0
    <3>1. cmds' = q \o <<Cancel, Create(username)>>
      BY <1>3, <2>4 DEF ResetAuth
    <3>2. Create(username) \in Commands /\ Create(username) # Cancel
      BY <2>1, Vocabulary
    <3>3. cmds' = Append(Append(q, Cancel), Create(username))
      BY <3>1, <3>2, Vocabulary, PairAppend
    <3>4. cmds' \in Seq(Commands) /\ Asked'
      BY <2>3, <3>2, <3>3, AppendAsks
    <3>5. QED
      BY <1>1, <1>3, <2>1, <2>2, <3>4 DEF AutoHasUser, EntryFollowsStage
  <2>5. CASE ~(sessions > 0)
    BY <1>1, <1>3, <2>1, <2>2, <2>3, <2>5
       DEF ResetAuth, AutoHasUser, EntryFollowsStage
  <2>6. QED
    BY <2>4, <2>5
<1>4. QED
  BY <1>1, <1>2, <1>3

(* What every handler leaves alone keeps its type.                         *)
LEMMA UpdateTypes ==
    ASSUME IInv, NEW t, Update(t),
           cmds' \in Seq(Commands), stage' \in Stages,
           username' \in 0..MaxUsers, sensitive' \in BOOLEAN,
           selected' \in {0} \union 0..(sessions - 1), exited' \in BOOLEAN
    PROVE  TypeOK'
<1>1. /\ inbox' \in Seq(Inputs)
      /\ UNCHANGED <<client, actor, req, peerVars, typed, sessions>>
  BY TakeInput DEF Update
<1>2. ActorTypeOK'
  BY <1>1 DEF IInv, TypeOK, ActorTypeOK
<1>3. PeerTypeOK'
  BY <1>1 DEF IInv, TypeOK, PeerTypeOK, peerVars
<1>4. typed' \in BOOLEAN /\ sessions' \in 0..MaxSessions
      /\ selected' \in {0} \union 0..(sessions' - 1)
  BY <1>1 DEF IInv, TypeOK
<1>5. QED
  BY <1>1, <1>2, <1>3, <1>4, Zenon DEF TypeOK, Inputs

(* A handler that dispatches a command, of whatever kind, and waits.       *)
LEMMA DispatchInv ==
    ASSUME IInv, NEW t, Update(t), t # "Failure",
           NEW q \in Seq(Commands), NEW c \in Commands, c # Cancel,
           cmds' = Append(q, c), stage' \in {"Working", "Starting"},
           sensitive' = FALSE, username' \in 0..MaxUsers, AutoHasUser',
           UNCHANGED <<selected, exited>>
    PROVE  IInv'
<1>1. cmds' \in Seq(Commands) /\ Asked'
  BY AppendAsks
<1>2. TypeOK'
  BY <1>1, UpdateTypes DEF IInv, TypeOK, Stages
<1>3. KickComesFirst'
  BY TakeInput
<1>4. BusyHasWork' /\ EntryFollowsStage'
  BY <1>1 DEF BusyHasWork, Outstanding, EntryFollowsStage
<1>5. QED
  BY <1>2, <1>3, <1>4 DEF IInv

(* A handler that starts over.                                             *)
LEMMA ResetInv ==
    ASSUME IInv, NEW t, Update(t), NEW q \in Seq(Commands), ResetAuth(q),
           UNCHANGED <<selected, exited>>
    PROVE  IInv'
<1>1. UNCHANGED <<typed, sessions>>
  BY DEF Update
<1>2. /\ cmds' \in Seq(Commands)
      /\ stage' \in {"Username", "Working"}
      /\ username' \in 0..MaxUsers
      /\ sensitive' \in BOOLEAN
      /\ AutoHasUser' /\ EntryFollowsStage'
      /\ stage' = "Working" /\ sessions > 0 => Asked'
      /\ typed \/ stage' = "Working"
  BY <1>1, ResetAuthAsks
<1>3. TypeOK'
  BY <1>2, UpdateTypes DEF IInv, TypeOK, Stages
<1>4. KickComesFirst'
  BY <1>2, TakeInput
<1>5. BusyHasWork'
  BY <1>1, <1>2 DEF BusyHasWork, Outstanding
<1>6. QED
  BY <1>2, <1>3, <1>4, <1>5 DEF IInv

(* An input of the user is dropped.                                        *)
LEMMA IgnoreInv ==
    ASSUME IInv, NEW t, Update(t), Ignore,
           t \in {"Submit", "Cancel", "UserSelected", "SessionSelected"},
           selected' \in {0} \union 0..(sessions - 1), UNCHANGED exited
    PROVE  IInv'
<1>1. TypeOK'
  BY UpdateTypes DEF IInv, TypeOK, Ignore, ActorTypeOK
<1>2. KickComesFirst' /\ (News => News')
  BY TakeInput
<1>3. BusyHasWork'
  BY <1>2 DEF IInv, BusyHasWork, Outstanding, Asked, Running, Ignore, Update
<1>4. EntryFollowsStage' /\ AutoHasUser'
  BY DEF IInv, EntryFollowsStage, AutoHasUser, Ignore, Update
<1>5. QED
  BY <1>1, <1>2, <1>3, <1>4 DEF IInv

LEMMA SubmitInv == ASSUME IInv, HandleSubmit PROVE IInv'
<1>1. cmds \in Seq(Commands) /\ username \in 0..MaxUsers
      /\ selected \in {0} \union 0..(sessions - 1)
  BY DEF IInv, TypeOK, ActorTypeOK
<1>2. Update("Submit") /\ UNCHANGED <<typed, sessions, selected, exited>>
  BY DEF HandleSubmit, Update
<1>3. CASE Ignore
  BY <1>1, <1>2, <1>3, IgnoreInv
<1>4. CASE SubmitAnswer
  <2>1. Respond(1) \in Commands /\ Respond(1) # Cancel
    BY Vocabulary
  <2>2. AutoHasUser'
    BY <1>2, <1>4 DEF IInv, AutoHasUser, SubmitAnswer
  <2>3. QED
    BY <1>1, <1>2, <1>4, <2>1, <2>2, DispatchInv DEF SubmitAnswer, Dispatch
<1>5. ASSUME NEW text \in 0..MaxUsers, SubmitName(text)
      PROVE  IInv'
  <2>1. CASE ShowError
    BY <1>1, <1>2, <2>1, ResetInv DEF ShowError
  <2>2. CASE /\ text # 0 /\ username' = text
             /\ Dispatch(Create(text), "Working")
    <3>1. text \in Users
      BY <2>2, UsersAssumption DEF Users, UsersAssumption
    <3>2. Create(text) \in Commands /\ Create(text) # Cancel
      BY <3>1, Vocabulary
    <3>3. AutoHasUser'
      BY <2>2, <3>1 DEF AutoHasUser
    <3>4. QED
      BY <1>1, <1>2, <2>2, <3>2, <3>3, DispatchInv DEF Dispatch
  <2>3. \/ ShowError \/ Ignore
        \/ /\ text # 0 /\ username' = text
           /\ Dispatch(Create(text), "Working")
    BY <1>5, SessionsAssumption
       DEF SubmitName, IInv, TypeOK, SessionsAssumption
  <2>4. QED
    BY <1>3, <2>1, <2>2, <2>3
<1>6. QED
  BY <1>3, <1>4, <1>5 DEF HandleSubmit

LEMMA NoticeInv ==
    ASSUME IInv, NEW kind \in Notices, HandleNotice(kind) PROVE IInv'
<1>1. cmds \in Seq(Commands) /\ Respond(0) \in Commands /\ Respond(0) # Cancel
  BY Vocabulary DEF IInv, TypeOK, ActorTypeOK
<1>2. /\ Update(kind) /\ kind # "Failure"
      /\ cmds' = Append(cmds, Respond(0))
      /\ UNCHANGED <<stage, username, sensitive, selected, exited>>
  BY DEF HandleNotice, Notices
<1>3. cmds' \in Seq(Commands) /\ Asked'
  BY <1>1, <1>2, AppendAsks
<1>4. TypeOK'
  BY <1>2, <1>3, UpdateTypes DEF IInv, TypeOK
<1>5. KickComesFirst' /\ BusyHasWork'
  BY <1>2, <1>3, TakeInput DEF BusyHasWork, Outstanding
<1>6. EntryFollowsStage' /\ AutoHasUser'
  BY <1>2 DEF IInv, EntryFollowsStage, AutoHasUser, Update
<1>7. QED
  BY <1>4, <1>5, <1>6 DEF IInv

LEMMA QuestionInv ==
    ASSUME IInv, NEW kind \in Questions, HandleQuestion(kind) PROVE IInv'
<1>1. /\ Update(kind) /\ kind # "Failure"
      /\ stage' = "Prompt" /\ sensitive' = TRUE
      /\ UNCHANGED <<cmds, username, selected, exited>>
  BY DEF HandleQuestion, Questions
<1>2. TypeOK'
  BY <1>1, UpdateTypes DEF IInv, TypeOK, ActorTypeOK, Stages
<1>3. KickComesFirst'
  BY <1>1, TakeInput
<1>4. BusyHasWork' /\ EntryFollowsStage'
  BY <1>1 DEF BusyHasWork, EntryFollowsStage
<1>5. AutoHasUser'
  BY <1>1 DEF IInv, AutoHasUser, Update
<1>6. QED
  BY <1>2, <1>3, <1>4, <1>5 DEF IInv

LEMMA SuccessInv == ASSUME IInv, HandleSuccess PROVE IInv'
<1>1. /\ cmds \in Seq(Commands) /\ username \in 0..MaxUsers
      /\ selected \in {0} \union 0..(sessions - 1)
      /\ sessions \in 0..MaxSessions /\ MaxSessions \in Nat
  BY SessionsAssumption DEF IInv, TypeOK, ActorTypeOK, SessionsAssumption
<1>2. Update("Success") /\ UNCHANGED <<typed, selected, exited>>
  BY DEF HandleSuccess, Update
<1>3. CASE selected < sessions
  <2>1. selected \in 0..(MaxSessions - 1)
    BY <1>1, <1>3
  <2>2. Start(selected) \in Commands /\ Start(selected) # Cancel
    BY <2>1, Vocabulary
  <2>3. Dispatch(Start(selected), "Starting") /\ username' = username
    BY <1>3 DEF HandleSuccess
  <2>4. AutoHasUser'
    BY <1>2, <2>3 DEF IInv, AutoHasUser
  <2>5. QED
    BY <1>1, <1>2, <2>2, <2>3, <2>4, DispatchInv DEF Dispatch
<1>4. CASE ~(selected < sessions)
  <2>1. Append(cmds, Cancel) \in Seq(Commands)
    BY <1>1, Vocabulary, QueueAppend
  <2>2. QED
    BY <1>2, <1>4, <2>1, ResetInv DEF HandleSuccess
<1>5. QED
  BY <1>3, <1>4

LEMMA FailureInv == ASSUME IInv, HandleFailure PROVE IInv'
  BY ResetInv DEF HandleFailure, ShowError, IInv, TypeOK, ActorTypeOK

LEMMA StartedInv == ASSUME IInv, HandleStarted PROVE IInv'
<1>1. /\ Update("Started") /\ exited' = TRUE
      /\ UNCHANGED <<cmds, stage, username, sensitive, selected>>
  BY DEF HandleStarted
<1>2. TypeOK'
  BY <1>1, UpdateTypes DEF IInv, TypeOK, ActorTypeOK
<1>3. KickComesFirst' /\ BusyHasWork'
  BY <1>1, TakeInput DEF BusyHasWork, Running
<1>4. EntryFollowsStage' /\ AutoHasUser'
  BY <1>1 DEF IInv, EntryFollowsStage, AutoHasUser, Update
<1>5. QED
  BY <1>2, <1>3, <1>4 DEF IInv

LEMMA AutoStartInv == ASSUME IInv, HandleAutoStart PROVE IInv'
<1>1. /\ Update("AutoStart")
      /\ UNCHANGED <<typed, sessions, username, sensitive, selected, exited>>
  BY DEF HandleAutoStart, Update
<1>2. ~typed /\ stage = "Working" /\ KickComesFirst'
  BY <1>1, TakeInput
<1>3. /\ username \in Users /\ cmds \in Seq(Commands)
      /\ sensitive \in BOOLEAN /\ ~sensitive
  BY <1>2 DEF IInv, TypeOK, ActorTypeOK, AutoHasUser, EntryFollowsStage
<1>4. EntryFollowsStage' /\ AutoHasUser'
  BY <1>1, <1>2, <1>3
     DEF HandleAutoStart, EntryFollowsStage, AutoHasUser
<1>5. CASE sessions = 0
  <2>1. stage' = "Username" /\ UNCHANGED cmds
    BY <1>5 DEF HandleAutoStart
  <2>2. TypeOK'
    BY <1>1, <2>1, UpdateTypes DEF IInv, TypeOK, ActorTypeOK, Stages
  <2>3. BusyHasWork'
    BY <2>1 DEF BusyHasWork
  <2>4. QED
    BY <1>2, <1>4, <2>2, <2>3 DEF IInv
<1>6. CASE sessions # 0
  <2>1. cmds' = Append(cmds, Create(username)) /\ UNCHANGED stage
    BY <1>6 DEF HandleAutoStart
  <2>2. cmds' \in Seq(Commands) /\ Asked'
    BY <1>3, <2>1, Vocabulary, AppendAsks
  <2>3. TypeOK'
    BY <1>1, <2>1, <2>2, UpdateTypes DEF IInv, TypeOK
  <2>4. BusyHasWork'
    BY <2>2 DEF BusyHasWork, Outstanding
  <2>5. QED
    BY <1>2, <1>4, <2>3, <2>4 DEF IInv
<1>7. QED
  BY <1>5, <1>6

LEMMA SessionSelectedInv == ASSUME IInv, HandleSessionSelected PROVE IInv'
<1>1. /\ Update("SessionSelected") /\ Ignore /\ UNCHANGED exited
      /\ selected' = IF Head(inbox).arg < sessions THEN Head(inbox).arg
                                                   ELSE selected
  BY DEF HandleSessionSelected, Ignore
<1>2. Head(inbox).arg \in 0..MaxSessions
  BY <1>1, TakeInput, Vocabulary
<1>3. selected' \in {0} \union 0..(sessions - 1)
  BY <1>1, <1>2, SessionsAssumption
     DEF IInv, TypeOK, SessionsAssumption
<1>4. QED
  BY <1>1, <1>3, IgnoreInv

LEMMA UserSelectedInv == ASSUME IInv, HandleUserSelected PROVE IInv'
<1> DEFINE user == Head(inbox).arg
<1>1. /\ Update("UserSelected") /\ UNCHANGED <<typed, selected, exited>>
      /\ cmds \in Seq(Commands)
      /\ selected \in {0} \union 0..(sessions - 1)
  BY DEF HandleUserSelected, Update, IInv, TypeOK, ActorTypeOK
<1>2. user \in Users /\ user \in 0..MaxUsers
  BY <1>1, TakeInput, Vocabulary, UsersAssumption DEF Users, UsersAssumption
<1>3. CASE Ignore
  BY <1>1, <1>3, IgnoreInv
<1>4. CASE /\ username' = user
           /\ cmds' = cmds \o <<Cancel, Create(user)>>
           /\ stage' = "Working"
           /\ sensitive' = FALSE
  <2>1. Create(user) \in Commands /\ Create(user) # Cancel
    BY <1>2, Vocabulary
  <2>2. /\ Append(cmds, Cancel) \in Seq(Commands)
        /\ cmds' = Append(Append(cmds, Cancel), Create(user))
    BY <1>1, <1>4, <2>1, Vocabulary, QueueAppend, PairAppend
  <2>3. AutoHasUser'
    BY <1>2, <1>4 DEF AutoHasUser
  <2>4. QED
    BY <1>1, <1>2, <1>4, <2>1, <2>2, <2>3, DispatchInv
<1>5. QED
  BY <1>3, <1>4 DEF HandleUserSelected

LEMMA CancelInv == ASSUME IInv, HandleCancel PROVE IInv'
<1>1. /\ Update("Cancel") /\ UNCHANGED <<selected, exited>>
      /\ cmds \in Seq(Commands)
      /\ selected \in {0} \union 0..(sessions - 1)
  BY DEF HandleCancel, IInv, TypeOK, ActorTypeOK
<1>2. CASE Ignore
  BY <1>1, <1>2, IgnoreInv
<1>3. CASE ResetAuth(cmds)
  BY <1>1, <1>3, ResetInv
<1>4. QED
  BY <1>2, <1>3 DEF HandleCancel

LEMMA UpdateInv == ASSUME IInv, UpdateAny PROVE IInv'
  BY SubmitInv, NoticeInv, QuestionInv, SuccessInv, FailureInv, StartedInv,
     AutoStartInv, SessionSelectedInv, UserSelectedInv, CancelInv
     DEF UpdateAny
-----------------------------------------------------------------------------
(* A step of the actor keeps the types of what it leaves alone.            *)
LEMMA ActorTypes ==
    ASSUME IInv, UNCHANGED uiVars, inbox' \in Seq(Inputs),
           ActorTypeOK', PeerTypeOK'
    PROVE  TypeOK'
  BY Zenon DEF IInv, TypeOK, Inputs, uiVars

(* The actor speaks up: the interface has something to wait for.           *)
LEMMA SpeakInv ==
    ASSUME IInv, UNCHANGED uiVars, ActorTypeOK', PeerTypeOK',
           NEW t \in Prompts \union {"Success", "Failure", "Started"}, Emit(t)
    PROVE  IInv'
<1>1. UNCHANGED <<stage, username, sensitive, typed, sessions>>
  BY DEF uiVars
<1>2. inbox' \in Seq(Inputs) /\ News' /\ KickComesFirst'
  BY <1>1, EmitTells
<1>3. TypeOK'
  BY <1>2, ActorTypes
<1>4. BusyHasWork'
  BY <1>2 DEF BusyHasWork, Outstanding
<1>5. EntryFollowsStage' /\ AutoHasUser'
  BY <1>1 DEF IInv, EntryFollowsStage, AutoHasUser
<1>6. QED
  BY <1>2, <1>3, <1>4, <1>5 DEF IInv

(* The actor keeps silent, and what was awaited is awaited still.          *)
LEMMA SilentInv ==
    ASSUME IInv, UNCHANGED <<inbox, uiVars>>, ActorTypeOK', PeerTypeOK',
           actor \in {"waiting", "failing"} => actor' \in {"waiting", "failing"},
           Asked => Asked' \/ actor' = "waiting"
    PROVE  IInv'
<1>1. UNCHANGED <<stage, username, sensitive, typed, sessions, exited>>
  BY DEF uiVars
<1>2. TypeOK'
  BY ActorTypes DEF IInv, TypeOK, Inputs
<1>3. KickComesFirst'
  BY <1>1 DEF IInv, KickComesFirst, Event
<1>4. News => News'
  BY DEF News, Event
<1>5. BusyHasWork'
  BY <1>1, <1>4 DEF IInv, BusyHasWork, Outstanding, Running
<1>6. EntryFollowsStage' /\ AutoHasUser'
  BY <1>1 DEF IInv, EntryFollowsStage, AutoHasUser
<1>7. QED
  BY <1>2, <1>3, <1>5, <1>6 DEF IInv

LEMMA ActorStartsInv ==
    ASSUME IInv, UNCHANGED uiVars, ActorStarts PROVE IInv'
<1>1. ActorTypeOK' /\ PeerTypeOK'
  BY DEF IInv, TypeOK, ActorTypeOK, PeerTypeOK, peerVars, ActorStarts
<1>2. CASE UNCHANGED inbox
  BY <1>1, <1>2, SilentInv DEF ActorStarts, Asked
<1>3. CASE Emit("Failure")
  BY <1>1, <1>3, SpeakInv
<1>4. QED
  BY <1>2, <1>3 DEF ActorStarts

(* The actor takes a command.                                              *)
LEMMA TakeCommand ==
    ASSUME IInv, cmds # <<>>, cmds' = Tail(cmds)
    PROVE  /\ cmds' \in Seq(Commands)
           /\ Head(cmds) \in Commands
           /\ Head(cmds) = Cancel /\ Asked => Asked'
<1>1. cmds \in Seq(Commands)
  BY DEF IInv, TypeOK, ActorTypeOK
<1>2. /\ cmds' \in Seq(Commands)
      /\ Len(cmds) \in Nat \ {0}
      /\ Head(cmds) = cmds[1] /\ Head(cmds) \in Commands
      /\ DOMAIN cmds = 1..Len(cmds)
      /\ DOMAIN cmds' = 1..(Len(cmds) - 1)
      /\ \A i \in DOMAIN cmds' : cmds'[i] = cmds[i + 1]
  BY <1>1, QueueTail
<1>3. ASSUME Head(cmds) = Cancel, Asked PROVE Asked'
  <2>1. PICK i \in DOMAIN cmds : cmds[i] # Cancel
    BY <1>3 DEF Asked
  <2>2. i - 1 \in DOMAIN cmds' /\ cmds'[i - 1] # Cancel
    BY <1>2, <1>3, <2>1
  <2>3. QED
    BY <2>2 DEF Asked
<1>4. QED
  BY <1>2, <1>3

LEMMA ActorCancelsInv ==
    ASSUME IInv, UNCHANGED uiVars, ActorCancels PROVE IInv'
<1>1. cmds' \in Seq(Commands) /\ (Asked => Asked')
  BY TakeCommand DEF ActorCancels
<1>2. ActorTypeOK' /\ PeerTypeOK'
  BY <1>1 DEF IInv, TypeOK, ActorTypeOK, PeerTypeOK, peerVars, ActorCancels
<1>3. QED
  BY <1>1, <1>2, SilentInv DEF ActorCancels

LEMMA ActorSendsInv ==
    ASSUME IInv, UNCHANGED uiVars, ActorSends PROVE IInv'
<1>1. cmds' \in Seq(Commands) /\ Head(cmds) \in Commands
  BY TakeCommand DEF ActorSends
<1>2. Head(cmds) # NoReq
  BY <1>1, CommandShapes
<1>3. ActorTypeOK' /\ PeerTypeOK'
  BY <1>1, <1>2
     DEF IInv, TypeOK, ActorTypeOK, PeerTypeOK, peerVars, ActorSends
<1>4. CASE actor' = "waiting" /\ UNCHANGED inbox
  BY <1>3, <1>4, SilentInv DEF ActorSends
<1>5. CASE Emit("Failure")
  BY <1>3, <1>5, SpeakInv
<1>6. QED
  BY <1>4, <1>5 DEF ActorSends

(* The answers of greetd keep its conversation well-formed.                *)
LEMMA PeerTypes ==
    ASSUME PeerTypeOK,
           \/ EndConversation
           \/ \E resp : \E u \in Users : AnswerCreate(u, resp)
           \/ \E resp : AnswerRespond(resp) \/ AnswerStart(resp)
    PROVE  PeerTypeOK'
<1>1. conv' = NoConv /\ started' = started => PeerTypeOK'
  BY DEF PeerTypeOK
<1>2. ASSUME NEW u \in Users, NEW resp, Proceed(u, resp) PROVE PeerTypeOK'
  BY <1>2 DEF PeerTypeOK, Proceed
<1>3. ASSUME conv.phase \in {"asking", "authenticated"} PROVE conv.user \in Users
  BY <1>3 DEF PeerTypeOK, NoConv
<1>4. ASSUME NEW u \in Users, started' = u, conv' = conv PROVE PeerTypeOK'
  BY <1>4, UsersAssumption DEF PeerTypeOK, Users, UsersAssumption
<1>5. QED
  BY <1>1, <1>2, <1>3, <1>4
     DEF EndConversation, AnswerCreate, AnswerRespond, AnswerStart, Refuse

LEMMA AnsweredInv ==
    ASSUME IInv, UNCHANGED uiVars,
           NEW resp \in Prompts \union {"Success", "Refused"}, Answered(resp)
    PROVE  IInv'
<1>1. req \in Commands \ {Cancel} /\ PeerTypeOK
  BY DEF IInv, TypeOK, ActorTypeOK, Answered
<1>2. /\ req.type = "CreateSession" => req.arg \in Users
      /\ req.type \in {"CreateSession", "Respond", "StartSession"}
  BY <1>1, CommandShapes
<1>3. PeerTypeOK'
  <2>1. CASE req.type = "CreateSession"
    BY <1>1, <1>2, <2>1, PeerTypes DEF Answered
  <2>2. CASE req.type = "Respond"
    BY <1>1, <2>2, PeerTypes DEF Answered
  <2>3. CASE req.type = "StartSession"
    BY <1>1, <2>3, PeerTypes DEF Answered
  <2>4. QED
    BY <1>2, <2>1, <2>2, <2>3
<1>4. ActorTypeOK'
  BY DEF IInv, TypeOK, ActorTypeOK, Answered
<1>5. CASE resp = "Refused"
  BY <1>3, <1>4, <1>5, SilentInv DEF Answered, Asked
<1>6. CASE resp # "Refused"
  <2> DEFINE told == IF req.type = "StartSession" THEN "Started" ELSE resp
  <2>1. told \in Prompts \union {"Success", "Failure", "Started"}
    BY <1>6
  <2>2. Emit(told)
    BY <1>6 DEF Answered
  <2>3. QED
    BY <1>3, <1>4, <2>1, <2>2, SpeakInv
<1>7. QED
  BY <1>5, <1>6

LEMMA RoundtripLostInv ==
    ASSUME IInv, UNCHANGED uiVars, RoundtripLost PROVE IInv'
<1>1. PeerTypeOK'
  BY PeerTypes DEF IInv, TypeOK, RoundtripLost
<1>2. ActorTypeOK'
  BY DEF IInv, TypeOK, ActorTypeOK, RoundtripLost
<1>3. QED
  BY <1>1, <1>2, SpeakInv DEF RoundtripLost

LEMMA CancelDoneInv ==
    ASSUME IInv, UNCHANGED uiVars, actor \in {"cancelling", "failing"},
           CancelDone
    PROVE  IInv'
<1>1. PeerTypeOK'
  BY PeerTypes DEF IInv, TypeOK, CancelDone
<1>2. ActorTypeOK'
  BY DEF IInv, TypeOK, ActorTypeOK, CancelDone
<1>3. CASE actor = "failing"
  BY <1>1, <1>2, <1>3, SpeakInv DEF CancelDone
<1>4. CASE actor = "cancelling"
  BY <1>1, <1>2, <1>4, SilentInv DEF CancelDone, Asked
<1>5. QED
  BY <1>3, <1>4

LEMMA ConnectionBreaksInv ==
    ASSUME IInv, UNCHANGED uiVars, ConnectionBreaks PROVE IInv'
<1>1. PeerTypeOK'
  BY PeerTypes DEF IInv, TypeOK, ConnectionBreaks
<1>2. ActorTypeOK'
  BY DEF IInv, TypeOK, ActorTypeOK, ConnectionBreaks
<1>3. QED
  BY <1>1, <1>2, SilentInv DEF ConnectionBreaks, Asked

LEMMA ActorInv == ASSUME IInv, ActorStep PROVE IInv'
  BY ActorStartsInv, ActorCancelsInv, ActorSendsInv, AnsweredInv,
     RoundtripLostInv, CancelDoneInv, ConnectionBreaksInv
     DEF ActorStep, Actor, CancelAnswered, CancelFails

LEMMA StutterInv == ASSUME IInv, UNCHANGED vars PROVE IInv'
<1>1. UNCHANGED <<inbox, uiVars>> /\ UNCHANGED <<cmds, actor>>
  BY DEF vars, actorVars
<1>2. ActorTypeOK' /\ PeerTypeOK'
  BY DEF IInv, TypeOK, ActorTypeOK, PeerTypeOK, vars, actorVars, peerVars
<1>3. QED
  BY <1>1, <1>2, SilentInv DEF Asked

LEMMA NextInv == ASSUME IInv, [Next]_vars PROVE IInv'
  BY UserInv, UpdateInv, ActorInv, StutterInv DEF Next

(* The invariant holds in every reachable state.                           *)
THEOREM Invariance == Spec => []IInv
<1>1. Init => IInv
  BY InitInv
<1>2. IInv /\ [Next]_vars => IInv'
  BY NextInv
<1>3. QED
  BY <1>1, <1>2, PTL DEF Spec

(* Every variable of the greeter, of its actor and of greetd keeps its     *)
(* type: no handler builds a command for an account or a session that is   *)
(* not there.                                                              *)
THEOREM TypeCorrect == Spec => []TypeOK
<1>1. IInv => TypeOK
  BY DEF IInv
<1>2. QED
  BY <1>1, Invariance, PTL

(* With a session to start, the spinner never turns with nothing to wait   *)
(* for, whatever stale events, errors and user switches came in between.   *)
THEOREM NoIdleSpinner == Spec => []BusyHasWork
<1>1. IInv => BusyHasWork
  BY DEF IInv
<1>2. QED
  BY <1>1, Invariance, PTL

(* The entry accepts input exactly in the stages that ask for it.          *)
THEOREM EntryIsHonest == Spec => []EntryFollowsStage
<1>1. IInv => EntryFollowsStage
  BY DEF IInv
<1>2. QED
  BY <1>1, Invariance, PTL
-----------------------------------------------------------------------------
(* In typed mode conversations stay apart.                                 *)

(* A command that opens nothing leaves them apart, one that opens a        *)
(* conversation does if it comes from the entry; a CancelSession clears    *)
(* the way for the entry.                                                  *)
LEMMA AppendApart ==
    ASSUME NEW q \in Seq(Commands), NEW c \in Commands,
           NEW open \in BOOLEAN, NEW entry \in BOOLEAN, NEW entry2 \in BOOLEAN,
           Apart(q, open, entry),
           c.type = "CreateSession" => entry /\ ~entry2,
           entry2 => entry \/ c = Cancel
    PROVE  Apart(Append(q, c), open, entry2)
<1> DEFINE r == Append(q, c)
           n == Len(q)
<1>1. /\ n \in Nat
      /\ DOMAIN q = 1..n
      /\ DOMAIN r = 1..(n + 1)
      /\ Len(r) = n + 1
      /\ \A j \in 1..n : r[j] = q[j]
      /\ r[n + 1] = c
  BY QueueAppend
<1> HIDE DEF r, n
<1> SUFFICES ASSUME NEW i \in 0..(n + 2), NEW k \in 0..(n + 2), i < k,
                    Opens(r, open, entry2, i), Opens(r, open, entry2, k)
             PROVE  \E j \in (i + 1)..(k - 1) : r[j] = Cancel
  BY <1>1 DEF Apart, r
<1>2. CASE k <= n
  <2>1. Opens(q, open, entry, i) /\ Opens(q, open, entry, k)
    BY <1>1, <1>2 DEF Opens, n
  <2>2. PICK j \in (i + 1)..(k - 1) : q[j] = Cancel
    BY <1>1, <1>2, <2>1 DEF Apart, n
  <2>3. QED
    BY <1>1, <1>2, <2>2
<1>3. CASE k = n + 1
  <2>1. Opens(q, open, entry, i) /\ Opens(q, open, entry, k)
    BY <1>1, <1>3 DEF Opens, n
  <2>2. PICK j \in (i + 1)..(k - 1) : q[j] = Cancel
    BY <1>1, <1>3, <2>1 DEF Apart, n
  <2>3. QED
    BY <1>1, <1>3, <2>2
<1>4. CASE k = n + 2
  <2>1. entry2 /\ c.type # "CreateSession"
    BY <1>1, <1>4 DEF Opens
  <2>2. i <= n
    BY <1>1, <1>4, <2>1 DEF Opens
  <2>3. CASE c = Cancel
    BY <1>1, <1>4, <2>2, <2>3
  <2>4. CASE entry
    <3>1. Opens(q, open, entry, i) /\ Opens(q, open, entry, n + 1)
      BY <1>1, <2>2, <2>4 DEF Opens, n
    <3>2. PICK j \in (i + 1)..n : q[j] = Cancel
      BY <1>1, <2>2, <3>1 DEF Apart, n
    <3>3. QED
      BY <1>1, <1>4, <2>2, <3>2
  <2>5. QED
    BY <2>1, <2>3, <2>4
<1>5. QED
  BY <1>1, <1>2, <1>3, <1>4

(* The first command is taken.                                             *)
LEMMA TailApart ==
    ASSUME NEW q \in Seq(Commands), q # <<>>,
           NEW open \in BOOLEAN, NEW open2 \in BOOLEAN, NEW entry \in BOOLEAN,
           Apart(q, open, entry),
           open2 => \/ Head(q).type = "CreateSession"
                    \/ open /\ Head(q) # Cancel
    PROVE  Apart(Tail(q), open2, entry)
<1> DEFINE r == Tail(q)
           n == Len(r)
<1>1. /\ n \in Nat
      /\ Len(q) = n + 1
      /\ DOMAIN q = 1..(n + 1)
      /\ DOMAIN r = 1..n
      /\ \A j \in 1..n : r[j] = q[j + 1]
      /\ Head(q) = q[1]
  BY QueueTail
<1>2. Cancel.type # "CreateSession"
  BY DEF Cancel
<1> HIDE DEF r, n
<1> SUFFICES ASSUME NEW i \in 0..(n + 1), NEW k \in 0..(n + 1), i < k,
                    Opens(r, open2, entry, i), Opens(r, open2, entry, k)
             PROVE  \E j \in (i + 1)..(k - 1) : r[j] = Cancel
  BY <1>1 DEF Apart, r, n
<1>3. Opens(q, open, entry, k + 1)
  BY <1>1 DEF Opens, n
<1>4. \A j \in (i + 2)..k : q[j] = Cancel => r[j - 1] = Cancel
  BY <1>1
<1>5. CASE Opens(q, open, entry, i + 1)
  <2>1. PICK j \in (i + 2)..k : q[j] = Cancel
    BY <1>1, <1>3, <1>5 DEF Apart
  <2>2. j - 1 \in (i + 1)..(k - 1)
    BY <1>1, <2>1
  <2>3. r[j - 1] = Cancel
    BY <1>4, <2>1
  <2>4. QED
    BY <2>2, <2>3
<1>6. CASE ~Opens(q, open, entry, i + 1)
  <2>1. i = 0 /\ open /\ q[1] # Cancel
    BY <1>1, <1>6 DEF Opens, n
  <2>2. Opens(q, open, entry, 0)
    BY <2>1 DEF Opens
  <2>3. PICK j \in 1..k : q[j] = Cancel
    <3>1. /\ 0 \in 0..(Len(q) + 1) /\ k + 1 \in 0..(Len(q) + 1)
          /\ 0 < k + 1
      BY <1>1
    <3>2. \E j \in (0 + 1)..((k + 1) - 1) : q[j] = Cancel
      BY <1>3, <2>2, <3>1 DEF Apart
    <3>3. QED
      BY <1>1, <3>2
  <2>4. j \in 2..k
    BY <2>1, <2>3
  <2>5. j - 1 \in 1..(k - 1) /\ r[j - 1] = Cancel
    BY <1>4, <2>1, <2>3, <2>4
  <2>6. QED
    BY <2>1, <2>5
<1>7. QED
  BY <1>5, <1>6

(* What the handlers may do to the queue, the stage and the conversation.  *)
LEMMA ApartTypes ==
    ASSUME IInv
    PROVE  /\ cmds \in Seq(Commands)
           /\ MayBeOpen \in BOOLEAN
           /\ typed \in BOOLEAN
  BY DEF IInv, TypeOK, ActorTypeOK, MayBeOpen

LEMMA SameConversation ==
    ASSUME StackInv, UNCHANGED <<client, actor, req, peerVars, typed>>,
           typed => Apart(cmds', MayBeOpen, stage' = "Username")
    PROVE  StackInv'
<1>1. UNCHANGED conv
  BY DEF peerVars
<1>2. MayBeOpen' = MayBeOpen
  BY <1>1 DEF MayBeOpen
<1>3. QED
  BY <1>1, <1>2 DEF StackInv, CreatesApart, ConvHasClient, TypedNeverStacks

(* The stage is left, or stays, with the queue as it is.                   *)
LEMMA EntryCloses ==
    ASSUME IInv, StackInv, UNCHANGED <<cmds, client, actor, req, peerVars, typed>>,
           stage' = "Username" => stage = "Username"
    PROVE  StackInv'
<1>1. ASSUME typed PROVE Apart(cmds, MayBeOpen, stage' = "Username")
  BY <1>1 DEF StackInv, CreatesApart, Apart, Opens
<1>2. QED
  BY <1>1, SameConversation

(* A command is queued.                                                    *)
LEMMA OneQueued ==
    ASSUME IInv, StackInv, UNCHANGED <<client, actor, req, peerVars, typed>>,
           NEW c \in Commands, cmds' = Append(cmds, c),
           c.type = "CreateSession" => stage = "Username" /\ stage' # "Username",
           stage' = "Username" => stage = "Username" \/ c = Cancel
    PROVE  StackInv'
<1>1. ASSUME typed PROVE Apart(cmds', MayBeOpen, stage' = "Username")
  BY <1>1, ApartTypes, AppendApart DEF StackInv, CreatesApart
<1>2. QED
  BY <1>1, SameConversation

(* A conversation is cancelled and, out of the entry, another command      *)
(* follows.                                                                *)
LEMMA CancelQueued ==
    ASSUME IInv, StackInv, UNCHANGED <<client, actor, req, peerVars, typed>>,
           NEW c \in Commands, cmds' = Append(Append(cmds, Cancel), c),
           c.type = "CreateSession" => stage' # "Username"
    PROVE  StackInv'
<1>1. Cancel \in Commands /\ Cancel.type # "CreateSession"
  BY Vocabulary DEF Cancel
<1>2. Append(cmds, Cancel) \in Seq(Commands)
  BY <1>1, ApartTypes, QueueAppend
<1>3. ASSUME typed PROVE Apart(cmds', MayBeOpen, stage' = "Username")
  <2>1. Apart(Append(cmds, Cancel), MayBeOpen, TRUE)
    BY <1>1, <1>3, ApartTypes, AppendApart DEF StackInv, CreatesApart
  <2>2. QED
    BY <1>2, <2>1, ApartTypes, AppendApart
<1>4. QED
  BY <1>3, SameConversation

LEMMA ResetStack ==
    ASSUME IInv, StackInv, UNCHANGED <<client, actor, req, peerVars, typed>>,
           ResetAuth(cmds)
    PROVE  StackInv'
<1>1. CASE typed
  BY <1>1, OneQueued, Vocabulary DEF ResetAuth, Cancel
<1>2. CASE ~typed
  BY <1>2, SameConversation
<1>3. QED
  BY <1>1, <1>2

LEMMA InitStack == Init => StackInv
<1> SUFFICES ASSUME Init PROVE StackInv
  OBVIOUS
<1>1. cmds = <<>> /\ conv = NoConv /\ actor \in {"starting", "idle"} /\ ~MayBeOpen
  BY DEF Init, ActorInit, PeerInit, MayBeOpen
<1>2. Apart(cmds, MayBeOpen, stage = "Username")
  BY <1>1 DEF Apart, Opens
<1>3. QED
  BY <1>1, <1>2 DEF StackInv, CreatesApart, ConvHasClient, TypedNeverStacks

LEMMA UpdateStack == ASSUME IInv, StackInv, UpdateAny PROVE StackInv'
<1> USE DEF Update, Ignore
<1>1. CASE HandleSubmit
  <2>1. UNCHANGED <<client, actor, req, peerVars, typed>>
    BY <1>1 DEF HandleSubmit
  <2>2. CASE stage = "Username" /\ \E text \in 0..MaxUsers : SubmitName(text)
    <3>1. PICK text \in 0..MaxUsers : SubmitName(text)
      BY <2>2
    <3>2. CASE sessions = 0
      BY <2>1, <3>1, <3>2, ResetStack DEF SubmitName, ShowError
    <3>3. CASE sessions > 0 /\ text = 0
      BY <2>1, <3>1, <3>3, EntryCloses DEF SubmitName
    <3>4. CASE sessions > 0 /\ text # 0
      <4>1. text \in Users /\ Dispatch(Create(text), "Working")
        BY <3>1, <3>4 DEF SubmitName, Users
      <4>2. Create(text) \in Commands
        BY <4>1, Vocabulary
      <4>3. QED
        BY <2>1, <2>2, <4>1, <4>2, OneQueued DEF Dispatch
    <3>5. QED
      BY <3>2, <3>3, <3>4 DEF IInv, TypeOK
  <2>3. CASE stage = "Prompt" /\ SubmitAnswer
    BY <2>1, <2>3, OneQueued, Vocabulary DEF SubmitAnswer, Dispatch, Respond
  <2>4. CASE stage \notin {"Username", "Prompt"} /\ Ignore
    BY <2>1, <2>4, EntryCloses
  <2>5. QED
    BY <1>1, <2>2, <2>3, <2>4 DEF HandleSubmit
<1>2. ASSUME NEW kind \in Notices, HandleNotice(kind) PROVE StackInv'
  BY <1>2, OneQueued, Vocabulary DEF HandleNotice, Respond
<1>3. ASSUME NEW kind \in Questions, HandleQuestion(kind) PROVE StackInv'
  BY <1>3, EntryCloses DEF HandleQuestion
<1>4. CASE HandleSuccess
  <2>1. UNCHANGED <<client, actor, req, peerVars, typed>>
    BY <1>4 DEF HandleSuccess
  <2>2. CASE selected < sessions /\ Dispatch(Start(selected), "Starting")
    <3>1. selected \in 0..(sessions - 1) /\ sessions \in 0..MaxSessions
      BY <2>2, SessionsAssumption DEF IInv, TypeOK, SessionsAssumption
    <3>2. selected \in 0..(MaxSessions - 1)
      BY <3>1, SessionsAssumption DEF SessionsAssumption
    <3>3. Start(selected) \in Commands
      BY <3>2, Vocabulary
    <3>4. QED
      BY <2>1, <2>2, <3>3, OneQueued DEF Dispatch, Start
  <2>3. CASE ~(selected < sessions) /\ ResetAuth(Append(cmds, Cancel))
    <3>1. CASE ~typed
      BY <2>1, <3>1, SameConversation
    <3>2. CASE typed
      BY <2>1, <2>3, <3>2, CancelQueued, Vocabulary DEF ResetAuth, Cancel
    <3>3. QED
      BY <3>1, <3>2
  <2>4. QED
    BY <1>4, <2>2, <2>3 DEF HandleSuccess
<1>5. CASE HandleFailure
  BY <1>5, ResetStack DEF HandleFailure, ShowError
<1>6. CASE HandleStarted
  BY <1>6, EntryCloses DEF HandleStarted
<1>7. CASE HandleAutoStart
  <2>1. 1 \in DOMAIN inbox /\ inbox[1].type = "AutoStart"
    BY <1>7, QueueTail DEF HandleAutoStart, IInv, TypeOK
  <2>2. ~typed
    BY <2>1 DEF IInv, KickComesFirst
  <2>3. QED
    BY <1>7, <2>2, SameConversation DEF HandleAutoStart
<1>8. CASE HandleSessionSelected
  BY <1>8, EntryCloses DEF HandleSessionSelected
<1>9. CASE HandleUserSelected
  <2> DEFINE user == Head(inbox).arg
  <2>1. CASE stage = "Starting" \/ user = username
    BY <1>9, <2>1, EntryCloses DEF HandleUserSelected
  <2>2. CASE ~(stage = "Starting" \/ user = username)
    <3>1. user \in Users
      BY <1>9, QueueTail, Vocabulary DEF HandleUserSelected, Inputs, IInv, TypeOK
    <3>2. Create(user) \in Commands /\ Cancel \in Commands
      BY <3>1, Vocabulary
    <3>3. cmds' = cmds \o <<Cancel, Create(user)>> /\ stage' = "Working"
      BY <1>9, <2>2 DEF HandleUserSelected
    <3>4. cmds' = Append(Append(cmds, Cancel), Create(user))
      BY <3>2, <3>3, ApartTypes, PairAppend
    <3>5. QED
      BY <1>9, <3>2, <3>3, <3>4, CancelQueued DEF HandleUserSelected
  <2>3. QED
    BY <2>1, <2>2
<1>10. CASE HandleCancel
  BY <1>10, ResetStack, EntryCloses DEF HandleCancel
<1>11. QED
  BY <1>1, <1>2, <1>3, <1>4, <1>5, <1>6, <1>7, <1>8, <1>9, <1>10 DEF UpdateAny

(* The actor: the queue stays, and it opens nothing that was not open.     *)
LEMMA QueueStays ==
    ASSUME IInv, StackInv, UNCHANGED <<cmds, uiVars>>,
           MayBeOpen' => MayBeOpen,
           ConvHasClient', TypedNeverStacks'
    PROVE  StackInv'
<1>1. UNCHANGED <<stage, typed>>
  BY DEF uiVars
<1>2. ASSUME typed PROVE Apart(cmds, MayBeOpen', stage = "Username")
  BY <1>2 DEF StackInv, CreatesApart, Apart, Opens
<1>3. QED
  BY <1>1, <1>2 DEF StackInv, CreatesApart

(* It takes a command.                                                     *)
LEMMA QueueMoves ==
    ASSUME IInv, StackInv, cmds # <<>>, cmds' = Tail(cmds), UNCHANGED uiVars,
           MayBeOpen' => \/ Head(cmds).type = "CreateSession"
                         \/ MayBeOpen /\ Head(cmds) # Cancel,
           ConvHasClient', TypedNeverStacks'
    PROVE  StackInv'
<1>1. UNCHANGED <<stage, typed>>
  BY DEF uiVars
<1>2. MayBeOpen' \in BOOLEAN
  BY DEF MayBeOpen
<1>3. ASSUME typed PROVE Apart(cmds', MayBeOpen', stage = "Username")
  BY <1>2, <1>3, ApartTypes, TailApart DEF StackInv, CreatesApart
<1>4. QED
  BY <1>1, <1>3 DEF StackInv, CreatesApart

LEMMA ActorStack == ASSUME IInv, StackInv, ActorStep PROVE StackInv'
<1> USE DEF ActorStep
<1>1. UNCHANGED uiVars /\ UNCHANGED typed
  BY DEF uiVars
<1>2. CASE ActorStarts
  BY <1>1, <1>2, QueueStays
  DEF ActorStarts, peerVars, MayBeOpen, StackInv, ConvHasClient, TypedNeverStacks
<1>3. CASE ActorCancels
  <2>1. conv' = conv /\ client' = client /\ req' = req /\ ~MayBeOpen'
    BY <1>3 DEF ActorCancels, peerVars, MayBeOpen, StackInv, ConvHasClient
  <2>2. ConvHasClient' /\ TypedNeverStacks'
    BY <1>3, <2>1 DEF ActorCancels, StackInv, ConvHasClient, TypedNeverStacks
  <2>3. QED
    BY <1>1, <1>3, <2>1, <2>2, QueueMoves DEF ActorCancels
<1>4. CASE ActorSends
  <2>1. /\ cmds # <<>> /\ cmds' = Tail(cmds)
        /\ Head(cmds) # Cancel
        /\ actor = "idle" /\ conv' = conv
    BY <1>4 DEF ActorSends, peerVars
  <2>2. ConvHasClient'
    BY <1>4, <2>1 DEF ActorSends, StackInv, ConvHasClient
  <2>3. MayBeOpen' => Head(cmds).type = "CreateSession" \/ MayBeOpen
    BY <1>4, <2>1 DEF ActorSends, MayBeOpen
  <2>4. ASSUME typed, Head(cmds).type = "CreateSession" PROVE ~MayBeOpen
    <3>1. /\ Len(cmds) \in Nat \ {0}
          /\ 1 \in DOMAIN cmds /\ cmds[1].type = "CreateSession"
      BY <2>1, <2>4, ApartTypes, QueueTail
    <3>2. Opens(cmds, MayBeOpen, stage = "Username", 1)
      BY <3>1 DEF Opens
    <3>3. MayBeOpen => Opens(cmds, MayBeOpen, stage = "Username", 0)
      BY DEF Opens
    <3>4. Apart(cmds, MayBeOpen, stage = "Username")
      BY <2>4 DEF StackInv, CreatesApart
    <3>5. 0 \in 0..(Len(cmds) + 1) /\ 1 \in 0..(Len(cmds) + 1) /\ 0 < 1
      BY <3>1
    <3>6. MayBeOpen => \E j \in (0 + 1)..(1 - 1) : cmds[j] = Cancel
      BY <3>2, <3>3, <3>4, <3>5 DEF Apart
    <3>7. QED
      BY <3>6
  <2>5. TypedNeverStacks'
    BY <1>1, <1>4, <2>1, <2>4 DEF ActorSends, MayBeOpen, TypedNeverStacks
  <2>6. QED
    BY <1>1, <2>1, <2>2, <2>3, <2>5, QueueMoves
<1>5. ASSUME NEW resp \in Prompts \union {"Success", "Refused"}, Answered(resp)
      PROVE  StackInv'
  <2>1. /\ actor = "waiting" /\ client = "up"
        /\ UNCHANGED <<cmds, client>>
        /\ actor' \in {"idle", "failing"}
    BY <1>5 DEF Answered
  <2>2. conv' = NoConv \/ conv # NoConv \/ req.type = "CreateSession"
    <3>1. /\ AnswerRespond(resp) => conv' = NoConv \/ conv # NoConv
          /\ AnswerStart(resp) => conv' = NoConv \/ conv # NoConv
      BY DEF AnswerRespond, AnswerStart, Refuse, NoConv
    <3>2. req.type \in {"CreateSession", "Respond", "StartSession"}
      BY <2>1, CommandShapes DEF IInv, TypeOK, ActorTypeOK
    <3>3. QED
      BY <1>5, <3>1, <3>2 DEF Answered
  <2>3. MayBeOpen' => MayBeOpen
    BY <2>1, <2>2 DEF MayBeOpen
  <2>4. ConvHasClient' /\ TypedNeverStacks'
    BY <2>1 DEF ConvHasClient, TypedNeverStacks
  <2>5. QED
    BY <1>1, <2>1, <2>3, <2>4, QueueStays
<1>6. CASE RoundtripLost \/ CancelAnswered \/ CancelFails
  <2>1. UNCHANGED cmds /\ conv' = NoConv /\ actor' = "idle"
    BY <1>6 DEF RoundtripLost, CancelAnswered, CancelFails, CancelDone, EndConversation
  <2>2. ~MayBeOpen' /\ ConvHasClient' /\ TypedNeverStacks'
    BY <2>1 DEF MayBeOpen, ConvHasClient, TypedNeverStacks
  <2>3. QED
    BY <1>1, <2>1, <2>2, QueueStays
<1>7. CASE ConnectionBreaks
  <2>1. UNCHANGED <<cmds, actor, req>> /\ conv' = NoConv
    BY <1>7 DEF ConnectionBreaks, EndConversation
  <2>2. (MayBeOpen' => MayBeOpen) /\ ConvHasClient' /\ TypedNeverStacks'
    BY <2>1 DEF MayBeOpen, ConvHasClient, TypedNeverStacks
  <2>3. QED
    BY <1>1, <2>1, <2>2, QueueStays
<1>8. QED
  BY <1>2, <1>3, <1>4, <1>5, <1>6, <1>7 DEF Actor

LEMMA NextStack == ASSUME IInv, StackInv, [Next]_vars PROVE StackInv'
<1>1. CASE User
  <2>1. UNCHANGED <<cmds, client, actor, req, peerVars, uiVars>>
    BY <1>1 DEF User, PressEnter, PressEscape, PickUser, PickSession, Send
  <2>2. QED
    BY <2>1, EntryCloses DEF uiVars
<1>2. CASE UNCHANGED vars
  BY <1>2, EntryCloses DEF vars, actorVars, uiVars
<1>3. QED
  BY <1>1, <1>2, UpdateStack, ActorStack DEF Next

(* In typed mode no order of late events, cancels and answers leads to a   *)
(* CreateSession while greetd has a conversation open: handle_submit,      *)
(* reset_auth and cancel_auth in main.rs, run_actor in greetd/mod.rs.      *)
THEOREM TypedKeepsApart == Spec => []TypedNeverStacks
<1>1. Init => StackInv
  BY InitStack
<1>2. IInv /\ StackInv /\ [Next]_vars => StackInv'
  BY NextStack
<1>3. StackInv => TypedNeverStacks
  BY DEF StackInv
<1>4. QED
  BY <1>1, <1>2, <1>3, Invariance, PTL DEF Spec
-----------------------------------------------------------------------------
(* The end of the greeter.                                                 *)

StartTold == \E i \in DOMAIN inbox : inbox[i] = Event("Started")

(* A step that neither tells of a start nor takes one back, and does not   *)
(* leave the screen unless told.                                           *)
LEMMA LeaveStays ==
    ASSUME LeaveInv, StartTold' => StartTold,
           started \in Users => started' \in Users,
           exited' => exited \/ StartTold
    PROVE  LeaveInv'
  BY DEF LeaveInv, ExitMeansStarted, StartedIsTrue, StartTold, Users

(* Another input has joined the queue.                                     *)
LEMMA OtherNews ==
    ASSUME IInv, NEW m \in Inputs, m # Event("Started"),
           inbox' = Append(inbox, m)
    PROVE  StartTold' => StartTold
<1>1. inbox \in Seq(Inputs)
  BY DEF IInv, TypeOK, Inputs
<1>2. /\ DOMAIN inbox' = 1..(Len(inbox) + 1) /\ DOMAIN inbox = 1..Len(inbox)
      /\ Len(inbox) \in Nat
      /\ \A i \in DOMAIN inbox : inbox'[i] = inbox[i]
      /\ inbox'[Len(inbox) + 1] = m
  BY <1>1, QueueAppend
<1>3. Event("Started")' = Event("Started")
  BY DEF Event
<1>4. QED
  BY <1>2, <1>3 DEF StartTold

(* update has taken an input.                                              *)
LEMMA LessNews ==
    ASSUME IInv, inbox # <<>>, inbox' = Tail(inbox)
    PROVE  /\ StartTold' => StartTold
           /\ Head(inbox).type = "Started" => StartTold
<1>1. inbox \in Seq(Inputs)
  BY DEF IInv, TypeOK, Inputs
<1>2. /\ Head(inbox) = inbox[1] /\ Head(inbox) \in Inputs
      /\ Len(inbox) \in Nat \ {0}
      /\ DOMAIN inbox = 1..Len(inbox) /\ DOMAIN inbox' = 1..(Len(inbox) - 1)
      /\ \A i \in DOMAIN inbox' : inbox'[i] = inbox[i + 1]
  BY <1>1, QueueTail
<1>3. Event("Started")' = Event("Started")
  BY DEF Event
<1>4. StartTold' => StartTold
  BY <1>2, <1>3 DEF StartTold
<1>5. ASSUME NEW m \in Inputs, m.type = "Started" PROVE m = Event("Started")
  <2>1. m \notin UserInputs
    BY <1>5 DEF UserInputs, Event
  <2>2. QED
    BY <1>5, <2>1 DEF Inputs, Events, Event
<1>6. QED
  BY <1>2, <1>4, <1>5 DEF StartTold

LEMMA UserLeave == ASSUME IInv, LeaveInv, User PROVE LeaveInv'
<1>1. PICK m \in UserInputs : m.type # "Started" /\ Send(m)
  BY DEF User, PressEnter, PressEscape, PickUser, PickSession, UserInputs, Event
<1>2. m \in Inputs /\ m # Event("Started")
  BY <1>1 DEF Inputs, Event
<1>3. StartTold' => StartTold
  BY <1>1, <1>2, OtherNews DEF Send
<1>4. QED
  BY <1>1, <1>3, LeaveStays DEF Send, peerVars, uiVars

LEMMA UpdateLeave == ASSUME IInv, LeaveInv, UpdateAny PROVE LeaveInv'
<1>1. PICK type : Update(type) /\ (exited' = exited \/ type = "Started")
  BY DEF UpdateAny, HandleSubmit, HandleNotice, HandleQuestion, HandleSuccess,
         HandleFailure, HandleStarted, HandleAutoStart, HandleSessionSelected,
         HandleUserSelected, HandleCancel
<1>2. /\ StartTold' => StartTold
      /\ type = "Started" => StartTold
  BY <1>1, LessNews DEF Update
<1>3. QED
  BY <1>1, <1>2, LeaveStays DEF Update, peerVars

(* greetd answers StartSession with success only by starting a session.    *)
LEMMA AnsweredLeave ==
    ASSUME IInv, LeaveInv, UNCHANGED uiVars,
           NEW resp \in Prompts \union {"Success", "Refused"}, Answered(resp)
    PROVE  LeaveInv'
<1>1. req.type \in {"CreateSession", "Respond", "StartSession"}
  BY CommandShapes DEF IInv, TypeOK, ActorTypeOK, Answered
<1>2. started' = started \/ started' \in Users
  <2>1. conv.phase = "authenticated" => conv.user \in Users
    BY DEF IInv, TypeOK, PeerTypeOK, NoConv
  <2>2. QED
    BY <1>1, <2>1 DEF Answered, AnswerCreate, AnswerRespond, AnswerStart,
                      Refuse, Proceed
<1>3. CASE resp = "Refused"
  BY <1>2, <1>3, LeaveStays DEF Answered, StartTold, uiVars
<1>4. CASE resp # "Refused" /\ req.type # "StartSession"
  <2>1. Event(resp) \in Inputs /\ Event(resp) # Event("Started")
    BY <1>4, Vocabulary DEF Event, Prompts, Questions, Notices
  <2>2. inbox' = Append(inbox, Event(resp))
    BY <1>4 DEF Answered, Emit
  <2>3. QED
    BY <1>2, <2>1, <2>2, OtherNews, LeaveStays DEF uiVars
<1>5. CASE resp # "Refused" /\ req.type = "StartSession"
  <2>1. conv.phase = "authenticated" /\ started' = conv.user
    BY <1>5 DEF Answered, AnswerStart, Refuse
  <2>2. started' \in Users
    BY <2>1 DEF IInv, TypeOK, PeerTypeOK, NoConv
  <2>3. QED
    BY <2>2 DEF LeaveInv, ExitMeansStarted, StartedIsTrue, Users
<1>6. QED
  BY <1>3, <1>4, <1>5

LEMMA ActorLeave == ASSUME IInv, LeaveInv, ActorStep PROVE LeaveInv'
<1>1. UNCHANGED uiVars
  BY DEF ActorStep
<1>2. CASE \E resp \in Prompts \union {"Success", "Refused"} : Answered(resp)
  BY <1>1, <1>2, AnsweredLeave
<1>3. CASE started' = started /\ (Emit("Failure") \/ UNCHANGED inbox)
  <2>1. Event("Failure") \in Inputs /\ Event("Failure") # Event("Started")
    BY Vocabulary DEF Event
  <2>2. StartTold' => StartTold
    BY <1>3, <2>1, OtherNews DEF Emit, StartTold
  <2>3. QED
    BY <1>1, <1>3, <2>2, LeaveStays DEF uiVars
<1>4. QED
  BY <1>2, <1>3
  DEF ActorStep, Actor, ActorStarts, ActorCancels, ActorSends, RoundtripLost,
      CancelAnswered, CancelFails, CancelDone, ConnectionBreaks,
      EndConversation, peerVars

LEMMA NextLeave == ASSUME IInv, LeaveInv, [Next]_vars PROVE LeaveInv'
<1>1. CASE UNCHANGED vars
  BY <1>1, LeaveStays DEF StartTold, vars, actorVars, peerVars, uiVars
<1>2. QED
  BY <1>1, UserLeave, UpdateLeave, ActorLeave DEF Next

(* The process exits only after greetd has started the session of some     *)
(* account: events of cancelled conversations, errors and resets in        *)
(* between do not take the greeter away with nothing in its place.         *)
THEOREM NoEmptyExit == Spec => []ExitMeansStarted
<1>1. Init => LeaveInv
  <2>1. ASSUME Init PROVE ~StartTold
    <3> DEFINE failed == Event("Failure")
               kick == Event("AutoStart")
    <3>1. failed # Event("Started") /\ kick # Event("Started")
      BY DEF Event
    <3>2. inbox \in {<<>>, <<failed>>, <<kick>>, <<failed, kick>>}
      <4>1. failed \in Inputs /\ kick \in Inputs
        BY Vocabulary DEF Inputs, UserInputs
      <4>2. Append(<<>>, kick) = <<kick>> /\ Append(<<failed>>, kick) = <<failed, kick>>
        BY <4>1, ShortAppend
      <4>3. QED
        BY <2>1, <4>2 DEF Init
    <3>3. QED
      BY <3>1, <3>2 DEF StartTold
  <2>2. QED
    BY <2>1 DEF Init, LeaveInv, ExitMeansStarted, StartedIsTrue, StartTold
<1>2. IInv /\ LeaveInv /\ [Next]_vars => LeaveInv'
  BY NextLeave
<1>3. LeaveInv => ExitMeansStarted
  BY DEF LeaveInv
<1>4. QED
  BY <1>1, <1>2, <1>3, Invariance, PTL DEF Spec
=============================================================================
