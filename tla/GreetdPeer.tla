----------------------------- MODULE GreetdPeer -----------------------------
(***************************************************************************)
(* greetd, the other end of $GREETD_SOCK, outside this repository: the     *)
(* answers that breadgreet's client can receive.  A connection carries one *)
(* login conversation at a time and takes it with it when it breaks or is  *)
(* dropped.  greetd may be wedged: nothing forces it to answer.            *)
(***************************************************************************)
EXTENDS Naturals

CONSTANT MaxUsers       \* accounts are numbered 1..MaxUsers

ASSUME UsersAssumption == MaxUsers \in Nat \ {0}

VARIABLES
    conv,       \* the conversation of the connection: who, and how far
    started     \* the account whose session greetd was told to start, or 0

peerVars == <<conv, started>>

Users == 1..MaxUsers

NoConv == [user |-> 0, phase |-> "none"]

\* What PAM may ask: questions, and messages that need no answer.
Questions == {"Secret", "Visible"}
Notices == {"Info", "Error"}
Prompts == Questions \union Notices

PeerTypeOK ==
    /\ conv \in {NoConv} \union
                [user : Users, phase : {"asking", "authenticated"}]
    /\ started \in 0..MaxUsers

PeerInit ==
    /\ conv = NoConv
    /\ started = 0

Refuse(resp) ==
    /\ resp = "Refused"
    /\ conv' = NoConv
    /\ UNCHANGED started

\* PAM has another question, or is satisfied.
Proceed(user, resp) ==
    /\ \/ resp \in Prompts /\ conv' = [user |-> user, phase |-> "asking"]
       \/ /\ resp = "Success"
          /\ conv' = [user |-> user, phase |-> "authenticated"]
    /\ UNCHANGED started

AnswerCreate(user, resp) == Refuse(resp) \/ (conv = NoConv /\ Proceed(user, resp))

AnswerRespond(resp) ==
    Refuse(resp) \/ (conv.phase = "asking" /\ Proceed(conv.user, resp))

AnswerStart(resp) ==
    \/ Refuse(resp)
    \/ /\ resp = "Success"
       /\ conv.phase = "authenticated"
       /\ started' = conv.user
       /\ UNCHANGED conv

EndConversation ==
    /\ conv' = NoConv
    /\ UNCHANGED started
=============================================================================
