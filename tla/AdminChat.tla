----------------------------- MODULE AdminChat -----------------------------
(***************************************************************************)
(* The chat of the administrators with the users of the bot:               *)
(* TelegramWebhook and the functions it calls in                           *)
(* handlers/telegram_webhook.go, ReplyAdminBotMessage in                   *)
(* handlers/admin_bot_messages.go, and the table admin_bot_messages.       *)
(*                                                                         *)
(* Telegram delivers the updates side by side and again when it has no     *)
(* answer.  The chat an administrator answers to next is kept in the       *)
(* memory of the API only.                                                 *)
(***************************************************************************)
EXTENDS Naturals, FiniteSets, Sequences

CONSTANTS
  Admins,
  Users,          \* the chats of the users
  LastUpdate,     \* bound on how many messages are written
  MaxChatFaults,  \* bound on failing sends and statements, lost answers, crashes
  NoChat          \* no chat

Updates == 1..LastUpdate

\* select is a reply button, /reply <chat> or /start reply_<chat>, reply is
\* /reply <chat> <text>, panel the request of the admin panel, text free text;
\* start is the /start of a user, which is answered, incoming anything else.
ToChat == {"select", "reply", "panel"}
FromUser == {"incoming", "start"}
Kinds == ToChat \cup {"cancel", "text"} \cup FromUser

ASSUME ChatAssumption ==
  /\ LastUpdate \in Nat
  /\ MaxChatFaults \in Nat
  /\ NoChat \notin Users

VARIABLES
  message,    \* the messages written so far
  step,       \* what its handler does next; "idle" when it is done
  chat,       \* the chat the handler works with
  target,     \* adminReplyTarget
  rows,       \* the rows of admin_bot_messages made of each message
  meant,      \* the chat an administrator has selected last
  confirmed,  \* the messages whose confirmation was seen
  arrivals,   \* history: the chats a text has reached
  repeated,   \* history: Telegram has delivered a message again
  chatFaults  \* history: how many faults there were

peopleVars == <<message, meant>>
chatVars ==
  <<peopleVars, step, chat, target, rows, confirmed, arrivals, repeated, chatFaults>>

\* waited: the administrator had seen all confirmations when he wrote it.
Messages == [kind : Kinds, by : Admins \cup Users, to : Users \cup {NoChat},
             waited : BOOLEAN]

Steps == {"unwritten", "set", "clear", "read", "send", "setAfter", "store",
          "confirm", "notify", "lookup", "photo", "idle"}

ChatTypeOK ==
  /\ message \in Seq(Messages) /\ Len(message) <= LastUpdate
  /\ step \in [Updates -> Steps]
  /\ chat \in [Updates -> Users \cup {NoChat}]
  /\ target \in [Admins -> Users \cup {NoChat}]
  /\ rows \in [Updates -> Nat]
  /\ meant \in [Admins -> Users \cup {NoChat}]
  /\ confirmed \subseteq Updates
  /\ \A u \in Updates : arrivals[u] \in Seq(Users)
  /\ repeated \in BOOLEAN
  /\ chatFaults \in 0..MaxChatFaults

ChatInit ==
  /\ message = << >>
  /\ step = [u \in Updates |-> "unwritten"]
  /\ chat = [u \in Updates |-> NoChat]
  /\ target = [a \in Admins |-> NoChat]
  /\ rows = [u \in Updates |-> 0]
  /\ meant = [a \in Admins |-> NoChat]
  /\ confirmed = {}
  /\ arrivals = [u \in Updates |-> << >>]
  /\ repeated = FALSE
  /\ chatFaults = 0

ChatFault == chatFaults < MaxChatFaults /\ chatFaults' = chatFaults + 1

\* Mutant: a selection is confirmed, and the target left as it was.
FirstConfirms(kind) ==
  CASE kind \in {"select", "cancel"} -> "confirm"
    [] kind = "text" -> "read"
    [] kind \in FromUser -> "store"
    [] OTHER -> "send"

\* What TelegramWebhook dispatches to.
First(kind) ==
  CASE kind = "select" -> "set"
    [] kind = "cancel" -> "clear"
    [] kind = "text" -> "read"
    [] kind \in FromUser -> "store"
    [] OTHER -> "send"

(***************************************************************************)
(* The people.                                                             *)
(***************************************************************************)
Selections(a) ==
  {u \in 1..Len(message) : message[u].by = a /\ message[u].kind \in {"select", "cancel", "reply"}}

Write(m) ==
  /\ Len(message) < LastUpdate
  /\ message' = Append(message, m)
  /\ step' = [step EXCEPT ![Len(message) + 1] = First(m.kind)]
  /\ chat' = [chat EXCEPT ![Len(message) + 1] = m.to]
  /\ UNCHANGED <<target, rows, confirmed, arrivals, repeated, chatFaults>>

Waited(a) == Selections(a) \subseteq confirmed

WriteToChat(a, kind, c) ==
  /\ Write([kind |-> kind, by |-> a, to |-> c, waited |-> Waited(a)])
  /\ meant' = IF kind = "panel" THEN meant ELSE [meant EXCEPT ![a] = c]

WriteCancel(a) ==
  /\ Write([kind |-> "cancel", by |-> a, to |-> NoChat, waited |-> Waited(a)])
  /\ meant' = [meant EXCEPT ![a] = NoChat]

WriteText(a) ==
  /\ Write([kind |-> "text", by |-> a, to |-> meant[a], waited |-> Waited(a)])
  /\ UNCHANGED meant

WriteIncoming(c, kind) ==
  /\ Write([kind |-> kind, by |-> c, to |-> c, waited |-> FALSE])
  /\ UNCHANGED meant

People ==
  \/ \E a \in Admins :
       \/ \E kind \in ToChat, c \in Users : WriteToChat(a, kind, c)
       \/ WriteCancel(a) \/ WriteText(a)
  \/ \E c \in Users, kind \in FromUser : WriteIncoming(c, kind)

(***************************************************************************)
(* The handlers, from one call of Telegram or the database to the next.    *)
(***************************************************************************)
Goes(u, next) == step' = [step EXCEPT ![u] = next]

\* setAdminReplyTarget, for a selection before and for a reply after the send.
SetTarget(u) ==
  /\ step[u] \in {"set", "setAfter"}
  /\ target' = [target EXCEPT ![message[u].by] = chat[u]]
  /\ Goes(u, IF step[u] = "set" THEN "confirm" ELSE "store")
  /\ UNCHANGED <<peopleVars, chat, rows, confirmed, arrivals, repeated, chatFaults>>

ClearTarget(u) ==
  /\ step[u] = "clear"
  /\ target' = [target EXCEPT ![message[u].by] = NoChat]
  /\ Goes(u, "confirm")
  /\ UNCHANGED <<peopleVars, chat, rows, confirmed, arrivals, repeated, chatFaults>>

\* adminReplyTargetFor: without a target a free text is left alone.
ReadTarget(u) ==
  /\ step[u] = "read"
  /\ chat' = [chat EXCEPT ![u] = target[message[u].by]]
  /\ Goes(u, IF target[message[u].by] = NoChat THEN "idle" ELSE "send")
  /\ UNCHANGED <<peopleVars, target, rows, confirmed, arrivals, repeated, chatFaults>>

Arrives(u) == arrivals' = [arrivals EXCEPT ![u] = Append(@, chat[u])]

AfterSend(u) ==
  CASE message[u].kind = "reply" -> "setAfter"
    [] message[u].kind = "start" -> "idle"
    [] OTHER -> "store"

\* SendMessage to the chat: the text, the card of an event or the button.
Send(u) ==
  /\ step[u] = "send"
  /\ Arrives(u)
  /\ Goes(u, AfterSend(u))
  /\ UNCHANGED <<peopleVars, chat, target, rows, confirmed, repeated, chatFaults>>

\* Mutant: without the return after the error.
SendFailsStores(u) ==
  /\ step[u] = "send"
  /\ ChatFault
  /\ Arrives(u) \/ UNCHANGED arrivals
  /\ Goes(u, AfterSend(u))
  /\ UNCHANGED <<peopleVars, chat, target, rows, confirmed, repeated>>

\* It fails, or its answer is lost: no row, and no target.
SendFails(u) ==
  /\ step[u] = "send"
  /\ ChatFault
  /\ Arrives(u) \/ UNCHANGED arrivals
  /\ Goes(u, "idle")
  /\ UNCHANGED <<peopleVars, chat, target, rows, confirmed, repeated>>

AfterStore(u) ==
  CASE message[u].kind \in FromUser -> "notify"
    [] message[u].kind = "panel" -> "idle"
    [] OTHER -> "confirm"

\* storeIncomingBotMessage and storeOutgoingBotMessage; errors are ignored.
Store(u) ==
  /\ step[u] = "store"
  /\ rows' = [rows EXCEPT ![u] = @ + 1]
  /\ Goes(u, AfterStore(u))
  /\ UNCHANGED <<peopleVars, chat, target, confirmed, arrivals, repeated, chatFaults>>

StoreFails(u) ==
  /\ step[u] = "store"
  /\ ChatFault
  /\ Goes(u, AfterStore(u))
  /\ UNCHANGED <<peopleVars, chat, target, rows, confirmed, arrivals, repeated>>

AfterConfirm(u) == IF message[u].kind = "start" THEN "lookup" ELSE "idle"

\* The confirmation to the administrator, or notifyAdminsWithMarkup.
Confirm(u) ==
  /\ step[u] \in {"confirm", "notify"}
  /\ confirmed' = confirmed \cup {u}
  /\ Goes(u, AfterConfirm(u))
  /\ UNCHANGED <<peopleVars, chat, target, rows, arrivals, repeated, chatFaults>>

ConfirmFails(u) ==
  /\ step[u] \in {"confirm", "notify"}
  /\ ChatFault
  /\ Goes(u, AfterConfirm(u))
  /\ UNCHANGED <<peopleVars, chat, target, rows, confirmed, arrivals, repeated>>

\* What /start gets: an event with a picture as a photo, another event, or
\* the button of the app, as a text.
LookUpEvent(u) ==
  /\ step[u] = "lookup"
  /\ \E next \in {"photo", "send"} : Goes(u, next)
  /\ UNCHANGED <<peopleVars, chat, target, rows, confirmed, arrivals, repeated, chatFaults>>

SendPhoto(u) ==
  /\ step[u] = "photo"
  /\ Arrives(u)
  /\ Goes(u, "idle")
  /\ UNCHANGED <<peopleVars, chat, target, rows, confirmed, repeated, chatFaults>>

\* The card is sent without its photo.
SendPhotoFails(u) ==
  /\ step[u] = "photo"
  /\ ChatFault
  /\ Arrives(u) \/ UNCHANGED arrivals
  /\ Goes(u, "send")
  /\ UNCHANGED <<peopleVars, chat, target, rows, confirmed, repeated>>

\* The answer was always 200.  External: Telegram delivers again what it has
\* no answer to.  The admin panel does not.
Again(u) ==
  IF message[u].kind = "panel" THEN "idle" ELSE First(message[u].kind)

AnswerLost(u) ==
  /\ step[u] = "idle" /\ message[u].kind # "panel"
  /\ ChatFault
  /\ Goes(u, Again(u))
  /\ repeated' = TRUE
  /\ UNCHANGED <<peopleVars, chat, target, rows, confirmed, arrivals>>

\* The API stops: the handlers end where they are, the targets are forgotten.
ChatCrash ==
  /\ ChatFault
  /\ step' = [u \in Updates |->
       IF step[u] \in {"unwritten", "idle"} THEN step[u] ELSE Again(u)]
  /\ target' = [a \in Admins |-> NoChat]
  /\ repeated' = TRUE
  /\ UNCHANGED <<peopleVars, chat, rows, confirmed, arrivals>>

Handle(u) ==
  \/ SetTarget(u) \/ ClearTarget(u) \/ ReadTarget(u)
  \/ LookUpEvent(u) \/ SendPhoto(u)
  \/ Send(u) \/ Store(u) \/ Confirm(u)

ChatNext ==
  \/ People
  \/ \E u \in Updates :
       \/ Handle(u)
       \/ SendFails(u) \/ SendPhotoFails(u) \/ StoreFails(u) \/ ConfirmFails(u)
       \/ AnswerLost(u)
  \/ ChatCrash

ChatSpec == ChatInit /\ [][ChatNext]_chatVars

(***************************************************************************)
(* Properties.                                                             *)
(***************************************************************************)
LaterChats(u) ==
  {message[v].to : v \in {v \in Selections(message[u].by) : v > u}}

\* The author has waited for the confirmation of each selection before he
\* went on.
Patient(u) ==
  \A v \in Selections(message[u].by) \cup {u} : v <= u => message[v].waited

\* A text reaches only the chat its author had selected last, or one he has
\* selected since: provided he is patient and Telegram has not repeated
\* anything.  The updates race for adminReplyTarget, which is one shared map.
TextsReachMeant ==
  \A u \in 1..Len(message) :
    message[u].kind = "text" /\ Patient(u) /\ ~ repeated
      => \A n \in 1..Len(arrivals[u]) :
           arrivals[u][n] \in {message[u].to} \cup LaterChats(u)

Outgoing(u) == message[u].kind \in {"reply", "panel", "text"}

\* The transcript shows no text that has not reached its chat, every repeated
\* message has a fault of its own, and without a fault the transcript has every
\* message once.
TranscriptTruthful ==
  \A u \in 1..Len(message) :
    /\ Outgoing(u) => rows[u] <= Len(arrivals[u])
    /\ rows[u] <= 1 + chatFaults /\ Len(arrivals[u]) <= 1 + chatFaults
    /\ chatFaults = 0 /\ step[u] = "idle" =>
         /\ Outgoing(u) => rows[u] = Len(arrivals[u])
         /\ message[u].kind \in FromUser => rows[u] = 1
         /\ message[u].kind \in {"reply", "panel", "start"} => Len(arrivals[u]) = 1
=============================================================================
