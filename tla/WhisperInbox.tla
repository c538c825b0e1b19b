---------------------------- MODULE WhisperInbox ----------------------------
(***************************************************************************)
(* What the members of a conversation see of it: messages, reactions, read *)
(* receipts and card previews in the database of the whisper backend       *)
(* (conversations_router.py, the frames of ws_handler.py), the events that *)
(* tell the connected clients of each change, and a client that shows      *)
(* them.                                                                   *)
(*                                                                         *)
(* A handler changes the database and creates the task of its broadcast in *)
(* one step; tasks start in that order, and each sends to the connections  *)
(* there are by then (WhisperPush has the sends one by one).  The client   *)
(* connects, then loads the conversation, then applies events.             *)
(***************************************************************************)
EXTENDS Naturals, Sequences

CONSTANTS Pair,          \* the two members
          Emojis, Titles,
          NoTitle,       \* preview_title IS NULL
          MaxMails,      \* bound on the messages
          MaxChanges,    \* bound on the changes of the database
          MaxLinks       \* bound on the connections

ASSUME InboxAssumption ==
    /\ NoTitle \notin Titles
    /\ MaxMails \in Nat /\ MaxChanges \in Nat /\ MaxLinks \in Nat

VARIABLES
    mails,      \* messages: their senders, in the order of their ids
    reactions,  \* rows of reactions: <<message, user, emoji>>
    receipts,   \* rows of read_receipts: <<message, user>>
    titles,     \* preview_title of each message
    events,     \* the broadcasts created, not started
    link,       \* of a member: "off", "on", "loaded"
    channel,    \* events sent to a member and not yet applied
    view,       \* what a member's client shows
    links,      \* connections so far
    changes     \* changes so far

inboxVars == <<mails, reactions, receipts, titles, events, link, channel, view,
               links, changes>>
tableVars == <<mails, reactions, receipts, titles>>
clientSide == <<link, channel, view, links>>

MailIds == 1..MaxMails
Event(type, user, ids, what) == [type |-> type, user |-> user, ids |-> ids, what |-> what]

\* _build_message_out for every message, as list_messages gives them.
Rows == [mails |-> mails, reactions |-> reactions, receipts |-> receipts, titles |-> titles]
NoRows == [mails |-> <<>>, reactions |-> {}, receipts |-> {}, titles |-> [m \in MailIds |-> NoTitle]]

\* What list_conversations counts, in the database or in a view.
Unread(rows, u) == {m \in DOMAIN rows.mails :
                       rows.mails[m] # u /\ <<m, u>> \notin rows.receipts}

-----------------------------------------------------------------------------
(* The handlers. *)

Broadcast(e) ==
    /\ changes < MaxChanges
    /\ changes' = changes + 1
    /\ events' = Append(events, e)

Post(u) ==
    /\ Len(mails) < MaxMails
    /\ mails' = Append(mails, u)
    /\ Broadcast(Event("new_message", u, {Len(mails) + 1}, NoTitle))
    /\ UNCHANGED <<reactions, receipts, titles, clientSide>>

\* POST /conversations/{id}/read: the unread messages of the other.
MarkRead(u) ==
    LET ids == Unread(Rows, u)
    IN  /\ ids # {}
        /\ receipts' = receipts \cup {<<m, u>> : m \in ids}
        /\ Broadcast(Event("read_receipt", u, ids, NoTitle))
        /\ UNCHANGED <<mails, reactions, titles, clientSide>>

\* Mutant: each receipt is committed on its own.
MarkIdsOneByOne(u, ids) ==
    /\ link[u] # "off" /\ ids # {} /\ changes < MaxChanges
    /\ receipts' = receipts \cup {<<m, u>> : m \in ids \cap DOMAIN mails}
    /\ IF ids \subseteq DOMAIN mails
       THEN Broadcast(Event("read_receipt", u, ids, NoTitle)) /\ UNCHANGED <<link, channel>>
       ELSE /\ changes' = changes + 1
            /\ link' = [link EXCEPT ![u] = "off"] /\ channel' = [channel EXCEPT ![u] = <<>>]
            /\ UNCHANGED events
    /\ UNCHANGED <<mails, reactions, titles, view, links>>

\* The frame mark_read: the ids the client gives, its own messages or those read
\* before included.  An id that is none violates the foreign key, which OR
\* IGNORE does not cover: nothing is committed, and the exception ends the
\* handler and the connection.
MarkIds(u, ids) ==
    /\ link[u] # "off" /\ ids # {} /\ changes < MaxChanges
    /\ IF ids \subseteq DOMAIN mails
       THEN /\ receipts' = receipts \cup {<<m, u>> : m \in ids}
            /\ Broadcast(Event("read_receipt", u, ids, NoTitle))
            /\ UNCHANGED <<link, channel>>
       ELSE /\ changes' = changes + 1
            /\ link' = [link EXCEPT ![u] = "off"] /\ channel' = [channel EXCEPT ![u] = <<>>]
            /\ UNCHANGED <<receipts, events>>
    /\ UNCHANGED <<mails, reactions, titles, view, links>>

\* A second reaction of the kind violates UNIQUE: 409.
AddReaction(u, m, emoji) ==
    /\ m \in DOMAIN mails /\ <<m, u, emoji>> \notin reactions
    /\ reactions' = reactions \cup {<<m, u, emoji>>}
    /\ Broadcast(Event("reaction_added", u, {m}, emoji))
    /\ UNCHANGED <<mails, receipts, titles, clientSide>>

\* Removed, if there is one; told in any case.
RemoveReaction(u, m, emoji) ==
    /\ m \in DOMAIN mails
    /\ reactions' = reactions \ {<<m, u, emoji>>}
    /\ Broadcast(Event("reaction_removed", u, {m}, emoji))
    /\ UNCHANGED <<mails, receipts, titles, clientSide>>

\* Any member may set it.
SetPreview(u, m, title) ==
    /\ m \in DOMAIN mails
    /\ titles' = [titles EXCEPT ![m] = title]
    /\ Broadcast(Event("message_preview", u, {m}, title))
    /\ UNCHANGED <<mails, reactions, receipts, clientSide>>

\* typing and stop_typing change nothing; pings and errors neither.

-----------------------------------------------------------------------------
(* Broadcasts and connections. *)

StartBroadcast ==
    /\ events # <<>>
    /\ events' = Tail(events)
    /\ channel' = [u \in Pair |-> IF link[u] = "off" THEN channel[u]
                                     ELSE Append(channel[u], Head(events))]
    /\ UNCHANGED <<tableVars, link, view, links, changes>>

Link(u) ==
    /\ link[u] = "off" /\ links < MaxLinks
    /\ link' = [link EXCEPT ![u] = "on"]
    /\ links' = links + 1
    /\ UNCHANGED <<tableVars, events, channel, view, changes>>

\* The client is gone, a ping failed, or a frame was no object.
Unlink(u) ==
    /\ link[u] # "off"
    /\ link' = [link EXCEPT ![u] = "off"]
    /\ channel' = [channel EXCEPT ![u] = <<>>]
    /\ UNCHANGED <<tableVars, events, view, links, changes>>

-----------------------------------------------------------------------------
(* The client. *)

Load(u) ==
    /\ link[u] = "on"
    /\ link' = [link EXCEPT ![u] = "loaded"]
    /\ view' = [view EXCEPT ![u] = Rows]
    /\ UNCHANGED <<tableVars, events, channel, links, changes>>

\* An event is applied whether or not the page loaded shows it already.
Shown(v, e) ==
    CASE e.type = "new_message" ->
             IF e.ids \subseteq DOMAIN v.mails THEN v
             ELSE [v EXCEPT !.mails = Append(@, e.user)]
      [] e.type = "read_receipt" ->
             [v EXCEPT !.receipts = @ \cup {<<m, e.user>> : m \in e.ids}]
      [] e.type = "reaction_added" ->
             [v EXCEPT !.reactions = @ \cup {<<m, e.user, e.what>> : m \in e.ids}]
      [] e.type = "reaction_removed" ->
             [v EXCEPT !.reactions = @ \ {<<m, e.user, e.what>> : m \in e.ids}]
      [] e.type = "message_preview" ->
             [v EXCEPT !.titles = [m \in MailIds |-> IF m \in e.ids THEN e.what ELSE @[m]]]

Apply(u) ==
    /\ link[u] = "loaded" /\ channel[u] # <<>>
    /\ view' = [view EXCEPT ![u] = Shown(@, Head(channel[u]))]
    /\ channel' = [channel EXCEPT ![u] = Tail(@)]
    /\ UNCHANGED <<tableVars, events, link, links, changes>>

-----------------------------------------------------------------------------
InboxInit ==
    /\ mails = <<>> /\ reactions = {} /\ receipts = {}
    /\ titles = [m \in MailIds |-> NoTitle]
    /\ events = <<>>
    /\ link = [u \in Pair |-> "off"]
    /\ channel = [u \in Pair |-> <<>>]
    /\ view = [u \in Pair |-> NoRows]
    /\ links = 0 /\ changes = 0

InboxNext ==
    \/ \E u \in Pair :
           \/ Post(u) \/ MarkRead(u) \/ \E ids \in SUBSET (1..(MaxMails + 1)) : MarkIds(u, ids)
           \/ \E m \in MailIds, emoji \in Emojis : AddReaction(u, m, emoji) \/ RemoveReaction(u, m, emoji)
           \/ \E m \in MailIds, title \in Titles : SetPreview(u, m, title)
           \/ Link(u) \/ Unlink(u) \/ Load(u) \/ Apply(u)
    \/ StartBroadcast

InboxSpec == InboxInit /\ [][InboxNext]_inboxVars

-----------------------------------------------------------------------------
\* Every screen comes to show what is in the database.  When no broadcast and no
\* event is under way, the client that connected and then loaded shows the
\* messages, reactions, receipts and previews there are, and counts as unread
\* what list_conversations counts -- whatever was changed between its connection
\* and its load, by a request or by a frame that was rolled back
\* (ws_handler.py:93), or by both, and however often its connection broke before.
ScreensAgree ==
    events = <<>> => \A u \in Pair :
        link[u] = "loaded" /\ channel[u] = <<>> =>
            /\ view[u] = Rows
            /\ Unread(view[u], u) = Unread(Rows, u)
=============================================================================
