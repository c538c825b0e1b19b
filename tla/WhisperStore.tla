---------------------------- MODULE WhisperStore ----------------------------
(***************************************************************************)
(* The REST side of the whisper backend: sessions (auth.py, auth_router),   *)
(* the conversation of the users, its messages and their paging             *)
(* (conversations_router), attachments and /admin/reset.                    *)
(*                                                                         *)
(* Every handler is a coroutine of one event loop and sqlite3 calls do not  *)
(* await, so a handler is one step -- but an upload, which awaits each      *)
(* chunk, while a client pages in as many steps as it needs.                *)
(***************************************************************************)
EXTENDS Naturals, Sequences, FiniteSets

CONSTANTS Users, Uploads,  \* user and attachment ids (uuid4, never reused)
          NoFile,
          PageLimit,       \* the client's "limit"
          MaxTime,         \* bound on the clock, in seconds
          MaxPosts         \* bound on the messages of the conversation

ASSUME StoreAssumption ==
    /\ Users # {} /\ NoFile \notin Uploads
    /\ PageLimit \in Nat \ {0} /\ MaxTime \in Nat \ {0} /\ MaxPosts \in Nat

VARIABLES
    accounts,      \* rows of users
    sessions,      \* the users with a valid token
    conversation,  \* the users' conversation exists
    messages,      \* its messages: [at |-> second, file |-> attachment or NoFile]
    rows,          \* rows of attachments: [id, uploader]
    files,         \* the attachments on disk
    upload,        \* "new", "streaming", "stored", "cut", "refused"
    sender,        \* the user of an upload
    clock,
    pager,         \* "idle", "paging", "done": a client reading backwards
    before,        \* its cursor, 0 at first
    cursors,       \* the cursors it used
    shown,         \* the messages it was shown
    wanted         \* those that existed when it began

storeVars == <<accounts, sessions, conversation, messages, rows, files, upload,
               sender, clock, pager, before, cursors, shown, wanted>>
uploadVars == <<rows, files, upload, sender>>
pagerVars == <<pager, before, cursors, shown, wanted>>

-----------------------------------------------------------------------------
(* Sessions and the conversation. *)

LogInUser(u) ==
    /\ u \in accounts \ sessions
    /\ sessions' = sessions \cup {u}
    /\ UNCHANGED <<accounts, conversation, messages, uploadVars, clock, pagerVars>>

\* All tokens of the user are deleted; what was let in before goes on.
LogOut(u) ==
    /\ u \in sessions
    /\ sessions' = sessions \ {u}
    /\ UNCHANGED <<accounts, conversation, messages, uploadVars, clock, pagerVars>>

\* The other one has an account: 404 otherwise.
MayOpenDm(u) == u \in sessions /\ Users \subseteq accounts

\* One row per pair, whoever asks first.
OpenDm(u) ==
    /\ MayOpenDm(u)
    /\ ~conversation
    /\ conversation' = TRUE
    /\ UNCHANGED <<accounts, sessions, messages, uploadVars, clock, pagerVars>>

\* An attachment must be the sender's own.
PostMessage(u, f) ==
    /\ u \in sessions
    /\ conversation
    /\ Len(messages) < MaxPosts
    /\ f # NoFile => [id |-> f, uploader |-> u] \in rows
    /\ messages' = Append(messages, [at |-> clock, file |-> f])
    /\ UNCHANGED <<accounts, sessions, conversation, uploadVars, clock, pagerVars>>

Second ==
    /\ clock < MaxTime
    /\ clock' = clock + 1
    /\ UNCHANGED <<accounts, sessions, conversation, messages, uploadVars, pagerVars>>

-----------------------------------------------------------------------------
(* upload_attachment. *)

BeginUpload(u, f) ==
    /\ u \in sessions
    /\ upload[f] = "new"
    /\ upload' = [upload EXCEPT ![f] = "streaming"]
    /\ sender' = [sender EXCEPT ![f] = u]
    /\ files' = files \cup {f}
    /\ UNCHANGED <<accounts, sessions, conversation, messages, rows, clock, pagerVars>>

\* The client goes away between two chunks: the file stays.
CutUpload(f) ==
    /\ upload[f] = "streaming"
    /\ upload' = [upload EXCEPT ![f] = "cut"]
    /\ UNCHANGED <<accounts, sessions, conversation, messages, rows, files, sender,
                   clock, pagerVars>>

\* More than 50 MB.
RefuseUpload(f) ==
    /\ upload[f] = "streaming"
    /\ upload' = [upload EXCEPT ![f] = "refused"]
    /\ files' = files \ {f}
    /\ UNCHANGED <<accounts, sessions, conversation, messages, rows, sender, clock, pagerVars>>

\* Mutant: foreign keys are off, the default of sqlite.
StoreUnchecked(f) ==
    /\ upload[f] = "streaming"
    /\ upload' = [upload EXCEPT ![f] = "stored"]
    /\ rows' = rows \cup {[id |-> f, uploader |-> sender[f]]}
    /\ UNCHANGED <<accounts, sessions, conversation, messages, files, sender, clock, pagerVars>>

\* The row is inserted after the last chunk; its uploader may be gone by then
\* (PRAGMA foreign_keys=ON), and the file with it.
StoreUpload(f) ==
    /\ upload[f] = "streaming"
    /\ IF sender[f] \in accounts
       THEN /\ upload' = [upload EXCEPT ![f] = "stored"]
            /\ rows' = rows \cup {[id |-> f, uploader |-> sender[f]]}
       ELSE /\ upload' = [upload EXCEPT ![f] = "refused"]
            /\ UNCHANGED rows
    /\ UNCHANGED <<accounts, sessions, conversation, messages, files, sender, clock, pagerVars>>

\* reset_db: every table is emptied, then the directory removed.
Reset ==
    /\ accounts # {}
    /\ accounts' = {} /\ sessions' = {} /\ conversation' = FALSE
    /\ messages' = <<>> /\ rows' = {} /\ files' = {}
    /\ UNCHANGED <<upload, sender, clock, pagerVars>>

\* _check_attachment_access: the uploader may, and whoever is in a conversation
\* with a message that carries it.
MayAccess(u, f) ==
    \/ [id |-> f, uploader |-> u] \in rows
    \/ conversation /\ \E m \in DOMAIN messages : messages[m].file = f

HasRow(f) == \E r \in rows : r.id = f

\* The status of get_attachment_meta, and of the download, which needs the file.
Meta(u, f) == IF ~HasRow(f) THEN 404 ELSE IF MayAccess(u, f) THEN 200 ELSE 403

Download(u, f) == IF Meta(u, f) = 200 /\ f \notin files THEN 404 ELSE Meta(u, f)

-----------------------------------------------------------------------------
(* list_messages: a client pages back with before = the oldest second shown. *)

BeginPaging ==
    /\ pager = "idle"
    /\ conversation /\ sessions # {}
    /\ pager' = "paging"
    /\ wanted' = DOMAIN messages
    /\ UNCHANGED <<accounts, sessions, conversation, messages, uploadVars, clock,
                   before, cursors, shown>>

\* ORDER BY created_at DESC LIMIT: among equals the order is sqlite's choice.
Pages(S) ==
    {P \in SUBSET S :
        /\ Cardinality(P) = IF Cardinality(S) < PageLimit THEN Cardinality(S) ELSE PageLimit
        /\ \A m \in P, n \in S \ P : messages[m].at >= messages[n].at}

Selected == {m \in DOMAIN messages : before = 0 \/ messages[m].at < before}

OldestOf(P, t) == /\ \E m \in P : messages[m].at = t
                  /\ \A m \in P : messages[m].at >= t

\* Mutant: the cursor excludes the oldest second shown twice.
ListPagesShort ==
    /\ pager = "paging"
    /\ conversation /\ sessions # {}
    /\ \E P \in Pages(Selected) :
           /\ shown' = shown \cup P
           /\ \/ Cardinality(P) < PageLimit /\ pager' = "done" /\ UNCHANGED <<before, cursors>>
              \/ /\ Cardinality(P) = PageLimit
                 /\ \E t \in 2..MaxTime : OldestOf(P, t) /\ before' = t - 1
                 /\ cursors' = cursors \cup {before'}
                 /\ UNCHANGED pager
    /\ UNCHANGED <<accounts, sessions, conversation, messages, uploadVars, clock, wanted>>

\* A page that is not full is the last one.
ListPage ==
    /\ pager = "paging"
    /\ conversation /\ sessions # {}
    /\ \E P \in Pages(Selected) :
           /\ shown' = shown \cup P
           /\ \/ Cardinality(P) < PageLimit /\ pager' = "done" /\ UNCHANGED <<before, cursors>>
              \/ /\ Cardinality(P) = PageLimit
                 /\ \E t \in 1..MaxTime : OldestOf(P, t) /\ before' = t
                 /\ cursors' = cursors \cup {before'}
                 /\ UNCHANGED pager
    /\ UNCHANGED <<accounts, sessions, conversation, messages, uploadVars, clock, wanted>>

-----------------------------------------------------------------------------
StoreInit ==
    /\ accounts = Users /\ sessions = {} /\ conversation = FALSE
    /\ messages = <<>> /\ rows = {} /\ files = {}
    /\ upload = [f \in Uploads |-> "new"]
    /\ sender = [f \in Uploads |-> CHOOSE u \in Users : TRUE]
    /\ clock = 1
    /\ pager = "idle" /\ before = 0 /\ cursors = {} /\ shown = {} /\ wanted = {}

StoreNext ==
    \/ \E u \in Users :
           \/ LogInUser(u) \/ LogOut(u) \/ OpenDm(u)
           \/ \E f \in Uploads \cup {NoFile} : PostMessage(u, f)
           \/ \E f \in Uploads : BeginUpload(u, f)
    \/ \E f \in Uploads : CutUpload(f) \/ RefuseUpload(f) \/ StoreUpload(f)
    \/ Second \/ Reset \/ BeginPaging \/ ListPage

StoreSpec == StoreInit /\ [][StoreNext]_storeVars

-----------------------------------------------------------------------------
StoreTypeOK ==
    /\ accounts \in {{}, Users} /\ sessions \subseteq accounts
    /\ conversation \in BOOLEAN
    /\ messages \in Seq([at : 1..MaxTime, file : Uploads \cup {NoFile}])
    /\ rows \subseteq [id : Uploads, uploader : Users]
    /\ files \subseteq Uploads
    /\ upload \in [Uploads -> {"new", "streaming", "stored", "cut", "refused"}]
    /\ sender \in [Uploads -> Users]
    /\ clock \in 1..MaxTime
    /\ pager \in {"idle", "paging", "done"}
    /\ before \in 0..MaxTime /\ cursors \subseteq 1..MaxTime
    /\ shown \subseteq 1..MaxPosts /\ wanted \subseteq 1..MaxPosts

\* What a message carries can be downloaded by both users, what get_attachment_meta
\* describes too, and by the uploader whatever is stored, who still exists -- though
\* a reset may fall between the chunks of an upload (attachments_router.py:38,
\* database.py:113) and uploads be cut or refused; only a cut one leaves a file
\* that nobody can name.
AttachmentsStand ==
    /\ \A r \in rows : r.uploader \in accounts /\ Download(r.uploader, r.id) = 200
    /\ \A m \in DOMAIN messages, u \in Users :
           messages[m].file # NoFile => Download(u, messages[m].file) = 200
    /\ \A u \in Users, f \in Uploads : Meta(u, f) = 200 => Download(u, f) = 200
    /\ \A f \in files : upload[f] \in {"streaming", "cut"} \/ HasRow(f)

\* Paging to the end shows every message there was at its beginning, but those
\* of a second in which a page ended: created_at has seconds, and the next page
\* starts strictly before (conversations_router.py:196).
PagingMissesOnlyTies ==
    pager = "done" => \A m \in wanted :
        m \in shown \/ m \notin DOMAIN messages \/ messages[m].at \in cursors
=============================================================================
