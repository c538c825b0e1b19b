------------------------ MODULE WhisperBackend_proofs -------------------------
(***************************************************************************)
(* The whisper backend: attachments and paging, accounts, what the members *)
(* of a conversation see of it, and the pushes to the connected clients,   *)
(* for every set of users, uploads, phones and passwords, every page size, *)
(* and any number of messages, tokens, connections and changes.            *)
(***************************************************************************)
EXTENDS WhisperStore, WhisperAccounts, WhisperInbox, WhisperPush, FiniteSetTheorems, SequenceTheorems, TLAPS

(* Attachments and paging. *)

Types ==
    /\ accounts \in {{}, Users} /\ sessions \subseteq accounts
    /\ conversation \in BOOLEAN
    /\ messages \in Seq([at : 1..MaxTime, file : Uploads \cup {NoFile}])
    /\ rows \subseteq [id : Uploads, uploader : Users]
    /\ files \subseteq Uploads
    /\ upload \in [Uploads -> {"new", "streaming", "stored", "cut", "refused"}]
    /\ sender \in [Uploads -> Users]
    /\ clock \in 1..MaxTime

\* Rows have their files and users, and messages their rows.
Attached ==
    /\ \A r \in rows : r.id \in files /\ r.uploader \in accounts
    /\ \A m \in DOMAIN messages :
           messages[m].file # NoFile => \E r \in rows : r.id = messages[m].file
    /\ \A f \in files :
           upload[f] \in {"streaming", "cut"} \/ \E r \in rows : r.id = f

\* Attached is not inductive: that an upload whose sender still exists has
\* its file at its end is known from the absence of a reset, after which nothing
\* has an account again.
FileInv ==
    /\ messages # <<>> => conversation
    /\ accounts = {} => messages = <<>> /\ rows = {} /\ files = {}
    /\ \A f \in Uploads : upload[f] = "streaming" /\ accounts # {} => f \in files
    /\ \A r \in rows : upload[r.id] = "stored"

\* While a client pages, what it has missed so far lies before its cursor or ties
\* with one.
PageInv ==
    /\ pager = "idle" => before = 0
    /\ before \in 0..MaxTime
    /\ pager # "idle" /\ accounts # {} => wanted \subseteq DOMAIN messages
    /\ pager # "idle" => \A m \in wanted :
          \/ m \notin DOMAIN messages
          \/ m \in shown
          \/ messages[m].at \in cursors
          \/ pager = "paging" /\ m \in Selected

StoreInv == Types /\ FileInv /\ Attached /\ PageInv

-----------------------------------------------------------------------------
\* A message that is appended leaves the others as they are.
LEMMA Appended ==
    ASSUME Types, NEW u \in Users, NEW f \in Uploads \cup {NoFile}, PostMessage(u, f)
    PROVE  /\ messages' \in Seq([at : 1..MaxTime, file : Uploads \cup {NoFile}])
           /\ Len(messages) \in Nat /\ Len(messages') = Len(messages) + 1
           /\ DOMAIN messages = 1..Len(messages)
           /\ DOMAIN messages' = 1..Len(messages')
           /\ \A m \in DOMAIN messages : messages'[m] = messages[m]
           /\ messages'[Len(messages')] = [at |-> clock, file |-> f]
<1>1. [at |-> clock, file |-> f] \in [at : 1..MaxTime, file : Uploads \cup {NoFile}]
  BY DEF Types
<1>2. messages' = Append(messages, [at |-> clock, file |-> f])
  BY DEF PostMessage
<1> QED
  BY <1>1, <1>2 DEF Types

\* A page that is not full is all that was selected.
LEMMA LastPage ==
    ASSUME NEW S, IsFiniteSet(S), NEW P \in Pages(S), Cardinality(P) < PageLimit
    PROVE  P = S
<1>1. P \subseteq S /\ Cardinality(P) = Cardinality(S)
  BY StoreAssumption, FS_CardinalityType DEF StoreAssumption, Pages
<1> QED
  BY <1>1, FS_Subset

\* Every handler keeps the types.
LEMMA TypesStep == ASSUME Types, [StoreNext]_storeVars PROVE Types'
<1> USE StoreAssumption DEF StoreAssumption, Types, uploadVars, pagerVars
<1>1. ASSUME NEW u \in Users, LogInUser(u) \/ LogOut(u) \/ OpenDm(u) PROVE Types'
  BY <1>1 DEF LogInUser, LogOut, OpenDm, MayOpenDm
<1>2. ASSUME NEW u \in Users, NEW f \in Uploads \cup {NoFile}, PostMessage(u, f) PROVE Types'
  BY <1>2, Appended DEF PostMessage
<1>3. ASSUME NEW u \in Users, NEW f \in Uploads, BeginUpload(u, f) PROVE Types'
  BY <1>3 DEF BeginUpload
<1>4. ASSUME NEW f \in Uploads, CutUpload(f) \/ RefuseUpload(f) \/ StoreUpload(f) PROVE Types'
  <2>1. CASE CutUpload(f) \/ RefuseUpload(f)
    BY <2>1 DEF CutUpload, RefuseUpload
  <2>2. CASE StoreUpload(f)
    <3>1. [id |-> f, uploader |-> sender[f]] \in [id : Uploads, uploader : Users]
      OBVIOUS
    <3> QED
      BY <2>2, <3>1 DEF StoreUpload
  <2> QED
    BY <1>4, <2>1, <2>2
<1>5. CASE Second
  BY <1>5 DEF Second
<1>6. CASE Reset
  <2>1. messages' \in Seq([at : 1..MaxTime, file : Uploads \cup {NoFile}])
    BY <1>6 DEF Reset
  <2> QED
    BY <1>6, <2>1 DEF Reset
<1>7. CASE BeginPaging \/ ListPage \/ UNCHANGED storeVars
  BY <1>7 DEF BeginPaging, ListPage, storeVars
<1> QED
  BY <1>1, <1>2, <1>3, <1>4, <1>5, <1>6, <1>7 DEF StoreNext

\* Every handler keeps rows, files and uploads in agreement.
LEMMA FilesStep ==
    ASSUME Types, FileInv, Attached, [StoreNext]_storeVars
    PROVE  FileInv' /\ Attached'
<1> USE StoreAssumption
    DEF StoreAssumption, Types, FileInv, Attached, uploadVars, pagerVars
<1>1. ASSUME NEW u \in Users, LogInUser(u) \/ LogOut(u) \/ OpenDm(u)
      PROVE  FileInv' /\ Attached'
  BY <1>1 DEF LogInUser, LogOut, OpenDm, MayOpenDm
<1>2. ASSUME NEW u \in Users, NEW f \in Uploads \cup {NoFile}, PostMessage(u, f)
      PROVE  FileInv' /\ Attached'
  <2>1. ASSUME NEW m \in DOMAIN messages'
        PROVE  \/ m \in DOMAIN messages /\ messages'[m].file = messages[m].file
               \/ messages'[m].file = f
    <3>1. /\ Len(messages) \in Nat /\ Len(messages') = Len(messages) + 1
          /\ DOMAIN messages = 1..Len(messages) /\ DOMAIN messages' = 1..Len(messages')
      BY <1>2, Appended
    <3>2. m \in DOMAIN messages \/ m = Len(messages')
      BY <3>1
    <3>3. m \in DOMAIN messages => messages'[m] = messages[m]
      BY <1>2, Appended
    <3>4. messages'[Len(messages')].file = f
      <4>1. messages'[Len(messages')] = [at |-> clock, file |-> f]
        BY <1>2, Appended
      <4> QED
        BY ONLY <4>1
    <3> QED
      BY <3>2, <3>3, <3>4
  <2> QED
    BY <1>2, <2>1 DEF PostMessage
<1>3. ASSUME NEW u \in Users, NEW f \in Uploads, BeginUpload(u, f)
      PROVE  FileInv' /\ Attached'
  BY <1>3 DEF BeginUpload
<1>4. ASSUME NEW f \in Uploads, CutUpload(f) \/ RefuseUpload(f)
      PROVE  FileInv' /\ Attached'
  <2>1. \A r \in rows : r.id # f
    BY <1>4 DEF CutUpload, RefuseUpload
  <2> QED
    BY <1>4, <2>1 DEF CutUpload, RefuseUpload
<1>5. ASSUME NEW f \in Uploads, StoreUpload(f)
      PROVE  FileInv' /\ Attached'
  <2>1. CASE sender[f] \in accounts
    <3>1. f \in files
      BY <1>5, <2>1 DEF StoreUpload
    <3>2. /\ rows' = rows \cup {[id |-> f, uploader |-> sender[f]]}
          /\ upload' = [upload EXCEPT ![f] = "stored"]
          /\ UNCHANGED <<accounts, conversation, messages, files>>
      BY <1>5, <2>1 DEF StoreUpload
    <3>3. \A r \in rows' : r \in rows \/ (r.id = f /\ r.uploader = sender[f])
      BY <3>2
    <3>4. \E r \in rows' : r.id = f
      <4>1. [id |-> f, uploader |-> sender[f]] \in rows'
        BY <3>2
      <4>2. [id |-> f, uploader |-> sender[f]].id = f
        OBVIOUS
      <4> QED
        BY ONLY <4>1, <4>2
    <3>5. FileInv'
      BY <2>1, <3>1, <3>2, <3>3
    <3> QED
      BY <2>1, <3>1, <3>2, <3>3, <3>4, <3>5
  <2>2. CASE sender[f] \notin accounts
    BY <1>5, <2>2 DEF StoreUpload
  <2> QED
    BY <2>1, <2>2
<1>6. CASE Reset
  BY <1>6 DEF Reset
<1>7. CASE Second \/ BeginPaging \/ ListPage \/ UNCHANGED storeVars
  BY <1>7 DEF Second, BeginPaging, ListPage, storeVars
<1> QED
  BY <1>1, <1>2, <1>3, <1>4, <1>5, <1>6, <1>7 DEF StoreNext

\* Every handler keeps what a pager has still to be shown before its cursor.
LEMMA PagesStep ==
    ASSUME Types, FileInv, PageInv, [StoreNext]_storeVars
    PROVE  PageInv'
<1> USE StoreAssumption
    DEF StoreAssumption, Types, FileInv, PageInv, Selected, uploadVars, pagerVars
<1>1. ASSUME NEW u \in Users, LogInUser(u) \/ LogOut(u) \/ OpenDm(u) PROVE PageInv'
  BY <1>1 DEF LogInUser, LogOut, OpenDm, MayOpenDm
<1>2. ASSUME NEW u \in Users, NEW f \in Uploads \cup {NoFile}, PostMessage(u, f) PROVE PageInv'
  <2>1. DOMAIN messages \subseteq DOMAIN messages' /\ accounts # {}
    BY <1>2, Appended DEF PostMessage
  <2>2. \A m \in DOMAIN messages : messages'[m] = messages[m]
    BY <1>2, Appended
  <2> QED
    BY <1>2, <2>1, <2>2 DEF PostMessage
<1>3. ASSUME NEW u \in Users, NEW f \in Uploads, BeginUpload(u, f) PROVE PageInv'
  BY <1>3 DEF BeginUpload
<1>4. ASSUME NEW f \in Uploads, CutUpload(f) \/ RefuseUpload(f) \/ StoreUpload(f) PROVE PageInv'
  BY <1>4 DEF CutUpload, RefuseUpload, StoreUpload
<1>5. CASE Second \/ UNCHANGED storeVars
  BY <1>5 DEF Second, storeVars
<1>6. CASE Reset
  BY <1>6 DEF Reset
<1>7. CASE BeginPaging
  BY <1>7 DEF BeginPaging
<1>8. CASE ListPage
  <2>1. PICK P \in Pages(Selected) :
           /\ shown' = shown \cup P
           /\ \/ Cardinality(P) < PageLimit /\ pager' = "done" /\ UNCHANGED <<before, cursors>>
              \/ /\ \E t \in 1..MaxTime : OldestOf(P, t) /\ before' = t
                 /\ cursors' = cursors \cup {before'}
                 /\ UNCHANGED pager
    BY <1>8 DEF ListPage
  <2>2. IsFiniteSet(Selected)
    BY FS_Interval, FS_Subset
  <2>3. /\ pager = "paging" /\ UNCHANGED <<accounts, messages, wanted>>
    BY <1>8 DEF ListPage
  <2>4. CASE Cardinality(P) < PageLimit /\ pager' = "done" /\ UNCHANGED <<before, cursors>>
    BY <2>1, <2>2, <2>3, <2>4, LastPage
  <2>5. ASSUME NEW t \in 1..MaxTime, OldestOf(P, t), before' = t,
               cursors' = cursors \cup {before'}, pager' = pager
        PROVE  PageInv'
    <3>1. \A m \in Selected \ P : messages[m].at <= t
      BY <2>5 DEF Pages, OldestOf
    <3>2. \A m \in DOMAIN messages : messages[m].at \in 1..MaxTime
      <4>1. messages \in Seq([at : 1..MaxTime, file : Uploads \cup {NoFile}])
        OBVIOUS
      <4>2. ASSUME NEW R, NEW q \in Seq(R), NEW m \in DOMAIN q PROVE q[m] \in R
        OBVIOUS
      <4>3. \A m \in DOMAIN messages : messages[m] \in [at : 1..MaxTime, file : Uploads \cup {NoFile}]
        BY ONLY <4>1, <4>2
      <4> QED
        BY ONLY <4>3
    <3>3. \A m \in Selected : m \in P \/ messages[m].at = t \/ messages[m].at < t
      BY <3>1, <3>2
    <3> QED
      BY <2>1, <2>3, <2>5, <3>3
  <2> QED
    BY <2>1, <2>4, <2>5
<1> QED
  BY <1>1, <1>2, <1>3, <1>4, <1>5, <1>6, <1>7, <1>8 DEF StoreNext

-----------------------------------------------------------------------------
\* The inductive invariant of sessions, attachments and paging.
THEOREM StoreInvariant == StoreSpec => []StoreInv
<1>1. StoreInit => StoreInv
  <2> SUFFICES ASSUME StoreInit PROVE StoreInv
    OBVIOUS
  <2> USE StoreAssumption DEF StoreAssumption, StoreInit
  <2>1. Types
    <3>1. (CHOOSE u \in Users : TRUE) \in Users
      OBVIOUS
    <3>2. messages \in Seq([at : 1..MaxTime, file : Uploads \cup {NoFile}])
      OBVIOUS
    <3>3. sender \in [Uploads -> Users]
      BY <3>1
    <3>4. /\ upload \in [Uploads -> {"new", "streaming", "stored", "cut", "refused"}]
          /\ accounts \in {{}, Users} /\ sessions \subseteq accounts /\ clock \in 1..MaxTime
      OBVIOUS
    <3> QED
      BY <3>2, <3>3, <3>4 DEF Types
  <2>2. FileInv /\ Attached /\ PageInv
    BY DEF FileInv, Attached, PageInv
  <2> QED
    BY <2>1, <2>2 DEF StoreInv
<1>2. StoreInv /\ [StoreNext]_storeVars => StoreInv'
  BY TypesStep, FilesStep, PagesStep DEF StoreInv
<1> QED
  BY <1>1, <1>2, PTL DEF StoreSpec

\* Whatever uploads are cut or refused and wherever /admin/reset falls between
\* their chunks, what is stored or posted can be downloaded by its users
\* (attachments_router.py, database.py).
THEOREM AttachmentsKept == StoreSpec => []AttachmentsStand
<1>1. StoreInv => AttachmentsStand
  <2> SUFFICES ASSUME StoreInv PROVE AttachmentsStand
    OBVIOUS
  <2> USE DEF StoreInv, Types, FileInv, Attached, HasRow, MayAccess, Meta, Download
  <2>1. ASSUME NEW r \in rows PROVE r.uploader \in accounts /\ Download(r.uploader, r.id) = 200
    <3>1. r = [id |-> r.id, uploader |-> r.uploader]
      OBVIOUS
    <3> QED
      BY <3>1
  <2>2. ASSUME NEW m \in DOMAIN messages, NEW u \in Users, messages[m].file # NoFile
        PROVE  Download(u, messages[m].file) = 200
    <3>1. conversation
      BY <2>2
    <3> QED
      BY <2>2, <3>1
  <2>3. \A u \in Users, f \in Uploads : Meta(u, f) = 200 => Download(u, f) = 200
    OBVIOUS
  <2>4. \A f \in files : upload[f] \in {"streaming", "cut"} \/ HasRow(f)
    OBVIOUS
  <2> QED
    BY ONLY <2>1, <2>2, <2>3, <2>4 DEF AttachmentsStand
<1> QED
  BY <1>1, StoreInvariant, PTL

\* With any page size, paging to the end misses only messages of a second in
\* which a page ended (list_messages).
THEOREM OnlyTiesMissed == StoreSpec => []PagingMissesOnlyTies
<1>1. StoreInv => PagingMissesOnlyTies
  BY DEF StoreInv, PageInv, PagingMissesOnlyTies
<1> QED
  BY <1>1, StoreInvariant, PTL

-----------------------------------------------------------------------------
(* Accounts. *)

AccountPhones == Phones \cup {OldRow.phone}
UserRows ==
    [id : Nat, phone : AccountPhones, handle : Handles \cup {OldRow.handle},
     name : Names \cup {OldRow.name}, hash : Passwords \cup {"none"}, victim : BOOLEAN]

UsersOK == users \subseteq UserRows /\ ids \in Nat

\* Tokens are numbered in the order they were made, so that a new one is nobody's.
TokensNumbered ==
    /\ IsFiniteSet(granted)
    /\ \A i \in granted : i.token \in 1..Cardinality(granted)
    /\ \A t \in tokens : t.token \in 1..Cardinality(granted)

\* Whoever has a hash has founded the account with it.
Founded ==
    \A u \in users : u.hash # "none" =>
        [phone |-> u.phone, hash |-> u.hash, id |-> u.id] \in founder

\* The account a token is for, and with what it was asked for.
Owns(u, t) ==
    /\ u.id = t.user
    /\ \A i \in granted : i.token = t.token =>
          /\ i.phone = u.phone
          /\ [phone |-> u.phone, hash |-> i.typed, id |-> u.id] \in founder

\* AccountsStand without a look at the clock.
TokensOwned == \A t \in tokens : \E u \in users : Owns(u, t)

AccountsInv == UsersOK /\ TokensNumbered /\ Founded /\ TokensOwned

\* An empty table, or one with a row from before there were passwords.
LEMMA AccountsInitially == AccountsInit => AccountsInv
<1> SUFFICES ASSUME AccountsInit PROVE AccountsInv
  OBVIOUS
<1>1. CASE users = {}
  <2>1. ids = 0
    BY <1>1, FS_EmptySet DEF AccountsInit
  <2> QED
    BY <1>1, <2>1, FS_EmptySet DEF AccountsInit, AccountsInv, UsersOK, TokensNumbered, Founded, TokensOwned
<1>2. CASE users = Migrated
  <2> DEFINE row == User(1, OldRow.phone, OldRow.handle, OldRow.name, "none", FALSE)
  <2>1. users = {row} /\ row \in UserRows /\ row.hash = "none"
    BY <1>2 DEF Migrated, User, UserRows, AccountPhones
  <2> HIDE DEF row
  <2>2. Cardinality({row}) = 1
    BY FS_Singleton
  <2>3. ids = 1
    BY <2>1, <2>2 DEF AccountsInit
  <2> QED
    BY <2>1, <2>3, FS_EmptySet DEF AccountsInit, AccountsInv, UsersOK, TokensNumbered, Founded, TokensOwned
<1> QED
  BY <1>1, <1>2 DEF AccountsInit

\* A new token's record is the only one with its number, and tokens keep their owners.
LEMMA NewToken ==
    ASSUME TokensNumbered, TokensOwned, NEW u, u \in users', users \subseteq users',
           founder \subseteq founder',
           NEW phone, NEW password, CreateToken(u.id, phone, password),
           u.phone = phone,
           [phone |-> phone, hash |-> password, id |-> u.id] \in founder'
    PROVE  TokensNumbered' /\ TokensOwned'
<1>1. PICK n \in Nat : n = Cardinality(granted) + 1 /\ Cardinality(granted) \in Nat
  BY FS_CardinalityType DEF TokensNumbered
<1>2. PICK i, t : /\ granted' = granted \cup {i} /\ tokens' = tokens \cup {t}
                  /\ i.token = n /\ i.phone = phone /\ i.typed = password
                  /\ t.token = n /\ t.user = u.id
  <2> DEFINE j == [token |-> n, user |-> u.id, phone |-> phone, typed |-> password]
             r == [token |-> n, user |-> u.id, expires |-> now + TokenTtl]
  <2>1. granted' = granted \cup {j} /\ tokens' = tokens \cup {r}
    BY <1>1 DEF CreateToken
  <2>2. /\ j.token = n /\ j.phone = phone /\ j.typed = password
        /\ r.token = n /\ r.user = u.id
    OBVIOUS
  <2> QED
    BY <2>1, <2>2
<1>3. /\ \A j \in granted : j.token \in 1..n /\ j.token # n
      /\ \A r \in tokens : r.token \in 1..n /\ r.token # n
      /\ n \in 1..n
  BY <1>1 DEF TokensNumbered
<1>5. i \notin granted
  BY <1>2, <1>3
<1>6. IsFiniteSet(granted') /\ Cardinality(granted') = n
  BY <1>1, <1>2, <1>5, FS_AddElement DEF TokensNumbered
<1>7. TokensNumbered'
  BY <1>2, <1>3, <1>6 DEF TokensNumbered
<1>8. ASSUME NEW r \in tokens, NEW v \in users, Owns(v, r) PROVE Owns(v, r)'
  BY <1>2, <1>3, <1>8 DEF Owns
<1>9. Owns(u, t)'
  BY <1>2, <1>3 DEF Owns
<1> QED
  BY <1>2, <1>7, <1>8, <1>9 DEF TokensOwned

\* Registering, logging in and out, renaming and resetting keep the invariant.
LEMMA AccountsStep == AccountsInv /\ [AccountsNext]_accountVars => AccountsInv'
<1> SUFFICES ASSUME AccountsInv, [AccountsNext]_accountVars PROVE AccountsInv'
  OBVIOUS
<1> USE DEF AccountsInv
<1>1. ASSUME NEW phone \in Phones, NEW password \in Passwords,
             RegisterKnown(phone, password) \/ LogIn(phone, password)
      PROVE  AccountsInv'
  <2>1. PICK u \in users : /\ u.phone = phone /\ VerifyPassword(password, u)
                           /\ CreateToken(u.id, phone, password)
    BY <1>1 DEF RegisterKnown, LogIn
  <2>2. UNCHANGED <<users, ids, now, founder>>
    BY <1>1 DEF RegisterKnown, LogIn
  <2>3. [phone |-> phone, hash |-> password, id |-> u.id] \in founder
    BY <2>1 DEF VerifyPassword, Founded
  <2> QED
    BY <2>1, <2>2, <2>3, NewToken DEF UsersOK, Founded
<1>2. ASSUME NEW phone \in Phones, NEW password \in Passwords, NEW handle \in Handles,
             NEW name \in Names, NEW victim \in BOOLEAN,
             RegisterNew(phone, password, handle, name, victim)
      PROVE  AccountsInv'
  <2> DEFINE v == victim \/ (CtfMode /\ name \in VictimNames)
             u == User(ids + 1, phone, handle, name, password, v)
             f == [phone |-> phone, hash |-> password, id |-> ids + 1]
  <2>1. /\ users' = users \cup {u} /\ ids' = ids + 1 /\ founder' = founder \cup {f}
        /\ CreateToken(ids + 1, phone, password)
    BY <1>2 DEF RegisterNew
  <2>2. v \in BOOLEAN
    OBVIOUS
  <2> HIDE DEF v
  <2>3. u \in UserRows /\ u.id = ids + 1 /\ u.phone = phone /\ u.hash = password
    BY <2>2 DEF User, UserRows, AccountPhones, UsersOK
  <2> HIDE DEF u
  <2>4. UsersOK' /\ Founded'
    BY <2>1, <2>3 DEF UsersOK, Founded
  <2> QED
    BY <2>1, <2>3, <2>4, NewToken
<1>3. ASSUME NEW id, LogOutAll(id) PROVE AccountsInv'
  BY <1>3 DEF LogOutAll, UsersOK, TokensNumbered, Founded, TokensOwned, Owns
<1>4. ASSUME NEW id, NEW name \in Names, UpdateMe(id, name) PROVE AccountsInv'
  <2> DEFINE Renamed(u) == IF u.id = id THEN [u EXCEPT !.name = name] ELSE u
  <2>1. /\ users' = {Renamed(u) : u \in users}
        /\ UNCHANGED <<tokens, ids, granted, now, founder>>
    BY <1>4 DEF UpdateMe
  <2>2. ASSUME NEW u \in users
        PROVE  /\ Renamed(u) \in UserRows /\ Renamed(u).id = u.id
               /\ Renamed(u).phone = u.phone /\ Renamed(u).hash = u.hash
    <3>1. u \in UserRows
      BY DEF UsersOK
    <3> QED
      BY <3>1 DEF UserRows
  <2> HIDE DEF Renamed
  <2>3. UsersOK' /\ Founded'
    BY <2>1, <2>2 DEF UsersOK, Founded
  <2>4. ASSUME NEW u \in users, NEW t \in tokens, Owns(u, t) PROVE Owns(Renamed(u), t)'
    BY <2>1, <2>2, <2>4 DEF Owns
  <2>5. TokensOwned'
    BY <2>1, <2>4 DEF TokensOwned
  <2> QED
    BY <2>1, <2>3, <2>5 DEF TokensNumbered
<1>5. CASE Tick
  BY <1>5 DEF Tick, UsersOK, TokensNumbered, Founded, TokensOwned, Owns
<1>6. CASE AdminReset
  BY <1>6 DEF AdminReset, UsersOK, TokensNumbered, Founded, TokensOwned
<1>7. CASE UNCHANGED accountVars
  BY <1>7 DEF accountVars, UsersOK, TokensNumbered, Founded, TokensOwned, Owns
<1> QED
  BY <1>1, <1>2, <1>3, <1>4, <1>5, <1>6, <1>7 DEF AccountsNext

\* A token that the backend accepts is for an account of the phone it was given for,
\* which was opened with the password it was asked with (auth_router.py, auth.py).
THEOREM TokensStayWithOwners == AccountsSpec => []AccountsStand
<1>1. AccountsInv => AccountsStand
  BY DEF AccountsInv, TokensOwned, Owns, AccountsStand
<1> QED
  BY <1>1, AccountsInitially, AccountsStep, PTL DEF AccountsSpec

-----------------------------------------------------------------------------
(* What the members of a conversation see of it. *)

CellKinds == {"receipt", "reaction", "title"}
EventTypes == {"new_message", "read_receipt", "reaction_added", "reaction_removed", "message_preview"}
Events ==
    {e \in [type : EventTypes, user : Pair, ids : SUBSET MailIds, what : Emojis \cup Titles \cup {NoTitle}] :
        /\ e.type \in {"reaction_added", "reaction_removed"} => e.what \in Emojis
        /\ e.type = "message_preview" => e.what \in Titles}
Views == [mails : Seq(Pair), reactions : SUBSET (MailIds \X Pair \X Emojis),
          receipts : SUBSET (MailIds \X Pair), titles : [MailIds -> Titles \cup {NoTitle}]]

InboxTypeOK ==
    /\ Rows \in Views /\ Len(mails) <= MaxMails
    /\ events \in Seq(Events)
    /\ link \in [Pair -> {"off", "on", "loaded"}]
    /\ channel \in [Pair -> Seq(Events)]
    /\ view \in [Pair -> Views]
    /\ \A u \in Pair : link[u] = "off" => channel[u] = <<>>

\* What a member shows or the database has, but for the messages, cell by cell: a receipt, a
\* reaction, a title.
Cells == [kind : CellKinds, mail : MailIds, user : Pair \cup {NoTitle}, what : Emojis \cup {NoTitle}]

\* An event writes a cell.
Touches(e, c) ==
    /\ c.mail \in e.ids
    /\ \/ c.kind = "receipt" /\ e.type = "read_receipt" /\ e.user = c.user
       \/ /\ c.kind = "reaction" /\ e.type \in {"reaction_added", "reaction_removed"}
          /\ e.user = c.user /\ e.what = c.what
       \/ c.kind = "title" /\ e.type = "message_preview"

\* Two tables agree on a cell.
Same(v, w, c) ==
    /\ c.kind = "receipt" => (<<c.mail, c.user>> \in v.receipts <=> <<c.mail, c.user>> \in w.receipts)
    /\ c.kind = "reaction" =>
          (<<c.mail, c.user, c.what>> \in v.reactions <=> <<c.mail, c.user, c.what>> \in w.reactions)
    /\ c.kind = "title" => v.titles[c.mail] = w.titles[c.mail]

\* A table has in a cell what the event has written there.
Carries(v, e, c) ==
    /\ c.kind = "receipt" => <<c.mail, c.user>> \in v.receipts
    /\ c.kind = "reaction" => (<<c.mail, c.user, c.what>> \in v.reactions <=> e.type = "reaction_added")
    /\ c.kind = "title" => v.titles[c.mail] = e.what

IsMail(e) == e.type = "new_message"

\* The last of the events under way that writes a cell has written what the table has; messages
\* are under way in the order of the table.
Truthful(rws, p) ==
    /\ \A c \in Cells, i \in DOMAIN p :
          Touches(p[i], c) /\ (\A j \in DOMAIN p : j > i => ~Touches(p[j], c)) => Carries(rws, p[i], c)
    /\ \A i \in DOMAIN p : IsMail(p[i]) =>
          \E k \in 1..Len(rws.mails) : p[i].ids = {k} /\ rws.mails[k] = p[i].user
    /\ \A i, j \in DOMAIN p : i < j /\ IsMail(p[i]) /\ IsMail(p[j]) =>
          \A k \in p[i].ids, l \in p[j].ids : k < l

\* What is not under way is shown already.
Catching(rws, v, p) ==
    /\ \A c \in Cells : (\A i \in DOMAIN p : ~Touches(p[i], c)) => Same(v, rws, c)
    /\ Len(v.mails) <= Len(rws.mails)
    /\ \A k \in 1..Len(v.mails) : v.mails[k] = rws.mails[k]
    /\ \A k \in (Len(v.mails) + 1)..Len(rws.mails) :
          \E i \in DOMAIN p : IsMail(p[i]) /\ p[i].ids = {k}

Underway(u) == channel[u] \o events

InboxInv ==
    /\ InboxTypeOK
    /\ \A u \in Pair : /\ Truthful(Rows, Underway(u))
                       /\ link[u] = "loaded" => Catching(Rows, view[u], Underway(u))

-----------------------------------------------------------------------------
\* Without events under way the screen shows the table.
LEMMA CaughtUp ==
    ASSUME NEW v \in Views, NEW w \in Views, Catching(w, v, <<>>)
    PROVE  v = w
<1>0. DOMAIN <<>> = {}
  OBVIOUS
<1>1. v.mails = w.mails
  <2>1. v.mails \in Seq(Pair) /\ w.mails \in Seq(Pair)
    BY DEF Views
  <2>2. Len(v.mails) \in Nat /\ Len(w.mails) \in Nat
    BY <2>1, LenProperties
  <2>3. Len(v.mails) = Len(w.mails)
    BY <1>0, <2>2 DEF Catching
  <2> QED
    BY <2>1, <2>3, SeqEqual DEF Catching
<1>2. \A c \in Cells : Same(v, w, c)
  BY <1>0 DEF Catching
<1>3. ASSUME NEW m \in MailIds, NEW u \in Pair PROVE <<m, u>> \in v.receipts <=> <<m, u>> \in w.receipts
  <2> DEFINE c == [kind |-> "receipt", mail |-> m, user |-> u, what |-> NoTitle]
  <2>1. c \in Cells
    BY DEF Cells, CellKinds
  <2>2. Same(v, w, c)
    BY <1>2, <2>1
  <2> QED
    BY <2>2 DEF Same
<1>4. ASSUME NEW m \in MailIds, NEW u \in Pair, NEW x \in Emojis
      PROVE  <<m, u, x>> \in v.reactions <=> <<m, u, x>> \in w.reactions
  <2> DEFINE c == [kind |-> "reaction", mail |-> m, user |-> u, what |-> x]
  <2>1. c \in Cells
    BY DEF Cells, CellKinds
  <2>2. Same(v, w, c)
    BY <1>2, <2>1
  <2> QED
    BY <2>2 DEF Same
<1>5. ASSUME NEW m \in MailIds PROVE v.titles[m] = w.titles[m]
  <2> DEFINE c == [kind |-> "title", mail |-> m, user |-> NoTitle, what |-> NoTitle]
  <2>1. c \in Cells
    BY DEF Cells, CellKinds
  <2>2. Same(v, w, c)
    BY <1>2, <2>1
  <2> QED
    BY <2>2 DEF Same
<1>6. v.receipts = w.receipts
  <2>1. v.receipts \subseteq MailIds \X Pair /\ w.receipts \subseteq MailIds \X Pair
    BY DEF Views
  <2>2. ASSUME NEW z \in MailIds \X Pair PROVE z \in v.receipts <=> z \in w.receipts
    <3>1. PICK m \in MailIds, u \in Pair : z = <<m, u>>
      OBVIOUS
    <3> QED
      BY <3>1, <1>3
  <2> QED
    BY <2>1, <2>2
<1>7. v.reactions = w.reactions
  <2>1. /\ v.reactions \subseteq MailIds \X Pair \X Emojis
        /\ w.reactions \subseteq MailIds \X Pair \X Emojis
    BY DEF Views
  <2>2. ASSUME NEW z \in MailIds \X Pair \X Emojis PROVE z \in v.reactions <=> z \in w.reactions
    <3>1. PICK m \in MailIds, u \in Pair, x \in Emojis : z = <<m, u, x>>
      OBVIOUS
    <3> QED
      BY <3>1, <1>4
  <2> QED
    BY <2>1, <2>2
<1>8. v.titles = w.titles
  BY <1>5 DEF Views
<1> QED
  BY <1>1, <1>6, <1>7, <1>8 DEF Views

\* A change of the database and the event that tells of it: the cells the event writes have what
\* it wrote, the others are as before; a message is the next one.
Told(rws, e, new) ==
    /\ \A c \in Cells : IF Touches(e, c) THEN Carries(new, e, c) ELSE Same(rws, new, c)
    /\ IF IsMail(e) THEN new.mails = Append(rws.mails, e.user) /\ e.ids = {Len(rws.mails) + 1}
                    ELSE new.mails = rws.mails

\* What is said of the events under way stays true when one more is told.
LEMMA TruthfulAppend ==
    ASSUME NEW rws \in Views, NEW new \in Views, NEW p \in Seq(Events), NEW e \in Events,
           Truthful(rws, p), Told(rws, e, new)
    PROVE  Truthful(new, Append(p, e))
<1> DEFINE q == Append(p, e)
<1>1. /\ Len(p) \in Nat /\ q \in Seq(Events) /\ Len(q) = Len(p) + 1
      /\ DOMAIN p = 1..Len(p) /\ DOMAIN q = 1..(Len(p) + 1)
      /\ \A i \in 1..Len(p) : q[i] = p[i]
      /\ q[Len(p) + 1] = e
  BY AppendProperties, LenProperties
<1>2. rws.mails \in Seq(Pair) /\ Len(rws.mails) \in Nat
  BY LenProperties DEF Views
<1> HIDE DEF q
<1>3. ASSUME NEW c \in Cells, NEW i \in DOMAIN q, Touches(q[i], c),
             \A j \in DOMAIN q : j > i => ~Touches(q[j], c)
      PROVE  Carries(new, q[i], c)
  <2>1. CASE i = Len(p) + 1
    BY <1>1, <1>3, <2>1 DEF Told
  <2>2. CASE i \in 1..Len(p)
    <3>1. q[i] = p[i] /\ i \in DOMAIN p
      BY <1>1, <2>2
    <3>2. \A j \in DOMAIN p : j > i => ~Touches(p[j], c)
      <4> SUFFICES ASSUME NEW j \in DOMAIN p, j > i PROVE ~Touches(p[j], c)
        OBVIOUS
      <4>1. j \in DOMAIN q /\ q[j] = p[j]
        BY <1>1
      <4> QED
        BY <4>1, <1>3
    <3>3. Carries(rws, p[i], c)
      BY <1>3, <3>1, <3>2 DEF Truthful
    <3>4. ~Touches(e, c)
      <4>1. Len(p) + 1 \in DOMAIN q /\ Len(p) + 1 > i
        BY <1>1, <2>2
      <4> QED
        BY <4>1, <1>1, <1>3
    <3>5. Same(rws, new, c)
      BY <3>4 DEF Told
    <3> QED
      BY <3>1, <3>3, <3>5 DEF Same, Carries
  <2> QED
    BY <1>1, <2>1, <2>2
<1>4. ASSUME NEW i \in DOMAIN q, IsMail(q[i])
      PROVE  \E k \in 1..Len(new.mails) : q[i].ids = {k} /\ new.mails[k] = q[i].user
  <2>1. CASE i = Len(p) + 1
    <3>1. q[i] = e /\ IsMail(e)
      BY <1>1, <1>4, <2>1
    <3>2. new.mails = Append(rws.mails, e.user) /\ e.ids = {Len(rws.mails) + 1} /\ e.user \in Pair
      BY <3>1 DEF Told, Events
    <3>3. Len(new.mails) = Len(rws.mails) + 1 /\ new.mails[Len(rws.mails) + 1] = e.user
      BY <3>2, <1>2, AppendProperties
    <3> QED
      BY <3>1, <3>2, <3>3, <1>2
  <2>2. CASE i \in 1..Len(p)
    <3>1. q[i] = p[i] /\ i \in DOMAIN p
      BY <1>1, <2>2
    <3>2. PICK k \in 1..Len(rws.mails) : p[i].ids = {k} /\ rws.mails[k] = p[i].user
      BY <3>1, <1>4 DEF Truthful
    <3>3. k \in 1..Len(new.mails) /\ new.mails[k] = rws.mails[k]
      <4>1. CASE IsMail(e)
        <5>1. new.mails = Append(rws.mails, e.user) /\ e.user \in Pair
          BY <4>1 DEF Told, Events
        <5> QED
          BY <5>1, <1>2, AppendProperties
      <4>2. CASE ~IsMail(e)
        BY <4>2 DEF Told
      <4> QED
        BY <4>1, <4>2
    <3> QED
      BY <3>1, <3>2, <3>3
  <2> QED
    BY <1>1, <2>1, <2>2
<1>5. ASSUME NEW i \in DOMAIN q, NEW j \in DOMAIN q, i < j, IsMail(q[i]), IsMail(q[j]),
             NEW k \in q[i].ids, NEW l \in q[j].ids
      PROVE  k < l
  <2>1. i \in DOMAIN p /\ q[i] = p[i]
    BY <1>1, <1>5
  <2>2. CASE j = Len(p) + 1
    <3>1. q[j] = e /\ IsMail(e)
      BY <1>1, <1>5, <2>2
    <3>2. l = Len(rws.mails) + 1
      BY <3>1 DEF Told
    <3>3. PICK n \in 1..Len(rws.mails) : p[i].ids = {n}
      BY <2>1, <1>5 DEF Truthful
    <3>4. k = n
      BY <2>1, <3>3
    <3> QED
      BY <3>2, <3>4, <1>2
  <2>3. CASE j \in 1..Len(p)
    <3>1. j \in DOMAIN p /\ q[j] = p[j]
      BY <1>1, <2>3
    <3> QED
      BY <2>1, <3>1, <1>5 DEF Truthful
  <2> QED
    BY <1>1, <2>2, <2>3
<1>6. \A c \in Cells, i \in DOMAIN q :
          Touches(q[i], c) /\ (\A j \in DOMAIN q : j > i => ~Touches(q[j], c)) => Carries(new, q[i], c)
  BY <1>3
<1>7. \A i \in DOMAIN q : IsMail(q[i]) =>
          \E k \in 1..Len(new.mails) : q[i].ids = {k} /\ new.mails[k] = q[i].user
  BY <1>4
<1>8. \A i, j \in DOMAIN q : i < j /\ IsMail(q[i]) /\ IsMail(q[j]) =>
          \A k \in q[i].ids, l \in q[j].ids : k < l
  BY <1>5
<1>9. Truthful(new, q)
  BY <1>6, <1>7, <1>8 DEF Truthful
<1> QED
  BY <1>9 DEF q

\* What a screen lacks is under way, also when one more change is told.
LEMMA CatchingAppend ==
    ASSUME NEW rws \in Views, NEW new \in Views, NEW v \in Views, NEW p \in Seq(Events),
           NEW e \in Events, Catching(rws, v, p), Told(rws, e, new)
    PROVE  Catching(new, v, Append(p, e))
<1> DEFINE q == Append(p, e)
<1>1. /\ Len(p) \in Nat /\ q \in Seq(Events) /\ Len(q) = Len(p) + 1
      /\ DOMAIN p = 1..Len(p) /\ DOMAIN q = 1..(Len(p) + 1)
      /\ \A i \in 1..Len(p) : q[i] = p[i]
      /\ q[Len(p) + 1] = e
  BY AppendProperties, LenProperties
<1>2. /\ rws.mails \in Seq(Pair) /\ Len(rws.mails) \in Nat
      /\ v.mails \in Seq(Pair) /\ Len(v.mails) \in Nat
  BY LenProperties DEF Views
<1> HIDE DEF q
<1>3. ASSUME NEW c \in Cells, \A i \in DOMAIN q : ~Touches(q[i], c)
      PROVE  Same(v, new, c)
  <2>1. ~Touches(e, c)
    BY <1>1, <1>3
  <2>2. \A i \in DOMAIN p : ~Touches(p[i], c)
    BY <1>1, <1>3
  <2>3. Same(v, rws, c) /\ Same(rws, new, c)
    BY <2>1, <2>2 DEF Catching, Told
  <2> QED
    BY <2>3 DEF Same
<1>4. CASE IsMail(e)
  <2>1. new.mails = Append(rws.mails, e.user) /\ e.user \in Pair /\ e.ids = {Len(rws.mails) + 1}
    BY <1>4 DEF Told, Events
  <2>2. Len(new.mails) = Len(rws.mails) + 1 /\ \A k \in 1..Len(rws.mails) : new.mails[k] = rws.mails[k]
    BY <2>1, <1>2, AppendProperties
  <2>3. Len(v.mails) <= Len(new.mails) /\ \A k \in 1..Len(v.mails) : v.mails[k] = new.mails[k]
    <3>1. Len(v.mails) <= Len(rws.mails) /\ \A k \in 1..Len(v.mails) : v.mails[k] = rws.mails[k]
      BY DEF Catching
    <3>2. \A k \in 1..Len(v.mails) : k \in 1..Len(rws.mails)
      BY <1>2, <3>1
    <3>3. \A k \in 1..Len(v.mails) : v.mails[k] = new.mails[k]
      BY <2>2, <3>1, <3>2
    <3> QED
      BY <1>2, <2>2, <3>1, <3>3
  <2>4. ASSUME NEW k \in (Len(v.mails) + 1)..Len(new.mails)
        PROVE  \E i \in DOMAIN q : IsMail(q[i]) /\ q[i].ids = {k}
    <3>1. CASE k = Len(new.mails)
      <4>1. Len(p) + 1 \in DOMAIN q
        BY <1>1
      <4>2. IsMail(q[Len(p) + 1]) /\ q[Len(p) + 1].ids = {k}
        BY <1>1, <1>4, <2>1, <2>2, <3>1
      <4> QED
        BY <4>1, <4>2
    <3>2. CASE k \in (Len(v.mails) + 1)..Len(rws.mails)
      <4>1. PICK i \in DOMAIN p : IsMail(p[i]) /\ p[i].ids = {k}
        BY <3>2 DEF Catching
      <4> QED
        BY <4>1, <1>1
    <3> QED
      BY <2>2, <3>1, <3>2, <1>2
  <2>5. Catching(new, v, q)
    BY <1>3, <2>3, <2>4 DEF Catching
  <2> QED
    BY <2>5 DEF q
<1>5. CASE ~IsMail(e)
  <2>1. new.mails = rws.mails
    BY <1>5 DEF Told
  <2>2. ASSUME NEW k \in (Len(v.mails) + 1)..Len(new.mails)
        PROVE  \E i \in DOMAIN q : IsMail(q[i]) /\ q[i].ids = {k}
    <3>1. PICK i \in DOMAIN p : IsMail(p[i]) /\ p[i].ids = {k}
      BY <2>1 DEF Catching
    <3> QED
      BY <3>1, <1>1
  <2>3. Catching(new, v, q)
    BY <1>3, <2>1, <2>2 DEF Catching
  <2> QED
    BY <2>3 DEF q
<1> QED
  BY <1>4, <1>5

\* Events at the front, applied or lost with a connection, do not make the later ones untrue.
LEMMA TruthfulSuffix ==
    ASSUME NEW rws, NEW p \in Seq(Events), NEW q \in Seq(Events), NEW n \in Nat,
           Len(p) = Len(q) + n, \A i \in 1..Len(q) : q[i] = p[i + n], Truthful(rws, p)
    PROVE  Truthful(rws, q)
<1>1. Len(p) \in Nat /\ Len(q) \in Nat /\ DOMAIN p = 1..Len(p) /\ DOMAIN q = 1..Len(q)
  BY LenProperties
<1>2. \A i \in DOMAIN q : i \in Nat /\ i + n \in DOMAIN p /\ q[i] = p[i + n]
  BY <1>1
<1>3. ASSUME NEW c \in Cells, NEW i \in DOMAIN q, Touches(q[i], c),
             \A j \in DOMAIN q : j > i => ~Touches(q[j], c)
      PROVE  Carries(rws, q[i], c)
  <2>1. ASSUME NEW j \in DOMAIN p, j > i + n PROVE ~Touches(p[j], c)
    <3>1. j - n \in DOMAIN q /\ j - n > i /\ j = (j - n) + n
      BY <1>1, <1>2, <2>1
    <3>2. q[j - n] = p[j]
      BY <1>2, <3>1
    <3>3. ~Touches(q[j - n], c)
      BY <1>3, <3>1
    <3> QED
      BY <3>2, <3>3
  <2>2. i + n \in DOMAIN p /\ q[i] = p[i + n]
    BY <1>2
  <2> QED
    BY <1>3, <2>1, <2>2 DEF Truthful
<1>4. ASSUME NEW i \in DOMAIN q, IsMail(q[i])
      PROVE  \E k \in 1..Len(rws.mails) : q[i].ids = {k} /\ rws.mails[k] = q[i].user
  <2>1. i + n \in DOMAIN p /\ q[i] = p[i + n]
    BY <1>2
  <2>2. IsMail(p[i + n])
    BY <2>1, <1>4
  <2>3. \E k \in 1..Len(rws.mails) : p[i + n].ids = {k} /\ rws.mails[k] = p[i + n].user
    BY <2>1, <2>2 DEF Truthful
  <2> QED
    BY <2>1, <2>3
<1>5. ASSUME NEW i \in DOMAIN q, NEW j \in DOMAIN q, i < j, IsMail(q[i]), IsMail(q[j]),
             NEW k \in q[i].ids, NEW l \in q[j].ids
      PROVE  k < l
  <2>1. i + n < j + n /\ i + n \in DOMAIN p /\ j + n \in DOMAIN p
    BY <1>2, <1>5
  <2>2. q[i] = p[i + n] /\ q[j] = p[j + n]
    BY <1>2
  <2> QED
    BY <2>1, <2>2, <1>5 DEF Truthful
<1> QED
  BY <1>3, <1>4, <1>5 DEF Truthful

\* What applying an event makes of a cell of the screen.
LEMMA ShownCells ==
    ASSUME NEW v \in Views, NEW e \in Events, NEW c \in Cells, NEW rws
    PROVE  /\ ~Touches(e, c) => Same(Shown(v, e), v, c)
           /\ Touches(e, c) /\ Carries(rws, e, c) => Same(Shown(v, e), rws, c)
<1>1. CASE e.type = "new_message"
  <2>1. Shown(v, e).receipts = v.receipts /\ Shown(v, e).reactions = v.reactions
        /\ Shown(v, e).titles = v.titles
    BY <1>1 DEF Shown, Views
  <2>2. ~Touches(e, c)
    BY <1>1 DEF Touches
  <2> QED
    BY <2>1, <2>2 DEF Same
<1>2. CASE e.type = "read_receipt"
  <2> DEFINE w == Shown(v, e)
  <2>1. w = [v EXCEPT !.receipts = @ \cup {<<m, e.user>> : m \in e.ids}]
    BY <1>2, Zenon DEF Shown
  <2>2. w.receipts = v.receipts \cup {<<m, e.user>> : m \in e.ids}
        /\ w.reactions = v.reactions /\ w.titles = v.titles
    BY <2>1 DEF Views
  <2>3. <<c.mail, c.user>> \in w.receipts
           <=> <<c.mail, c.user>> \in v.receipts \/ (c.mail \in e.ids /\ c.user = e.user)
    BY <2>2
  <2> HIDE DEF w
  <2>4. ~Touches(e, c) => Same(w, v, c)
    BY <2>2, <2>3, <1>2 DEF Touches, Same
  <2>5. ASSUME Touches(e, c), Carries(rws, e, c) PROVE Same(w, rws, c)
    <3>1. c.kind = "receipt" /\ c.mail \in e.ids /\ c.user = e.user
      BY <2>5, <1>2 DEF Touches
    <3> QED
      BY <3>1, <2>3, <2>5 DEF Same, Carries
  <2> QED
    BY <2>4, <2>5 DEF w
<1>3. CASE e.type = "reaction_added"
  <2> DEFINE w == Shown(v, e)
  <2>1. w = [v EXCEPT !.reactions = @ \cup {<<m, e.user, e.what>> : m \in e.ids}]
    BY <1>3, Zenon DEF Shown
  <2>2. w.reactions = v.reactions \cup {<<m, e.user, e.what>> : m \in e.ids}
        /\ w.receipts = v.receipts /\ w.titles = v.titles
    BY <2>1 DEF Views
  <2>3. <<c.mail, c.user, c.what>> \in w.reactions
           <=> <<c.mail, c.user, c.what>> \in v.reactions
               \/ (c.mail \in e.ids /\ c.user = e.user /\ c.what = e.what)
    BY <2>2
  <2> HIDE DEF w
  <2>4. ~Touches(e, c) => Same(w, v, c)
    BY <2>2, <2>3, <1>3 DEF Touches, Same
  <2>5. ASSUME Touches(e, c), Carries(rws, e, c) PROVE Same(w, rws, c)
    <3>1. c.kind = "reaction" /\ c.mail \in e.ids /\ c.user = e.user /\ c.what = e.what
      BY <2>5, <1>3 DEF Touches
    <3> QED
      BY <3>1, <2>3, <2>5, <1>3 DEF Same, Carries
  <2> QED
    BY <2>4, <2>5 DEF w
<1>4. CASE e.type = "reaction_removed"
  <2> DEFINE w == Shown(v, e)
  <2>1. w = [v EXCEPT !.reactions = @ \ {<<m, e.user, e.what>> : m \in e.ids}]
    BY <1>4, Zenon DEF Shown
  <2>2. w.reactions = v.reactions \ {<<m, e.user, e.what>> : m \in e.ids}
        /\ w.receipts = v.receipts /\ w.titles = v.titles
    BY <2>1 DEF Views
  <2>3. <<c.mail, c.user, c.what>> \in w.reactions
           <=> <<c.mail, c.user, c.what>> \in v.reactions
               /\ ~(c.mail \in e.ids /\ c.user = e.user /\ c.what = e.what)
    BY <2>2
  <2> HIDE DEF w
  <2>4. ~Touches(e, c) => Same(w, v, c)
    BY <2>2, <2>3, <1>4 DEF Touches, Same
  <2>5. ASSUME Touches(e, c), Carries(rws, e, c) PROVE Same(w, rws, c)
    <3>1. c.kind = "reaction" /\ c.mail \in e.ids /\ c.user = e.user /\ c.what = e.what
      BY <2>5, <1>4 DEF Touches
    <3> QED
      BY <3>1, <2>3, <2>5, <1>4 DEF Same, Carries
  <2> QED
    BY <2>4, <2>5 DEF w
<1>5. CASE e.type = "message_preview"
  <2> DEFINE w == Shown(v, e)
  <2>1. w = [v EXCEPT !.titles = [m \in MailIds |-> IF m \in e.ids THEN e.what ELSE @[m]]]
    BY <1>5, Zenon DEF Shown
  <2>2. w.titles = [m \in MailIds |-> IF m \in e.ids THEN e.what ELSE v.titles[m]]
        /\ w.receipts = v.receipts /\ w.reactions = v.reactions
    BY <2>1 DEF Views
  <2>3. w.titles[c.mail] = IF c.mail \in e.ids THEN e.what ELSE v.titles[c.mail]
    BY <2>2 DEF Cells
  <2> HIDE DEF w
  <2>4. ~Touches(e, c) => Same(w, v, c)
    BY <2>2, <2>3, <1>5 DEF Touches, Same
  <2>5. ASSUME Touches(e, c), Carries(rws, e, c) PROVE Same(w, rws, c)
    <3>1. c.kind = "title" /\ c.mail \in e.ids
      BY <2>5, <1>5 DEF Touches
    <3> QED
      BY <3>1, <2>3, <2>5 DEF Same, Carries
  <2> QED
    BY <2>4, <2>5 DEF w
<1> QED
  BY <1>1, <1>2, <1>3, <1>4, <1>5 DEF Events, EventTypes

\* What an event makes of a screen is a screen, and of its messages.
LEMMA ShownMails ==
    ASSUME NEW v \in Views, NEW e \in Events
    PROVE  /\ Shown(v, e).mails = IF IsMail(e) /\ ~(e.ids \subseteq DOMAIN v.mails)
                                  THEN Append(v.mails, e.user) ELSE v.mails
           /\ Shown(v, e) \in Views
<1>0. /\ e.type \in EventTypes /\ e.user \in Pair /\ e.ids \in SUBSET MailIds
      /\ v.mails \in Seq(Pair) /\ v.reactions \in SUBSET (MailIds \X Pair \X Emojis)
      /\ v.receipts \in SUBSET (MailIds \X Pair) /\ v.titles \in [MailIds -> Titles \cup {NoTitle}]
      /\ v = [mails |-> v.mails, reactions |-> v.reactions, receipts |-> v.receipts, titles |-> v.titles]
  BY DEF Events, Views
<1> DEFINE w == Shown(v, e)
<1>1. CASE e.type = "new_message"
  <2>1. w = IF e.ids \subseteq DOMAIN v.mails THEN v ELSE [v EXCEPT !.mails = Append(@, e.user)]
    BY <1>1, Zenon DEF Shown
  <2>2. Append(v.mails, e.user) \in Seq(Pair)
    BY <1>0, AppendProperties
  <2> QED
    BY <2>1, <2>2, <1>0, <1>1 DEF Views, IsMail
<1>2. CASE e.type = "read_receipt"
  <2>1. w = [v EXCEPT !.receipts = @ \cup {<<m, e.user>> : m \in e.ids}]
    BY <1>2, Zenon DEF Shown
  <2>2. v.receipts \cup {<<m, e.user>> : m \in e.ids} \in SUBSET (MailIds \X Pair)
    BY <1>0
  <2> QED
    BY <2>1, <2>2, <1>0, <1>2 DEF Views, IsMail
<1>3. CASE e.type = "reaction_added"
  <2>1. w = [v EXCEPT !.reactions = @ \cup {<<m, e.user, e.what>> : m \in e.ids}]
    BY <1>3, Zenon DEF Shown
  <2>2. v.reactions \cup {<<m, e.user, e.what>> : m \in e.ids} \in SUBSET (MailIds \X Pair \X Emojis)
    BY <1>0, <1>3 DEF Events
  <2> QED
    BY <2>1, <2>2, <1>0, <1>3 DEF Views, IsMail
<1>4. CASE e.type = "reaction_removed"
  <2>1. w = [v EXCEPT !.reactions = @ \ {<<m, e.user, e.what>> : m \in e.ids}]
    BY <1>4, Zenon DEF Shown
  <2>2. v.reactions \ {<<m, e.user, e.what>> : m \in e.ids} \in SUBSET (MailIds \X Pair \X Emojis)
    BY <1>0
  <2> QED
    BY <2>1, <2>2, <1>0, <1>4 DEF Views, IsMail
<1>5. CASE e.type = "message_preview"
  <2>1. w = [v EXCEPT !.titles = [m \in MailIds |-> IF m \in e.ids THEN e.what ELSE @[m]]]
    BY <1>5, Zenon DEF Shown
  <2>2. [m \in MailIds |-> IF m \in e.ids THEN e.what ELSE v.titles[m]]
           \in [MailIds -> Titles \cup {NoTitle}]
    BY <1>0, <1>5 DEF Events
  <2> QED
    BY <2>1, <2>2, <1>0, <1>5 DEF Views, IsMail
<1> QED
  BY <1>0, <1>1, <1>2, <1>3, <1>4, <1>5 DEF EventTypes

\* When a screen takes the first event under way, what it lacks is still under way.
LEMMA CatchingApply ==
    ASSUME NEW rws \in Views, NEW v \in Views, NEW p \in Seq(Events), p # <<>>,
           Truthful(rws, p), Catching(rws, v, p)
    PROVE  Catching(rws, Shown(v, Head(p)), Tail(p))
<1> DEFINE e == Head(p)
           q == Tail(p)
           w == Shown(v, e)
<1>1. /\ Len(p) \in Nat /\ Len(p) >= 1 /\ e = p[1] /\ e \in Events
      /\ q \in Seq(Events) /\ Len(q) = Len(p) - 1
      /\ DOMAIN p = 1..Len(p) /\ DOMAIN q = 1..(Len(p) - 1)
      /\ \A i \in 1..Len(q) : q[i] = p[i + 1]
  BY LenProperties, HeadTailProperties, EmptySeq
<1>2. \A i \in DOMAIN p : i # 1 => i - 1 \in DOMAIN q /\ q[i - 1] = p[i]
  BY <1>1
<1>3. /\ rws.mails \in Seq(Pair) /\ Len(rws.mails) \in Nat
      /\ v.mails \in Seq(Pair) /\ Len(v.mails) \in Nat /\ DOMAIN v.mails = 1..Len(v.mails)
      /\ e.user \in Pair
  BY <1>1, LenProperties DEF Views, Events
<1>4. w.mails = IF IsMail(e) /\ ~(e.ids \subseteq DOMAIN v.mails) THEN Append(v.mails, e.user)
                ELSE v.mails
  BY <1>1, ShownMails
<1>5. \A c \in Cells : /\ ~Touches(e, c) => Same(w, v, c)
                       /\ Touches(e, c) /\ Carries(rws, e, c) => Same(w, rws, c)
  BY <1>1, ShownCells
<1> HIDE DEF e, q, w
<1>6. ASSUME NEW c \in Cells, \A i \in DOMAIN q : ~Touches(q[i], c)
      PROVE  Same(w, rws, c)
  <2>1. \A j \in DOMAIN p : j # 1 => ~Touches(p[j], c)
    BY <1>2, <1>6
  <2>2. CASE Touches(e, c)
    <3>1. 1 \in DOMAIN p /\ \A j \in DOMAIN p : j > 1 => ~Touches(p[j], c)
      BY <1>1, <2>1
    <3>2. Carries(rws, e, c)
      BY <1>1, <2>2, <3>1 DEF Truthful
    <3> QED
      BY <1>5, <2>2, <3>2
  <2>3. CASE ~Touches(e, c)
    <3>1. \A j \in DOMAIN p : ~Touches(p[j], c)
      BY <1>1, <2>1, <2>3
    <3>2. Same(v, rws, c) /\ Same(w, v, c)
      BY <1>5, <2>3, <3>1 DEF Catching
    <3> QED
      BY <3>2 DEF Same
  <2> QED
    BY <2>2, <2>3
<1>7. CASE IsMail(e) /\ ~(e.ids \subseteq DOMAIN v.mails)
  <2>1. w.mails = Append(v.mails, e.user)
    BY <1>4, <1>7
  <2>2. /\ Len(w.mails) = Len(v.mails) + 1
        /\ \A k \in 1..Len(v.mails) : w.mails[k] = v.mails[k]
        /\ w.mails[Len(v.mails) + 1] = e.user
    BY <2>1, <1>3, AppendProperties
  <2>3. PICK n \in 1..Len(rws.mails) : e.ids = {n} /\ rws.mails[n] = e.user
    BY <1>1, <1>7 DEF Truthful
  <2>4. n > Len(v.mails)
    BY <1>3, <1>7, <2>3
  <2>5. Len(v.mails) + 1 \in (Len(v.mails) + 1)..Len(rws.mails)
    BY <1>3, <2>3, <2>4
  <2>6. PICK i \in DOMAIN p : IsMail(p[i]) /\ p[i].ids = {Len(v.mails) + 1}
    BY <2>5 DEF Catching
  <2>7. n = Len(v.mails) + 1
    <3>1. CASE i = 1
      BY <1>1, <2>3, <2>6, <3>1
    <3>2. CASE i # 1
      <4>1. 1 \in DOMAIN p /\ 1 < i
        BY <1>1, <3>2
      <4>2. n < Len(v.mails) + 1
        BY <4>1, <1>1, <1>7, <2>3, <2>6 DEF Truthful
      <4> QED
        BY <4>2, <2>4, <1>3, <2>3
    <3> QED
      BY <3>1, <3>2
  <2>8. Len(w.mails) <= Len(rws.mails) /\ \A k \in 1..Len(w.mails) : w.mails[k] = rws.mails[k]
    <3>1. \A k \in 1..Len(v.mails) : v.mails[k] = rws.mails[k]
      BY DEF Catching
    <3>2. \A k \in 1..Len(v.mails) : w.mails[k] = rws.mails[k]
      BY <2>2, <3>1
    <3>3. w.mails[n] = rws.mails[n] /\ Len(w.mails) = n
      BY <2>2, <2>3, <2>7
    <3>4. \A k \in 1..Len(w.mails) : k \in 1..Len(v.mails) \/ k = n
      BY <1>3, <2>7, <3>3
    <3> QED
      BY <1>3, <2>3, <3>2, <3>3, <3>4
  <2>9. ASSUME NEW k \in (Len(w.mails) + 1)..Len(rws.mails)
        PROVE  \E j \in DOMAIN q : IsMail(q[j]) /\ q[j].ids = {k}
    <3>1. k \in (Len(v.mails) + 1)..Len(rws.mails) /\ k # n
      BY <1>3, <2>2, <2>7
    <3>2. PICK j \in DOMAIN p : IsMail(p[j]) /\ p[j].ids = {k}
      BY <3>1 DEF Catching
    <3>3. j # 1
      BY <1>1, <2>3, <3>1, <3>2
    <3> QED
      BY <1>2, <3>2, <3>3
  <2> QED
    BY <1>6, <2>8, <2>9 DEF Catching, q, w, e
<1>8. CASE ~(IsMail(e) /\ ~(e.ids \subseteq DOMAIN v.mails))
  <2>1. w.mails = v.mails
    BY <1>4, <1>8
  <2>2. ASSUME NEW k \in (Len(w.mails) + 1)..Len(rws.mails)
        PROVE  \E j \in DOMAIN q : IsMail(q[j]) /\ q[j].ids = {k}
    <3>1. PICK j \in DOMAIN p : IsMail(p[j]) /\ p[j].ids = {k}
      BY <2>1 DEF Catching
    <3>2. k \notin DOMAIN v.mails
      BY <1>3, <2>1
    <3>3. j # 1
      BY <1>1, <1>8, <3>1, <3>2
    <3> QED
      BY <1>2, <3>1, <3>3
  <2>3. Len(w.mails) <= Len(rws.mails) /\ \A k \in 1..Len(w.mails) : w.mails[k] = rws.mails[k]
    BY <2>1 DEF Catching
  <2> QED
    BY <1>6, <2>2, <2>3 DEF Catching, q, w, e
<1> QED
  BY <1>7, <1>8

\* Concatenation is associative, for every set of elements.
LEMMA ConcatOfThree == \A S : \A s, t, u \in Seq(S) : (s \o t) \o u = s \o (t \o u)
  BY ConcatAssociative

\* The events under way, when a broadcast is created: it is the last of them.
LEMMA CreatedLast ==
    ASSUME NEW c \in Seq(Events), NEW p \in Seq(Events), NEW e \in Events
    PROVE  c \o Append(p, e) = Append(c \o p, e)
<1>1. <<e>> \in Seq(Events) /\ c \o p \in Seq(Events)
  BY ConcatProperties
<1>2. (c \o p) \o <<e>> = c \o (p \o <<e>>)
  BY <1>1, ConcatOfThree
<1>3. Append(p, e) = p \o <<e>>
  BY AppendIsConcat
<1>4. Append(c \o p, e) = (c \o p) \o <<e>>
  BY <1>1, AppendIsConcat
<1> QED
  BY <1>2, <1>3, <1>4, Zenon

\* The events under way, when the next broadcast is sent: none is gained or lost.
LEMMA SentOn ==
    ASSUME NEW c \in Seq(Events), NEW p \in Seq(Events), p # <<>>
    PROVE  Append(c, Head(p)) \o Tail(p) = c \o p
<1>1. Head(p) \in Events /\ Tail(p) \in Seq(Events) /\ <<Head(p)>> \in Seq(Events)
  BY HeadTailProperties
<1>2. (c \o <<Head(p)>>) \o Tail(p) = c \o (<<Head(p)>> \o Tail(p))
  BY <1>1, ConcatOfThree
<1>3. Append(c, Head(p)) = c \o <<Head(p)>>
  BY <1>1, AppendIsConcat
<1>4. <<Head(p)>> \o Tail(p) = p
  OBVIOUS
<1> QED
  BY <1>2, <1>3, <1>4, Zenon

\* The events under way, when the first that was sent is applied.
LEMMA TakenOff ==
    ASSUME NEW c \in Seq(Events), NEW p \in Seq(Events), c # <<>>
    PROVE  Head(c \o p) = Head(c) /\ Tail(c \o p) = Tail(c) \o p /\ c \o p # <<>>
<1>1. Head(c) \in Events /\ Tail(c) \in Seq(Events) /\ Tail(c) \o p \in Seq(Events)
  BY HeadTailProperties, ConcatProperties
<1>2. c = <<Head(c)>> \o Tail(c)
  OBVIOUS
<1>3. (<<Head(c)>> \o Tail(c)) \o p = <<Head(c)>> \o (Tail(c) \o p)
  BY <1>1, ConcatOfThree
<1>4. c \o p = <<Head(c)>> \o (Tail(c) \o p)
  BY <1>2, <1>3, Zenon
<1> QED
  BY <1>1, <1>4

\* A change told: what the handlers share.
LEMMA TellStep ==
    ASSUME InboxInv, NEW e \in Events, Rows' \in Views, Len(mails') <= MaxMails,
           Told(Rows, e, Rows'), events' = Append(events, e),
           UNCHANGED <<link, channel, view>>
    PROVE  InboxInv'
<1>1. /\ events \in Seq(Events) /\ events' \in Seq(Events)
  BY AppendProperties DEF InboxInv, InboxTypeOK
<1>2. InboxTypeOK'
  BY <1>1 DEF InboxInv, InboxTypeOK
<1>3. ASSUME NEW u \in Pair
      PROVE  Truthful(Rows, Underway(u))' /\ (link'[u] = "loaded" => Catching(Rows', view'[u], Underway(u)'))
  <2>1. channel[u] \in Seq(Events) /\ channel'[u] = channel[u] /\ view'[u] = view[u] /\ view[u] \in Views
    BY DEF InboxInv, InboxTypeOK
  <2>2. Underway(u) \in Seq(Events) /\ Underway(u)' = Append(Underway(u), e)
    <3>1. Underway(u) \in Seq(Events)
      BY <1>1, <2>1, ConcatProperties DEF Underway
    <3>2. Underway(u)' = channel[u] \o Append(events, e)
      BY <2>1 DEF Underway
    <3> QED
      BY <1>1, <2>1, <3>1, <3>2, CreatedLast DEF Underway
  <2>3. Rows \in Views /\ Truthful(Rows, Underway(u))
    BY DEF InboxInv, InboxTypeOK
  <2>4. Truthful(Rows', Append(Underway(u), e))
    BY <2>2, <2>3, TruthfulAppend
  <2>5. ASSUME link'[u] = "loaded" PROVE Catching(Rows', view[u], Append(Underway(u), e))
    <3>1. Catching(Rows, view[u], Underway(u))
      BY <2>5 DEF InboxInv
    <3> QED
      BY <2>1, <2>2, <2>3, <3>1, CatchingAppend
  <2> QED
    BY <2>1, <2>2, <2>4, <2>5
<1> QED
  BY <1>2, <1>3 DEF InboxInv

\* A member's connection ends: only what is created and not started is under way to it.
LEMMA DropStep ==
    ASSUME InboxInv, NEW u \in Pair, link' = [link EXCEPT ![u] = "off"],
           channel' = [channel EXCEPT ![u] = <<>>], UNCHANGED <<tableVars, events, view>>
    PROVE  InboxInv'
<1>1. UNCHANGED Rows
  BY DEF Rows, tableVars
<1>2. InboxTypeOK'
  BY <1>1 DEF InboxInv, InboxTypeOK, tableVars
<1>3. Truthful(Rows, events)
  <2>1. events \in Seq(Events) /\ channel[u] \in Seq(Events)
    BY DEF InboxInv, InboxTypeOK
  <2>2. /\ Underway(u) \in Seq(Events) /\ Len(channel[u]) \in Nat /\ Len(events) \in Nat
        /\ Len(Underway(u)) = Len(events) + Len(channel[u])
        /\ \A i \in 1..Len(events) : events[i] = Underway(u)[i + Len(channel[u])]
    BY <2>1, ConcatProperties, LenProperties DEF Underway
  <2> QED
    BY <2>1, <2>2, TruthfulSuffix DEF InboxInv
<1>4. ASSUME NEW v \in Pair
      PROVE  Truthful(Rows, Underway(v))' /\ (link'[v] = "loaded" => Catching(Rows', view'[v], Underway(v)'))
  <2>1. CASE v = u
    <3>1. link'[v] = "off" /\ Underway(v)' = <<>> \o events
      BY <2>1 DEF InboxInv, InboxTypeOK, Underway
    <3>2. Underway(v)' = events
      BY <3>1, ConcatEmptySeq DEF InboxInv, InboxTypeOK
    <3> QED
      BY <1>1, <1>3, <3>1, <3>2
  <2>2. CASE v # u
    <3>1. link'[v] = link[v] /\ view'[v] = view[v] /\ Underway(v)' = Underway(v)
      BY <2>2 DEF InboxInv, InboxTypeOK, Underway
    <3> QED
      BY <1>1, <3>1 DEF InboxInv
  <2> QED
    BY <2>1, <2>2
<1> QED
  BY <1>2, <1>4 DEF InboxInv

\* At the start nothing is under way and no screen is loaded.
LEMMA InboxStart == InboxInit => InboxInv
<1> SUFFICES ASSUME InboxInit PROVE InboxInv
  OBVIOUS
<1>1. /\ mails = <<>> /\ reactions = {} /\ receipts = {} /\ titles = [m \in MailIds |-> NoTitle]
      /\ events = <<>> /\ link = [u \in Pair |-> "off"] /\ channel = [u \in Pair |-> <<>>]
      /\ view = [u \in Pair |-> NoRows]
  BY DEF InboxInit
<1>2. Rows = NoRows /\ NoRows \in Views
  <2>1. <<>> \in Seq(Pair) /\ [m \in MailIds |-> NoTitle] \in [MailIds -> Titles \cup {NoTitle}]
    OBVIOUS
  <2> QED
    BY <1>1, <2>1 DEF Rows, NoRows, Views
<1>3. InboxTypeOK
  <2>1. <<>> \in Seq(Events) /\ Len(mails) <= MaxMails
    BY <1>1, InboxAssumption
  <2> QED
    BY <1>1, <1>2, <2>1 DEF InboxTypeOK
<1>4. ASSUME NEW u \in Pair PROVE Truthful(Rows, Underway(u)) /\ link[u] # "loaded"
  <2>1. Underway(u) = <<>> \o <<>> /\ <<>> \in Seq(Events)
    BY <1>1 DEF Underway
  <2>2. Underway(u) = <<>>
    BY <2>1, ConcatEmptySeq
  <2>3. DOMAIN <<>> = {}
    OBVIOUS
  <2> QED
    BY <1>1, <2>2, <2>3 DEF Truthful
<1> QED
  BY <1>3, <1>4 DEF InboxInv

\* A read receipt for some messages, stored and told.
LEMMA ReceiptsTold ==
    ASSUME InboxTypeOK, NEW u \in Pair, NEW marked \in SUBSET DOMAIN mails,
           receipts' = receipts \cup {<<m, u>> : m \in marked},
           UNCHANGED <<mails, reactions, titles>>
    PROVE  /\ Event("read_receipt", u, marked, NoTitle) \in Events
           /\ Rows' \in Views /\ Told(Rows, Event("read_receipt", u, marked, NoTitle), Rows')
<1> DEFINE e == Event("read_receipt", u, marked, NoTitle)
<1>1. marked \in SUBSET MailIds
  <2>1. mails \in Seq(Pair) /\ Len(mails) <= MaxMails /\ Len(mails) \in Nat /\ DOMAIN mails = 1..Len(mails)
    BY LenProperties DEF InboxTypeOK, Rows, Views
  <2> QED
    BY <2>1, InboxAssumption DEF MailIds
<1>2. e \in Events
  BY <1>1 DEF Event, Events, EventTypes
<1>3. e.type = "read_receipt" /\ e.user = u /\ e.ids = marked
  BY DEF Event
<1>4. Rows' \in Views
  <2>1. {<<m, u>> : m \in marked} \in SUBSET (MailIds \X Pair)
    BY <1>1
  <2> QED
    BY <2>1 DEF InboxTypeOK, Rows, Views
<1>5. /\ Rows'.receipts = receipts \cup {<<m, u>> : m \in marked} /\ Rows.receipts = receipts
      /\ Rows'.reactions = Rows.reactions /\ Rows'.titles = Rows.titles /\ Rows'.mails = Rows.mails
  BY DEF Rows
<1> HIDE DEF e
<1>6. ASSUME NEW c \in Cells PROVE IF Touches(e, c) THEN Carries(Rows', e, c) ELSE Same(Rows, Rows', c)
  <2>1. <<c.mail, c.user>> \in Rows'.receipts
           <=> <<c.mail, c.user>> \in Rows.receipts \/ (c.mail \in marked /\ c.user = u)
    BY <1>5
  <2>2. CASE Touches(e, c)
    <3>1. c.kind = "receipt" /\ c.mail \in marked /\ c.user = u
      BY <1>3, <2>2 DEF Touches
    <3> QED
      BY <3>1, <2>1, <2>2 DEF Carries
  <2>3. CASE ~Touches(e, c)
    <3>1. c.kind = "receipt" => ~(c.mail \in marked /\ c.user = u)
      BY <1>3, <2>3 DEF Touches
    <3> QED
      BY <3>1, <1>5, <2>1, <2>3 DEF Same
  <2> QED
    BY <2>2, <2>3
<1>7. Told(Rows, e, Rows')
  BY <1>3, <1>5, <1>6 DEF Told, IsMail
<1> QED
  BY <1>2, <1>4, <1>7 DEF e

\* A reaction added or removed, stored and told.
LEMMA ReactionsTold ==
    ASSUME InboxTypeOK, NEW u \in Pair, NEW m \in DOMAIN mails, NEW emoji \in Emojis, NEW type,
           \/ type = "reaction_added" /\ reactions' = reactions \cup {<<m, u, emoji>>}
           \/ type = "reaction_removed" /\ reactions' = reactions \ {<<m, u, emoji>>},
           UNCHANGED <<mails, receipts, titles>>
    PROVE  /\ Event(type, u, {m}, emoji) \in Events
           /\ Rows' \in Views /\ Told(Rows, Event(type, u, {m}, emoji), Rows')
<1> DEFINE e == Event(type, u, {m}, emoji)
<1>1. m \in MailIds
  <2>1. mails \in Seq(Pair) /\ Len(mails) <= MaxMails /\ Len(mails) \in Nat /\ DOMAIN mails = 1..Len(mails)
    BY LenProperties DEF InboxTypeOK, Rows, Views
  <2> QED
    BY <2>1, InboxAssumption DEF MailIds
<1>2. e \in Events
  BY <1>1 DEF Event, Events, EventTypes
<1>3. e.type = type /\ e.user = u /\ e.ids = {m} /\ e.what = emoji
  BY DEF Event
<1>4. Rows' \in Views
  <2>1. {<<m, u, emoji>>} \in SUBSET (MailIds \X Pair \X Emojis)
    BY <1>1
  <2>2. reactions' \in SUBSET (MailIds \X Pair \X Emojis)
    BY <2>1 DEF InboxTypeOK, Rows, Views
  <2> QED
    BY <2>2 DEF InboxTypeOK, Rows, Views
<1>5. /\ Rows'.reactions = reactions' /\ Rows.reactions = reactions
      /\ Rows'.receipts = Rows.receipts /\ Rows'.titles = Rows.titles /\ Rows'.mails = Rows.mails
  BY DEF Rows
<1> HIDE DEF e
<1>6. ASSUME NEW c \in Cells PROVE IF Touches(e, c) THEN Carries(Rows', e, c) ELSE Same(Rows, Rows', c)
  <2>1. CASE Touches(e, c)
    <3>1. c.kind = "reaction" /\ <<c.mail, c.user, c.what>> = <<m, u, emoji>>
      BY <1>3, <2>1 DEF Touches
    <3>2. <<c.mail, c.user, c.what>> \in Rows'.reactions <=> e.type = "reaction_added"
      BY <3>1, <1>3, <1>5
    <3> QED
      BY <2>1, <3>1, <3>2 DEF Carries
  <2>2. CASE ~Touches(e, c)
    <3>1. c.kind = "reaction" => <<c.mail, c.user, c.what>> # <<m, u, emoji>>
      BY <1>3, <2>2 DEF Touches
    <3>2. c.kind = "reaction" => (<<c.mail, c.user, c.what>> \in Rows'.reactions
                                     <=> <<c.mail, c.user, c.what>> \in Rows.reactions)
      BY <3>1, <1>5
    <3> QED
      BY <3>2, <1>5, <2>2 DEF Same
  <2> QED
    BY <2>1, <2>2
<1>7. Told(Rows, e, Rows')
  BY <1>3, <1>5, <1>6 DEF Told, IsMail
<1> QED
  BY <1>2, <1>4, <1>7 DEF e

\* A preview, stored and told.
LEMMA TitleTold ==
    ASSUME InboxTypeOK, NEW u \in Pair, NEW m \in DOMAIN mails, NEW title \in Titles,
           titles' = [titles EXCEPT ![m] = title], UNCHANGED <<mails, receipts, reactions>>
    PROVE  /\ Event("message_preview", u, {m}, title) \in Events
           /\ Rows' \in Views /\ Told(Rows, Event("message_preview", u, {m}, title), Rows')
<1> DEFINE e == Event("message_preview", u, {m}, title)
<1>1. m \in MailIds
  <2>1. mails \in Seq(Pair) /\ Len(mails) <= MaxMails /\ Len(mails) \in Nat /\ DOMAIN mails = 1..Len(mails)
    BY LenProperties DEF InboxTypeOK, Rows, Views
  <2> QED
    BY <2>1, InboxAssumption DEF MailIds
<1>2. e \in Events
  BY <1>1 DEF Event, Events, EventTypes
<1>3. e.type = "message_preview" /\ e.user = u /\ e.ids = {m} /\ e.what = title
  BY DEF Event
<1>4. Rows' \in Views
  BY DEF InboxTypeOK, Rows, Views
<1>5. /\ Rows'.titles = titles' /\ Rows.titles = titles
      /\ Rows'.receipts = Rows.receipts /\ Rows'.reactions = Rows.reactions /\ Rows'.mails = Rows.mails
  BY DEF Rows
<1> HIDE DEF e
<1>6. ASSUME NEW c \in Cells PROVE IF Touches(e, c) THEN Carries(Rows', e, c) ELSE Same(Rows, Rows', c)
  <2>0. titles \in [MailIds -> Titles \cup {NoTitle}] /\ c.mail \in MailIds
    BY DEF InboxTypeOK, Rows, Views, Cells
  <2>1. CASE Touches(e, c)
    <3>1. c.kind = "title" /\ c.mail = m
      BY <1>3, <2>1 DEF Touches
    <3>2. Rows'.titles[c.mail] = e.what
      BY <3>1, <1>3, <1>5, <2>0
    <3> QED
      BY <2>1, <3>1, <3>2 DEF Carries
  <2>2. CASE ~Touches(e, c)
    <3>1. c.kind = "title" => c.mail # m
      BY <1>3, <2>2 DEF Touches
    <3>2. c.kind = "title" => Rows.titles[c.mail] = Rows'.titles[c.mail]
      BY <3>1, <1>5, <2>0
    <3> QED
      BY <3>2, <1>5, <2>2 DEF Same
  <2> QED
    BY <2>1, <2>2
<1>7. Told(Rows, e, Rows')
  BY <1>3, <1>5, <1>6 DEF Told, IsMail
<1> QED
  BY <1>2, <1>4, <1>7 DEF e

\* Every handler and every client keeps it.
LEMMA InboxStep == InboxInv /\ [InboxNext]_inboxVars => InboxInv'
<1> SUFFICES ASSUME InboxInv, [InboxNext]_inboxVars PROVE InboxInv'
  OBVIOUS
<1>0. InboxTypeOK
  BY DEF InboxInv
<1>1. ASSUME NEW u \in Pair, Post(u) PROVE InboxInv'
  <2> DEFINE e == Event("new_message", u, {Len(mails) + 1}, NoTitle)
  <2>1. /\ Len(mails) < MaxMails /\ mails' = Append(mails, u) /\ events' = Append(events, e)
        /\ UNCHANGED <<reactions, receipts, titles, link, channel, view>>
    BY <1>1 DEF Post, Broadcast, clientSide
  <2>2. mails \in Seq(Pair) /\ Len(mails) \in Nat
    BY <1>0, LenProperties DEF InboxTypeOK, Rows, Views
  <2>3. mails' \in Seq(Pair) /\ Len(mails') = Len(mails) + 1 /\ Len(mails') <= MaxMails
    BY <2>1, <2>2, AppendProperties, InboxAssumption
  <2>4. e \in Events
    <3>1. {Len(mails) + 1} \in SUBSET MailIds
      BY <2>1, <2>2, InboxAssumption DEF MailIds
    <3> QED
      BY <3>1 DEF Events, EventTypes, Event
  <2>5. Rows' \in Views
    BY <1>0, <2>1, <2>3 DEF InboxTypeOK, Rows, Views
  <2>6. Told(Rows, e, Rows')
    <3>1. e.type = "new_message" /\ e.ids = {Len(mails) + 1} /\ e.user = u
      BY DEF Event
    <3>2. /\ Rows'.reactions = Rows.reactions /\ Rows'.receipts = Rows.receipts
          /\ Rows'.titles = Rows.titles /\ Rows'.mails = Append(Rows.mails, u) /\ Rows.mails = mails
      BY <2>1 DEF Rows
    <3> HIDE DEF e
    <3>3. \A c \in Cells : ~Touches(e, c) /\ Same(Rows, Rows', c)
      BY <3>1, <3>2 DEF Touches, Same
    <3> QED
      BY <3>1, <3>2, <3>3 DEF Told, IsMail
  <2> HIDE DEF e
  <2> QED
    BY <2>1, <2>3, <2>4, <2>5, <2>6, TellStep
<1>2. ASSUME NEW u \in Pair, MarkRead(u) PROVE InboxInv'
  <2>1. PICK marked : marked = Unread(Rows, u)
    OBVIOUS
  <2>2. marked \in SUBSET DOMAIN mails
    BY <2>1 DEF Unread, Rows
  <2>3. /\ receipts' = receipts \cup {<<m, u>> : m \in marked}
        /\ events' = Append(events, Event("read_receipt", u, marked, NoTitle))
        /\ UNCHANGED <<mails, reactions, titles, link, channel, view>>
    BY <1>2, <2>1 DEF MarkRead, Broadcast, clientSide
  <2>4. /\ Event("read_receipt", u, marked, NoTitle) \in Events
        /\ Rows' \in Views /\ Told(Rows, Event("read_receipt", u, marked, NoTitle), Rows')
    BY <1>0, <2>2, <2>3, ReceiptsTold
  <2>5. Len(mails') <= MaxMails
    BY <1>0, <2>3 DEF InboxTypeOK
  <2> QED
    BY <2>3, <2>4, <2>5, TellStep
<1>3. ASSUME NEW u \in Pair, NEW marked \in SUBSET (1..(MaxMails + 1)), MarkIds(u, marked) PROVE InboxInv'
  <2>1. CASE marked \subseteq DOMAIN mails
    <3>1. /\ receipts' = receipts \cup {<<m, u>> : m \in marked}
          /\ events' = Append(events, Event("read_receipt", u, marked, NoTitle))
          /\ UNCHANGED <<mails, reactions, titles, link, channel, view>>
      BY <1>3, <2>1 DEF MarkIds, Broadcast
    <3>2. /\ Event("read_receipt", u, marked, NoTitle) \in Events
          /\ Rows' \in Views /\ Told(Rows, Event("read_receipt", u, marked, NoTitle), Rows')
      BY <1>0, <2>1, <3>1, ReceiptsTold
    <3>3. Len(mails') <= MaxMails
      BY <1>0, <3>1 DEF InboxTypeOK
    <3> QED
      BY <3>1, <3>2, <3>3, TellStep
  <2>2. CASE ~(marked \subseteq DOMAIN mails)
    <3>1. /\ link' = [link EXCEPT ![u] = "off"] /\ channel' = [channel EXCEPT ![u] = <<>>]
          /\ UNCHANGED <<tableVars, events, view>>
      BY <1>3, <2>2 DEF MarkIds, tableVars
    <3> QED
      BY <3>1, DropStep
  <2> QED
    BY <2>1, <2>2
<1>4. ASSUME NEW u \in Pair, NEW m \in MailIds, NEW emoji \in Emojis,
             AddReaction(u, m, emoji) \/ RemoveReaction(u, m, emoji)
      PROVE  InboxInv'
  <2>1. PICK type :
           /\ \/ type = "reaction_added" /\ reactions' = reactions \cup {<<m, u, emoji>>}
              \/ type = "reaction_removed" /\ reactions' = reactions \ {<<m, u, emoji>>}
           /\ m \in DOMAIN mails
           /\ events' = Append(events, Event(type, u, {m}, emoji))
           /\ UNCHANGED <<mails, receipts, titles, link, channel, view>>
    <3>1. CASE AddReaction(u, m, emoji)
      <4>1. WITNESS "reaction_added"
      <4> QED
        BY <3>1 DEF AddReaction, Broadcast, clientSide
    <3>2. CASE RemoveReaction(u, m, emoji)
      <4>1. WITNESS "reaction_removed"
      <4> QED
        BY <3>2 DEF RemoveReaction, Broadcast, clientSide
    <3> QED
      BY <1>4, <3>1, <3>2
  <2>2. /\ Event(type, u, {m}, emoji) \in Events
        /\ Rows' \in Views /\ Told(Rows, Event(type, u, {m}, emoji), Rows')
    BY <1>0, <2>1, ReactionsTold
  <2>3. Len(mails') <= MaxMails
    BY <1>0, <2>1 DEF InboxTypeOK
  <2> QED
    BY <2>1, <2>2, <2>3, TellStep
<1>5. ASSUME NEW u \in Pair, NEW m \in MailIds, NEW title \in Titles, SetPreview(u, m, title)
      PROVE  InboxInv'
  <2>1. /\ m \in DOMAIN mails /\ titles' = [titles EXCEPT ![m] = title]
        /\ events' = Append(events, Event("message_preview", u, {m}, title))
        /\ UNCHANGED <<mails, receipts, reactions, link, channel, view>>
    BY <1>5 DEF SetPreview, Broadcast, clientSide
  <2>2. /\ Event("message_preview", u, {m}, title) \in Events
        /\ Rows' \in Views /\ Told(Rows, Event("message_preview", u, {m}, title), Rows')
    BY <1>0, <2>1, TitleTold
  <2>3. Len(mails') <= MaxMails
    BY <1>0, <2>1 DEF InboxTypeOK
  <2> QED
    BY <2>1, <2>2, <2>3, TellStep
<1>6. ASSUME NEW u \in Pair, Link(u) PROVE InboxInv'
  <2>1. link[u] = "off" /\ link' = [link EXCEPT ![u] = "on"] /\ UNCHANGED <<tableVars, events, channel, view>>
    BY <1>6 DEF Link
  <2>2. UNCHANGED Rows /\ InboxTypeOK'
    BY <1>0, <2>1 DEF InboxTypeOK, Rows, tableVars
  <2>3. \A v \in Pair : Underway(v)' = Underway(v) /\ (link'[v] = "loaded" => link[v] = "loaded")
    BY <1>0, <2>1 DEF InboxTypeOK, Underway
  <2> QED
    BY <2>1, <2>2, <2>3 DEF InboxInv
<1>7. ASSUME NEW u \in Pair, Unlink(u) PROVE InboxInv'
  BY <1>7, DropStep DEF Unlink
<1>8. ASSUME NEW u \in Pair, Load(u) PROVE InboxInv'
  <2>1. /\ link' = [link EXCEPT ![u] = "loaded"] /\ view' = [view EXCEPT ![u] = Rows]
        /\ link[u] = "on" /\ UNCHANGED <<tableVars, events, channel>>
    BY <1>8 DEF Load
  <2>2. UNCHANGED Rows
    BY <2>1 DEF Rows, tableVars
  <2>3. InboxTypeOK'
    BY <1>0, <2>1, <2>2 DEF InboxTypeOK, tableVars
  <2>4. ASSUME NEW v \in Pair
        PROVE  /\ Truthful(Rows, Underway(v))'
               /\ link'[v] = "loaded" => Catching(Rows', view'[v], Underway(v)')
    <3>1. Underway(v)' = Underway(v)
      BY <2>1 DEF Underway
    <3>2. CASE v = u
      <4>1. view'[v] = Rows
        BY <1>0, <2>1, <3>2 DEF InboxTypeOK
      <4>2. Rows.mails \in Seq(Pair) /\ Len(Rows.mails) \in Nat
        BY <1>0, LenProperties DEF InboxTypeOK, Views
      <4>3. Catching(Rows, Rows, Underway(v))
        BY <4>2 DEF Catching, Same
      <4> QED
        BY <2>2, <3>1, <4>1, <4>3 DEF InboxInv
    <3>3. CASE v # u
      <4>1. link'[v] = link[v] /\ view'[v] = view[v]
        BY <1>0, <2>1, <3>3 DEF InboxTypeOK
      <4> QED
        BY <2>2, <3>1, <4>1 DEF InboxInv
    <3> QED
      BY <3>2, <3>3
  <2> QED
    BY <2>3, <2>4 DEF InboxInv
<1>9. ASSUME NEW u \in Pair, Apply(u) PROVE InboxInv'
  <2>1. /\ link[u] = "loaded" /\ channel[u] # <<>> /\ UNCHANGED <<tableVars, events, link>>
        /\ view' = [view EXCEPT ![u] = Shown(view[u], Head(channel[u]))]
        /\ channel' = [channel EXCEPT ![u] = Tail(channel[u])]
    BY <1>9 DEF Apply
  <2>2. UNCHANGED Rows
    BY <2>1 DEF Rows, tableVars
  <2>3. /\ channel[u] \in Seq(Events) /\ Tail(channel[u]) \in Seq(Events) /\ Head(channel[u]) \in Events
        /\ view[u] \in Views /\ events \in Seq(Events) /\ Rows \in Views
    BY <1>0, <2>1, HeadTailProperties DEF InboxTypeOK
  <2>4. Shown(view[u], Head(channel[u])) \in Views
    BY <2>3, ShownMails
  <2>5. InboxTypeOK'
    <3>1. channel' \in [Pair -> Seq(Events)] /\ view' \in [Pair -> Views]
      BY <1>0, <2>1, <2>3, <2>4 DEF InboxTypeOK
    <3>2. Rows' \in Views /\ Len(mails') <= MaxMails /\ events' \in Seq(Events)
          /\ link' \in [Pair -> {"off", "on", "loaded"}]
      BY <1>0, <2>1, <2>2 DEF InboxTypeOK, tableVars
    <3>3. \A v \in Pair : link'[v] = "off" => channel'[v] = <<>>
      BY <1>0, <2>1 DEF InboxTypeOK
    <3> QED
      BY <3>1, <3>2, <3>3 DEF InboxTypeOK
  <2>6. ASSUME NEW v \in Pair
        PROVE  /\ Truthful(Rows, Underway(v))'
               /\ link'[v] = "loaded" => Catching(Rows', view'[v], Underway(v)')
    <3>1. CASE v = u
      <4>1. channel'[v] = Tail(channel[u]) /\ view'[v] = Shown(view[u], Head(channel[u]))
        BY <1>0, <2>1, <3>1 DEF InboxTypeOK
      <4>2. PICK p \in Seq(Events) : p = Underway(u)
        BY <2>3, ConcatProperties DEF Underway
      <4>3. p # <<>> /\ Head(p) = Head(channel[u]) /\ Tail(p) = Tail(channel[u]) \o events
        BY <2>1, <2>3, <4>2, TakenOff DEF Underway
      <4>4. Underway(v)' = Tail(p)
        BY <2>1, <4>1, <4>3 DEF Underway
      <4>5. Truthful(Rows, p) /\ Catching(Rows, view[u], p)
        BY <2>1, <4>2 DEF InboxInv
      <4>6. Catching(Rows, view'[v], Tail(p))
        BY <2>3, <4>1, <4>3, <4>5, CatchingApply
      <4>7. Truthful(Rows, Tail(p))
        <5>1. /\ Tail(p) \in Seq(Events) /\ Len(p) = Len(Tail(p)) + 1
              /\ \A i \in 1..Len(Tail(p)) : Tail(p)[i] = p[i + 1]
          BY <4>3, HeadTailProperties, LenProperties
        <5> QED
          BY <4>5, <5>1, TruthfulSuffix
      <4> QED
        BY <2>2, <4>4, <4>6, <4>7
    <3>2. CASE v # u
      <4>1. link'[v] = link[v] /\ view'[v] = view[v] /\ Underway(v)' = Underway(v)
        BY <1>0, <2>1, <3>2 DEF InboxTypeOK, Underway
      <4> QED
        BY <2>2, <4>1 DEF InboxInv
    <3> QED
      BY <3>1, <3>2
  <2> QED
    BY <2>5, <2>6 DEF InboxInv
<1>10. ASSUME StartBroadcast PROVE InboxInv'
  <2>1. /\ events # <<>> /\ events' = Tail(events) /\ UNCHANGED <<tableVars, link, view>>
        /\ channel' = [u \in Pair |-> IF link[u] = "off" THEN channel[u]
                                      ELSE Append(channel[u], Head(events))]
    BY <1>10 DEF StartBroadcast
  <2>2. UNCHANGED Rows
    BY <2>1 DEF Rows, tableVars
  <2>3. /\ events \in Seq(Events) /\ Head(events) \in Events /\ Tail(events) \in Seq(Events)
        /\ Len(events) = Len(Tail(events)) + 1 /\ \A i \in 1..Len(Tail(events)) : Tail(events)[i] = events[i + 1]
    <3>1. events \in Seq(Events)
      BY <1>0 DEF InboxTypeOK
    <3> QED
      BY <3>1, <2>1, HeadTailProperties, LenProperties
  <2>4. \A u \in Pair : channel[u] \in Seq(Events) /\ Append(channel[u], Head(events)) \in Seq(Events)
    BY <1>0, <2>3, AppendProperties DEF InboxTypeOK
  <2>5. InboxTypeOK'
    <3>1. channel' \in [Pair -> Seq(Events)]
      BY <2>1, <2>4
    <3>2. \A u \in Pair : link'[u] = "off" => channel'[u] = <<>>
      BY <1>0, <2>1 DEF InboxTypeOK
    <3> QED
      BY <1>0, <2>1, <2>2, <2>3, <3>1, <3>2 DEF InboxTypeOK, tableVars
  <2>6. ASSUME NEW v \in Pair
        PROVE  /\ Truthful(Rows, Underway(v))'
               /\ link'[v] = "loaded" => Catching(Rows', view'[v], Underway(v)')
    <3>1. CASE link[v] = "off"
      <4>1. channel[v] = <<>> /\ channel'[v] = <<>> /\ link'[v] = "off"
        BY <1>0, <2>1, <3>1 DEF InboxTypeOK
      <4>2. Underway(v) = events /\ Underway(v)' = Tail(events)
        BY <2>1, <2>3, <4>1, ConcatEmptySeq DEF Underway
      <4>3. Truthful(Rows, events)
        BY <4>2 DEF InboxInv
      <4>4. Truthful(Rows, Tail(events))
        BY <2>3, <4>3, TruthfulSuffix
      <4> QED
        BY <2>2, <4>1, <4>2, <4>4
    <3>2. CASE link[v] # "off"
      <4>1. channel'[v] = Append(channel[v], Head(events))
        BY <2>1, <3>2
      <4>2. Append(channel[v], Head(events)) \o Tail(events) = channel[v] \o events
        BY <2>1, <2>3, <2>4, SentOn
      <4>3. Underway(v)' = Underway(v)
        BY <2>1, <4>1, <4>2 DEF Underway
      <4> QED
        BY <2>1, <2>2, <4>3 DEF InboxInv
    <3> QED
      BY <3>1, <3>2
  <2> QED
    BY <2>5, <2>6 DEF InboxInv
<1>11. ASSUME UNCHANGED inboxVars PROVE InboxInv'
  <2>1. UNCHANGED <<Rows, events, link, channel, view, mails>>
    BY <1>11 DEF inboxVars, Rows
  <2>2. InboxTypeOK'
    BY <1>0, <2>1 DEF InboxTypeOK
  <2>3. \A u \in Pair : Underway(u)' = Underway(u)
    BY <2>1 DEF Underway
  <2> QED
    BY <2>1, <2>2, <2>3 DEF InboxInv
<1> QED
  BY <1>1, <1>2, <1>3, <1>4, <1>5, <1>6, <1>7, <1>8, <1>9, <1>10, <1>11 DEF InboxNext

\* Whatever is created, sent, lost and applied, a member whose client connected and then loaded
\* shows what is in the database when nothing is under way.
THEOREM ScreensComeToAgree == InboxSpec => []ScreensAgree
<1>1. InboxInv => ScreensAgree
  <2> SUFFICES ASSUME InboxInv, events = <<>>, NEW u \in Pair, link[u] = "loaded", channel[u] = <<>>
               PROVE  view[u] = Rows
    BY DEF ScreensAgree
  <2>1. Underway(u) = <<>>
    BY ConcatEmptySeq DEF Underway, InboxInv, InboxTypeOK
  <2>2. Catching(Rows, view[u], <<>>) /\ Rows \in Views /\ view[u] \in Views
    BY <2>1 DEF InboxInv, InboxTypeOK
  <2> QED
    BY <2>2, CaughtUp
<1> QED
  BY <1>1, InboxStart, InboxStep, PTL DEF InboxSpec

-----------------------------------------------------------------------------
(* The pushes to the connected clients. *)

Pushes == [about : Members, message : 0..MaxMessages, online : BOOLEAN]
PushCalls == [what : Pushes, to : Members, left : SUBSET Conns, dead : SUBSET Conns]

PushTypeOK ==
    /\ socket \in [Conns -> {"none", "accepting", "open", "gone", "closed"}]
    /\ DOMAIN user = Conns /\ user = [c \in Conns |-> user[c]]
    /\ \A c \in Conns : socket[c] # "none" => user[c] \in Members
    /\ registered \subseteq Conns
    /\ tasks \in Seq(Pushes)
    /\ sends \in Seq(PushCalls)
    /\ received \in [Conns -> [1..MaxMessages -> Nat]]
    /\ told \in [Conns -> [Members -> {"unknown", "online", "offline"}]]
    /\ committed \in 0..MaxMessages
    /\ present \in [1..MaxMessages -> SUBSET Conns]
    /\ watching \in [Members -> SUBSET Conns]

\* The table has every connection whose client is there; a call sends to connections that its user
\* has had, and holds for dead only those whose client is gone.
TableInv ==
    /\ \A c \in Conns : socket[c] = "open" => c \in registered
    /\ \A c \in registered : socket[c] \notin {"none", "accepting"}
    /\ \A i \in DOMAIN sends :
          /\ \A c \in sends[i].left : user[c] = sends[i].to /\ socket[c] \notin {"none", "accepting"}
          /\ \A c \in sends[i].dead : socket[c] \in {"gone", "closed"}
    /\ \A m \in 1..MaxMessages : \A c \in present[m] : socket[c] = "open"
    /\ \A u \in Members : \A c \in watching[u] : socket[c] = "open"

\* A message is under way to a connection once, in its task or in one call, or has arrived, or was
\* not meant for it.
Coming(c, m) ==
    \/ \E i \in DOMAIN tasks : tasks[i].message = m
    \/ \E i \in DOMAIN sends : sends[i].what.message = m /\ c \in sends[i].left

OnceInv ==
    /\ \A i \in DOMAIN tasks : tasks[i].message <= committed
    /\ \A i, j \in DOMAIN tasks : i # j /\ tasks[i].message = tasks[j].message => tasks[i].message = 0
    /\ \A i \in DOMAIN sends : sends[i].what.message <= committed
    /\ \A i \in DOMAIN sends, j \in DOMAIN tasks :
          sends[i].what.message = tasks[j].message => tasks[j].message = 0
    /\ \A i, j \in DOMAIN sends :
          i # j /\ sends[i].what.message = sends[j].what.message /\ sends[i].to = sends[j].to
          => sends[i].what.message = 0
    /\ \A c \in Conns, m \in 1..MaxMessages :
          received[c][m] = 0 \/ (received[c][m] = 1 /\ m <= committed /\ ~Coming(c, m))
    /\ \A c \in Conns, m \in 1..MaxMessages :
          c \in present[m] => received[c][m] = 1 \/ Coming(c, m)

\* A push says whether a user is online.
About(t, u) == t.message = 0 /\ t.about = u

\* A call under way says it to a connection.
Hears(i, c, u) == About(sends[i].what, u) /\ c \in sends[i].left

\* Of a user who never had two handlers: the last presence under way to a connection that was there
\* when it was created is true, and so is the last it was told when none is under way.
PresenceOf(u) ==
    /\ \A c, d \in Served(u) : c = d
    /\ \A i \in DOMAIN tasks :
          About(tasks[i], u) /\ (\A j \in DOMAIN tasks : j > i => ~About(tasks[j], u))
          => (tasks[i].online <=> Served(u) # {})
    /\ (\A i \in DOMAIN tasks : ~About(tasks[i], u)) =>
       \A c \in watching[u] : user[c] # u =>
          /\ \A i \in DOMAIN sends :
                Hears(i, c, u) /\ (\A j \in DOMAIN sends : j > i => ~Hears(j, c, u))
                => (sends[i].what.online <=> Served(u) # {})
          /\ (\A i \in DOMAIN sends : ~Hears(i, c, u))
             => told[c][u] = IF Served(u) = {} THEN "offline" ELSE "online"

PresenceInv == \A u \in Members \ doubled : PresenceOf(u)

PushInv == PushTypeOK /\ TableInv /\ OnceInv /\ PresenceInv

-----------------------------------------------------------------------------
\* SetToSeq lists the elements of a finite set, each once.
LEMMA ListOfSet ==
    ASSUME NEW S, IsFiniteSet(S)
    PROVE  /\ SetToSeq(S) \in Seq(S)
           /\ \A i, j \in DOMAIN SetToSeq(S) : SetToSeq(S)[i] = SetToSeq(S)[j] => i = j
           /\ \A x \in S : \E i \in DOMAIN SetToSeq(S) : SetToSeq(S)[i] = x
<1>1. PICK n \in Nat : n = Cardinality(S) /\ ExistsBijection(1..n, S)
  BY FS_CardinalityType
<1>2. PICK g : g \in Bijection(1..n, S)
  BY <1>1 DEF ExistsBijection
<1>3. g \in [1..n -> S] /\ IsInjective(g)
  BY <1>2 DEF Bijection, Injection
<1>4. PICK f : f = SetToSeq(S)
  OBVIOUS
<1>5. f \in [1..n -> S] /\ IsInjective(f)
  BY <1>1, <1>3, <1>4 DEF SetToSeq
<1>6. f \in Seq(S) /\ DOMAIN f = 1..n
  BY <1>5
<1>7. ASSUME NEW x \in S, ~\E i \in 1..n : f[i] = x PROVE FALSE
  <2>1. f \in [1..n -> S \ {x}]
    BY <1>5, <1>7
  <2>2. f \in Injection(1..n, S \ {x})
    BY <1>5, <2>1 DEF Injection
  <2>3. IsFiniteSet(S \ {x}) /\ Cardinality(S \ {x}) = n - 1
    BY <1>1, FS_RemoveElement
  <2>4. Cardinality(1..n) <= Cardinality(S \ {x})
    BY <2>2, <2>3, FS_Injection
  <2>5. Cardinality(1..n) = n
    BY FS_Interval
  <2> QED
    BY <2>3, <2>4, <2>5
<1> QED
  BY <1>4, <1>5, <1>6, <1>7 DEF IsInjective

\* The calls that a broadcast makes: one for each of its users that is connected, to the
\* connections there are.
LEMMA CallsListed ==
    ASSUME PushTypeOK, NEW t \in Pushes
    PROVE  LET new == SetToSeq(Calls(t))
           IN  /\ new \in Seq(PushCalls)
               /\ \A i \in DOMAIN new :
                     new[i].what = t /\ new[i].left = Of(new[i].to) /\ new[i].dead = {}
               /\ \A i, j \in DOMAIN new : new[i].to = new[j].to => i = j
               /\ \A u \in Audience(t) : Of(u) # {} => \E i \in DOMAIN new : new[i].to = u
<1> DEFINE to == {u \in Audience(t) : Of(u) # {}}
           g == [u \in to |-> [what |-> t, to |-> u, left |-> Of(u), dead |-> {}]]
<1>1. IsFiniteSet(to)
  BY PushAssumption, FS_Subset DEF Audience
<1>2. g \in Surjection(to, Calls(t))
  BY DEF Surjection, Calls
<1>3. IsFiniteSet(Calls(t))
  BY <1>1, <1>2, FS_Surjection
<1>4. PICK new : new = SetToSeq(Calls(t))
  OBVIOUS
<1>5. /\ new \in Seq(Calls(t))
      /\ \A i, j \in DOMAIN new : new[i] = new[j] => i = j
      /\ \A x \in Calls(t) : \E i \in DOMAIN new : new[i] = x
  BY <1>3, <1>4, ListOfSet
<1>6. ASSUME NEW x \in Calls(t)
      PROVE  /\ x \in PushCalls /\ x.what = t /\ x.left = Of(x.to) /\ x.dead = {}
             /\ x = [what |-> t, to |-> x.to, left |-> Of(x.to), dead |-> {}]
  <2>1. PICK u \in to : x = [what |-> t, to |-> u, left |-> Of(u), dead |-> {}]
    BY DEF Calls
  <2>2. u \in Members
    BY DEF Audience
  <2>3. Of(u) \in SUBSET Conns
    BY DEF Of, PushTypeOK
  <2> HIDE DEF to
  <2> QED
    BY <2>1, <2>2, <2>3 DEF PushCalls
<1>7. \A i \in DOMAIN new : new[i] \in Calls(t)
  BY <1>5, ElementOfSeq, LenProperties
<1>8. new \in Seq(PushCalls)
  <2>1. Calls(t) \subseteq PushCalls
    BY <1>6
  <2> QED
    BY <1>5, <2>1
<1>9. ASSUME NEW i \in DOMAIN new, NEW j \in DOMAIN new, new[i].to = new[j].to PROVE i = j
  <2>1. /\ new[i] = [what |-> t, to |-> new[i].to, left |-> Of(new[i].to), dead |-> {}]
        /\ new[j] = [what |-> t, to |-> new[j].to, left |-> Of(new[j].to), dead |-> {}]
    BY <1>6, <1>7
  <2>2. new[i] = new[j]
    BY <1>9, <2>1
  <2> QED
    BY <1>5, <2>2
<1>10. ASSUME NEW u \in Audience(t), Of(u) # {} PROVE \E i \in DOMAIN new : new[i].to = u
  <2>1. [what |-> t, to |-> u, left |-> Of(u), dead |-> {}] \in Calls(t)
    BY <1>10 DEF Calls
  <2> QED
    BY <1>5, <2>1
<1> QED
  BY <1>4, <1>6, <1>7, <1>8, <1>9, <1>10

\* What a send leaves: the calls in their order, but for the connection served, and without the
\* call if that was its last.
LEMMA SendShape ==
    ASSUME PushTypeOK, NEW i \in DOMAIN sends, NEW c \in Conns, Send(i, c)
    PROVE  /\ sends' \in Seq(PushCalls)
           /\ \E f \in [DOMAIN sends' -> DOMAIN sends] :
                 /\ \A j, k \in DOMAIN sends' : j < k => f[j] < f[k]
                 /\ \A j \in DOMAIN sends' :
                       /\ sends'[j].what = sends[f[j]].what /\ sends'[j].to = sends[f[j]].to
                       /\ sends'[j].left = sends[f[j]].left \ (IF f[j] = i THEN {c} ELSE {})
                       /\ sends'[j].dead \subseteq
                             sends[f[j]].dead \cup (IF socket[c] = "open" THEN {} ELSE {c})
                 /\ \A k \in DOMAIN sends :
                       (k = i /\ sends[i].left = {c}) \/ \E j \in DOMAIN sends' : f[j] = k
           /\ registered' \subseteq registered
           /\ \A d \in registered : d \in registered' \/ d \in sends[i].dead \/ (d = c /\ socket[c] # "open")
<1>1. PICK left : left = sends[i].left \ {c}
  OBVIOUS
<1>2. PICK dead : dead = sends[i].dead \cup (IF socket[c] = "open" THEN {} ELSE {c})
  OBVIOUS
<1>3. Continue(i, left, dead) /\ c \in sends[i].left
  <2>1. CASE socket[c] = "open"
    <3>1. dead = sends[i].dead
      BY <1>2, <2>1
    <3> QED
      BY <1>1, <2>1, <3>1 DEF Send
  <2>2. CASE socket[c] # "open"
    BY <1>1, <1>2, <2>2 DEF Send
  <2> QED
    BY <2>1, <2>2
<1>4. /\ sends \in Seq(PushCalls) /\ Len(sends) \in Nat /\ DOMAIN sends = 1..Len(sends)
      /\ \A j \in 1..Len(sends) : sends[j] \in PushCalls
  BY LenProperties, ElementOfSeq DEF PushTypeOK
<1>5. left \in SUBSET Conns /\ dead \in SUBSET Conns
  BY <1>1, <1>2, <1>4 DEF PushCalls
<1>6. CASE left = {}
  <2>1. sends' = SubSeq(sends, 1, i - 1) \o SubSeq(sends, i + 1, Len(sends)) /\ registered' = registered \ dead
    BY <1>3, <1>6 DEF Continue, RemoveAt
  <2> DEFINE a == SubSeq(sends, 1, i - 1)
             b == SubSeq(sends, i + 1, Len(sends))
  <2>2. i \in 1..Len(sends) /\ i - 1 \in Int /\ i + 1 \in Int
    BY <1>4
  <2>3. a \in Seq(PushCalls) /\ Len(a) = i - 1 /\ \A j \in 1..(i - 1) : a[j] = sends[j]
    <3>1. \A j \in 1..(i - 1) : sends[j] \in PushCalls
      BY <1>4, <2>2
    <3>2. /\ a \in Seq(PushCalls) /\ Len(a) = IF 1 <= i - 1 THEN (i - 1) - 1 + 1 ELSE 0
          /\ \A j \in 1..((i - 1) - 1 + 1) : a[j] = sends[1 + j - 1]
      BY <2>2, <3>1, SubSeqProperties
    <3> QED
      BY <2>2, <3>2
  <2>4. /\ b \in Seq(PushCalls) /\ Len(b) = Len(sends) - i
        /\ \A j \in 1..(Len(sends) - i) : b[j] = sends[j + i]
    <3>1. \A j \in (i + 1)..Len(sends) : sends[j] \in PushCalls
      BY <1>4, <2>2
    <3>2. /\ b \in Seq(PushCalls)
          /\ Len(b) = IF i + 1 <= Len(sends) THEN Len(sends) - (i + 1) + 1 ELSE 0
          /\ \A j \in 1..(Len(sends) - (i + 1) + 1) : b[j] = sends[(i + 1) + j - 1]
      BY <1>4, <2>2, <3>1, SubSeqProperties
    <3> QED
      BY <1>4, <2>2, <3>2
  <2> HIDE DEF a, b
  <2>5. /\ sends' \in Seq(PushCalls) /\ Len(sends') = Len(sends) - 1
        /\ \A j \in 1..(Len(sends) - 1) : sends'[j] = IF j <= i - 1 THEN a[j] ELSE b[j - (i - 1)]
    <3>1. sends' = a \o b
      BY <2>1 DEF a, b
    <3>2. /\ sends' \in Seq(PushCalls) /\ Len(sends') = Len(a) + Len(b)
          /\ \A j \in 1..(Len(a) + Len(b)) :
                sends'[j] = IF j <= Len(a) THEN a[j] ELSE b[j - Len(a)]
      <4>1. a \in Seq(PushCalls) /\ b \in Seq(PushCalls)
        BY <2>3, <2>4
      <4>2. /\ a \o b \in Seq(PushCalls) /\ Len(a \o b) = Len(a) + Len(b)
            /\ \A j \in 1..(Len(a) + Len(b)) :
                  (a \o b)[j] = IF j <= Len(a) THEN a[j] ELSE b[j - Len(a)]
        BY ONLY <4>1, ConcatProperties
      <4> QED BY ONLY <3>1, <4>2, Zenon
    <3>3. Len(a) = i - 1 /\ Len(a) + Len(b) = Len(sends) - 1
      <4>1. Len(sends) \in Int /\ i \in Int
        BY <1>4, <2>2
      <4> QED BY ONLY <2>3, <2>4, <4>1
    <3> QED
      BY ONLY <3>2, <3>3, Zenon
  <2>6. DOMAIN sends' = 1..(Len(sends) - 1)
    BY <2>5, LenProperties
  <2> DEFINE At(j) == IF j < i THEN j ELSE j + 1
  <2>7. ASSUME NEW j \in DOMAIN sends' PROVE At(j) \in DOMAIN sends /\ sends'[j] = sends[At(j)] /\ At(j) # i
    <3>1. CASE j < i
      BY <1>4, <2>2, <2>3, <2>5, <2>6, <3>1
    <3>2. CASE ~(j < i)
      <4>1. j - (i - 1) \in 1..(Len(sends) - i) /\ (j - (i - 1)) + i = j + 1
        BY <1>4, <2>2, <2>6, <3>2
      <4>2. b[j - (i - 1)] = sends[j + 1]
        BY <2>4, <4>1
      <4> QED
        BY <1>4, <2>2, <2>5, <2>6, <3>2, <4>2
    <3> QED
      BY <3>1, <3>2
  <2>8. PICK f : f = [j \in DOMAIN sends' |-> At(j)]
    OBVIOUS
  <2>9. f \in [DOMAIN sends' -> DOMAIN sends] /\ \A j, k \in DOMAIN sends' : j < k => f[j] < f[k]
    BY <2>2, <2>6, <2>7, <2>8
  <2>10. \A j \in DOMAIN sends' : f[j] # i /\ sends'[j] = sends[f[j]]
    BY <2>7, <2>8
  <2>11. ASSUME NEW k \in DOMAIN sends, k # i PROVE \E j \in DOMAIN sends' : f[j] = k
    <3>1. CASE k < i
      BY <1>4, <2>2, <2>6, <2>8, <3>1
    <3>2. CASE k > i
      <4>1. k - 1 \in DOMAIN sends' /\ ~(k - 1 < i)
        BY <1>4, <2>2, <2>6, <3>2
      <4>2. f[k - 1] = k
        BY <1>4, <2>8, <4>1
      <4> QED
        BY <4>1, <4>2
    <3> QED
      BY <1>4, <2>2, <2>11, <3>1, <3>2
  <2>12. sends[i].left = {c}
    BY <1>1, <1>3, <1>6
  <2> HIDE DEF At
  <2>13. /\ registered' \subseteq registered
         /\ \A d \in registered : d \in registered' \/ d \in sends[i].dead \/ (d = c /\ socket[c] # "open")
    BY <1>2, <2>1
  <2>14. \A j \in DOMAIN sends' :
            /\ sends'[j].what = sends[f[j]].what /\ sends'[j].to = sends[f[j]].to
            /\ sends'[j].left = sends[f[j]].left \ (IF f[j] = i THEN {c} ELSE {})
            /\ sends'[j].dead \subseteq sends[f[j]].dead \cup (IF socket[c] = "open" THEN {} ELSE {c})
    BY <2>10
  <2>15. \A k \in DOMAIN sends : (k = i /\ sends[i].left = {c}) \/ \E j \in DOMAIN sends' : f[j] = k
    BY <2>11, <2>12
  <2>16. sends' \in Seq(PushCalls) /\ f \in [DOMAIN sends' -> DOMAIN sends]
    BY <2>5, <2>9
  <2> HIDE <2>1
  <2> QED
    BY <2>9, <2>13, <2>14, <2>15, <2>16
<1>7. CASE left # {}
  <2>1. sends' = [sends EXCEPT ![i].left = left, ![i].dead = dead] /\ registered' = registered
    BY <1>3, <1>7 DEF Continue
  <2>2. /\ DOMAIN sends' = DOMAIN sends
        /\ \A j \in DOMAIN sends : j # i => sends'[j] = sends[j]
        /\ sends'[i] = [sends[i] EXCEPT !.left = left, !.dead = dead]
    BY <1>4, <2>1
  <2>3. /\ sends'[i] \in PushCalls
        /\ sends'[i].what = sends[i].what /\ sends'[i].to = sends[i].to
        /\ sends'[i].left = left /\ sends'[i].dead = dead
    BY <1>4, <1>5, <2>2 DEF PushCalls
  <2>4. sends' \in Seq(PushCalls)
    <3>1. \A j \in DOMAIN sends' : sends'[j] \in PushCalls
      BY <1>4, <2>2, <2>3
    <3>2. sends' \in [1..Len(sends) -> PushCalls]
      BY <1>4, <2>1, <2>2, <3>1
    <3> QED
      BY <1>4, <3>2
  <2>5. PICK f : f = [j \in DOMAIN sends |-> j]
    OBVIOUS
  <2>6. f \in [DOMAIN sends' -> DOMAIN sends] /\ \A j \in DOMAIN sends : f[j] = j
    BY <2>2, <2>5
  <2>7. \A j \in DOMAIN sends' :
            /\ sends'[j].what = sends[f[j]].what /\ sends'[j].to = sends[f[j]].to
            /\ sends'[j].left = sends[f[j]].left \ (IF f[j] = i THEN {c} ELSE {})
            /\ sends'[j].dead \subseteq sends[f[j]].dead \cup (IF socket[c] = "open" THEN {} ELSE {c})
    BY <1>1, <1>2, <2>2, <2>3, <2>6
  <2>8. /\ \A j, k \in DOMAIN sends' : j < k => f[j] < f[k]
        /\ \A k \in DOMAIN sends : (k = i /\ sends[i].left = {c}) \/ \E j \in DOMAIN sends' : f[j] = k
    BY <2>2, <2>6
  <2>9. registered' \subseteq registered /\ \A d \in registered : d \in registered'
    BY <2>1
  <2>10. f \in [DOMAIN sends' -> DOMAIN sends]
    BY <2>6
  <2> HIDE <2>1
  <2> QED
    BY <2>4, <2>7, <2>8, <2>9, <2>10
<1> QED
  BY <1>6, <1>7

\* What a broadcast that starts adds to the calls.
LEMMA StartShape ==
    ASSUME PushTypeOK, StartTask
    PROVE  \E t \in Pushes :
              /\ t = Head(tasks) /\ tasks # <<>>
              /\ sends' \in Seq(PushCalls) /\ Len(sends) <= Len(sends')
              /\ DOMAIN sends \subseteq DOMAIN sends'
              /\ \A i \in DOMAIN sends : sends'[i] = sends[i]
              /\ \A i \in DOMAIN sends' \ DOMAIN sends :
                    /\ sends'[i].what = t /\ sends'[i].left = Of(sends'[i].to) /\ sends'[i].dead = {}
                    /\ \A j \in DOMAIN sends : j < i
              /\ \A i, j \in DOMAIN sends' \ DOMAIN sends : sends'[i].to = sends'[j].to => i = j
              /\ \A u \in Audience(t) : Of(u) # {} =>
                    \E i \in DOMAIN sends' \ DOMAIN sends : sends'[i].to = u
<1>1. PICK t : t = Head(tasks)
  OBVIOUS
<1>2. tasks # <<>> /\ t \in Pushes
  BY <1>1, HeadTailProperties DEF StartTask, PushTypeOK
<1>3. PICK new : new = SetToSeq(Calls(t))
  OBVIOUS
<1>4. /\ new \in Seq(PushCalls)
      /\ \A i \in DOMAIN new : new[i].what = t /\ new[i].left = Of(new[i].to) /\ new[i].dead = {}
      /\ \A i, j \in DOMAIN new : new[i].to = new[j].to => i = j
      /\ \A u \in Audience(t) : Of(u) # {} => \E i \in DOMAIN new : new[i].to = u
  BY <1>2, <1>3, CallsListed
<1>5. sends' = sends \o new /\ sends \in Seq(PushCalls)
  BY <1>1, <1>3 DEF StartTask, PushTypeOK
<1>6. PICK n \in Nat, l \in Nat : n = Len(sends) /\ l = Len(new)
  BY <1>4, <1>5, LenProperties
<1>7. /\ sends' \in Seq(PushCalls) /\ Len(sends') = n + l
      /\ \A i \in 1..(n + l) : sends'[i] = IF i <= n THEN sends[i] ELSE new[i - n]
  BY <1>4, <1>5, <1>6, ConcatProperties
<1>8. DOMAIN sends = 1..n /\ DOMAIN new = 1..l /\ DOMAIN sends' = 1..(n + l)
  BY <1>4, <1>5, <1>6, <1>7, LenProperties
<1>9. \A i \in DOMAIN sends : i \in DOMAIN sends' /\ sends'[i] = sends[i]
  BY <1>6, <1>7, <1>8
<1>10. \A i \in DOMAIN sends' \ DOMAIN sends : i - n \in DOMAIN new /\ sends'[i] = new[i - n] /\ i > n
  BY <1>6, <1>7, <1>8
<1>11. ASSUME NEW i \in DOMAIN sends' \ DOMAIN sends, NEW j \in DOMAIN sends' \ DOMAIN sends,
              sends'[i].to = sends'[j].to
       PROVE  i = j
  <2>1. i - n = j - n
    BY <1>4, <1>10, <1>11
  <2> QED
    BY <2>1, <1>6, <1>8
<1>12. ASSUME NEW u \in Audience(t), Of(u) # {}
       PROVE  \E i \in DOMAIN sends' \ DOMAIN sends : sends'[i].to = u
  <2>1. PICK k \in DOMAIN new : new[k].to = u
    BY <1>4, <1>12
  <2>2. k + n \in DOMAIN sends' \ DOMAIN sends /\ (k + n) - n = k
    BY <1>6, <1>8
  <2>3. sends'[k + n].to = u
    BY <1>10, <2>1, <2>2
  <2> QED
    BY <2>2, <2>3
<1>13. \A i \in DOMAIN sends' \ DOMAIN sends :
           /\ sends'[i].what = t /\ sends'[i].left = Of(sends'[i].to) /\ sends'[i].dead = {}
           /\ \A j \in DOMAIN sends : j < i
  BY <1>4, <1>6, <1>8, <1>10
<1> QED
  BY <1>1, <1>2, <1>6, <1>7, <1>9, <1>11, <1>12, <1>13

\* The tasks, the calls and the counts, one by one.
LEMMA PushElements ==
    ASSUME PushTypeOK
    PROVE  /\ \A i \in DOMAIN tasks : tasks[i] \in Pushes /\ tasks[i].message \in Nat
           /\ \A i \in DOMAIN sends : sends[i] \in PushCalls /\ sends[i].what \in Pushes
           /\ \A c \in Conns, m \in 1..MaxMessages : received[c][m] \in Nat
           /\ DOMAIN tasks \subseteq Nat /\ DOMAIN sends \subseteq Nat
<1>1. tasks \in Seq(Pushes) /\ sends \in Seq(PushCalls)
  BY DEF PushTypeOK
<1>2. DOMAIN tasks = 1..Len(tasks) /\ DOMAIN sends = 1..Len(sends)
  BY <1>1, LenProperties
<1>3. /\ \A i \in DOMAIN tasks : tasks[i] \in Pushes
      /\ \A i \in DOMAIN sends : sends[i] \in PushCalls
  BY <1>1, <1>2, ElementOfSeq
<1>4. \A t \in Pushes : t.message \in Nat
  BY PushAssumption DEF Pushes
<1>5. \A x \in PushCalls : x.what \in Pushes
  BY DEF PushCalls
<1>6. \A c \in Conns : received[c] \in [1..MaxMessages -> Nat]
  BY DEF PushTypeOK
<1>7. \A c \in Conns, m \in 1..MaxMessages : received[c][m] \in Nat
  BY <1>6
<1> QED
  BY <1>2, <1>3, <1>4, <1>5, <1>7

\* A client that is forgotten keeps the types.
LEMMA ForgetTypes ==
    ASSUME PushTypeOK, NEW c \in Conns, Forget(c)
    PROVE  /\ received' \in [Conns -> [1..MaxMessages -> Nat]]
           /\ told' \in [Conns -> [Members -> {"unknown", "online", "offline"}]]
           /\ present' \in [1..MaxMessages -> SUBSET Conns]
BY DEF PushTypeOK, Forget

\* Every step keeps the types.
LEMMA PushTypes ==
    ASSUME PushTypeOK, [PushNext]_pushVars
    PROVE  PushTypeOK'
<1>0. user \in [Conns -> {user[c] : c \in Conns} \cup Members]
  BY DEF PushTypeOK
<1>1. ASSUME NEW c \in Conns, NEW u \in Members, Connect(c, u) PROVE PushTypeOK'
  <2>1. /\ socket' = [socket EXCEPT ![c] = "accepting"] /\ user' = [user EXCEPT ![c] = u]
        /\ UNCHANGED <<registered, tasks, sends, clientVars, noted>>
    BY <1>1 DEF Connect
  <2>2. DOMAIN user' = Conns /\ user' = [d \in Conns |-> user'[d]]
    BY <2>1 DEF PushTypeOK
  <2>3. \A d \in Conns : socket'[d] # "none" => user'[d] \in Members
    BY <2>1 DEF PushTypeOK
  <2> QED
    BY <2>1, <2>2, <2>3 DEF PushTypeOK, clientVars, noted
<1>2. ASSUME NEW c \in Conns, Register(c) PROVE PushTypeOK'
  <2>1. /\ socket[c] = "accepting" /\ socket' = [socket EXCEPT ![c] = "open"]
        /\ registered' = registered \cup {c}
        /\ tasks' = Append(tasks, Presence(user[c], TRUE))
        /\ watching' = [watching EXCEPT ![user[c]] = Open]
        /\ UNCHANGED <<user, sends, clientVars, committed, present>>
    BY <1>2 DEF Register
  <2>2. user[c] \in Members /\ Presence(user[c], TRUE) \in Pushes
    BY <2>1, PushAssumption DEF PushTypeOK, Presence, Pushes
  <2>3. tasks' \in Seq(Pushes)
    BY <2>1, <2>2, AppendProperties DEF PushTypeOK
  <2>4. Open \in SUBSET Conns
    BY DEF Open, PushTypeOK
  <2>5. \A d \in Conns : socket'[d] # "none" => user'[d] \in Members
    BY <2>1 DEF PushTypeOK
  <2>6. watching' \in [Members -> SUBSET Conns]
    BY <2>1, <2>4 DEF PushTypeOK
  <2> QED
    BY <2>1, <2>3, <2>5, <2>6 DEF PushTypeOK, clientVars
<1>3. ASSUME NEW c \in Conns, Vanish(c) PROVE PushTypeOK'
  <2>1. /\ socket[c] = "open" /\ socket' = [socket EXCEPT ![c] = "gone"] /\ Forget(c)
        /\ watching' = [u \in Members |-> watching[u] \ {c}]
        /\ UNCHANGED <<user, registered, tasks, sends, committed>>
    BY <1>3 DEF Vanish
  <2>2. watching' \in [Members -> SUBSET Conns]
    BY <2>1 DEF PushTypeOK
  <2>3. \A d \in Conns : socket'[d] # "none" => user'[d] \in Members
    BY <2>1 DEF PushTypeOK
  <2> QED
    BY <2>1, <2>2, <2>3, ForgetTypes DEF PushTypeOK
<1>4. ASSUME NEW c \in Conns, Disconnect(c) PROVE PushTypeOK'
  <2>1. /\ socket[c] \in {"open", "gone"} /\ socket' = [socket EXCEPT ![c] = "closed"]
        /\ registered' = registered \ {c}
        /\ tasks' = Append(tasks, Presence(user[c], FALSE))
        /\ watching' = [u \in Members |-> IF u = user[c] THEN Open \ {c} ELSE watching[u] \ {c}]
        /\ Forget(c) /\ UNCHANGED <<user, sends, committed>>
    BY <1>4 DEF Disconnect
  <2>2. user[c] \in Members /\ Presence(user[c], FALSE) \in Pushes
    BY <2>1, PushAssumption DEF PushTypeOK, Presence, Pushes
  <2>3. tasks' \in Seq(Pushes)
    BY <2>1, <2>2, AppendProperties DEF PushTypeOK
  <2>4. Open \in SUBSET Conns
    BY DEF Open, PushTypeOK
  <2>5. \A d \in Conns : socket'[d] # "none" => user'[d] \in Members
    BY <2>1 DEF PushTypeOK
  <2>6. watching' \in [Members -> SUBSET Conns]
    BY <2>1, <2>4 DEF PushTypeOK
  <2> QED
    BY <2>1, <2>3, <2>5, <2>6, ForgetTypes DEF PushTypeOK
<1>5. ASSUME NEW u \in Members, SendMessage(u) PROVE PushTypeOK'
  <2>1. /\ committed < MaxMessages /\ committed' = committed + 1
        /\ present' = [present EXCEPT ![committed + 1] = Open]
        /\ tasks' = Append(tasks, NewMessage(u, committed + 1))
        /\ UNCHANGED <<socket, user, registered, sends, clientVars, watching>>
    BY <1>5 DEF SendMessage
  <2>2. committed' \in 0..MaxMessages
    BY <2>1, PushAssumption DEF PushTypeOK
  <2>3. NewMessage(u, committed + 1) \in Pushes
    BY <2>1, <2>2 DEF NewMessage, Pushes
  <2>4. tasks' \in Seq(Pushes)
    BY <2>1, <2>3, AppendProperties DEF PushTypeOK
  <2>5. Open \in SUBSET Conns
    BY DEF Open, PushTypeOK
  <2> QED
    BY <2>1, <2>2, <2>4, <2>5 DEF PushTypeOK, clientVars
<1>6. ASSUME StartTask PROVE PushTypeOK'
  <2>1. tasks' \in Seq(Pushes)
    BY <1>6, HeadTailProperties DEF StartTask, PushTypeOK
  <2>2. sends' \in Seq(PushCalls)
    BY <1>6, StartShape
  <2> QED
    BY <1>6, <2>1, <2>2 DEF StartTask, PushTypeOK, clientVars, noted
<1>7. ASSUME NEW i \in DOMAIN sends, NEW c \in Conns, Send(i, c) PROVE PushTypeOK'
  <2>1. sends' \in Seq(PushCalls) /\ registered' \subseteq registered
    BY <1>7, SendShape
  <2>2. sends[i] \in PushCalls
    BY ElementOfSeq, LenProperties DEF PushTypeOK
  <2>3. PICK t \in Pushes : t = sends[i].what
    BY <2>2 DEF PushCalls
  <2>4. UNCHANGED <<socket, user, tasks, noted>> /\ (UNCHANGED clientVars \/ Deliver(c, t))
    BY <1>7, <2>3 DEF Send
  <2>5. /\ received' \in [Conns -> [1..MaxMessages -> Nat]]
        /\ told' \in [Conns -> [Members -> {"unknown", "online", "offline"}]]
    <3>1. CASE UNCHANGED clientVars
      BY <3>1 DEF clientVars, PushTypeOK
    <3>2. CASE Deliver(c, t) /\ t.message # 0
      <4>1. received' = [received EXCEPT ![c][t.message] = @ + 1] /\ UNCHANGED told
        BY <3>2 DEF Deliver
      <4>2. received[c] \in [1..MaxMessages -> Nat] /\ t.message \in 1..MaxMessages
        BY <3>2, PushAssumption DEF PushTypeOK, Pushes
      <4>3. [received[c] EXCEPT ![t.message] = @ + 1] \in [1..MaxMessages -> Nat]
        <5>1. PICK r \in [1..MaxMessages -> Nat], k \in 1..MaxMessages : r = received[c] /\ k = t.message
          BY <4>2
        <5>2. r[k] \in Nat /\ r[k] + 1 \in Nat
          OBVIOUS
        <5>3. [r EXCEPT ![k] = r[k] + 1] \in [1..MaxMessages -> Nat]
          BY <5>2
        <5> QED
          BY <5>1, <5>3
      <4>4. received' = [received EXCEPT ![c] = [received[c] EXCEPT ![t.message] = @ + 1]]
        BY <4>1
      <4> QED
        BY <4>1, <4>3, <4>4 DEF PushTypeOK
    <3>3. CASE Deliver(c, t) /\ t.message = 0
      <4>1. /\ told' = [told EXCEPT ![c][t.about] = IF t.online THEN "online" ELSE "offline"]
            /\ UNCHANGED received
        BY <3>3 DEF Deliver
      <4> QED
        BY <4>1 DEF PushTypeOK
    <3> QED
      BY <2>4, <3>1, <3>2, <3>3
  <2> QED
    BY <2>1, <2>4, <2>5 DEF PushTypeOK, noted
<1>8. ASSUME UNCHANGED pushVars PROVE PushTypeOK'
  BY <1>8 DEF PushTypeOK, pushVars
<1> QED
  BY <1>1, <1>2, <1>3, <1>4, <1>5, <1>6, <1>7, <1>8 DEF PushNext

\* The table has every connection whose client is there.
LEMMA TableStep ==
    ASSUME PushTypeOK, TableInv, [PushNext]_pushVars
    PROVE  TableInv'
<1>0. \A i \in DOMAIN sends : sends[i] \in PushCalls
  BY ElementOfSeq, LenProperties DEF PushTypeOK
<1>1. ASSUME NEW c \in Conns, NEW u \in Members, Connect(c, u) PROVE TableInv'
  <2>1. /\ socket[c] = "none" /\ socket' = [socket EXCEPT ![c] = "accepting"] /\ user' = [user EXCEPT ![c] = u]
        /\ UNCHANGED <<registered, sends, present, watching>>
    BY <1>1 DEF Connect, noted
  <2>2. /\ socket'[c] = "accepting" /\ \A d \in Conns : d # c => socket'[d] = socket[d] /\ user'[d] = user[d]
    BY <2>1 DEF PushTypeOK
  <2>3. registered \subseteq Conns /\ present \in [1..MaxMessages -> SUBSET Conns]
        /\ watching \in [Members -> SUBSET Conns]
    BY DEF PushTypeOK
  <2>4. \A d \in registered : d # c
    BY <2>1 DEF TableInv
  <2>5. ASSUME NEW i \in DOMAIN sends
        PROVE  /\ \A d \in sends[i].left : d # c /\ d \in Conns
               /\ \A d \in sends[i].dead : d # c /\ d \in Conns
    BY <1>0, <2>1 DEF TableInv, PushCalls
  <2>6. /\ \A m \in 1..MaxMessages : \A d \in present[m] : d # c /\ d \in Conns
        /\ \A v \in Members : \A d \in watching[v] : d # c /\ d \in Conns
    BY <2>1, <2>3 DEF TableInv
  <2>7. \A d \in Conns : socket'[d] = "open" => d # c
    BY <2>2
  <2> QED
    BY <2>1, <2>2, <2>3, <2>4, <2>5, <2>6, <2>7 DEF TableInv
<1>2. ASSUME NEW c \in Conns, Register(c) PROVE TableInv'
  <2>1. /\ socket[c] = "accepting" /\ socket' = [socket EXCEPT ![c] = "open"]
        /\ registered' = registered \cup {c}
        /\ watching' = [watching EXCEPT ![user[c]] = Open]
        /\ UNCHANGED <<user, sends, present>>
    BY <1>2 DEF Register
  <2>2. socket'[c] = "open" /\ \A d \in Conns : d # c => socket'[d] = socket[d]
    BY <2>1 DEF PushTypeOK
  <2>3. registered \subseteq Conns /\ present \in [1..MaxMessages -> SUBSET Conns]
        /\ watching \in [Members -> SUBSET Conns] /\ Open = {d \in registered : socket[d] = "open"}
    BY DEF PushTypeOK, Open
  <2>4. ASSUME NEW i \in DOMAIN sends
        PROVE  /\ \A d \in sends[i].left : d # c /\ d \in Conns
               /\ \A d \in sends[i].dead : d # c /\ d \in Conns
    BY <1>0, <2>1 DEF TableInv, PushCalls
  <2>5. /\ \A m \in 1..MaxMessages : \A d \in present[m] : d # c /\ d \in Conns
        /\ \A v \in Members : \A d \in watching[v] : d # c /\ d \in Conns /\ socket[d] = "open"
    BY <2>1, <2>3 DEF TableInv
  <2>6. \A v \in Members : \A d \in watching'[v] : d # c /\ d \in Conns /\ socket[d] = "open"
    BY <2>1, <2>3, <2>5
  <2> QED
    BY <2>1, <2>2, <2>3, <2>4, <2>5, <2>6 DEF TableInv
<1>3. ASSUME NEW c \in Conns, NEW s, s \in {"gone", "closed"}, socket[c] \in {"open", "gone"},
             socket' = [socket EXCEPT ![c] = s],
             registered' = registered \/ (s = "closed" /\ registered' = registered \ {c}),
             present' = [m \in 1..MaxMessages |-> present[m] \ {c}],
             \A u \in Members : \A d \in watching'[u] : d \in watching[u] \ {c} \/ d \in Open \ {c},
             UNCHANGED <<user, sends>>
      PROVE  TableInv'
  <2>1. socket'[c] = s /\ \A d \in Conns : d # c => socket'[d] = socket[d]
    BY <1>3 DEF PushTypeOK
  <2>2. registered \subseteq Conns /\ present \in [1..MaxMessages -> SUBSET Conns]
        /\ watching \in [Members -> SUBSET Conns] /\ Open = {d \in registered : socket[d] = "open"}
    BY DEF PushTypeOK, Open
  <2>3. \A d \in Conns : socket'[d] = "open" => d \in registered'
    BY <1>3, <2>1 DEF TableInv
  <2>4. \A d \in registered' : socket'[d] \notin {"none", "accepting"}
    BY <1>3, <2>1, <2>2 DEF TableInv
  <2>5. ASSUME NEW i \in DOMAIN sends
        PROVE  /\ \A d \in sends[i].left : user[d] = sends[i].to /\ socket'[d] \notin {"none", "accepting"}
               /\ \A d \in sends[i].dead : socket'[d] \in {"gone", "closed"}
    <3>1. sends[i].left \subseteq Conns /\ sends[i].dead \subseteq Conns
      BY <1>0 DEF PushCalls
    <3> QED
      BY <1>3, <2>1, <3>1 DEF TableInv
  <2>6. \A m \in 1..MaxMessages : \A d \in present'[m] : socket'[d] = "open"
    BY <1>3, <2>1, <2>2 DEF TableInv
  <2>7. \A u \in Members : \A d \in watching'[u] : socket'[d] = "open"
    <3> SUFFICES ASSUME NEW u \in Members, NEW d \in watching'[u] PROVE socket'[d] = "open"
      OBVIOUS
    <3>1. d \in watching[u] \ {c} \/ d \in Open \ {c}
      BY <1>3
    <3>2. d \in Conns /\ d # c /\ socket[d] = "open"
      BY <2>2, <3>1 DEF TableInv
    <3> QED
      BY <2>1, <3>2
  <2> QED
    BY <1>3, <2>3, <2>4, <2>5, <2>6, <2>7 DEF TableInv
<1>4. ASSUME NEW c \in Conns, Vanish(c) PROVE TableInv'
  <2>1. \A u \in Members : \A d \in watching'[u] : d \in watching[u] \ {c}
    BY <1>4 DEF Vanish
  <2> QED
    BY <1>3, <1>4, <2>1 DEF Vanish, Forget
<1>5. ASSUME NEW c \in Conns, Disconnect(c) PROVE TableInv'
  <2>1. \A u \in Members : \A d \in watching'[u] : d \in watching[u] \ {c} \/ d \in Open \ {c}
    BY <1>5 DEF Disconnect
  <2> QED
    BY <1>3, <1>5, <2>1 DEF Disconnect, Forget
<1>6. ASSUME NEW u \in Members, SendMessage(u) PROVE TableInv'
  <2>1. /\ present' = [present EXCEPT ![committed + 1] = Open]
        /\ UNCHANGED <<socket, user, registered, sends, watching>>
    BY <1>6 DEF SendMessage
  <2>2. \A m \in 1..MaxMessages : \A d \in present'[m] : socket[d] = "open"
    BY <2>1 DEF TableInv, PushTypeOK, Open
  <2> QED
    BY <2>1, <2>2 DEF TableInv
<1>7. ASSUME StartTask PROVE TableInv'
  <2>1. /\ \A i \in DOMAIN sends : sends'[i] = sends[i]
        /\ \A i \in DOMAIN sends' \ DOMAIN sends :
              sends'[i].left = Of(sends'[i].to) /\ sends'[i].dead = {}
    BY <1>7, StartShape
  <2>2. UNCHANGED <<socket, user, registered, present, watching>>
    BY <1>7 DEF StartTask, noted
  <2>3. ASSUME NEW i \in DOMAIN sends'
        PROVE  /\ \A c \in sends'[i].left : user[c] = sends'[i].to /\ socket[c] \notin {"none", "accepting"}
               /\ \A c \in sends'[i].dead : socket[c] \in {"gone", "closed"}
    <3>1. CASE i \in DOMAIN sends
      BY <2>1, <3>1 DEF TableInv
    <3>2. CASE i \notin DOMAIN sends
      BY <2>1, <3>2 DEF TableInv, Of
    <3> QED
      BY <3>1, <3>2
  <2> QED
    BY <2>2, <2>3 DEF TableInv
<1>8. ASSUME NEW i \in DOMAIN sends, NEW c \in Conns, Send(i, c) PROVE TableInv'
  <2>1. PICK f \in [DOMAIN sends' -> DOMAIN sends] :
            \A j \in DOMAIN sends' :
               /\ sends'[j].to = sends[f[j]].to
               /\ sends'[j].left \subseteq sends[f[j]].left
               /\ sends'[j].dead \subseteq sends[f[j]].dead \cup (IF socket[c] = "open" THEN {} ELSE {c})
    BY <1>8, SendShape
  <2>2. /\ registered' \subseteq registered
        /\ \A d \in registered : d \in registered' \/ d \in sends[i].dead \/ (d = c /\ socket[c] # "open")
    BY <1>8, SendShape
  <2>3. UNCHANGED <<socket, user, present, watching>> /\ c \in sends[i].left
    BY <1>8 DEF Send, noted
  <2>4. socket[c] \in {"open", "gone", "closed"}
    <3>1. socket[c] \notin {"none", "accepting"}
      BY <2>3 DEF TableInv
    <3>2. socket[c] \in {"none", "accepting", "open", "gone", "closed"}
      BY DEF PushTypeOK
    <3> QED
      BY <3>1, <3>2
  <2>5. \A d \in Conns : socket[d] = "open" => d \in registered'
    BY <2>2 DEF TableInv
  <2>6. ASSUME NEW j \in DOMAIN sends'
        PROVE  /\ \A d \in sends'[j].left : user[d] = sends'[j].to /\ socket[d] \notin {"none", "accepting"}
               /\ \A d \in sends'[j].dead : socket[d] \in {"gone", "closed"}
    <3>1. f[j] \in DOMAIN sends
      OBVIOUS
    <3>2. \A d \in sends'[j].left : user[d] = sends'[j].to /\ socket[d] \notin {"none", "accepting"}
      BY <2>1, <3>1 DEF TableInv
    <3>3. \A d \in sends'[j].dead : d \in sends[f[j]].dead \/ (d = c /\ socket[c] # "open")
      BY <2>1
    <3> QED
      BY <2>4, <3>1, <3>2, <3>3 DEF TableInv
  <2>7. \A d \in registered' : socket[d] \notin {"none", "accepting"}
    BY <2>2 DEF TableInv
  <2> QED
    BY <2>3, <2>5, <2>6, <2>7 DEF TableInv
<1>9. ASSUME UNCHANGED pushVars PROVE TableInv'
  BY <1>9 DEF TableInv, pushVars
<1> QED
  BY <1>1, <1>2, <1>4, <1>5, <1>6, <1>7, <1>8, <1>9 DEF PushNext

\* The tasks, when one is created.
LEMMA TaskAppended ==
    ASSUME PushTypeOK, NEW t \in Pushes, tasks' = Append(tasks, t)
    PROVE  \E n \in Nat :
              /\ DOMAIN tasks = 1..n /\ DOMAIN tasks' = 1..(n + 1)
              /\ \A i \in 1..n : tasks'[i] = tasks[i]
              /\ tasks'[n + 1] = t
<1>1. tasks \in Seq(Pushes)
  BY DEF PushTypeOK
<1>2. PICK n \in Nat : n = Len(tasks)
  BY <1>1, LenProperties
<1>3. DOMAIN tasks = 1..n /\ Len(tasks') = n + 1 /\ tasks' \in Seq(Pushes)
  BY <1>1, <1>2, AppendProperties, LenProperties
<1>4. DOMAIN tasks' = 1..(n + 1) /\ tasks'[n + 1] = t /\ \A i \in 1..n : tasks'[i] = tasks[i]
  BY <1>1, <1>2, <1>3, AppendProperties, LenProperties
<1> QED
  BY <1>3, <1>4

\* The tasks, when the first starts.
LEMMA TaskStarted ==
    ASSUME PushTypeOK, tasks # <<>>, NEW t, t = Head(tasks), tasks' = Tail(tasks)
    PROVE  \E n \in Nat : /\ DOMAIN tasks = 1..(n + 1) /\ DOMAIN tasks' = 1..n
                          /\ tasks[1] = t /\ \A i \in 1..n : tasks'[i] = tasks[i + 1]
<1>1. tasks \in Seq(Pushes) /\ Len(tasks) \in Nat /\ DOMAIN tasks = 1..Len(tasks)
  BY LenProperties DEF PushTypeOK
<1>2. /\ Tail(tasks) \in Seq(Pushes) /\ Len(Tail(tasks)) = Len(tasks) - 1
      /\ \A i \in 1..Len(Tail(tasks)) : Tail(tasks)[i] = tasks[i + 1]
  BY <1>1, HeadTailProperties
<1>3. Len(tasks) # 0 /\ Head(tasks) = tasks[1]
  BY <1>1, EmptySeq
<1>4. DOMAIN tasks' = 1..(Len(tasks) - 1)
  BY <1>2, LenProperties
<1>5. PICK n \in Nat : Len(tasks) = n + 1
  <2>1. Len(tasks) - 1 \in Nat
    BY <1>1, <1>3
  <2> QED
    BY <2>1
<1>6. DOMAIN tasks = 1..(n + 1) /\ DOMAIN tasks' = 1..n /\ Len(Tail(tasks)) = n
  BY <1>1, <1>2, <1>4, <1>5
<1>7. tasks[1] = t /\ \A j \in 1..n : tasks'[j] = tasks[j + 1]
  BY <1>2, <1>3, <1>6
<1> QED
  BY <1>6, <1>7

\* Presences, and clients that go, touch no message.
LEMMA OnceKept ==
    ASSUME PushTypeOK, OnceInv, UNCHANGED <<sends, committed>>,
           tasks' = tasks \/ \E t \in Pushes : t.message = 0 /\ tasks' = Append(tasks, t),
           \A c \in Conns, m \in 1..MaxMessages :
              /\ received'[c][m] = received[c][m] \/ received'[c][m] = 0
              /\ c \in present'[m] => c \in present[m] /\ received'[c][m] = received[c][m]
    PROVE  OnceInv'
<1>1. \A i \in DOMAIN tasks' : tasks'[i].message = 0 \/ (i \in DOMAIN tasks /\ tasks'[i] = tasks[i])
  <2>1. CASE tasks' = tasks
    BY <2>1
  <2>2. CASE \E t \in Pushes : t.message = 0 /\ tasks' = Append(tasks, t)
    <3>1. PICK t \in Pushes : t.message = 0 /\ tasks' = Append(tasks, t)
      BY <2>2
    <3>2. PICK n \in Nat :
              /\ DOMAIN tasks = 1..n /\ DOMAIN tasks' = 1..(n + 1)
              /\ \A i \in 1..n : tasks'[i] = tasks[i]
              /\ tasks'[n + 1] = t
      BY <3>1, TaskAppended
    <3> QED
      BY <3>1, <3>2
  <2> QED
    BY <2>1, <2>2
<1>2. \A i \in DOMAIN tasks : i \in DOMAIN tasks' /\ tasks'[i] = tasks[i]
  <2>1. CASE tasks' = tasks
    BY <2>1
  <2>2. CASE \E t \in Pushes : t.message = 0 /\ tasks' = Append(tasks, t)
    <3>1. PICK t \in Pushes : t.message = 0 /\ tasks' = Append(tasks, t)
      BY <2>2
    <3>2. PICK n \in Nat :
              /\ DOMAIN tasks = 1..n /\ DOMAIN tasks' = 1..(n + 1)
              /\ \A i \in 1..n : tasks'[i] = tasks[i]
              /\ tasks'[n + 1] = t
      BY <3>1, TaskAppended
    <3> QED
      BY <3>2
  <2> QED
    BY <2>1, <2>2
<1>3. \A c \in Conns, m \in 1..MaxMessages : Coming(c, m)' <=> Coming(c, m)
  <2> SUFFICES ASSUME NEW c \in Conns, NEW m \in 1..MaxMessages PROVE Coming(c, m)' <=> Coming(c, m)
    OBVIOUS
  <2>1. m # 0
    BY PushAssumption
  <2>2. (\E i \in DOMAIN tasks' : tasks'[i].message = m) <=> (\E i \in DOMAIN tasks : tasks[i].message = m)
    BY <1>1, <1>2, <2>1
  <2> QED
    BY <2>2 DEF Coming
<1>4. committed \in Nat
  BY DEF PushTypeOK
<1>5. \A i \in DOMAIN tasks' : tasks'[i].message <= committed
  BY <1>1, <1>4 DEF OnceInv
<1>6. \A i, j \in DOMAIN tasks' : i # j /\ tasks'[i].message = tasks'[j].message => tasks'[i].message = 0
  BY <1>1 DEF OnceInv
<1>7. \A i \in DOMAIN sends, j \in DOMAIN tasks' :
          sends[i].what.message = tasks'[j].message => tasks'[j].message = 0
  BY <1>1 DEF OnceInv
<1>8. \A c \in Conns, m \in 1..MaxMessages :
          received'[c][m] = 0 \/ (received'[c][m] = 1 /\ m <= committed /\ ~Coming(c, m)')
  BY <1>3 DEF OnceInv
<1>9. \A c \in Conns, m \in 1..MaxMessages : c \in present'[m] => received'[c][m] = 1 \/ Coming(c, m)'
  BY <1>3 DEF OnceInv
<1> QED
  BY <1>5, <1>6, <1>7, <1>8, <1>9 DEF OnceInv

\* Every step keeps a message once on its way or arrived.
LEMMA OnceStep ==
    ASSUME PushTypeOK, TableInv, OnceInv, [PushNext]_pushVars
    PROVE  OnceInv'
<1>0. committed \in Nat /\ \A i \in DOMAIN sends : sends[i] \in PushCalls
  BY ElementOfSeq, LenProperties DEF PushTypeOK
<1>1. ASSUME NEW c \in Conns, NEW u \in Members, Connect(c, u) PROVE OnceInv'
  BY <1>1, OnceKept DEF Connect, clientVars, noted
<1>2. ASSUME NEW c \in Conns, Register(c) PROVE OnceInv'
  <2>1. /\ socket[c] = "accepting" /\ tasks' = Append(tasks, Presence(user[c], TRUE))
        /\ UNCHANGED <<sends, committed, received, present>>
    BY <1>2 DEF Register, clientVars
  <2>2. Presence(user[c], TRUE) \in Pushes /\ Presence(user[c], TRUE).message = 0
    BY <2>1, PushAssumption DEF PushTypeOK, Presence, Pushes
  <2> QED
    BY <2>1, <2>2, OnceKept
<1>3. ASSUME NEW c \in Conns, Forget(c)
      PROVE  \A d \in Conns, m \in 1..MaxMessages :
                /\ received'[d][m] = received[d][m] \/ received'[d][m] = 0
                /\ d \in present'[m] => d \in present[m] /\ received'[d][m] = received[d][m]
  <2>1. /\ received' = [received EXCEPT ![c] = [m \in 1..MaxMessages |-> 0]]
        /\ present' = [m \in 1..MaxMessages |-> present[m] \ {c}]
    BY <1>3 DEF Forget
  <2>2. received'[c] = [m \in 1..MaxMessages |-> 0] /\ \A d \in Conns : d # c => received'[d] = received[d]
    BY <2>1 DEF PushTypeOK
  <2> QED
    BY <2>1, <2>2
<1>4. ASSUME NEW c \in Conns, Vanish(c) PROVE OnceInv'
  BY <1>3, <1>4, OnceKept DEF Vanish
<1>5. ASSUME NEW c \in Conns, Disconnect(c) PROVE OnceInv'
  <2>1. /\ socket[c] # "none" /\ tasks' = Append(tasks, Presence(user[c], FALSE))
        /\ Forget(c) /\ UNCHANGED <<sends, committed>>
    BY <1>5 DEF Disconnect
  <2>2. Presence(user[c], FALSE) \in Pushes /\ Presence(user[c], FALSE).message = 0
    BY <2>1, PushAssumption DEF PushTypeOK, Presence, Pushes
  <2> QED
    BY <1>3, <2>1, <2>2, OnceKept
<1>6. ASSUME NEW u \in Members, SendMessage(u) PROVE OnceInv'
  <2>1. /\ committed < MaxMessages /\ committed' = committed + 1
        /\ present' = [present EXCEPT ![committed + 1] = Open]
        /\ UNCHANGED <<sends, received>>
    BY <1>6 DEF SendMessage, clientVars
  <2>2. PICK t \in Pushes : t = NewMessage(u, committed + 1) /\ t.message = committed + 1
    <3>1. committed + 1 \in 0..MaxMessages
      BY <1>0, <2>1, PushAssumption
    <3>2. NewMessage(u, committed + 1) \in Pushes
      BY <3>1 DEF NewMessage, Pushes
    <3>3. NewMessage(u, committed + 1).message = committed + 1
      BY DEF NewMessage
    <3> QED
      BY <3>2, <3>3
  <2>3. tasks' = Append(tasks, t)
    BY <1>6, <2>2 DEF SendMessage
  <2>4. PICK n \in Nat :
            /\ DOMAIN tasks = 1..n /\ DOMAIN tasks' = 1..(n + 1)
            /\ \A i \in 1..n : tasks'[i] = tasks[i]
            /\ tasks'[n + 1] = t
    BY <2>3, TaskAppended
  <2>5. \A i \in DOMAIN tasks : tasks[i].message \in Nat
    BY PushElements
  <2>6. \A i \in DOMAIN sends : sends[i].what.message \in Nat
    BY PushElements, PushAssumption DEF Pushes
  <2>7. \A i \in DOMAIN tasks' : i = n + 1 \/ (i \in DOMAIN tasks /\ tasks'[i] = tasks[i])
    BY <2>4
  <2>8. \A i \in DOMAIN tasks : i \in DOMAIN tasks' /\ tasks'[i] = tasks[i] /\ tasks[i].message # committed + 1
    BY <1>0, <2>4, <2>5 DEF OnceInv
  <2>9. \A i \in DOMAIN sends : sends[i].what.message # committed + 1
    BY <1>0, <2>6 DEF OnceInv
  <2>10. \A c \in Conns, m \in 1..MaxMessages :
             Coming(c, m)' <=> (Coming(c, m) \/ m = committed + 1)
    <3> SUFFICES ASSUME NEW c \in Conns, NEW m \in 1..MaxMessages
                 PROVE  Coming(c, m)' <=> (Coming(c, m) \/ m = committed + 1)
      OBVIOUS
    <3>1. (\E i \in DOMAIN tasks' : tasks'[i].message = m)
             <=> (\E i \in DOMAIN tasks : tasks[i].message = m) \/ m = committed + 1
      BY <2>2, <2>4, <2>7, <2>8
    <3> QED
      BY <2>1, <3>1 DEF Coming
  <2>11. \A i \in DOMAIN tasks' : tasks'[i].message <= committed'
    BY <1>0, <2>1, <2>2, <2>4, <2>5, <2>7 DEF OnceInv
  <2>12. \A i, j \in DOMAIN tasks' : i # j /\ tasks'[i].message = tasks'[j].message => tasks'[i].message = 0
    BY <2>2, <2>4, <2>7, <2>8 DEF OnceInv
  <2>13. \A i \in DOMAIN sends : sends[i].what.message <= committed'
    BY <1>0, <2>1, <2>6 DEF OnceInv
  <2>14. \A i \in DOMAIN sends, j \in DOMAIN tasks' :
             sends[i].what.message = tasks'[j].message => tasks'[j].message = 0
    BY <2>2, <2>4, <2>7, <2>9 DEF OnceInv
  <2>15. ASSUME NEW c \in Conns, NEW m \in 1..MaxMessages
         PROVE  /\ received'[c][m] = 0 \/ (received'[c][m] = 1 /\ m <= committed' /\ ~Coming(c, m)')
                /\ c \in present'[m] => received'[c][m] = 1 \/ Coming(c, m)'
    <3>1. received[c][m] = 0 \/ (received[c][m] = 1 /\ m <= committed /\ ~Coming(c, m))
      BY DEF OnceInv
    <3>2. CASE m = committed + 1
      <4>1. received[c][m] = 0 /\ Coming(c, m)'
        BY <1>0, <2>10, <3>1, <3>2
      <4> QED
        BY <2>1, <4>1
    <3>3. CASE m # committed + 1
      <4>1. present'[m] = present[m] /\ (Coming(c, m)' <=> Coming(c, m))
        BY <2>1, <2>10, <3>3 DEF PushTypeOK
      <4>2. m <= committed => m <= committed'
        BY <1>0, <2>1
      <4> QED
        BY <2>1, <3>1, <4>1, <4>2 DEF OnceInv
    <3> QED
      BY <3>2, <3>3
  <2> QED
    BY <2>1, <2>11, <2>12, <2>13, <2>14, <2>15 DEF OnceInv
<1>7. ASSUME StartTask PROVE OnceInv'
  <2>1. PICK t \in Pushes :
            /\ t = Head(tasks) /\ tasks # <<>>
            /\ DOMAIN sends \subseteq DOMAIN sends'
            /\ \A i \in DOMAIN sends : sends'[i] = sends[i]
            /\ \A i \in DOMAIN sends' \ DOMAIN sends :
                  sends'[i].what = t /\ sends'[i].left = Of(sends'[i].to)
            /\ \A i, j \in DOMAIN sends' \ DOMAIN sends : sends'[i].to = sends'[j].to => i = j
            /\ \A u \in Audience(t) : Of(u) # {} =>
                  \E i \in DOMAIN sends' \ DOMAIN sends : sends'[i].to = u
    BY <1>7, StartShape
  <2>2. tasks' = Tail(tasks) /\ UNCHANGED <<user, registered, received, committed, present>>
    BY <1>7 DEF StartTask, clientVars, noted
  <2>3. PICK n \in Nat : /\ DOMAIN tasks = 1..(n + 1) /\ DOMAIN tasks' = 1..n
                         /\ tasks[1] = t /\ \A i \in 1..n : tasks'[i] = tasks[i + 1]
    BY <2>1, <2>2, TaskStarted
  <2>4. \A i \in DOMAIN tasks' : i + 1 \in DOMAIN tasks /\ tasks'[i] = tasks[i + 1] /\ i + 1 # 1
    BY <2>3
  <2>5. \A i \in DOMAIN tasks : i = 1 \/ (i - 1 \in DOMAIN tasks' /\ tasks'[i - 1] = tasks[i])
    BY <2>3
  <2>6. 1 \in DOMAIN tasks /\ tasks[1] = t
    BY <2>3
  <2>7. \A i \in DOMAIN tasks' : tasks'[i].message <= committed
    BY <2>4 DEF OnceInv
  <2>8. \A i, j \in DOMAIN tasks' : i # j /\ tasks'[i].message = tasks'[j].message => tasks'[i].message = 0
    <3> SUFFICES ASSUME NEW i \in DOMAIN tasks', NEW j \in DOMAIN tasks', i # j,
                        tasks'[i].message = tasks'[j].message
                 PROVE  tasks'[i].message = 0
      OBVIOUS
    <3>1. i + 1 # j + 1
      BY <2>3
    <3> QED
      BY <2>4, <3>1 DEF OnceInv
  <2>9. ASSUME NEW i \in DOMAIN sends' PROVE sends'[i].what.message <= committed
    BY <2>1, <2>6 DEF OnceInv
  <2>10. ASSUME NEW i \in DOMAIN sends', NEW j \in DOMAIN tasks', sends'[i].what.message = tasks'[j].message
         PROVE  tasks'[j].message = 0
    <3>1. CASE i \in DOMAIN sends
      BY <2>1, <2>4, <2>10, <3>1 DEF OnceInv
    <3>2. CASE i \notin DOMAIN sends
      <4>1. tasks[1].message = tasks[j + 1].message
        BY <2>1, <2>4, <2>6, <2>10, <3>2
      <4> QED
        BY <2>4, <2>6, <4>1 DEF OnceInv
    <3> QED
      BY <3>1, <3>2
  <2>11. ASSUME NEW i \in DOMAIN sends', NEW j \in DOMAIN sends', i # j,
                sends'[i].what.message = sends'[j].what.message, sends'[i].to = sends'[j].to
         PROVE  sends'[i].what.message = 0
    <3>1. CASE i \in DOMAIN sends /\ j \in DOMAIN sends
      BY <2>1, <2>11, <3>1 DEF OnceInv
    <3>2. CASE i \in DOMAIN sends /\ j \notin DOMAIN sends
      <4>1. sends[i].what.message = tasks[1].message
        BY <2>1, <2>6, <2>11, <3>2
      <4> QED
        BY <2>1, <2>6, <3>2, <4>1 DEF OnceInv
    <3>3. CASE i \notin DOMAIN sends /\ j \in DOMAIN sends
      <4>1. sends[j].what.message = tasks[1].message /\ sends'[i].what.message = tasks[1].message
        BY <2>1, <2>6, <2>11, <3>3
      <4> QED
        BY <2>1, <2>6, <3>3, <4>1 DEF OnceInv
    <3>4. CASE i \notin DOMAIN sends /\ j \notin DOMAIN sends
      BY <2>1, <2>11, <3>4
    <3> QED
      BY <3>1, <3>2, <3>3, <3>4
  <2>12. ASSUME NEW c \in Conns, NEW m \in 1..MaxMessages, m # t.message
         PROVE  Coming(c, m)' <=> Coming(c, m)
    <3>1. (\E i \in DOMAIN tasks' : tasks'[i].message = m) <=> (\E i \in DOMAIN tasks : tasks[i].message = m)
      BY <2>4, <2>5, <2>6, <2>12
    <3>2. (\E i \in DOMAIN sends' : sends'[i].what.message = m /\ c \in sends'[i].left)
             <=> (\E i \in DOMAIN sends : sends[i].what.message = m /\ c \in sends[i].left)
      BY <2>1, <2>12
    <3> QED
      BY <3>1, <3>2 DEF Coming
  <2>13. ASSUME NEW c \in Conns, NEW m \in 1..MaxMessages, m = t.message
         PROVE  Coming(c, m) /\ (c \in registered => Coming(c, m)')
    <3>1. Coming(c, m)
      BY <2>6, <2>13 DEF Coming
    <3>2. ASSUME c \in registered PROVE Coming(c, m)'
      <4>1. user[c] \in Members
        BY <3>2 DEF TableInv, PushTypeOK
      <4>2. user[c] \in Audience(t) /\ c \in Of(user[c])
        BY <2>13, <3>2, <4>1, PushAssumption DEF Audience, Of
      <4>3. PICK i \in DOMAIN sends' \ DOMAIN sends : sends'[i].to = user[c]
        BY <2>1, <4>2
      <4>4. sends'[i].what.message = m /\ c \in sends'[i].left
        BY <2>1, <2>13, <4>2, <4>3
      <4> QED
        BY <4>4 DEF Coming
    <3> QED
      BY <3>1, <3>2
  <2>14. ASSUME NEW c \in Conns, NEW m \in 1..MaxMessages
         PROVE  /\ received[c][m] = 0 \/ (received[c][m] = 1 /\ m <= committed /\ ~Coming(c, m)')
                /\ c \in present[m] => received[c][m] = 1 \/ Coming(c, m)'
    <3>1. received[c][m] = 0 \/ (received[c][m] = 1 /\ m <= committed /\ ~Coming(c, m))
      BY DEF OnceInv
    <3>2. c \in present[m] => c \in registered
      BY DEF TableInv
    <3>3. c \in present[m] => received[c][m] = 1 \/ Coming(c, m)
      BY DEF OnceInv
    <3> QED
      BY <2>12, <2>13, <3>1, <3>2, <3>3
  <2> QED
    BY <2>2, <2>7, <2>8, <2>9, <2>10, <2>11, <2>14 DEF OnceInv
<1>8. ASSUME NEW i \in DOMAIN sends, NEW c \in Conns, Send(i, c) PROVE OnceInv'
  <2>1. PICK f \in [DOMAIN sends' -> DOMAIN sends] :
            /\ \A j, k \in DOMAIN sends' : j < k => f[j] < f[k]
            /\ \A j \in DOMAIN sends' :
                  /\ sends'[j].what = sends[f[j]].what /\ sends'[j].to = sends[f[j]].to
                  /\ sends'[j].left = sends[f[j]].left \ (IF f[j] = i THEN {c} ELSE {})
            /\ \A k \in DOMAIN sends :
                  (k = i /\ sends[i].left = {c}) \/ \E j \in DOMAIN sends' : f[j] = k
    BY <1>8, SendShape
  <2>2. \A j, k \in DOMAIN sends' : j # k => f[j] # f[k]
    <3> SUFFICES ASSUME NEW j \in DOMAIN sends', NEW k \in DOMAIN sends', j # k PROVE f[j] # f[k]
      OBVIOUS
    <3>1. j \in Nat /\ k \in Nat /\ f[j] \in Nat /\ f[k] \in Nat
      <4>1. sends' \in Seq(PushCalls)
        BY <1>8, SendShape
      <4>2. DOMAIN sends' \subseteq Nat /\ DOMAIN sends \subseteq Nat
        BY <4>1, LenProperties DEF PushTypeOK
      <4> QED
        BY <4>2
    <3> QED
      BY <2>1, <3>1
  <2>3. c \in sends[i].left /\ UNCHANGED <<socket, user, tasks, committed, present>>
    BY <1>8 DEF Send, noted
  <2>4. PICK t \in Pushes : t = sends[i].what
    BY <1>0 DEF PushCalls
  <2>5. ASSUME NEW d \in Conns, NEW m \in 1..MaxMessages, d # c \/ m # t.message
        PROVE  Coming(d, m)' <=> Coming(d, m)
    <3>1. ASSUME NEW k \in DOMAIN sends, sends[k].what.message = m, d \in sends[k].left
          PROVE  \E j \in DOMAIN sends' : sends'[j].what.message = m /\ d \in sends'[j].left
      <4>1. ~(k = i /\ d = c)
        BY <2>4, <2>5, <3>1
      <4>2. PICK j \in DOMAIN sends' : f[j] = k
        BY <2>1, <3>1, <4>1
      <4> QED
        BY <2>1, <3>1, <4>1, <4>2
    <3>2. ASSUME NEW j \in DOMAIN sends', sends'[j].what.message = m, d \in sends'[j].left
          PROVE  \E k \in DOMAIN sends : sends[k].what.message = m /\ d \in sends[k].left
      <4>1. f[j] \in DOMAIN sends
        OBVIOUS
      <4> QED
        BY <2>1, <3>2, <4>1
    <3> QED
      BY <2>3, <3>1, <3>2 DEF Coming
  <2>6. ASSUME NEW m \in 1..MaxMessages, m = t.message
        PROVE  Coming(c, m) /\ ~Coming(c, m)' /\ m <= committed
    <3>1. Coming(c, m)
      BY <2>3, <2>4, <2>6 DEF Coming
    <3>2. m # 0
      BY PushAssumption
    <3>3. \A k \in DOMAIN tasks : tasks[k].message # m
      BY <2>4, <2>6, <3>2 DEF OnceInv
    <3>4. ASSUME NEW j \in DOMAIN sends', sends'[j].what.message = m, c \in sends'[j].left PROVE FALSE
      <4>1. f[j] \in DOMAIN sends /\ f[j] # i /\ c \in sends[f[j]].left /\ sends[f[j]].what.message = m
        BY <2>1, <3>4
      <4>2. sends[f[j]].to = user[c] /\ sends[i].to = user[c]
        BY <2>3, <4>1 DEF TableInv
      <4> QED
        BY <2>4, <2>6, <3>2, <4>1, <4>2 DEF OnceInv
    <3>5. ~Coming(c, m)'
      BY <2>3, <3>3, <3>4 DEF Coming
    <3>6. m <= committed
      BY <2>4, <2>6 DEF OnceInv
    <3> QED
      BY <3>1, <3>5, <3>6
  <2>7. ASSUME NEW d \in Conns, NEW m \in 1..MaxMessages
        PROVE  received'[d][m] = received[d][m] +
                  (IF d = c /\ m = t.message /\ socket[c] = "open" THEN 1 ELSE 0)
    <3>1. received[d][m] \in Nat
      BY PushElements
    <3>2. CASE socket[c] = "open"
      <4>1. Deliver(c, t)
        BY <1>8, <2>4, <3>2 DEF Send
      <4>2. CASE t.message # 0
        <5>1. received' = [received EXCEPT ![c][t.message] = @ + 1]
          BY <4>1, <4>2 DEF Deliver
        <5>2. t.message \in 1..MaxMessages
          BY <4>2, PushAssumption DEF Pushes
        <5>3. received'[c] = [received[c] EXCEPT ![t.message] = @ + 1]
              /\ \A e \in Conns : e # c => received'[e] = received[e]
          BY <5>1 DEF PushTypeOK
        <5>4. PICK r \in [1..MaxMessages -> Nat] : r = received[c]
          BY DEF PushTypeOK
        <5>5. received'[c] = [r EXCEPT ![t.message] = r[t.message] + 1]
          BY <5>3, <5>4
        <5>6. received'[c][m] = IF m = t.message THEN r[m] + 1 ELSE r[m]
          BY <5>2, <5>5
        <5>7. CASE d = c
          <6>1. received'[d][m] = IF m = t.message THEN received[d][m] + 1 ELSE received[d][m]
            BY <5>4, <5>6, <5>7
          <6> QED
            BY <3>1, <3>2, <5>7, <6>1
        <5>8. CASE d # c
          BY <3>1, <5>3, <5>8
        <5> QED
          BY <5>7, <5>8
      <4>3. CASE t.message = 0
        <5>1. received' = received /\ m # 0
          BY <4>1, <4>3, PushAssumption DEF Deliver
        <5> QED
          BY <3>1, <4>3, <5>1
      <4> QED
        BY <4>2, <4>3
    <3>3. CASE socket[c] # "open"
      <4>1. received' = received
        BY <1>8, <3>3 DEF Send, clientVars
      <4> QED
        BY <3>1, <3>3, <4>1
    <3> QED
      BY <3>2, <3>3
  <2>8. ASSUME NEW d \in Conns, NEW m \in 1..MaxMessages
        PROVE  /\ received'[d][m] = 0 \/ (received'[d][m] = 1 /\ m <= committed /\ ~Coming(d, m)')
               /\ d \in present[m] => received'[d][m] = 1 \/ Coming(d, m)'
    <3>1. received[d][m] = 0 \/ (received[d][m] = 1 /\ m <= committed /\ ~Coming(d, m))
      BY DEF OnceInv
    <3>2. d \in present[m] => (received[d][m] = 1 \/ Coming(d, m)) /\ socket[d] = "open"
      BY DEF OnceInv, TableInv
    <3>3. CASE d # c \/ m # t.message
      <4>1. received'[d][m] = received[d][m]
        BY <2>7, <3>1, <3>3
      <4> QED
        BY <2>5, <3>1, <3>2, <3>3, <4>1
    <3>4. CASE d = c /\ m = t.message
      <4>1. received[d][m] = 0 /\ ~Coming(d, m)' /\ m <= committed
        BY <2>6, <3>1, <3>4
      <4>2. received'[d][m] = IF socket[c] = "open" THEN 1 ELSE 0
        BY <2>7, <3>4, <4>1
      <4> QED
        BY <3>2, <3>4, <4>1, <4>2
    <3> QED
      BY <3>3, <3>4
  <2>9. \A j \in DOMAIN sends' : sends'[j].what.message <= committed
    BY <2>1 DEF OnceInv
  <2>10. \A j \in DOMAIN sends', k \in DOMAIN tasks :
             sends'[j].what.message = tasks[k].message => tasks[k].message = 0
    BY <2>1 DEF OnceInv
  <2>11. \A j, k \in DOMAIN sends' :
             j # k /\ sends'[j].what.message = sends'[k].what.message /\ sends'[j].to = sends'[k].to
             => sends'[j].what.message = 0
    <3> SUFFICES ASSUME NEW j \in DOMAIN sends', NEW k \in DOMAIN sends', j # k,
                        sends'[j].what.message = sends'[k].what.message, sends'[j].to = sends'[k].to
                 PROVE  sends'[j].what.message = 0
      OBVIOUS
    <3>1. f[j] # f[k] /\ f[j] \in DOMAIN sends /\ f[k] \in DOMAIN sends
      BY <2>2
    <3>2. sends[f[j]].what.message = sends[f[k]].what.message /\ sends[f[j]].to = sends[f[k]].to
      BY <2>1
    <3>3. sends[f[j]].what.message = 0
      BY <3>1, <3>2 DEF OnceInv
    <3> QED
      BY <2>1, <3>3
  <2> QED
    BY <2>3, <2>8, <2>9, <2>10, <2>11 DEF OnceInv
<1>9. ASSUME UNCHANGED pushVars PROVE OnceInv'
  BY <1>9, OnceKept DEF pushVars
<1> QED
  BY <1>1, <1>2, <1>4, <1>5, <1>6, <1>7, <1>8, <1>9 DEF PushNext

\* Nothing is said of a user, and its handlers are those there were.
LEMMA PresenceQuiet ==
    ASSUME PushTypeOK, NEW u \in Members, PresenceOf(u), UNCHANGED sends,
           tasks' = tasks \/ \E t \in Pushes : ~About(t, u) /\ tasks' = Append(tasks, t),
           Served(u)' = Served(u), watching'[u] \subseteq watching[u],
           \A c \in watching'[u] : user'[c] = user[c] /\ told'[c][u] = told[c][u]
    PROVE  PresenceOf(u)'
<1>1. /\ \A i \in DOMAIN tasks : i \in DOMAIN tasks' /\ tasks'[i] = tasks[i]
      /\ \A i \in DOMAIN tasks' : i \in DOMAIN tasks \/ ~About(tasks'[i], u)
  <2>1. CASE tasks' = tasks
    BY <2>1
  <2>2. CASE \E t \in Pushes : ~About(t, u) /\ tasks' = Append(tasks, t)
    <3>1. PICK t \in Pushes : ~About(t, u) /\ tasks' = Append(tasks, t)
      BY <2>2
    <3>2. PICK n \in Nat :
              /\ DOMAIN tasks = 1..n /\ DOMAIN tasks' = 1..(n + 1)
              /\ \A i \in 1..n : tasks'[i] = tasks[i]
              /\ tasks'[n + 1] = t
      BY <3>1, TaskAppended
    <3> QED
      BY <3>1, <3>2
  <2> QED
    BY <2>1, <2>2
<1>2. \A i \in DOMAIN tasks' :
          About(tasks'[i], u) /\ (\A j \in DOMAIN tasks' : j > i => ~About(tasks'[j], u))
          => (tasks'[i].online <=> Served(u)' # {})
  <2> SUFFICES ASSUME NEW i \in DOMAIN tasks', About(tasks'[i], u),
                      \A j \in DOMAIN tasks' : j > i => ~About(tasks'[j], u)
               PROVE  tasks'[i].online <=> Served(u)' # {}
    OBVIOUS
  <2>1. i \in DOMAIN tasks /\ tasks'[i] = tasks[i]
    BY <1>1
  <2>2. \A j \in DOMAIN tasks : j > i => ~About(tasks[j], u)
    BY <1>1
  <2>3. tasks[i].online <=> Served(u) # {}
    BY <2>1, <2>2 DEF PresenceOf
  <2> QED
    BY <2>1, <2>3
<1>3. (\A i \in DOMAIN tasks' : ~About(tasks'[i], u)) => (\A i \in DOMAIN tasks : ~About(tasks[i], u))
  BY <1>1
<1>4. \A i, c : Hears(i, c, u)' <=> Hears(i, c, u)
  BY DEF Hears
<1>5. ASSUME \A i \in DOMAIN tasks' : ~About(tasks'[i], u), NEW c \in watching'[u], user'[c] # u
      PROVE  /\ \A i \in DOMAIN sends :
                   Hears(i, c, u) /\ (\A j \in DOMAIN sends : j > i => ~Hears(j, c, u))
                   => (sends[i].what.online <=> Served(u) # {})
             /\ (\A i \in DOMAIN sends : ~Hears(i, c, u))
                => told[c][u] = IF Served(u) = {} THEN "offline" ELSE "online"
  <2>1. c \in watching[u] /\ user[c] # u
    BY <1>5
  <2> QED
    BY <1>3, <1>5, <2>1 DEF PresenceOf
<1>6. \A c, d \in Served(u)' : c = d
  BY DEF PresenceOf
<1> QED
  BY <1>2, <1>4, <1>5, <1>6 DEF PresenceOf

\* The truth is told of a user.
LEMMA PresenceTold ==
    ASSUME PushTypeOK, NEW u \in Members, NEW t \in Pushes, About(t, u), tasks' = Append(tasks, t),
           \A c, d \in Served(u)' : c = d,
           t.online <=> Served(u)' # {}
    PROVE  PresenceOf(u)'
<1>1. PICK n \in Nat :
          /\ DOMAIN tasks = 1..n /\ DOMAIN tasks' = 1..(n + 1)
          /\ \A i \in 1..n : tasks'[i] = tasks[i]
          /\ tasks'[n + 1] = t
  BY TaskAppended
<1>2. n + 1 \in DOMAIN tasks' /\ About(tasks'[n + 1], u)
  BY <1>1
<1>3. \A i \in DOMAIN tasks' : i = n + 1 \/ n + 1 > i
  BY <1>1
<1>4. \A i \in DOMAIN tasks' :
          About(tasks'[i], u) /\ (\A j \in DOMAIN tasks' : j > i => ~About(tasks'[j], u))
          => (tasks'[i].online <=> Served(u)' # {})
  BY <1>1, <1>2, <1>3
<1> QED
  BY <1>2, <1>4 DEF PresenceOf

\* Every step keeps the last presence under way true.
LEMMA PresenceStep ==
    ASSUME PushTypeOK, TableInv, PresenceInv, [PushNext]_pushVars
    PROVE  PresenceInv'
<1>1. ASSUME NEW c \in Conns, NEW v \in Members, Connect(c, v) PROVE PresenceInv'
  <2> SUFFICES ASSUME NEW u \in Members \ doubled PROVE PresenceOf(u)'
    BY <1>1 DEF PresenceInv, Connect, noted
  <2>1. /\ socket[c] = "none" /\ socket' = [socket EXCEPT ![c] = "accepting"] /\ user' = [user EXCEPT ![c] = v]
        /\ UNCHANGED <<tasks, sends, told, watching>>
    BY <1>1 DEF Connect, clientVars, noted
  <2>2. socket'[c] = "accepting" /\ \A d \in Conns : d # c => socket'[d] = socket[d] /\ user'[d] = user[d]
    BY <2>1 DEF PushTypeOK
  <2>3. Served(u)' = Served(u)
    BY <2>1, <2>2 DEF Served
  <2>4. \A d \in watching'[u] : user'[d] = user[d] /\ told'[d][u] = told[d][u]
    BY <2>1, <2>2 DEF TableInv, PushTypeOK
  <2> QED
    BY <2>1, <2>3, <2>4, PresenceQuiet DEF PresenceInv
<1>2. ASSUME NEW c \in Conns, Register(c) PROVE PresenceInv'
  <2>1. /\ socket[c] = "accepting" /\ socket' = [socket EXCEPT ![c] = "open"]
        /\ tasks' = Append(tasks, Presence(user[c], TRUE))
        /\ watching' = [watching EXCEPT ![user[c]] = Open]
        /\ doubled' = IF Served(user[c]) = {} THEN doubled ELSE doubled \cup {user[c]}
        /\ UNCHANGED <<user, sends, told>>
    BY <1>2 DEF Register, clientVars
  <2>2. PICK t \in Pushes : t = Presence(user[c], TRUE)
    <3>1. Presence(user[c], TRUE) \in Pushes
      BY <2>1, PushAssumption DEF PushTypeOK, Presence, Pushes
    <3> QED
      BY <3>1
  <2>3. About(t, user[c]) /\ t.online /\ \A u \in Members : u # user[c] => ~About(t, u)
    BY <2>2 DEF About, Presence
  <2>4. socket'[c] = "open" /\ \A d \in Conns : d # c => socket'[d] = socket[d]
    BY <2>1 DEF PushTypeOK
  <2> SUFFICES ASSUME NEW u \in Members \ doubled' PROVE PresenceOf(u)'
    BY DEF PresenceInv
  <2>5. u \in Members \ doubled /\ PresenceOf(u)
    BY <2>1 DEF PresenceInv
  <2>6. CASE u = user[c]
    <3>1. Served(u) = {}
      BY <2>1, <2>6
    <3>2. Served(u)' = {c}
      BY <2>1, <2>4, <2>6, <3>1 DEF Served
    <3> QED
      BY <2>1, <2>2, <2>3, <2>6, <3>2, PresenceTold
  <2>7. CASE u # user[c]
    <3>1. Served(u)' = Served(u)
      BY <2>1, <2>4, <2>7 DEF Served
    <3>2. watching'[u] = watching[u]
      BY <2>1, <2>7 DEF PushTypeOK
    <3> QED
      BY <2>1, <2>2, <2>3, <2>5, <2>7, <3>1, <3>2, PresenceQuiet
  <2> QED
    BY <2>6, <2>7
<1>3. ASSUME NEW c \in Conns, Vanish(c) PROVE PresenceInv'
  <2> SUFFICES ASSUME NEW u \in Members \ doubled PROVE PresenceOf(u)'
    BY <1>3 DEF PresenceInv, Vanish
  <2>1. /\ socket[c] = "open" /\ socket' = [socket EXCEPT ![c] = "gone"]
        /\ watching' = [v \in Members |-> watching[v] \ {c}]
        /\ told' = [told EXCEPT ![c] = [v \in Members |-> "unknown"]]
        /\ UNCHANGED <<user, tasks, sends>>
    BY <1>3 DEF Vanish, Forget
  <2>2. socket'[c] = "gone" /\ \A d \in Conns : d # c => socket'[d] = socket[d] /\ told'[d] = told[d]
    BY <2>1 DEF PushTypeOK
  <2>3. Served(u)' = Served(u)
    BY <2>1, <2>2 DEF Served
  <2>4. watching'[u] = watching[u] \ {c} /\ watching[u] \subseteq Conns
    BY <2>1 DEF PushTypeOK
  <2> QED
    BY <2>1, <2>2, <2>3, <2>4, PresenceQuiet DEF PresenceInv
<1>4. ASSUME NEW c \in Conns, Disconnect(c) PROVE PresenceInv'
  <2>1. /\ socket[c] \in {"open", "gone"} /\ socket' = [socket EXCEPT ![c] = "closed"]
        /\ tasks' = Append(tasks, Presence(user[c], FALSE))
        /\ watching' = [u \in Members |-> IF u = user[c] THEN Open \ {c} ELSE watching[u] \ {c}]
        /\ told' = [told EXCEPT ![c] = [v \in Members |-> "unknown"]]
        /\ UNCHANGED <<user, sends, doubled>>
    BY <1>4 DEF Disconnect, Forget
  <2>2. PICK t \in Pushes : t = Presence(user[c], FALSE)
    <3>1. Presence(user[c], FALSE) \in Pushes
      BY <2>1, PushAssumption DEF PushTypeOK, Presence, Pushes
    <3> QED
      BY <3>1
  <2>3. About(t, user[c]) /\ ~t.online /\ \A u \in Members : u # user[c] => ~About(t, u)
    BY <2>2 DEF About, Presence
  <2>4. socket'[c] = "closed" /\ \A d \in Conns : d # c => socket'[d] = socket[d] /\ told'[d] = told[d]
    BY <2>1 DEF PushTypeOK
  <2> SUFFICES ASSUME NEW u \in Members \ doubled PROVE PresenceOf(u)'
    BY <2>1 DEF PresenceInv
  <2>5. PresenceOf(u)
    BY DEF PresenceInv
  <2>6. CASE u = user[c]
    <3>1. c \in Served(u) /\ \A d \in Served(u) : d = c
      BY <2>1, <2>5, <2>6 DEF Served, PresenceOf
    <3>2. Served(u)' = {}
      BY <2>1, <2>4, <2>6, <3>1 DEF Served
    <3> QED
      BY <2>1, <2>2, <2>3, <2>6, <3>2, PresenceTold
  <2>7. CASE u # user[c]
    <3>1. Served(u)' = Served(u)
      BY <2>1, <2>4, <2>7 DEF Served
    <3>2. watching'[u] = watching[u] \ {c} /\ watching[u] \subseteq Conns
      BY <2>1, <2>7 DEF PushTypeOK
    <3> QED
      BY <2>1, <2>2, <2>3, <2>4, <2>5, <2>7, <3>1, <3>2, PresenceQuiet
  <2> QED
    BY <2>6, <2>7
<1>5. ASSUME NEW v \in Members, SendMessage(v) PROVE PresenceInv'
  <2>1. /\ tasks' = Append(tasks, NewMessage(v, committed + 1)) /\ committed < MaxMessages
        /\ UNCHANGED <<socket, user, sends, told, watching, doubled>>
    BY <1>5 DEF SendMessage, clientVars
  <2>2. committed + 1 \in 1..MaxMessages /\ committed + 1 # 0
    BY <2>1, PushAssumption DEF PushTypeOK
  <2>3. PICK t \in Pushes : t = NewMessage(v, committed + 1)
    <3>1. committed + 1 \in 0..MaxMessages
      BY <2>2, PushAssumption
    <3>2. NewMessage(v, committed + 1) \in Pushes
      BY <3>1 DEF NewMessage, Pushes
    <3> QED
      BY <3>2
  <2>4. \A u \in Members : ~About(t, u)
    BY <2>2, <2>3 DEF About, NewMessage
  <2> SUFFICES ASSUME NEW u \in Members \ doubled PROVE PresenceOf(u)'
    BY <2>1 DEF PresenceInv
  <2>5. Served(u)' = Served(u) /\ PresenceOf(u)
    BY <2>1 DEF Served, PresenceInv
  <2> QED
    BY <2>1, <2>3, <2>4, <2>5, PresenceQuiet
<1>6. ASSUME StartTask PROVE PresenceInv'
  <2>1. PICK t \in Pushes :
            /\ t = Head(tasks) /\ tasks # <<>> /\ sends' \in Seq(PushCalls)
            /\ DOMAIN sends \subseteq DOMAIN sends'
            /\ \A i \in DOMAIN sends : sends'[i] = sends[i]
            /\ \A i \in DOMAIN sends' \ DOMAIN sends :
                  /\ sends'[i].what = t /\ sends'[i].left = Of(sends'[i].to)
                  /\ \A j \in DOMAIN sends : j < i
            /\ \A v \in Audience(t) : Of(v) # {} =>
                  \E i \in DOMAIN sends' \ DOMAIN sends : sends'[i].to = v
    BY <1>6, StartShape
  <2>2. tasks' = Tail(tasks) /\ UNCHANGED <<socket, user, registered, told, watching, doubled>>
    BY <1>6 DEF StartTask, clientVars, noted
  <2>3. PICK n \in Nat : /\ DOMAIN tasks = 1..(n + 1) /\ DOMAIN tasks' = 1..n
                         /\ tasks[1] = t /\ \A i \in 1..n : tasks'[i] = tasks[i + 1]
    BY <2>1, <2>2, TaskStarted
  <2> SUFFICES ASSUME NEW u \in Members \ doubled PROVE PresenceOf(u)'
    BY <2>2 DEF PresenceInv
  <2>4. Served(u)' = Served(u) /\ PresenceOf(u)
    BY <2>2 DEF Served, PresenceInv
  <2>5. ASSUME NEW i \in DOMAIN tasks', About(tasks'[i], u),
               \A j \in DOMAIN tasks' : j > i => ~About(tasks'[j], u)
        PROVE  tasks'[i].online <=> Served(u)' # {}
    <3>1. i + 1 \in DOMAIN tasks /\ tasks'[i] = tasks[i + 1]
      BY <2>3
    <3>2. ASSUME NEW j \in DOMAIN tasks, j > i + 1 PROVE ~About(tasks[j], u)
      <4>1. j - 1 \in DOMAIN tasks' /\ j - 1 > i /\ (j - 1) + 1 = j
        BY <2>3, <3>2
      <4>2. tasks'[j - 1] = tasks[j]
        BY <2>3, <4>1
      <4> QED
        BY <2>5, <4>1, <4>2
    <3>3. tasks[i + 1].online <=> Served(u) # {}
      BY <2>4, <2>5, <3>1, <3>2 DEF PresenceOf
    <3> QED
      BY <2>4, <3>1, <3>3
  <2>6. ASSUME \A i \in DOMAIN tasks' : ~About(tasks'[i], u)
        PROVE  \A i \in DOMAIN tasks : i # 1 => ~About(tasks[i], u)
    <3> SUFFICES ASSUME NEW i \in DOMAIN tasks, i # 1 PROVE ~About(tasks[i], u)
      OBVIOUS
    <3>1. i - 1 \in DOMAIN tasks' /\ (i - 1) + 1 = i
      BY <2>3
    <3>2. tasks'[i - 1] = tasks[i]
      BY <2>3, <3>1
    <3> QED
      BY <2>6, <3>1, <3>2
  <2>7. ASSUME \A i \in DOMAIN tasks' : ~About(tasks'[i], u), NEW c \in watching[u], user[c] # u
        PROVE  /\ \A i \in DOMAIN sends' :
                     Hears(i, c, u)' /\ (\A j \in DOMAIN sends' : j > i => ~Hears(j, c, u)')
                     => (sends'[i].what.online <=> Served(u) # {})
               /\ (\A i \in DOMAIN sends' : ~Hears(i, c, u)')
                  => told[c][u] = IF Served(u) = {} THEN "offline" ELSE "online"
    <3>0. c \in Conns /\ c \in registered /\ user[c] \in Members
      BY DEF TableInv, PushTypeOK
    <3>1. \A i \in DOMAIN sends : Hears(i, c, u)' <=> Hears(i, c, u)
      BY <2>1 DEF Hears
    <3>2. CASE About(t, u)
      <4>1. 1 \in DOMAIN tasks /\ \A j \in DOMAIN tasks : j > 1 => ~About(tasks[j], u)
        BY <2>3, <2>6, <2>7
      <4>2. t.online <=> Served(u) # {}
        BY <2>3, <2>4, <3>2, <4>1 DEF PresenceOf
      <4>3. user[c] \in Audience(t) /\ c \in Of(user[c])
        BY <2>7, <3>0, <3>2 DEF Audience, Of, About
      <4>4. PICK k \in DOMAIN sends' \ DOMAIN sends : sends'[k].to = user[c]
        BY <2>1, <4>3
      <4>5. Hears(k, c, u)'
        BY <2>1, <3>2, <4>3, <4>4 DEF Hears
      <4>6. ASSUME NEW i \in DOMAIN sends', \A j \in DOMAIN sends' : j > i => ~Hears(j, c, u)'
            PROVE  sends'[i].what.online <=> Served(u) # {}
        <5>1. i \notin DOMAIN sends
          <6>1. \A j \in DOMAIN sends : j < k /\ j \in Int
            BY <2>1, <4>4, PushElements
          <6>2. k \in Int
            BY <2>1, LenProperties
          <6>3. i \in DOMAIN sends => k > i
            BY <6>1, <6>2
          <6> QED
            BY <4>5, <4>6, <6>3
        <5>2. sends'[i].what = t
          BY <2>1, <5>1
        <5> QED
          BY <4>2, <5>2
      <4> QED
        BY <4>4, <4>5, <4>6
    <3>3. CASE ~About(t, u)
      <4>1. \A j \in DOMAIN tasks : ~About(tasks[j], u)
        BY <2>3, <2>6, <2>7, <3>3
      <4>2. \A i \in DOMAIN sends' \ DOMAIN sends : ~Hears(i, c, u)'
        BY <2>1, <3>3 DEF Hears
      <4>3. ASSUME NEW i \in DOMAIN sends', Hears(i, c, u)',
                   \A j \in DOMAIN sends' : j > i => ~Hears(j, c, u)'
            PROVE  sends'[i].what.online <=> Served(u) # {}
        <5>1. i \in DOMAIN sends /\ Hears(i, c, u) /\ \A j \in DOMAIN sends : j > i => ~Hears(j, c, u)
          BY <2>1, <3>1, <4>2, <4>3
        <5>2. sends[i].what.online <=> Served(u) # {}
          BY <2>4, <2>7, <4>1, <5>1 DEF PresenceOf
        <5> QED
          BY <2>1, <5>1, <5>2
      <4>4. ASSUME \A i \in DOMAIN sends' : ~Hears(i, c, u)'
            PROVE  told[c][u] = IF Served(u) = {} THEN "offline" ELSE "online"
        <5>1. \A i \in DOMAIN sends : ~Hears(i, c, u)
          BY <2>1, <3>1, <4>4
        <5> QED
          BY <2>4, <2>7, <4>1, <5>1 DEF PresenceOf
      <4> QED
        BY <4>3, <4>4
    <3> QED
      BY <3>2, <3>3
  <2>8. \A c, d \in Served(u) : c = d
    BY <2>4 DEF PresenceOf
  <2> QED
    BY <2>2, <2>4, <2>5, <2>7, <2>8 DEF PresenceOf
<1>7. ASSUME NEW i \in DOMAIN sends, NEW c \in Conns, Send(i, c) PROVE PresenceInv'
  <2>1. PICK f \in [DOMAIN sends' -> DOMAIN sends] :
            /\ \A j, k \in DOMAIN sends' : j < k => f[j] < f[k]
            /\ \A j \in DOMAIN sends' :
                  /\ sends'[j].what = sends[f[j]].what
                  /\ sends'[j].left = sends[f[j]].left \ (IF f[j] = i THEN {c} ELSE {})
            /\ \A k \in DOMAIN sends :
                  (k = i /\ sends[i].left = {c}) \/ \E j \in DOMAIN sends' : f[j] = k
    BY <1>7, SendShape
  <2>2. /\ c \in sends[i].left /\ \A j \in 1..(i - 1) : c \notin sends[j].left
        /\ UNCHANGED <<socket, user, tasks, watching, doubled>>
    BY <1>7 DEF Send, noted
  <2>3. DOMAIN sends \subseteq Nat \ {0} /\ DOMAIN sends' \subseteq Nat
    <3>1. sends' \in Seq(PushCalls)
      BY <1>7, SendShape
    <3>2. DOMAIN sends' = 1..Len(sends') /\ Len(sends') \in Nat
      BY <3>1, LenProperties
    <3>3. DOMAIN sends = 1..Len(sends) /\ Len(sends) \in Nat
      BY LenProperties DEF PushTypeOK
    <3> QED
      BY <3>2, <3>3
  <2>4. PICK t \in Pushes : t = sends[i].what
    BY PushElements
  <2> SUFFICES ASSUME NEW u \in Members \ doubled PROVE PresenceOf(u)'
    BY <2>2 DEF PresenceInv
  <2>5. Served(u)' = Served(u) /\ PresenceOf(u)
    BY <2>2 DEF Served, PresenceInv
  <2>6. ASSUME NEW d \in Conns, NEW j \in DOMAIN sends'
        PROVE  Hears(j, d, u)' <=> Hears(f[j], d, u) /\ ~(f[j] = i /\ d = c)
    BY <2>1 DEF Hears
  <2>7. ASSUME NEW d \in Conns, NEW k \in DOMAIN sends, Hears(k, d, u), ~(k = i /\ d = c)
        PROVE  \E j \in DOMAIN sends' : f[j] = k /\ Hears(j, d, u)'
    <3>1. PICK j \in DOMAIN sends' : f[j] = k
      BY <2>1, <2>7 DEF Hears
    <3> QED
      BY <2>6, <2>7, <3>1
  <2>8. ASSUME \A k \in DOMAIN tasks : ~About(tasks[k], u), NEW d \in watching[u], user[d] # u
        PROVE  /\ \A j \in DOMAIN sends' :
                     Hears(j, d, u)' /\ (\A k \in DOMAIN sends' : k > j => ~Hears(k, d, u)')
                     => (sends'[j].what.online <=> Served(u) # {})
               /\ (\A j \in DOMAIN sends' : ~Hears(j, d, u)')
                  => told'[d][u] = IF Served(u) = {} THEN "offline" ELSE "online"
    <3>0. d \in Conns /\ socket[d] = "open"
      BY DEF TableInv, PushTypeOK
    <3>1. ASSUME NEW j \in DOMAIN sends', Hears(j, d, u)',
                 \A k \in DOMAIN sends' : k > j => ~Hears(k, d, u)'
          PROVE  sends'[j].what.online <=> Served(u) # {}
      <4>1. f[j] \in DOMAIN sends /\ Hears(f[j], d, u) /\ ~(f[j] = i /\ d = c)
        BY <2>6, <3>0, <3>1
      <4>2. ASSUME NEW k \in DOMAIN sends, k > f[j], Hears(k, d, u) PROVE FALSE
        <5>1. CASE k = i /\ d = c
          <6>1. f[j] \in 1..(i - 1)
            BY <2>3, <4>1, <4>2, <5>1
          <6> QED
            BY <2>2, <4>1, <5>1, <6>1 DEF Hears
        <5>2. CASE ~(k = i /\ d = c)
          <6>1. PICK l \in DOMAIN sends' : f[l] = k /\ Hears(l, d, u)'
            BY <2>7, <3>0, <4>2, <5>2
          <6>2. l > j
            <7>1. l \in Nat /\ j \in Nat /\ f[l] \in Nat /\ f[j] \in Nat
              BY <2>3, <4>1, <6>1
            <7>2. ~(l < j)
              BY <2>1, <4>2, <6>1, <7>1
            <7>3. l # j
              BY <4>2, <6>1, <7>1
            <7> QED
              BY <7>1, <7>2, <7>3
          <6> QED
            BY <3>1, <6>1, <6>2
        <5> QED
          BY <5>1, <5>2
      <4>3. sends[f[j]].what.online <=> Served(u) # {}
        BY <2>5, <2>8, <4>1, <4>2 DEF PresenceOf
      <4> QED
        BY <2>1, <4>3
    <3>2. ASSUME \A j \in DOMAIN sends' : ~Hears(j, d, u)'
          PROVE  told'[d][u] = IF Served(u) = {} THEN "offline" ELSE "online"
      <4>1. \A k \in DOMAIN sends : Hears(k, d, u) => k = i /\ d = c
        BY <2>7, <3>0, <3>2
      <4>2. CASE d = c /\ Hears(i, c, u)
        <5>1. \A k \in DOMAIN sends : k > i => ~Hears(k, c, u)
          BY <2>3, <4>1, <4>2
        <5>2. t.online <=> Served(u) # {}
          BY <2>4, <2>5, <2>8, <4>2, <5>1 DEF PresenceOf
        <5>3. Deliver(c, t)
          BY <1>7, <2>4, <3>0, <4>2 DEF Send
        <5>4. t.message = 0 /\ t.about = u
          BY <2>4, <4>2 DEF Hears, About
        <5>5. told' = [told EXCEPT ![c][u] = IF t.online THEN "online" ELSE "offline"]
          BY <5>3, <5>4 DEF Deliver
        <5>6. told'[c][u] = IF t.online THEN "online" ELSE "offline"
          BY <5>5 DEF PushTypeOK
        <5> QED
          BY <4>2, <5>2, <5>6
      <4>3. CASE ~(d = c /\ Hears(i, c, u))
        <5>1. \A k \in DOMAIN sends : ~Hears(k, d, u)
          BY <4>1, <4>3
        <5>2. told[d][u] = IF Served(u) = {} THEN "offline" ELSE "online"
          BY <2>5, <2>8, <5>1 DEF PresenceOf
        <5>3. told'[d][u] = told[d][u]
          <6>1. CASE socket[c] # "open" \/ t.message # 0
            <7>1. UNCHANGED clientVars \/ Deliver(c, t)
              BY <1>7, <2>4 DEF Send
            <7>2. told' = told
              BY <1>7, <2>4, <6>1, <7>1 DEF Send, clientVars, Deliver
            <7> QED
              BY <7>2
          <6>2. CASE socket[c] = "open" /\ t.message = 0
            <7>1. told' = [told EXCEPT ![c][t.about] = IF t.online THEN "online" ELSE "offline"]
              BY <1>7, <2>4, <6>2 DEF Send, Deliver
            <7>2. ~(d = c /\ t.about = u)
              BY <2>2, <2>4, <4>3, <6>2 DEF Hears, About
            <7> QED
              BY <3>0, <7>1, <7>2 DEF PushTypeOK
          <6> QED
            BY <6>1, <6>2
        <5> QED
          BY <5>2, <5>3
      <4> QED
        BY <4>2, <4>3
    <3> QED
      BY <3>1, <3>2
  <2>9. /\ \A d, e \in Served(u) : d = e
        /\ \A k \in DOMAIN tasks :
              About(tasks[k], u) /\ (\A j \in DOMAIN tasks : j > k => ~About(tasks[j], u))
              => (tasks[k].online <=> Served(u) # {})
    BY <2>5 DEF PresenceOf
  <2> QED
    BY <2>2, <2>5, <2>8, <2>9 DEF PresenceOf
<1>8. ASSUME UNCHANGED pushVars PROVE PresenceInv'
  <2> SUFFICES ASSUME NEW u \in Members \ doubled PROVE PresenceOf(u)'
    BY <1>8 DEF PresenceInv, pushVars
  <2>1. Served(u)' = Served(u) /\ UNCHANGED <<tasks, sends, watching, user, told>> /\ PresenceOf(u)
    BY <1>8 DEF pushVars, Served, PresenceInv
  <2> QED
    BY <2>1, PresenceQuiet
<1> QED
  BY <1>1, <1>2, <1>3, <1>4, <1>5, <1>6, <1>7, <1>8 DEF PushNext

\* At the start nothing is under way.
LEMMA PushStart == PushInit => PushInv
<1> SUFFICES ASSUME PushInit PROVE PushInv
  OBVIOUS
<1>1. /\ socket = [c \in Conns |-> "none"] /\ user = [c \in Conns |-> CHOOSE u \in Members : TRUE]
      /\ registered = {} /\ tasks = <<>> /\ sends = <<>>
      /\ received = [c \in Conns |-> [m \in 1..MaxMessages |-> 0]]
      /\ told = [c \in Conns |-> [u \in Members |-> "unknown"]]
      /\ committed = 0 /\ present = [m \in 1..MaxMessages |-> {}]
      /\ watching = [u \in Members |-> {}] /\ doubled = {}
  BY DEF PushInit
<1>2. DOMAIN <<>> = {} /\ <<>> \in Seq(Pushes) /\ <<>> \in Seq(PushCalls)
  OBVIOUS
<1>3. PushTypeOK
  <2>1. DOMAIN user = Conns /\ user = [c \in Conns |-> user[c]]
    BY <1>1
  <2>2. committed \in 0..MaxMessages
    BY <1>1, PushAssumption
  <2> QED
    BY <1>1, <1>2, <2>1, <2>2 DEF PushTypeOK
<1>4. TableInv
  BY <1>1, <1>2 DEF TableInv
<1>5. OnceInv
  BY <1>1, <1>2 DEF OnceInv
<1>6. PresenceInv
  <2>1. \A u \in Members : Served(u) = {} /\ watching[u] = {}
    BY <1>1 DEF Served
  <2> QED
    BY <1>1, <1>2, <2>1 DEF PresenceInv, PresenceOf
<1> QED
  BY <1>3, <1>4, <1>5, <1>6 DEF PushInv

\* The invariant of the connections, the broadcasts and the sends.
THEOREM PushInvariant == PushSpec => []PushInv
<1>1. PushInv /\ [PushNext]_pushVars => PushInv'
  BY PushTypes, TableStep, OnceStep, PresenceStep DEF PushInv
<1> QED
  BY <1>1, PushStart, PTL DEF PushSpec

\* A message committed while a connection was open is pushed to it exactly once, whatever waits,
\* fails and overtakes.
THEOREM EachPushedOnce == PushSpec => []PushedOnce
<1>1. PushInv => PushedOnce
  <2> SUFFICES ASSUME PushInv PROVE PushedOnce
    OBVIOUS
  <2>1. \A c \in Conns, m \in 1..MaxMessages : received[c][m] <= 1
    BY DEF PushInv, OnceInv
  <2>2. ASSUME Settled, NEW c \in Conns, NEW m \in 1..MaxMessages, c \in present[m]
        PROVE  received[c][m] = 1
    <3>1. DOMAIN tasks = {} /\ DOMAIN sends = {}
      BY <2>2 DEF Settled
    <3>2. ~Coming(c, m)
      BY <3>1 DEF Coming
    <3> QED
      BY <2>2, <3>2 DEF PushInv, OnceInv
  <2> QED
    BY <2>1, <2>2 DEF PushedOnce, PushInv, TableInv
<1> QED
  BY <1>1, PushInvariant, PTL

\* The last presence that a connection was told of a user is the true one, of a user who never had
\* two handlers at once.
THEOREM PresencesSettle == PushSpec => []PresenceSettles
<1>1. PushInv => PresenceSettles
  <2> SUFFICES ASSUME PushInv, Settled, NEW u \in Members \ doubled, NEW c \in watching[u], user[c] # u
               PROVE  told[c][u] = IF Served(u) = {} THEN "offline" ELSE "online"
    BY DEF PresenceSettles
  <2>1. DOMAIN tasks = {} /\ DOMAIN sends = {}
    BY DEF Settled
  <2> QED
    BY <2>1 DEF PushInv, PresenceInv, PresenceOf
<1> QED
  BY <1>1, PushInvariant, PTL
=============================================================================
