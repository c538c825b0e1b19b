--------------------------- MODULE WhisperAccounts ---------------------------
(***************************************************************************)
(* Accounts and tokens of the whisper backend: auth_router.py, auth.py,    *)
(* update_me of users_router.py, the reset, and the migration of the       *)
(* database of an older backend (init_db).                                 *)
(*                                                                         *)
(* No handler awaits between its statements, so each is one step.          *)
(***************************************************************************)
EXTENDS Naturals, FiniteSets

CONSTANTS Phones, Handles, Passwords,
          Names,        \* display names
          VictimNames,  \* those that begin with "Whisper Victim"
          CtfMode,      \* CTF_MODE
          OldRow,       \* a row of an older database: [phone, handle, name]
          TokenTtl,     \* TOKEN_TTL, in units of the clock
          MaxIds,       \* bound on the accounts ever made
          MaxTokens,    \* bound on the tokens
          MaxNow        \* bound on the clock

VARIABLES
    users,     \* rows of users: [id, phone, handle, name, hash, victim];
               \* hash is the password it was made from, or "none"
    tokens,    \* rows of sessions: [token, user, expires]
    ids,       \* accounts made so far; ids are uuids
    granted,    \* tokens made so far: [token, user, phone, typed], the last
               \* two being what the client sent
    now,
    founder    \* who opened the account of a phone: [phone, hash, id]

accountVars == <<users, tokens, ids, granted, now, founder>>

User(id, phone, handle, name, hash, victim) ==
    [id |-> id, phone |-> phone, handle |-> handle, name |-> name, hash |-> hash,
     victim |-> victim]

-----------------------------------------------------------------------------
\* verify_password: a row without a hash matches nothing.
VerifyPassword(password, u) == u.hash # "none" /\ u.hash = password

\* create_token.
CreateToken(id, phone, password) ==
    LET t == Cardinality(granted) + 1
    IN  /\ tokens' = tokens \cup {[token |-> t, user |-> id, expires |-> now + TokenTtl]}
        /\ granted' = granted \cup {[token |-> t, user |-> id, phone |-> phone, typed |-> password]}

\* get_user_id_from_token, require_auth.
Authorised(id) == \E t \in tokens : t.user = id /\ now <= t.expires

\* register: a new phone needs a free handle.
RegisterNew(phone, password, handle, name, victim) ==
    /\ \A u \in users : u.phone # phone /\ u.handle # handle
    /\ ids < MaxIds /\ Cardinality(granted) < MaxTokens
    /\ LET id == ids + 1
       IN  /\ users' = users \cup {User(id, phone, handle, name, password,
                                        victim \/ (CtfMode /\ name \in VictimNames))}
           /\ founder' = founder \cup {[phone |-> phone, hash |-> password, id |-> id]}
           /\ ids' = id
           /\ CreateToken(id, phone, password)
    /\ UNCHANGED now

\* Mutant: a known phone is logged in.
RegisterAnyway(phone, password) ==
    /\ Cardinality(granted) < MaxTokens
    /\ \E u \in users :
           /\ u.phone = phone
           /\ CreateToken(u.id, phone, password)
    /\ UNCHANGED <<users, ids, now, founder>>

\* register with a known phone: a login, or 409.
RegisterKnown(phone, password) ==
    /\ Cardinality(granted) < MaxTokens
    /\ \E u \in users :
           /\ u.phone = phone /\ VerifyPassword(password, u)
           /\ CreateToken(u.id, phone, password)
    /\ UNCHANGED <<users, ids, now, founder>>

\* login: 404 and 401 change nothing.
LogIn(phone, password) ==
    /\ Cardinality(granted) < MaxTokens
    /\ \E u \in users :
           /\ u.phone = phone /\ VerifyPassword(password, u)
           /\ CreateToken(u.id, phone, password)
    /\ UNCHANGED <<users, ids, now, founder>>

\* logout: every token of the user.
LogOutAll(id) ==
    /\ Authorised(id)
    /\ tokens' = {t \in tokens : t.user # id}
    /\ UNCHANGED <<users, ids, granted, now, founder>>

\* update_me: the display name; neither handle nor phone can be changed, nor
\* is_victim, which followed from the name at first.
UpdateMe(id, name) ==
    /\ Authorised(id)
    /\ users' = {IF u.id = id THEN [u EXCEPT !.name = name] ELSE u : u \in users}
    /\ UNCHANGED <<tokens, ids, granted, now, founder>>

Tick ==
    /\ now < MaxNow
    /\ now' = now + 1
    /\ UNCHANGED <<users, tokens, ids, granted, founder>>

\* /admin/reset.
AdminReset ==
    /\ users # {}
    /\ users' = {} /\ tokens' = {} /\ founder' = {}
    /\ UNCHANGED <<ids, granted, now>>

-----------------------------------------------------------------------------
\* init_db: the columns an older database lacks get their defaults.
Migrated == {User(1, OldRow.phone, OldRow.handle, OldRow.name, "none", FALSE)}

AccountsInit ==
    /\ users \in {{}, Migrated}
    /\ ids = Cardinality(users)
    /\ tokens = {} /\ granted = {} /\ now = 0
    /\ founder = {}

AccountsNext ==
    \/ \E phone \in Phones, password \in Passwords :
           \/ RegisterKnown(phone, password) \/ LogIn(phone, password)
           \/ \E handle \in Handles, name \in Names, victim \in BOOLEAN :
                  RegisterNew(phone, password, handle, name, victim)
    \/ \E id \in 1..MaxIds : LogOutAll(id) \/ \E name \in Names : UpdateMe(id, name)
    \/ Tick \/ AdminReset

AccountsSpec == AccountsInit /\ [][AccountsNext]_accountVars

-----------------------------------------------------------------------------
\* The token one holds is for one's own account.  A token that is accepted
\* belongs to a user that exists, and was given for the phone and the password
\* with which that account was opened, however registrations, logins, logouts
\* and resets came before (auth_router.py:51 lets a registration log in); the
\* phone's new account after a reset does not accept the tokens of the old one,
\* and rows of an older database, which have no hash, give none.
AccountsStand ==
    \A t \in tokens : now <= t.expires =>
        \E u \in users : /\ u.id = t.user
                         /\ \A i \in granted : i.token = t.token =>
                                /\ i.phone = u.phone
                                /\ [phone |-> u.phone, hash |-> i.typed, id |-> u.id] \in founder
=============================================================================
