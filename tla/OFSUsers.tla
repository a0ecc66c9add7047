---------------------------- MODULE OFSUsers ----------------------------
(*************************************************************************)
(* Accounts and sessions of the OMNI file system (core/ofs_core.cpp):    *)
(* the user table, the name index that is kept beside it, the sessions,  *)
(* and the copy of the user table in the image file that a restart       *)
(* reads.  One action is one whole call; a call that returns early       *)
(* changes nothing and is no step.                                       *)
(*************************************************************************)
EXTENDS Naturals

CONSTANTS
    MaxUsers,      \* max_users: slots of the user table
    UserName,      \* the names clients use and the names the table can store
    Stored,        \* UserInfo's constructor: a name cut to 31 bytes
    Password,      \* the passwords clients send
    placeholder_hash,  \* the hash of a password; two may share one
    AdminName,     \* admin_username of the configuration
    AdminPassword, \* admin_password of the configuration
    Session        \* session ids; their number bounds the open sessions

NORMAL == 0
ADMIN  == 1

Slot == 0 .. MaxUsers - 1

ASSUME MaxUsersAssumption == MaxUsers \in Nat \ {0}
ASSUME StoredAssumption == Stored \in [UserName -> UserName]
ASSUME AdminAssumption == AdminName \in UserName /\ AdminPassword \in Password
ASSUME PasswordAssumption == DOMAIN placeholder_hash = Password

VARIABLES
    users,       \* inst->users
    user_index,  \* inst->user_index: name -> slot
    sessions,    \* inst->sessions: id -> the copy of UserInfo made at login
    image        \* the user table in the image file

vars == <<users, user_index, sessions, image>>

Hash == {placeholder_hash[p] : p \in Password}

UserInfo == [username : UserName \cup {""}, password_hash : Hash \cup {""},
             role : {NORMAL, ADMIN}, is_active : {0, 1}]

NoUser == [username |-> "", password_hash |-> "", role |-> NORMAL, is_active |-> 0]

NewUser(name, password, role) ==
    [username |-> Stored[name], password_hash |-> placeholder_hash[password],
     role |-> role, is_active |-> 1]

\* The slot a scan from below meets first.
First(S) == {i \in S : \A j \in S : i <= j}

Active(table) == {i \in Slot : table[i].is_active = 1}
Names(table)  == {table[i].username : i \in Active(table)}

\* The index fs_init builds by inserting the active slots in ascending order:
\* of two slots with one name the higher is kept.
IndexOf(table) ==
    [n \in Names(table) |->
        CHOOSE i \in Active(table) :
            /\ table[i].username = n
            /\ \A j \in Active(table) : table[j].username = n => j <= i]

-----------------------------------------------------------------------------
(* fs_format followed by fs_init. *)
Init ==
    /\ users = [i \in Slot |-> IF i = 0 THEN NewUser(AdminName, AdminPassword, ADMIN)
                                        ELSE NoUser]
    /\ user_index = IndexOf(users)
    /\ sessions = [s \in {} |-> NoUser]
    /\ image = users

\* SimpleHashMap::insert, which overwrites, and SimpleHashMap::erase.
Insert(map, k, v) == [x \in DOMAIN map \cup {k} |-> IF x = k THEN v ELSE map[x]]
Erase(map, k)     == [x \in DOMAIN map \ {k} |-> map[x]]

\* Faulty: the table is not written.
persist_nothing(table) == image' = image

persist_user_table(table) == image' = table

\* The slot user_login takes: by the index, or else the first active slot of
\* that name.
Account(name) ==
    IF name \in DOMAIN user_index
    THEN {user_index[name]}
    ELSE First({i \in Active(users) : users[i].username = name})

\* user_login.  The session holds a copy of the account.
user_login(s, name, password) ==
    /\ s \notin DOMAIN sessions
    /\ \E i \in Account(name) :
          /\ users[i].is_active = 1
          /\ users[i].password_hash = placeholder_hash[password]
          /\ sessions' = Insert(sessions, s, users[i])
    /\ persist_user_table(users)
    /\ UNCHANGED <<users, user_index>>

user_logout(s) ==
    /\ s \in DOMAIN sessions
    /\ sessions' = Erase(sessions, s)
    /\ UNCHANGED <<users, user_index, image>>

\* The role is the one of the copy made at login.
IsAdmin(s) == s \in DOMAIN sessions /\ sessions[s].role = ADMIN

\* Faulty: the name is entered as sent; slots are counted from 1; no name is
\* entered.
enter_as_sent(name, i) == user_index' = Insert(user_index, name, i)
enter_shifted(name, i) == user_index' = Insert(user_index, Stored[name], i + 1)
enter_nothing(name, i) == UNCHANGED user_index

\* The index entry of a new account.
enter(name, i) == user_index' = Insert(user_index, Stored[name], i)

\* user_create: the name is looked up as sent and entered as stored.
user_create(s, name, password, role) ==
    /\ IsAdmin(s)
    /\ name \notin DOMAIN user_index
    /\ \E i \in First(Slot \ Active(users)) :
          /\ users' = [users EXCEPT ![i] = NewUser(name, password, role)]
          /\ enter(name, i)
    /\ persist_user_table(users')
    /\ UNCHANGED sessions

\* user_delete: the slot keeps its name, the user's sessions live on.
user_delete(s, name) ==
    /\ IsAdmin(s)
    /\ name \in DOMAIN user_index
    /\ users' = [users EXCEPT ![user_index[name]].is_active = 0]
    /\ persist_user_table(users')
    /\ user_index' = Erase(user_index, name)
    /\ UNCHANGED sessions

\* fs_init reads the table of the image.
fs_init(table) ==
    /\ users' = table
    /\ user_index' = IndexOf(table)
    /\ sessions' = [s \in {} |-> NoUser]

\* fs_shutdown writes the table before the next fs_init reads it.
fs_shutdown == persist_user_table(users) /\ fs_init(users)
\* The process ends without fs_shutdown.
crash == fs_init(image) /\ UNCHANGED image

Next ==
    \/ \E s \in Session, n \in UserName, p \in Password : user_login(s, n, p)
    \/ \E s \in Session : user_logout(s)
    \/ \E s \in Session, n \in UserName, p \in Password, r \in {NORMAL, ADMIN} :
          user_create(s, n, p, r)
    \/ \E s \in Session, n \in UserName : user_delete(s, n)
    \/ fs_shutdown
    \/ crash

Spec == Init /\ [][Next]_vars

-----------------------------------------------------------------------------
(* Properties. *)

\* Type invariant: slots, sessions and the image hold accounts; every value of
\* the index is a slot of the table.
TypeOK ==
    /\ users \in [Slot -> UserInfo]
    /\ user_index \in [DOMAIN user_index -> Slot] /\ DOMAIN user_index \subseteq UserName
    /\ sessions \in [DOMAIN sessions -> UserInfo] /\ DOMAIN sessions \subseteq Session
    /\ image \in [Slot -> UserInfo]

\* Whatever names clients send, too long ones included, the index leads to an
\* active account of exactly that name: user_login cannot open a session of
\* another account, nor user_delete remove one, after any mix of creations,
\* deletions and restarts that recycle slots.
IndexSound ==
    \A n \in DOMAIN user_index : /\ user_index[n] \in Active(users)
                                 /\ users[user_index[n]].username = n

\* The names the table keeps whole and cuts no other name to.
Own == {n \in UserName : \A m \in UserName : Stored[m] = n <=> m = n}

\* Every account under a name of its own is the one the index that user_create
\* and user_delete keep leads to: it can be found and deleted by its name, and no
\* second active account has that name, whatever accounts with names too long
\* for the table are created, deleted and restarted beside it.
IndexIsTable ==
    \A i \in Active(users) :
       LET n == users[i].username
       IN  n \in Own => n \in DOMAIN user_index /\ user_index[n] = i

\* A restart, clean or not, changes no account, nor what the index says of a
\* name of its own: user_create and user_delete write the table before they
\* return.
RestartKeepsAccounts ==
    [][ fs_shutdown \/ crash =>
          /\ users' = users
          /\ \A n \in Own : /\ n \in DOMAIN user_index' <=> n \in DOMAIN user_index
                            /\ n \in DOMAIN user_index => user_index'[n] = user_index[n] ]_vars
==========================================================================
