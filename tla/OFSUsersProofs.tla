------------------------- MODULE OFSUsersProofs -------------------------
(*************************************************************************)
(* What the name index of OFSUsers promises, for every number of slots,  *)
(* every set of names and every sequence of calls and restarts.          *)
(*************************************************************************)
EXTENDS OFSUsers, TLAPS, WellFoundedInduction

\* A nonempty set of slots has a greatest member, so the CHOOSE of IndexOf
\* always finds the slot the insertion loop of fs_init leaves in the index.
LEMMA HighestSlot ==
  ASSUME NEW S \in SUBSET Slot, S # {}
  PROVE  \E i \in S : \A j \in S : j <= i
<1> DEFINE T == {MaxUsers - i : i \in S}
           R == OpToRel(<, Nat)
<1>1. \A i \in S : i \in Nat /\ MaxUsers - i \in Nat
  BY MaxUsersAssumption DEF Slot
<1>2. T \in SUBSET Nat /\ T # {}
  <2>1. PICK i \in S : TRUE
    OBVIOUS
  <2>2. MaxUsers - i \in T
    OBVIOUS
  <2> QED
    BY <1>1, <2>2, Zenon
<1>3. \A x, y \in Nat : y < x => <<y, x>> \in R
  BY DEF OpToRel
<1>4. IsWellFoundedOn(R, Nat)
  BY NatLessThanWellFounded
<1> HIDE DEF R, T
<1>5. PICK t \in T : \A u \in T : ~ (<<u, t>> \in R)
  BY <1>2, <1>4, WFMin, Zenon
<1>6. PICK i \in S : t = MaxUsers - i
  BY DEF T
<1>7. ASSUME NEW j \in S PROVE j <= i
  <2>1. MaxUsers - j \in T
    BY DEF T
  <2>2. ~ (MaxUsers - j < MaxUsers - i)
    BY <1>1, <1>3, <1>5, <1>6, <2>1
  <2> QED
    BY <1>1, <2>2, MaxUsersAssumption
<1> QED
  BY <1>7

\* The index fs_init builds has an entry for every name in use, and each leads
\* to an active slot of that name.
LEMMA Rebuilt ==
  ASSUME NEW table \in [Slot -> UserInfo]
  PROVE  /\ DOMAIN IndexOf(table) = Names(table)
         /\ \A n \in Names(table) : /\ IndexOf(table)[n] \in Active(table)
                                    /\ table[IndexOf(table)[n]].username = n
<1>1. ASSUME NEW n \in Names(table)
      PROVE  IndexOf(table)[n] \in Active(table) /\ table[IndexOf(table)[n]].username = n
  <2> DEFINE S == {i \in Active(table) : table[i].username = n}
             P(i) == /\ table[i].username = n
                     /\ \A j \in Active(table) : table[j].username = n => j <= i
  <2>1. S \in SUBSET Slot /\ S # {}
    BY DEF Names, Active
  <2>2. PICK i \in S : \A j \in S : j <= i
    BY <2>1, HighestSlot
  <2>3. i \in Active(table) /\ P(i)
    BY <2>2
  <2>4. IndexOf(table)[n] = CHOOSE k \in Active(table) : P(k)
    BY <1>1 DEF IndexOf
  <2> HIDE DEF P
  <2>5. P(IndexOf(table)[n]) /\ IndexOf(table)[n] \in Active(table)
    BY <2>3, <2>4
  <2> QED
    BY <2>5 DEF P
<1> QED
  BY <1>1 DEF IndexOf

-----------------------------------------------------------------------------
(* The index leads to active accounts of the right name. *)

Tables == users \in [Slot -> UserInfo] /\ image \in [Slot -> UserInfo]

LEMMA NewUserType ==
  ASSUME NEW n \in UserName, NEW p \in Password, NEW r \in {NORMAL, ADMIN}
  PROVE  /\ NewUser(n, p, r) \in UserInfo
         /\ NewUser(n, p, r).username = Stored[n] /\ NewUser(n, p, r).is_active = 1
  BY StoredAssumption DEF NewUser, UserInfo, Hash

LEMMA SoundInit == Init => Tables /\ IndexSound
<1> SUFFICES ASSUME Init PROVE Tables /\ IndexSound
  OBVIOUS
<1>1. NewUser(AdminName, AdminPassword, ADMIN) \in UserInfo /\ NoUser \in UserInfo
  BY NewUserType, AdminAssumption DEF NoUser, UserInfo
<1>2. Tables
  BY <1>1 DEF Init, Tables
<1> QED
  BY <1>2, Rebuilt DEF Init, Tables, IndexSound

\* A new account takes an inactive slot, which no index entry leads to.
LEMMA SoundCreate ==
  ASSUME Tables, IndexSound, NEW s \in Session, NEW n \in UserName, NEW p \in Password,
         NEW r \in {NORMAL, ADMIN}, user_create(s, n, p, r)
  PROVE  Tables' /\ IndexSound'
<1>1. PICK i \in First(Slot \ Active(users)) :
         /\ users' = [users EXCEPT ![i] = NewUser(n, p, r)]
         /\ user_index' = Insert(user_index, Stored[n], i)
  BY DEF user_create, enter
<1>2. i \in Slot /\ i \notin Active(users)
  BY <1>1 DEF First
<1>3. Tables'
  BY <1>1, <1>2, NewUserType DEF Tables, user_create, persist_user_table
<1>4. users'[i].username = Stored[n] /\ i \in Active(users')
  BY <1>1, <1>2, NewUserType DEF Tables, Active
<1>5. \A j \in Slot \ {i} : users'[j] = users[j]
  BY <1>1 DEF Tables
<1>6. ASSUME NEW m \in DOMAIN user_index'
      PROVE  user_index'[m] \in Active(users') /\ users'[user_index'[m]].username = m
  <2>1. CASE m = Stored[n]
    BY <1>1, <1>4, <2>1 DEF Insert
  <2>2. CASE m # Stored[n]
    <3>1. m \in DOMAIN user_index /\ user_index'[m] = user_index[m]
      BY <1>1, <1>6, <2>2 DEF Insert
    <3>2. user_index[m] \in Active(users) /\ users[user_index[m]].username = m
      BY <3>1 DEF IndexSound
    <3> QED
      BY <1>2, <1>5, <3>1, <3>2 DEF Active
  <2> QED
    BY <2>1, <2>2
<1> QED
  BY <1>3, <1>6 DEF IndexSound

\* The slot a deletion frees is the one of the erased name only.
LEMMA SoundDelete ==
  ASSUME Tables, IndexSound, NEW s \in Session, NEW n \in UserName, user_delete(s, n)
  PROVE  Tables' /\ IndexSound'
<1> DEFINE i == user_index[n]
<1>1. i \in Slot /\ users[i].username = n
  BY DEF user_delete, IndexSound, Active
<1>2. [users[i] EXCEPT !.is_active = 0] \in UserInfo
  <2>1. users[i] \in UserInfo
    BY <1>1 DEF Tables
  <2> HIDE DEF i
  <2>2. \A u \in UserInfo : [u EXCEPT !.is_active = 0] \in UserInfo
    BY DEF UserInfo
  <2> QED
    BY <2>1, <2>2
<1>3. Tables'
  BY <1>1, <1>2 DEF Tables, user_delete, persist_user_table
<1>4. \A j \in Slot \ {i} : users'[j] = users[j]
  <2>1. users' = [users EXCEPT ![i] = [users[i] EXCEPT !.is_active = 0]]
    BY DEF user_delete
  <2> HIDE DEF i
  <2> QED
    BY <1>1, <2>1 DEF Tables
<1>5. ASSUME NEW m \in DOMAIN user_index'
      PROVE  user_index'[m] \in Active(users') /\ users'[user_index'[m]].username = m
  <2>1. m \in DOMAIN user_index /\ m # n /\ user_index'[m] = user_index[m]
    BY <1>5 DEF user_delete, Erase
  <2>2. user_index[m] \in Active(users) /\ users[user_index[m]].username = m
    BY <2>1 DEF IndexSound
  <2>3. user_index[m] # i
    BY <1>1, <2>1, <2>2
  <2> QED
    BY <1>4, <2>1, <2>2, <2>3 DEF Active
<1> QED
  BY <1>3, <1>5 DEF IndexSound

LEMMA SoundNext == Tables /\ IndexSound /\ [Next]_vars => Tables' /\ IndexSound'
<1> SUFFICES ASSUME Tables, IndexSound, [Next]_vars PROVE Tables' /\ IndexSound'
  OBVIOUS
<1>1. CASE UNCHANGED vars
  BY <1>1 DEF vars, Tables, IndexSound, Active
<1>2. ASSUME NEW s \in Session, NEW n \in UserName, NEW p \in Password, user_login(s, n, p)
      PROVE  Tables' /\ IndexSound'
  BY <1>2 DEF user_login, persist_user_table, Tables, IndexSound, Active
<1>3. ASSUME NEW s \in Session, user_logout(s) PROVE Tables' /\ IndexSound'
  BY <1>3 DEF user_logout, Tables, IndexSound, Active
<1>4. ASSUME NEW s \in Session, NEW n \in UserName, NEW p \in Password,
             NEW r \in {NORMAL, ADMIN}, user_create(s, n, p, r)
      PROVE  Tables' /\ IndexSound'
  BY <1>4, SoundCreate
<1>5. ASSUME NEW s \in Session, NEW n \in UserName, user_delete(s, n)
      PROVE  Tables' /\ IndexSound'
  BY <1>5, SoundDelete
<1>6. CASE fs_shutdown
  <2>1. users' = users /\ image' = users /\ user_index' = IndexOf(users)
    BY <1>6 DEF fs_shutdown, fs_init, persist_user_table
  <2> QED
    BY <2>1, Rebuilt DEF Tables, IndexSound
<1>7. CASE crash
  <2>1. users' = image /\ image' = image /\ user_index' = IndexOf(image)
    BY <1>7 DEF crash, fs_init
  <2> QED
    BY <2>1, Rebuilt DEF Tables, IndexSound
<1> QED
  BY <1>1, <1>2, <1>3, <1>4, <1>5, <1>6, <1>7 DEF Next

\* Whatever names clients send, the index leads to an active account of exactly
\* that name: user_login opens, and user_delete closes, no other account.
THEOREM IndexSoundCorrect == Spec => []IndexSound
<1>1. Init => Tables /\ IndexSound
  BY SoundInit
<1>2. Tables /\ IndexSound /\ [Next]_vars => Tables' /\ IndexSound'
  BY SoundNext
<1> QED
  BY <1>1, <1>2, PTL DEF Spec

-----------------------------------------------------------------------------
(* Types, and the names the table keeps whole: the index is the table's,    *)
(* whatever was created, deleted and restarted beside them.                  *)

Named == \A i \in Active(users) : users[i].username \in UserName

OwnInv == /\ TypeOK /\ IndexSound
          /\ image = users
          /\ Named /\ IndexIsTable

\* An index just rebuilt is a function from names to slots.
LEMMA RebuiltType ==
  ASSUME NEW table \in [Slot -> UserInfo]
  PROVE  IndexOf(table) \in [DOMAIN IndexOf(table) -> Slot]
<1>1. \A n \in Names(table) : IndexOf(table)[n] \in Slot
  BY Rebuilt DEF Active
<1>2. IndexOf(table) = [n \in Names(table) |-> IndexOf(table)[n]]
  BY DEF IndexOf
<1> QED
  BY <1>1, <1>2

\* Where the table holds a name of its own once, a rebuilt index leads to it.
LEMMA OwnRebuilt ==
  ASSUME users \in [Slot -> UserInfo], image = users, Named,
         sessions \in [DOMAIN sessions -> UserInfo] /\ DOMAIN sessions \subseteq Session,
         user_index = IndexOf(users),
         \A i, j \in Active(users) :
            users[i].username = users[j].username /\ users[i].username \in Own => i = j
  PROVE  OwnInv
<1>1. /\ DOMAIN user_index = Names(users)
      /\ \A n \in Names(users) : /\ user_index[n] \in Active(users)
                                 /\ users[user_index[n]].username = n
  BY Rebuilt
<1>2. TypeOK
  <2>1. user_index \in [DOMAIN user_index -> Slot]
    BY RebuiltType
  <2>2. DOMAIN user_index \subseteq UserName
    BY <1>1 DEF Names, Named
  <2> QED
    BY <2>1, <2>2 DEF TypeOK
<1>3. IndexIsTable
  <2> SUFFICES ASSUME NEW i \in Active(users), users[i].username \in Own
               PROVE  /\ users[i].username \in DOMAIN user_index
                      /\ user_index[users[i].username] = i
    BY DEF IndexIsTable
  <2>1. users[i].username \in Names(users)
    BY DEF Names
  <2> QED
    BY <1>1, <2>1
<1> QED
  BY <1>1, <1>2, <1>3 DEF OwnInv, IndexSound

LEMMA OwnInit == Init => OwnInv
<1> SUFFICES ASSUME Init PROVE OwnInv
  OBVIOUS
<1>1. Tables
  BY SoundInit
<1>2. \A i \in Active(users) : i = 0
  <2>1. \A i \in Slot \ {0} : users[i] = NoUser
    BY DEF Init
  <2>2. NoUser.is_active = 0
    BY DEF NoUser
  <2> QED
    BY <2>1, <2>2 DEF Active
<1>3. Named
  <2>1. 0 \in Slot
    BY MaxUsersAssumption DEF Slot
  <2>2. users[0].username = Stored[AdminName]
    BY <2>1, NewUserType, AdminAssumption DEF Init
  <2> QED
    BY <1>2, <2>2, StoredAssumption, AdminAssumption DEF Named
<1>4. sessions \in [DOMAIN sessions -> UserInfo] /\ DOMAIN sessions = {}
  BY DEF Init
<1> QED
  BY <1>1, <1>2, <1>3, <1>4, OwnRebuilt DEF Init, Tables

\* The session a login opens holds an account of the table.
LEMMA OwnLogin ==
  ASSUME OwnInv, NEW s \in Session, NEW n \in UserName, NEW p \in Password,
         user_login(s, n, p)
  PROVE  OwnInv'
<1>1. PICK i \in Account(n) : sessions' = Insert(sessions, s, users[i])
  BY DEF user_login
<1>2. i \in Slot
  BY <1>1 DEF Account, First, Active, OwnInv, TypeOK
<1>3. users[i] \in UserInfo
  BY <1>2 DEF OwnInv, TypeOK
<1>4. /\ sessions' \in [DOMAIN sessions' -> UserInfo]
      /\ DOMAIN sessions' \subseteq Session
  BY <1>1, <1>3 DEF Insert, OwnInv, TypeOK
<1> QED
  BY <1>4 DEF user_login, persist_user_table, OwnInv, TypeOK, IndexSound, Named,
              IndexIsTable, Active

\* A name of its own is cut from no other: the lookup of the name as sent sees
\* the account that has it.
LEMMA OwnCreate ==
  ASSUME OwnInv, NEW s \in Session, NEW n \in UserName, NEW p \in Password,
         NEW r \in {NORMAL, ADMIN}, user_create(s, n, p, r)
  PROVE  OwnInv'
<1>1. PICK i \in First(Slot \ Active(users)) :
         /\ users' = [users EXCEPT ![i] = NewUser(n, p, r)]
         /\ user_index' = Insert(user_index, Stored[n], i)
  BY DEF user_create, enter
<1>2. i \in Slot /\ i \notin Active(users)
  BY <1>1 DEF First
<1>3. Tables' /\ IndexSound'
  BY SoundCreate DEF OwnInv, TypeOK, Tables
<1>4. /\ users'[i].username = Stored[n] /\ Stored[n] \in UserName
      /\ \A j \in Slot \ {i} : users'[j] = users[j]
  BY <1>1, <1>2, NewUserType, StoredAssumption DEF OwnInv, TypeOK
<1>5. \A j \in Active(users') : j # i => j \in Active(users) /\ users'[j] = users[j]
  BY <1>4 DEF Active
<1>6. TypeOK'
  <2>1. /\ user_index' \in [DOMAIN user_index' -> Slot]
        /\ DOMAIN user_index' \subseteq UserName
    BY <1>1, <1>2, <1>4 DEF Insert, OwnInv, TypeOK
  <2>2. sessions' = sessions
    BY DEF user_create
  <2> QED
    BY <1>3, <2>1, <2>2 DEF Tables, TypeOK, OwnInv
<1>7. Named'
  BY <1>4, <1>5 DEF Named, OwnInv
<1>8. IndexIsTable'
  <2> SUFFICES ASSUME NEW j \in Active(users'), users'[j].username \in Own
               PROVE  /\ users'[j].username \in DOMAIN user_index'
                      /\ user_index'[users'[j].username] = j
    BY DEF IndexIsTable
  <2>1. CASE j = i
    BY <1>1, <1>4, <2>1 DEF Insert
  <2>2. CASE j # i
    <3> DEFINE m == users'[j].username
    <3>1. j \in Active(users) /\ m = users[j].username
      BY <1>5, <2>2
    <3>2. m \in DOMAIN user_index /\ user_index[m] = j
      BY <3>1 DEF OwnInv, IndexIsTable
    <3>3. m # Stored[n]
      <4>1. n \notin DOMAIN user_index
        BY DEF user_create
      <4>2. Stored[n] = m => n = m
        BY DEF Own
      <4> QED
        BY <3>2, <4>1, <4>2
    <3> QED
      BY <1>1, <3>2, <3>3 DEF Insert
  <2> QED
    BY <2>1, <2>2
<1>9. image' = users'
  BY DEF user_create, persist_user_table
<1> QED
  BY <1>3, <1>6, <1>7, <1>8, <1>9 DEF OwnInv

LEMMA OwnDelete ==
  ASSUME OwnInv, NEW s \in Session, NEW n \in UserName, user_delete(s, n)
  PROVE  OwnInv'
<1> DEFINE i == user_index[n]
<1>1. i \in Active(users) /\ users[i].username = n
  BY DEF user_delete, OwnInv, IndexSound
<1>2. Tables' /\ IndexSound'
  BY SoundDelete DEF OwnInv, TypeOK, Tables
<1>3. users' = [users EXCEPT ![i] = [users[i] EXCEPT !.is_active = 0]]
  BY DEF user_delete
<1>4. users[i] \in UserInfo /\ i \in Slot
  BY <1>1 DEF OwnInv, TypeOK, Active
<1>5. user_index' = Erase(user_index, n) /\ sessions' = sessions /\ image' = users'
  BY DEF user_delete, persist_user_table
<1> HIDE DEF i
<1>6. users'[i].is_active = 0
  <2>1. users'[i] = [users[i] EXCEPT !.is_active = 0]
    BY <1>3, <1>4 DEF OwnInv, TypeOK
  <2> QED
    BY <1>4, <2>1 DEF UserInfo
<1>7. \A j \in Active(users') : j # i /\ j \in Active(users) /\ users'[j] = users[j]
  BY <1>3, <1>6 DEF OwnInv, TypeOK, Active
<1>8. TypeOK'
  BY <1>2, <1>5 DEF Tables, TypeOK, OwnInv, Erase
<1>9. Named'
  BY <1>7 DEF Named, OwnInv
<1>10. IndexIsTable'
  <2> SUFFICES ASSUME NEW j \in Active(users'), users'[j].username \in Own
               PROVE  /\ users'[j].username \in DOMAIN user_index'
                      /\ user_index'[users'[j].username] = j
    BY DEF IndexIsTable
  <2> DEFINE m == users'[j].username
  <2>1. j # i /\ m \in DOMAIN user_index /\ user_index[m] = j
    BY <1>7 DEF OwnInv, IndexIsTable
  <2>2. m # n
    BY <2>1 DEF i
  <2> QED
    BY <1>5, <2>1, <2>2 DEF Erase
<1> QED
  BY <1>2, <1>5, <1>8, <1>9, <1>10 DEF OwnInv

\* What a restart does, clean or not.
Restarted == /\ users' = users /\ image' = users
             /\ user_index' = IndexOf(users) /\ sessions' = [s \in {} |-> NoUser]

LEMMA RestartedStep == OwnInv /\ (fs_shutdown \/ crash) => Restarted
  BY DEF OwnInv, fs_shutdown, crash, fs_init, persist_user_table, Restarted

LEMMA OwnRestart ==
  ASSUME OwnInv, Restarted
  PROVE  OwnInv'
<1>1. users' \in [Slot -> UserInfo] /\ image' = users' /\ user_index' = IndexOf(users')
  BY DEF Restarted, OwnInv, TypeOK
<1>2. Named'
  BY DEF Restarted, OwnInv, Named, Active
<1>3. sessions' \in [DOMAIN sessions' -> UserInfo] /\ DOMAIN sessions' \subseteq Session
  BY DEF Restarted
<1>4. \A i, j \in Active(users') :
         users'[i].username = users'[j].username /\ users'[i].username \in Own => i = j
  BY DEF Restarted, OwnInv, IndexIsTable, Active
<1>5. (/\ users \in [Slot -> UserInfo] /\ image = users /\ Named
       /\ sessions \in [DOMAIN sessions -> UserInfo] /\ DOMAIN sessions \subseteq Session
       /\ user_index = IndexOf(users)
       /\ \A i, j \in Active(users) :
             users[i].username = users[j].username /\ users[i].username \in Own => i = j)'
  BY <1>1, <1>2, <1>3, <1>4
<1> QED
  BY <1>5, OwnRebuilt, PTL

LEMMA OwnNext == OwnInv /\ [Next]_vars => OwnInv'
<1> SUFFICES ASSUME OwnInv, [Next]_vars PROVE OwnInv'
  OBVIOUS
<1>1. CASE UNCHANGED vars
  BY <1>1 DEF vars, OwnInv, TypeOK, IndexSound, Named, IndexIsTable, Active
<1>2. ASSUME NEW s \in Session, NEW n \in UserName, NEW p \in Password, user_login(s, n, p)
      PROVE  OwnInv'
  BY <1>2, OwnLogin
<1>3. ASSUME NEW s \in Session, user_logout(s) PROVE OwnInv'
  <2>1. sessions' \in [DOMAIN sessions' -> UserInfo] /\ DOMAIN sessions' \subseteq Session
    BY <1>3 DEF user_logout, Erase, OwnInv, TypeOK
  <2> QED
    BY <1>3, <2>1 DEF user_logout, OwnInv, TypeOK, IndexSound, Named, IndexIsTable, Active
<1>4. ASSUME NEW s \in Session, NEW n \in UserName, NEW p \in Password,
             NEW r \in {NORMAL, ADMIN}, user_create(s, n, p, r)
      PROVE  OwnInv'
  BY <1>4, OwnCreate
<1>5. ASSUME NEW s \in Session, NEW n \in UserName, user_delete(s, n) PROVE OwnInv'
  BY <1>5, OwnDelete
<1>6. CASE fs_shutdown \/ crash
  BY <1>6, RestartedStep, OwnRestart
<1> QED
  BY <1>1, <1>2, <1>3, <1>4, <1>5, <1>6 DEF Next

\* Every table, index, session and image keeps its type through every call and
\* every restart.
THEOREM TypeCorrect == Spec => []TypeOK
<1>1. OwnInv => TypeOK
  BY DEF OwnInv
<1> QED
  BY <1>1, OwnInit, OwnNext, PTL DEF Spec

\* An account under a name of its own is the one its name leads to, and the
\* only active account of that name, whatever long names clients use beside it.
THEOREM IndexIsTableCorrect == Spec => []IndexIsTable
<1>1. OwnInv => IndexIsTable
  BY DEF OwnInv
<1> QED
  BY <1>1, OwnInit, OwnNext, PTL DEF Spec

\* A restart, clean or after a crash, changes no account, nor where the index
\* leads for a name of its own: what user_create and user_delete reported is kept.
THEOREM RestartKeepsAccountsCorrect == Spec => RestartKeepsAccounts
<1> DEFINE Kept == /\ users' = users
                   /\ \A n \in Own :
                        /\ n \in DOMAIN user_index' <=> n \in DOMAIN user_index
                        /\ n \in DOMAIN user_index => user_index'[n] = user_index[n]
<1>1. OwnInv /\ [Next]_vars => [fs_shutdown \/ crash => Kept]_vars
  <2> SUFFICES ASSUME OwnInv, fs_shutdown \/ crash PROVE Kept
    OBVIOUS
  <2>1. Restarted
    BY RestartedStep
  <2>2. /\ DOMAIN user_index' = Names(users)
        /\ \A n \in Names(users) : /\ user_index'[n] \in Active(users)
                                   /\ users[user_index'[n]].username = n
    BY <2>1, Rebuilt DEF Restarted, OwnInv, TypeOK
  <2>3. ASSUME NEW n \in Own
        PROVE  /\ n \in Names(users) <=> n \in DOMAIN user_index
               /\ n \in Names(users) => user_index'[n] = user_index[n]
    <3>1. n \in DOMAIN user_index => n \in Names(users)
      BY DEF OwnInv, IndexSound, Names
    <3>2. n \in Names(users) => /\ n \in DOMAIN user_index
                                /\ user_index[n] = user_index'[n]
      BY <2>2, <2>3 DEF OwnInv, IndexIsTable
    <3> QED
      BY <3>1, <3>2
  <2> QED
    BY <2>1, <2>2, <2>3 DEF Restarted
<1> QED
  BY <1>1, OwnInit, OwnNext, PTL DEF Spec, RestartKeepsAccounts
==========================================================================
