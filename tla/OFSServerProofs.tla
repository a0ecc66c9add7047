------------------------- MODULE OFSServerProofs -------------------------
(*************************************************************************)
(* What holds of OFSServer for any number of clients, workers,            *)
(* descriptors and sessions, however many commands a client sends ahead.  *)
(* The argument: a descriptor serves one client only, for ever, because    *)
(* once one was closed select() fails and nobody is accepted any more; so *)
(* whatever a descriptor leads to - its holder, the requests read from    *)
(* it, the opener of its session - is the same client.                    *)
(*************************************************************************)
EXTENDS OFSServer, SequenceTheorems, FiniteSetTheorems, FunctionTheorems, TLAPS

-----------------------------------------------------------------------------
(* Type correctness. *)

\* The queue after push and after pop.
LEMMA AppendType ==
    ASSUME NEW S, NEW s \in Seq(S), NEW e \in S
    PROVE  Append(s, e) \in Seq(S)
BY AppendProperties
LEMMA HeadTailType ==
    ASSUME NEW S, NEW s \in Seq(S), s # <<>>
    PROVE  Head(s) \in S /\ Tail(s) \in Seq(S)
BY HeadTailProperties

\* The type invariant by groups of variables.  A worker that handles a request
\* has one: without that its lookup could not be typed.  A client that waits for
\* each reply has one command out at most.
ServerTypes ==
    /\ running \in BOOLEAN /\ main \in {"serving", "joining", "stopped"}
    /\ acceptor \in {"loop", "done"}
    /\ round \subseteq FD /\ master \subseteq FD /\ open \subseteq master
WorkerTypes ==
    /\ pc \in [Worker -> {"idle", "waiting", "notified", "lookup", "call", "bind", "reply", "done"}]
    /\ req \in [Worker -> Request \cup {None}]
    /\ session \in [Worker -> Session \cup {None}]
    /\ \A w \in Worker : pc[w] \in {"lookup", "call", "bind", "reply"} => req[w] \in Request
SessionTypes ==
    /\ client_sessions \in [FD -> Session \cup {None}]
    /\ live \subseteq Session /\ opener \in [Session -> Client \cup {None}]
ClientTypes ==
    /\ backlog \subseteq Client /\ conn \in [Client -> {"new", "open", "closed"}]
    /\ fd_of \in [Client -> FD \cup {None}]
    /\ inbox \in [Client -> Seq(Cmd)] /\ unanswered \in [Client -> 0 .. InFlight]
    /\ \A c \in Patient : unanswered[c] <= 1
QueueTypes == op_queue \in Seq(Request)

TypeInv == ServerTypes /\ WorkerTypes /\ SessionTypes /\ ClientTypes /\ QueueTypes

LEMMA TypeInit == Init => TypeInv
<1> SUFFICES ASSUME Init PROVE TypeInv
  OBVIOUS
<1>1. <<>> \in Seq(Cmd) /\ <<>> \in Seq(Request)
  BY EmptySeq
<1>2. 0 \in 0 .. InFlight
  BY ServerAssumption
<1>3. ServerTypes /\ WorkerTypes /\ SessionTypes /\ QueueTypes
  BY <1>1 DEF Init, ServerTypes, WorkerTypes, SessionTypes, QueueTypes
<1>4. ClientTypes
  BY <1>1, <1>2, ServerAssumption DEF Init, ClientTypes
<1>5. QED
  BY <1>3, <1>4 DEF TypeInv

LEMMA ClientStepType ==
    ASSUME TypeInv, NEW c \in Client, NEW cmd \in Cmd,
           connect(c) \/ send_command(c, cmd) \/ close(c)
    PROVE  TypeInv'
<1> USE DEF TypeInv
<1>1. UNCHANGED <<server_vars, client_sessions, op_queue, worker_vars, core_vars>>
  BY DEF connect, send_command, close
<1>2. (ServerTypes /\ WorkerTypes /\ SessionTypes /\ QueueTypes)'
  BY <1>1 DEF server_vars, worker_vars, core_vars,
              ServerTypes, WorkerTypes, SessionTypes, QueueTypes
<1>3. CASE connect(c)
  BY <1>2, <1>3 DEF connect, ClientTypes
<1>4. CASE send_command(c, cmd)
  <2>1. Append(inbox[c], cmd) \in Seq(Cmd)
    BY AppendType DEF ClientTypes
  <2>2. unanswered[c] + 1 \in 0 .. InFlight /\ (c \in Patient => unanswered[c] + 1 <= 1)
    BY <1>4, ServerAssumption DEF send_command, Window, ClientTypes
  <2>3. /\ unanswered' = [unanswered EXCEPT ![c] = unanswered[c] + 1]
        /\ \A d \in Patient : d \in Client /\ unanswered[d] <= 1
    BY <1>4, ServerAssumption DEF send_command, ClientTypes
  <2>4. \A d \in Patient : unanswered'[d] <= 1
    BY <2>2, <2>3 DEF ClientTypes
  <2>5. QED
    BY <1>2, <1>4, <2>1, <2>2, <2>4 DEF send_command, ClientTypes
<1>5. CASE close(c)
  BY <1>2, <1>5 DEF close, ClientTypes
<1>6. QED
  BY <1>3, <1>4, <1>5

LEMMA AcceptType ==
    ASSUME TypeInv, Accept
    PROVE  TypeInv'
<1> USE DEF TypeInv
<1>1. ASSUME NEW c \in Client, NEW f \in FD, select_accept(c, f)
      PROVE  TypeInv'
  <2>1. Readable \subseteq FD
    BY DEF Readable, Accepted, ClientTypes
  <2>2. ServerTypes'
    BY <1>1, <2>1 DEF select_accept, ServerTypes
  <2>3. ClientTypes'
    BY <1>1 DEF select_accept, ClientTypes
  <2>4. (WorkerTypes /\ SessionTypes /\ QueueTypes)'
    BY <1>1 DEF select_accept, worker_vars, core_vars, WorkerTypes, SessionTypes, QueueTypes
  <2>5. QED
    BY <2>2, <2>3, <2>4
<1>2. CASE select_read
  <2>1. Readable \subseteq FD
    BY DEF Readable, Accepted, ClientTypes
  <2>2. ServerTypes'
    BY <1>2, <2>1 DEF select_read, ServerTypes
  <2>3. (ClientTypes /\ WorkerTypes /\ SessionTypes /\ QueueTypes)'
    BY <1>2 DEF select_read, worker_vars, core_vars, client_vars,
                ClientTypes, WorkerTypes, SessionTypes, QueueTypes
  <2>4. QED
    BY <2>2, <2>3
<1>3. ASSUME NEW c \in Client, recv_line(c)
      PROVE  TypeInv'
  <2>1. Head(inbox[c]) \in Cmd /\ Tail(inbox[c]) \in Seq(Cmd)
    BY <1>3, HeadTailType DEF recv_line, ClientTypes
  <2>2. [client_fd |-> fd_of[c], cmd |-> Head(inbox[c]), by |-> c] \in Request
    BY <1>3, <2>1 DEF recv_line, ServerTypes, Request
  <2>3. QueueTypes'
    BY <1>3, <2>2, AppendType DEF recv_line, push, QueueTypes
  <2>4. WorkerTypes'
    BY <1>3 DEF recv_line, push, WorkerTypes
  <2>5. ClientTypes'
    BY <1>3, <2>1 DEF recv_line, ClientTypes
  <2>6. (ServerTypes /\ SessionTypes)'
    BY <1>3 DEF recv_line, core_vars, ServerTypes, SessionTypes
  <2>7. QED
    BY <2>3, <2>4, <2>5, <2>6
<1>4. ASSUME NEW c \in Client, recv_end(c)
      PROVE  TypeInv'
  <2>1. ServerTypes'
    BY <1>4 DEF recv_end, close_fd, ServerTypes
  <2>2. SessionTypes'
    BY <1>4 DEF recv_end, forget_session, core_vars, SessionTypes
  <2>3. ClientTypes'
    BY <1>4 DEF recv_end, ClientTypes
  <2>4. (WorkerTypes /\ QueueTypes)'
    BY <1>4 DEF recv_end, worker_vars, WorkerTypes, QueueTypes
  <2>5. QED
    BY <2>1, <2>2, <2>3, <2>4
<1>5. CASE accept_exit
  BY <1>5 DEF accept_exit, worker_vars, core_vars, client_vars,
              ServerTypes, WorkerTypes, SessionTypes, ClientTypes, QueueTypes
<1>6. QED
  BY <1>1, <1>2, <1>3, <1>4, <1>5 DEF Accept

LEMMA WorkerType ==
    ASSUME TypeInv, NEW w \in Worker, workerLoop(w)
    PROVE  TypeInv'
<1> USE DEF TypeInv
<1>1. CASE pop(w)
  <2>1. Head(op_queue) \in Request /\ Tail(op_queue) \in Seq(Request)
    BY <1>1, HeadTailType DEF pop, QueueTypes
  <2>2. (WorkerTypes /\ QueueTypes)'
    BY <1>1, <2>1 DEF pop, take, WorkerTypes, QueueTypes
  <2>3. (ServerTypes /\ SessionTypes /\ ClientTypes)'
    BY <1>1 DEF pop, server_vars, core_vars, client_vars, ServerTypes, SessionTypes, ClientTypes
  <2>4. QED
    BY <2>2, <2>3
<1>2. CASE pop_wait(w) \/ worker_exit(w)
  <2>1. WorkerTypes'
    BY <1>2 DEF pop_wait, worker_exit, WorkerTypes
  <2>2. (ServerTypes /\ SessionTypes /\ ClientTypes /\ QueueTypes)'
    BY <1>2 DEF pop_wait, worker_exit, server_vars, core_vars, client_vars,
                ServerTypes, SessionTypes, ClientTypes, QueueTypes
  <2>3. QED
    BY <2>1, <2>2
<1>3. CASE lookup(w)
  <2>0. req[w] \in Request /\ req[w].client_fd \in FD
    BY <1>3 DEF lookup, WorkerTypes, Request
  <2>1. client_sessions[req[w].client_fd] \in Session \cup {None}
    BY <2>0 DEF SessionTypes
  <2>2. WorkerTypes'
    BY <1>3, <2>1 DEF lookup, WorkerTypes
  <2>3. (ServerTypes /\ SessionTypes /\ ClientTypes /\ QueueTypes)'
    BY <1>3 DEF lookup, server_vars, core_vars, client_vars,
                ServerTypes, SessionTypes, ClientTypes, QueueTypes
  <2>4. QED
    BY <2>2, <2>3
<1>4. CASE login(w)
  <2>1. PICK s \in Session :
           /\ opener[s] = None
           /\ live' = live \cup {s}
           /\ opener' = [opener EXCEPT ![s] = req[w].by]
           /\ session' = [session EXCEPT ![w] = s]
    BY <1>4 DEF login
  <2>2. req[w] \in Request /\ req[w].by \in Client
    BY <1>4 DEF login, WorkerTypes, Request
  <2>3. WorkerTypes'
    BY <1>4, <2>1, <2>2 DEF login, WorkerTypes
  <2>4. SessionTypes'
    BY <1>4, <2>1, <2>2 DEF login, SessionTypes
  <2>5. (ServerTypes /\ ClientTypes /\ QueueTypes)'
    BY <1>4 DEF login, server_vars, client_vars, ServerTypes, ClientTypes, QueueTypes
  <2>6. QED
    BY <2>3, <2>4, <2>5
<1>5. CASE logout(w) \/ call(w)
  <2>1. WorkerTypes'
    BY <1>5 DEF logout, call, WorkerTypes
  <2>2. SessionTypes'
    BY <1>5 DEF logout, call, core_vars, SessionTypes
  <2>3. (ServerTypes /\ ClientTypes /\ QueueTypes)'
    BY <1>5 DEF logout, call, server_vars, client_vars, ServerTypes, ClientTypes, QueueTypes
  <2>4. QED
    BY <2>1, <2>2, <2>3
<1>6. CASE bind(w)
  <2>1. WorkerTypes'
    BY <1>6 DEF bind, WorkerTypes
  <2>2. SessionTypes'
    BY <1>6 DEF bind, bound_next, core_vars, SessionTypes, WorkerTypes
  <2>3. (ServerTypes /\ ClientTypes /\ QueueTypes)'
    BY <1>6 DEF bind, server_vars, client_vars, ServerTypes, ClientTypes, QueueTypes
  <2>4. QED
    BY <2>1, <2>2, <2>3
<1>7. CASE sendResponse(w)
  <2>1. WorkerTypes'
    BY <1>7 DEF sendResponse, WorkerTypes
  <2>2. ClientTypes'
    <3>1. \A n \in 0 .. InFlight : n > 0 => n - 1 \in 0 .. InFlight
      BY ServerAssumption
    <3>2. \A c \in Client : (IF fd_of[c] = req[w].client_fd /\ unanswered[c] > 0
                            THEN unanswered[c] - 1 ELSE unanswered[c]) \in 0 .. InFlight
      BY <3>1 DEF ClientTypes
    <3>3. unanswered' \in [Client -> 0 .. InFlight]
      BY <1>7, <3>2 DEF sendResponse
    <3>4. \A c \in Patient : unanswered'[c] <= 1
      <4>1. \A c \in Patient : c \in Client /\ unanswered[c] \in 0 .. InFlight /\ unanswered[c] <= 1
        BY ServerAssumption DEF ClientTypes
      <4>2. \A c \in Client : unanswered'[c] = IF fd_of[c] = req[w].client_fd /\ unanswered[c] > 0
                                               THEN unanswered[c] - 1 ELSE unanswered[c]
        BY <1>7 DEF sendResponse
      <4>3. QED
        BY <4>1, <4>2, ServerAssumption
    <3>5. QED
      BY <1>7, <3>3, <3>4 DEF sendResponse, ClientTypes
  <2>3. (ServerTypes /\ SessionTypes /\ QueueTypes)'
    BY <1>7 DEF sendResponse, server_vars, core_vars, ServerTypes, SessionTypes, QueueTypes
  <2>4. QED
    BY <2>1, <2>2, <2>3
<1>8. QED
  BY <1>1, <1>2, <1>3, <1>4, <1>5, <1>6, <1>7 DEF workerLoop

LEMMA TypeStep ==
    ASSUME TypeInv, [Next]_vars
    PROVE  TypeInv'
<1>1. ASSUME NEW c \in Client, connect(c) \/ close(c) PROVE TypeInv'
  <2>1. "call" \in Cmd
    BY DEF Cmd
  <2>2. QED
    BY <1>1, <2>1, ClientStepType
<1>2. ASSUME NEW c \in Client, NEW cmd \in Sent, send_command(c, cmd) PROVE TypeInv'
  BY <1>2, ClientStepType, ServerAssumption
<1>3. CASE stop \/ join
  BY <1>3 DEF stop, join, worker_vars, core_vars, client_vars, TypeInv,
              ServerTypes, WorkerTypes, SessionTypes, ClientTypes, QueueTypes
<1>4. CASE UNCHANGED vars
  BY <1>4 DEF vars, server_vars, worker_vars, core_vars, client_vars, TypeInv,
              ServerTypes, WorkerTypes, SessionTypes, ClientTypes, QueueTypes
<1>5. QED
  BY <1>1, <1>2, <1>3, <1>4, AcceptType, WorkerType DEF Next

\* Every variable of the server and its clients keeps its type.
THEOREM TypeCorrect == Spec => []TypeOK
<1>1. TypeInv => TypeOK
  BY DEF TypeInv, TypeOK, ServerTypes, WorkerTypes, SessionTypes, ClientTypes, QueueTypes
<1>2. QED
  BY <1>1, TypeInit, TypeStep, PTL DEF Spec

-----------------------------------------------------------------------------
(* One client for each descriptor. *)

\* What ties client c to descriptor f: it holds it, a request read from it is
\* queued or with a worker, or the session bound to it is the client's.
Uses(c, f) ==
    \/ fd_of[c] = f
    \/ \E i \in DOMAIN op_queue : op_queue[i].client_fd = f /\ op_queue[i].by = c
    \/ \E w \in Worker : req[w] \in Request /\ req[w].client_fd = f /\ req[w].by = c
    \/ client_sessions[f] # None /\ opener[client_sessions[f]] = c
use_vars == <<fd_of, op_queue, req, client_sessions, opener>>

OneUser == \A f \in FD : \A c, d \in Client : Uses(c, f) /\ Uses(d, f) => c = d
UsedInMaster == \A f \in FD : \A c \in Client : Uses(c, f) => f \in master

\* A worker has a session only while it handles a request, and that session was
\* opened by the client whose request it is.
OwnSession ==
    \A w \in Worker : session[w] # None =>
        pc[w] \in {"call", "bind", "reply"} /\ opener[session[w]] = req[w].by
\* A session bound to a descriptor was opened by a client.
BoundOpened ==
    \A f \in FD : client_sessions[f] # None => opener[client_sessions[f]] \in Client

\* A client is accepted once: before that it has no descriptor, and it never has a
\* second one.
Fresh(c) == c \in backlog \/ conn[c] = "new"
OneFd ==
    \A c \in Client : /\ \A f, g \in FD : Uses(c, f) /\ Uses(c, g) => f = g
                      /\ Fresh(c) => \A f \in FD : ~Uses(c, f)
                      /\ c \in backlog => conn[c] # "new"

UseInv == OneUser /\ UsedInMaster /\ BoundOpened /\ OneFd

\* A step that makes no client fresh again.
StaysFresh ==
    \A c \in Client : (Fresh(c)' => Fresh(c)) /\ (c \in backlog' => c \in backlog)
                     /\ (conn'[c] = "new" => conn[c] = "new")

LEMMA UseInit == Init => UseInv
<1> SUFFICES ASSUME Init PROVE UseInv
  OBVIOUS
<1>1. \A f \in FD : \A c \in Client : ~Uses(c, f)
  BY ServerAssumption DEF Init, Uses, Request
<1>2. QED
  BY <1>1 DEF Init, UseInv, OneUser, UsedInMaster, BoundOpened, OneFd

\* Ties that are not new preserve their uniqueness.
LEMMA NoNewUse ==
    ASSUME OneUser, UsedInMaster, OneFd, master \subseteq master', StaysFresh,
           \A f \in FD : \A c \in Client : Uses(c, f)' => Uses(c, f)
    PROVE  OneUser' /\ UsedInMaster' /\ OneFd'
BY DEF OneUser, UsedInMaster, OneFd, StaysFresh

LEMMA SameUse ==
    ASSUME UseInv, UNCHANGED use_vars, master \subseteq master', StaysFresh
    PROVE  UseInv'
<1>1. \A f \in FD : \A c \in Client : Uses(c, f)' => Uses(c, f)
  BY DEF use_vars, Uses
<1>2. OneUser' /\ UsedInMaster' /\ OneFd'
  BY <1>1, NoNewUse DEF UseInv
<1>3. BoundOpened'
  BY DEF UseInv, use_vars, BoundOpened
<1>4. QED
  BY <1>2, <1>3 DEF UseInv

\* A client that is accepted gets a descriptor nothing is tied to: had one ever
\* been closed, select() would have failed.
LEMMA AcceptUse ==
    ASSUME TypeInv, UseInv, NEW c \in Client, NEW f \in FD, select_accept(c, f)
    PROVE  UseInv'
<1>1. f \notin master
  BY DEF select_accept, Selects, NextFD
<1>2. \A d \in Client : ~Uses(d, f)
  BY <1>1 DEF UseInv, UsedInMaster
<1>3. /\ fd_of' = [fd_of EXCEPT ![c] = f] /\ master' = master \cup {f}
      /\ backlog' = backlog \ {c} /\ c \in backlog
      /\ UNCHANGED <<op_queue, req, client_sessions, opener, conn>>
  BY DEF select_accept, worker_vars, core_vars
<1>4. fd_of \in [Client -> FD \cup {None}]
  BY DEF TypeInv, ClientTypes
<1>5. ASSUME NEW g \in FD, NEW d \in Client, Uses(d, g)'
      PROVE  (d = c /\ g = f) \/ (g # f /\ Uses(d, g))
  <2>1. Uses(d, g) \/ (d = c /\ g = f)
    BY <1>3, <1>4, <1>5 DEF Uses
  <2>2. QED
    BY <2>1, <1>2
<1>6. OneUser'
  BY <1>5 DEF UseInv, OneUser
<1>7. UsedInMaster'
  BY <1>3, <1>5 DEF UseInv, UsedInMaster
<1>8. BoundOpened'
  BY <1>3 DEF UseInv, BoundOpened
<1>9. OneFd'
  BY <1>3, <1>5 DEF UseInv, OneFd, Fresh
<1>10. QED
  BY <1>6, <1>7, <1>8, <1>9 DEF UseInv

LEMMA RecvLineUse ==
    ASSUME TypeInv, UseInv, NEW c \in Client, recv_line(c)
    PROVE  UseInv'
<1> DEFINE r == [client_fd |-> fd_of[c], cmd |-> Head(inbox[c]), by |-> c]
<1>1. /\ op_queue' = Append(op_queue, r)
      /\ UNCHANGED <<fd_of, req, client_sessions, opener, master, backlog, conn>>
  BY DEF recv_line, push, core_vars
<1>2. r \in Request
  BY HeadTailType DEF recv_line, TypeInv, ServerTypes, ClientTypes, Request
<1>3. op_queue \in Seq(Request)
  BY DEF TypeInv, QueueTypes
<1>4. \A i \in DOMAIN op_queue' : (i \in DOMAIN op_queue /\ op_queue'[i] = op_queue[i])
                                 \/ op_queue'[i] = r
  BY <1>1, <1>2, <1>3, AppendProperties
<1>5. r.client_fd = fd_of[c] /\ r.by = c
  OBVIOUS
<1> HIDE DEF r
<1>6. \A f \in FD : \A d \in Client : Uses(d, f)' => Uses(d, f)
  BY <1>1, <1>4, <1>5 DEF Uses
<1>7. OneUser' /\ UsedInMaster' /\ OneFd'
  BY <1>1, <1>6, NoNewUse DEF UseInv, StaysFresh, Fresh
<1>8. BoundOpened'
  BY <1>1 DEF UseInv, BoundOpened
<1>9. QED
  BY <1>7, <1>8 DEF UseInv

LEMMA RecvEndUse ==
    ASSUME TypeInv, UseInv, NEW c \in Client, recv_end(c)
    PROVE  UseInv'
<1>1. /\ fd_of' = [fd_of EXCEPT ![c] = None]
      /\ client_sessions' = [client_sessions EXCEPT ![fd_of[c]] = None]
      /\ UNCHANGED <<op_queue, req, opener, master, backlog, conn>>
  BY DEF recv_end, close_fd, forget_session, worker_vars, core_vars
<1>2. /\ fd_of \in [Client -> FD \cup {None}]
      /\ client_sessions \in [FD -> Session \cup {None}]
  BY DEF TypeInv, ClientTypes, SessionTypes
<1>3. \A f \in FD : client_sessions'[f] # None => client_sessions'[f] = client_sessions[f]
  BY <1>1, <1>2
<1>4. \A f \in FD : \A d \in Client : fd_of'[d] = f => fd_of[d] = f
  BY <1>1, <1>2, ServerAssumption
<1>5. \A f \in FD : \A d \in Client : Uses(d, f)' => Uses(d, f)
  BY <1>1, <1>3, <1>4 DEF Uses
<1>6. OneUser' /\ UsedInMaster' /\ OneFd'
  BY <1>1, <1>5, NoNewUse DEF UseInv, StaysFresh, Fresh
<1>7. BoundOpened'
  BY <1>1, <1>3 DEF UseInv, BoundOpened
<1>8. QED
  BY <1>6, <1>7 DEF UseInv

LEMMA PopUse ==
    ASSUME TypeInv, UseInv, NEW w \in Worker, pop(w)
    PROVE  UseInv'
<1>1. /\ op_queue # <<>> /\ op_queue \in Seq(Request)
      /\ op_queue' = Tail(op_queue) /\ req' = [req EXCEPT ![w] = Head(op_queue)]
      /\ UNCHANGED <<fd_of, client_sessions, opener, master, backlog, conn>>
  BY DEF pop, take, server_vars, core_vars, client_vars, TypeInv, QueueTypes
<1>2. \A i \in DOMAIN op_queue' : i + 1 \in DOMAIN op_queue /\ op_queue'[i] = op_queue[i + 1]
  BY <1>1, HeadTailProperties
<1>3. 1 \in DOMAIN op_queue /\ Head(op_queue) = op_queue[1]
  BY <1>1
<1>4. req \in [Worker -> Request \cup {None}]
  BY DEF TypeInv, WorkerTypes
<1>5. \A f \in FD : \A d \in Client : Uses(d, f)' => Uses(d, f)
  BY <1>1, <1>2, <1>3, <1>4 DEF Uses
<1>6. OneUser' /\ UsedInMaster' /\ OneFd'
  BY <1>1, <1>5, NoNewUse DEF UseInv, StaysFresh, Fresh
<1>7. BoundOpened'
  BY <1>1 DEF UseInv, BoundOpened
<1>8. QED
  BY <1>6, <1>7 DEF UseInv

\* A login relabels no session that is bound: that one has an opener.
LEMMA LoginUse ==
    ASSUME TypeInv, UseInv, NEW w \in Worker, login(w), None \notin Client
    PROVE  UseInv'
<1>1. PICK s \in Session : opener[s] = None /\ opener' = [opener EXCEPT ![s] = req[w].by]
  BY DEF login
<1>2. UNCHANGED <<fd_of, op_queue, req, client_sessions, master, backlog, conn>>
  BY DEF login, server_vars, client_vars
<1>3. /\ client_sessions \in [FD -> Session \cup {None}]
      /\ opener \in [Session -> Client \cup {None}]
  BY DEF TypeInv, SessionTypes
<1>4. \A f \in FD : client_sessions[f] # None =>
         opener'[client_sessions[f]] = opener[client_sessions[f]]
  BY <1>1, <1>3 DEF UseInv, BoundOpened
<1>5. \A f \in FD : \A d \in Client : Uses(d, f)' => Uses(d, f)
  BY <1>2, <1>4 DEF Uses
<1>6. OneUser' /\ UsedInMaster' /\ OneFd'
  BY <1>2, <1>5, NoNewUse DEF UseInv, StaysFresh, Fresh
<1>7. BoundOpened'
  BY <1>2, <1>4 DEF UseInv, BoundOpened
<1>8. QED
  BY <1>6, <1>7 DEF UseInv

\* A worker binds the session of the client whose request it handles.
LEMMA BindUse ==
    ASSUME TypeInv, UseInv, OwnSession, NEW w \in Worker, bind(w)
    PROVE  UseInv'
<1>1. req[w] \in Request /\ req[w].client_fd \in FD /\ req[w].by \in Client
  BY DEF bind, TypeInv, WorkerTypes, Request
<1>2. /\ UNCHANGED <<fd_of, op_queue, req, opener, master, backlog, conn>>
      /\ client_sessions' = [client_sessions EXCEPT ![req[w].client_fd] =
                                IF req[w].cmd = "login" THEN session[w] ELSE None]
  BY DEF bind, bound_next, server_vars, client_vars, core_vars
<1>3. client_sessions \in [FD -> Session \cup {None}]
  BY DEF TypeInv, SessionTypes
<1>4. session[w] # None => opener[session[w]] = req[w].by
  BY DEF OwnSession
<1>5. \A f \in FD : client_sessions'[f] # None =>
         \/ client_sessions'[f] = client_sessions[f]
         \/ f = req[w].client_fd /\ opener[client_sessions'[f]] = req[w].by
  BY <1>1, <1>2, <1>3, <1>4
<1>6. \A f \in FD : \A d \in Client : Uses(d, f)' => Uses(d, f)
  BY <1>1, <1>2, <1>5 DEF Uses
<1>7. OneUser' /\ UsedInMaster' /\ OneFd'
  BY <1>2, <1>6, NoNewUse DEF UseInv, StaysFresh, Fresh
<1>8. BoundOpened'
  BY <1>1, <1>2, <1>5 DEF UseInv, BoundOpened
<1>9. QED
  BY <1>7, <1>8 DEF UseInv

LEMMA ReplyUse ==
    ASSUME TypeInv, UseInv, NEW w \in Worker, sendResponse(w)
    PROVE  UseInv'
<1>1. /\ UNCHANGED <<fd_of, op_queue, client_sessions, opener, master, backlog, conn>>
      /\ req' = [req EXCEPT ![w] = None]
  BY DEF sendResponse, server_vars, core_vars
<1>2. req \in [Worker -> Request \cup {None}] /\ None \notin Request
  BY ServerAssumption DEF TypeInv, WorkerTypes
<1>3. \A f \in FD : \A d \in Client : Uses(d, f)' => Uses(d, f)
  BY <1>1, <1>2 DEF Uses
<1>4. OneUser' /\ UsedInMaster' /\ OneFd'
  BY <1>1, <1>3, NoNewUse DEF UseInv, StaysFresh, Fresh
<1>5. BoundOpened'
  BY <1>1 DEF UseInv, BoundOpened
<1>6. QED
  BY <1>4, <1>5 DEF UseInv

LEMMA UseStep ==
    ASSUME TypeInv, UseInv, OwnSession, [Next]_vars
    PROVE  UseInv'
<1>1. ASSUME NEW c \in Client, NEW cmd \in Cmd, connect(c) \/ send_command(c, cmd) \/ close(c)
      PROVE  UseInv'
  <2>1. CASE send_command(c, cmd)
    BY <2>1, SameUse DEF send_command, server_vars, worker_vars, core_vars, use_vars,
                         StaysFresh, Fresh
  <2>2. CASE close(c)
    <3>1. StaysFresh
      BY <2>2 DEF close, StaysFresh, Fresh, TypeInv, ClientTypes
    <3>2. QED
      BY <2>2, <3>1, SameUse DEF close, server_vars, worker_vars, core_vars, use_vars
  <2>3. CASE connect(c)
    <3>1. UNCHANGED use_vars /\ UNCHANGED master
      BY <2>3 DEF connect, server_vars, worker_vars, core_vars, use_vars
    <3>2. \A f \in FD : \A d \in Client : Uses(d, f)' <=> Uses(d, f)
      BY <3>1 DEF use_vars, Uses
    <3>3. /\ backlog' = backlog \cup {c} /\ conn[c] = "new"
          /\ conn' = [conn EXCEPT ![c] = "open"] /\ c \in DOMAIN conn
      BY <2>3 DEF connect, TypeInv, ClientTypes
    <3>4. OneFd'
      BY <3>2, <3>3 DEF UseInv, OneFd, Fresh
    <3>5. OneUser' /\ UsedInMaster' /\ BoundOpened'
      BY <3>1, <3>2 DEF UseInv, OneUser, UsedInMaster, BoundOpened, use_vars
    <3>6. QED
      BY <3>4, <3>5 DEF UseInv
  <2>4. QED
    BY <1>1, <2>1, <2>2, <2>3
<1>2. CASE Accept
  <2>1. CASE select_read \/ accept_exit
    BY <2>1, SameUse DEF select_read, accept_exit, worker_vars, core_vars, client_vars, use_vars,
             StaysFresh, Fresh
  <2>2. QED
    BY <1>2, <2>1, AcceptUse, RecvLineUse, RecvEndUse DEF Accept
<1>3. ASSUME NEW w \in Worker, workerLoop(w)
      PROVE  UseInv'
  <2>1. CASE pop_wait(w) \/ worker_exit(w) \/ lookup(w) \/ logout(w) \/ call(w)
    BY <2>1, SameUse DEF pop_wait, worker_exit, lookup, logout, call,
                         server_vars, core_vars, client_vars, use_vars, StaysFresh, Fresh
  <2>2. None \notin Client
    BY ServerAssumption
  <2>3. QED
    BY <1>3, <2>1, <2>2, PopUse, LoginUse, BindUse, ReplyUse DEF workerLoop
<1>4. CASE stop \/ join \/ UNCHANGED vars
  BY <1>4, SameUse DEF stop, join, vars, server_vars, worker_vars, core_vars, client_vars, use_vars,
             StaysFresh, Fresh
<1>5. "call" \in Cmd /\ Sent \subseteq Cmd
  BY ServerAssumption DEF Cmd
<1>6. QED
  BY <1>1, <1>2, <1>3, <1>4, <1>5 DEF Next

-----------------------------------------------------------------------------
(* The sessions workers hold. *)

LEMMA OwnSame ==
    ASSUME OwnSession, UNCHANGED <<session, req, opener>>,
           \A w \in Worker : pc[w] \in {"call", "bind", "reply"}
                           => pc'[w] \in {"call", "bind", "reply"}
    PROVE  OwnSession'
BY DEF OwnSession

LEMMA OwnStep ==
    ASSUME TypeInv, UseInv, OwnSession, [Next]_vars
    PROVE  OwnSession'
<1>1. ASSUME NEW c \in Client, NEW cmd \in Cmd, connect(c) \/ send_command(c, cmd) \/ close(c)
      PROVE  OwnSession'
  BY <1>1, OwnSame DEF connect, send_command, close, worker_vars, core_vars
<1>2. CASE Accept
  <2>1. ASSUME NEW c \in Client, recv_line(c)
        PROVE  OwnSession'
    <3>1. pc \in [Worker -> {"idle", "waiting", "notified", "lookup", "call", "bind",
                             "reply", "done"}]
      BY DEF TypeInv, WorkerTypes
    <3>2. \A w \in Worker : pc[w] \in {"call", "bind", "reply"} => pc'[w] = pc[w]
      BY <2>1, <3>1 DEF recv_line, push
    <3>3. UNCHANGED <<session, req, opener>>
      BY <2>1 DEF recv_line, core_vars
    <3>4. QED
      BY <3>2, <3>3, OwnSame
  <2>2. ASSUME NEW c \in Client, recv_end(c)
        PROVE  OwnSession'
    BY <2>2, OwnSame DEF recv_end, forget_session, worker_vars, core_vars
  <2>3. ASSUME NEW c \in Client, NEW f \in FD, select_accept(c, f)
        PROVE  OwnSession'
    BY <2>3, OwnSame DEF select_accept, worker_vars, core_vars
  <2>4. CASE select_read \/ accept_exit
    BY <2>4, OwnSame DEF select_read, accept_exit, worker_vars, core_vars
  <2>5. QED
    BY <1>2, <2>1, <2>2, <2>3, <2>4 DEF Accept
<1>3. ASSUME NEW w \in Worker, workerLoop(w)
      PROVE  OwnSession'
  <2> USE DEF OwnSession
  <2>1. /\ pc \in [Worker -> {"idle", "waiting", "notified", "lookup", "call", "bind",
                              "reply", "done"}]
        /\ req \in [Worker -> Request \cup {None}]
        /\ session \in [Worker -> Session \cup {None}]
        /\ \A v \in Worker : pc[v] \in {"lookup", "call", "bind", "reply"} => req[v] \in Request
    BY DEF TypeInv, WorkerTypes
  <2>2. CASE pop(w)
    BY <2>1, <2>2 DEF pop, take, core_vars
  <2>3. CASE pop_wait(w) \/ worker_exit(w)
    BY <2>1, <2>3 DEF pop_wait, worker_exit, core_vars
  <2>4. CASE lookup(w)
    <3> DEFINE f == req[w].client_fd
               s == client_sessions[f]
    <3>1. req[w] \in Request /\ f \in FD /\ req[w].by \in Client
      BY <2>1, <2>4 DEF lookup, Request
    <3>2. s # None => opener[s] = req[w].by
      <4> SUFFICES ASSUME s # None PROVE opener[s] = req[w].by
        OBVIOUS
      <4>1. opener[s] \in Client
        BY <3>1 DEF UseInv, BoundOpened
      <4>2. Uses(opener[s], f) /\ Uses(req[w].by, f)
        BY <3>1 DEF Uses
      <4>3. QED
        BY <3>1, <4>1, <4>2 DEF UseInv, OneUser
    <3>3. /\ session' = [session EXCEPT ![w] = s] /\ pc' = [pc EXCEPT ![w] = "call"]
          /\ UNCHANGED <<req, opener>>
      BY <2>4 DEF lookup, core_vars
    <3> HIDE DEF s, f
    <3>4. QED
      BY <2>1, <3>2, <3>3
  <2>5. CASE login(w)
    <3>1. PICK s \in Session :
             /\ opener[s] = None /\ opener' = [opener EXCEPT ![s] = req[w].by]
             /\ session' = [session EXCEPT ![w] = s]
      BY <2>5 DEF login
    <3>2. pc[w] = "call" /\ pc' = [pc EXCEPT ![w] = "bind"] /\ req' = req
      BY <2>5 DEF login
    <3>3. \A v \in Worker : session[v] # None => opener[session[v]] \in Client
      <4>1. \A v \in Worker : req[v] \in Request => req[v].by \in Client
        BY DEF Request
      <4>2. QED
        BY <2>1, <4>1
    <3>4. opener \in [Session -> Client \cup {None}] /\ None \notin Client
      BY ServerAssumption DEF TypeInv, SessionTypes
    <3>5. \A v \in Worker : session[v] # None => opener'[session[v]] = opener[session[v]]
      BY <2>1, <3>1, <3>3, <3>4
    <3>6. opener'[s] = req[w].by
      BY <3>1, <3>4
    <3>7. QED
      BY <2>1, <3>1, <3>2, <3>5, <3>6
  <2>6. CASE logout(w) \/ call(w)
    BY <2>1, <2>6 DEF logout, call, core_vars
  <2>7. CASE bind(w)
    BY <2>1, <2>7 DEF bind, bound_next, core_vars
  <2>8. CASE sendResponse(w)
    BY <2>1, <2>8 DEF sendResponse, core_vars
  <2>9. QED
    BY <1>3, <2>2, <2>3, <2>4, <2>5, <2>6, <2>7, <2>8 DEF workerLoop
<1>4. CASE stop \/ join \/ UNCHANGED vars
  BY <1>4, OwnSame DEF stop, join, vars, worker_vars, core_vars
<1>5. "call" \in Cmd /\ Sent \subseteq Cmd
  BY ServerAssumption DEF Cmd
<1>6. QED
  BY <1>1, <1>2, <1>3, <1>4, <1>5 DEF Next

-----------------------------------------------------------------------------
(* The theorems. *)

ServInv == TypeInv /\ UseInv /\ OwnSession

LEMMA Invariance == Spec => []ServInv
<1>1. Init => ServInv
  BY TypeInit, UseInit DEF Init, ServInv, OwnSession
<1>2. ServInv /\ [Next]_vars => ServInv'
  BY TypeStep, UseStep, OwnStep DEF ServInv
<1>3. QED
  BY <1>1, <1>2, PTL DEF Spec

\* No request runs in a session that another client opened.
THEOREM SessionIsOwnCorrect == Spec => []SessionIsOwn
<1>1. ServInv => SessionIsOwn
  BY DEF ServInv, OwnSession, SessionIsOwn
<1>2. QED
  BY <1>1, Invariance, PTL

\* No reply reaches a client that did not send the command.
THEOREM ReplyToAskerCorrect == Spec => []ReplyToAsker
<1>1. ServInv => ReplyToAsker
  <2> SUFFICES ASSUME ServInv, NEW w \in Worker, pc[w] = "reply",
                      NEW c \in Client, fd_of[c] = req[w].client_fd
               PROVE  c = req[w].by
    BY DEF ReplyToAsker, Holder
  <2>1. req[w] \in Request /\ req[w].client_fd \in FD /\ req[w].by \in Client
    BY DEF ServInv, TypeInv, WorkerTypes, Request
  <2>2. Uses(c, req[w].client_fd) /\ Uses(req[w].by, req[w].client_fd)
    BY <2>1 DEF Uses
  <2>3. QED
    BY <2>1, <2>2 DEF ServInv, UseInv, OneUser
<1>2. QED
  BY <1>1, Invariance, PTL

-----------------------------------------------------------------------------
(* No command is lost, repeated or answered twice.  The argument: each step  *)
(* moves one command of one client from socket to queue, from queue to       *)
(* worker, or answers it, and an answer goes to the client that waits for   *)
(* it, whose requests all carry its descriptor.                             *)

\* The places of a queue, and the workers, that hold a request of c.
QueuedBy(q, c) == {i \in DOMAIN q : q[i].by = c}
HeldBy(r, c)   == {w \in Worker : r[w] # None /\ r[w].by = c}

LEMMA QueuedFinite ==
    ASSUME NEW q \in Seq(Request), NEW c
    PROVE  IsFiniteSet(QueuedBy(q, c)) /\ Cardinality(QueuedBy(q, c)) \in Nat
<1>1. Len(q) \in Nat /\ DOMAIN q = 1 .. Len(q)
  OBVIOUS
<1>2. IsFiniteSet(1 .. Len(q))
  BY <1>1, FS_Interval
<1>3. QueuedBy(q, c) \in SUBSET (1 .. Len(q))
  BY <1>1 DEF QueuedBy
<1>4. QED
  BY <1>2, <1>3, FS_Subset, FS_CardinalityType

LEMMA HeldFinite ==
    ASSUME NEW r, NEW c
    PROVE  IsFiniteSet(HeldBy(r, c)) /\ Cardinality(HeldBy(r, c)) \in Nat
<1>1. HeldBy(r, c) \in SUBSET Worker
  BY DEF HeldBy
<1>2. QED
  BY <1>1, WorkerAssumption, FS_Subset, FS_CardinalityType

\* A push adds one request of its client.
LEMMA QueuedAppend ==
    ASSUME NEW q \in Seq(Request), NEW r \in Request, NEW c
    PROVE  Cardinality(QueuedBy(Append(q, r), c)) =
             Cardinality(QueuedBy(q, c)) + (IF r.by = c THEN 1 ELSE 0)
<1> DEFINE n == Len(q) + 1
           a == Append(q, r)
<1>1. Len(q) \in Nat /\ DOMAIN q = 1 .. Len(q)
  OBVIOUS
<1>2. DOMAIN a = 1 .. n /\ a[n] = r /\ \A i \in DOMAIN q : a[i] = q[i]
  BY <1>1, AppendProperties
<1>3. n \notin DOMAIN q /\ 1 .. n = DOMAIN q \cup {n}
  BY <1>1
<1> HIDE DEF n, a
<1>4. QueuedBy(a, c) = IF r.by = c THEN QueuedBy(q, c) \cup {n} ELSE QueuedBy(q, c)
  BY <1>2, <1>3 DEF QueuedBy
<1>5. n \notin QueuedBy(q, c)
  BY <1>3 DEF QueuedBy
<1>6. Cardinality(QueuedBy(q, c) \cup {n}) = Cardinality(QueuedBy(q, c)) + 1
  BY <1>5, QueuedFinite, FS_AddElement
<1>7. Cardinality(QueuedBy(a, c)) = Cardinality(QueuedBy(q, c)) + (IF r.by = c THEN 1 ELSE 0)
  BY <1>4, <1>6, QueuedFinite
<1>8. QED
  BY <1>7 DEF a

\* A pop takes one request of its client.
LEMMA QueuedTail ==
    ASSUME NEW q \in Seq(Request), q # <<>>, NEW c
    PROVE  Cardinality(QueuedBy(q, c)) =
             Cardinality(QueuedBy(Tail(q), c)) + (IF Head(q).by = c THEN 1 ELSE 0)
<1> DEFINE t == Tail(q)
           S == QueuedBy(q, c) \ {1}
           down == [i \in S |-> i - 1]
<1>1. Len(q) \in Nat \ {0} /\ DOMAIN q = 1 .. Len(q) /\ Head(q) = q[1]
  OBVIOUS
<1>2. /\ t \in Seq(Request) /\ DOMAIN t = 1 .. Len(q) - 1
      /\ \A i \in 1 .. Len(q) - 1 : t[i] = q[i + 1]
  BY <1>1, HeadTailProperties
<1>3. /\ \A i \in S : i \in 2 .. Len(q) /\ i \in Nat /\ i - 1 \in QueuedBy(t, c)
      /\ \A j \in QueuedBy(t, c) : j \in Nat /\ j + 1 \in S
  <2> HIDE DEF t
  <2>1. ASSUME NEW i \in S PROVE i \in 2 .. Len(q) /\ i \in Nat /\ i - 1 \in QueuedBy(t, c)
    <3>1. i \in 2 .. Len(q) /\ q[i].by = c
      BY <1>1 DEF QueuedBy
    <3>2. i - 1 \in 1 .. Len(q) - 1 /\ (i - 1) + 1 = i
      BY <1>1, <3>1
    <3>3. QED
      BY <1>2, <3>1, <3>2 DEF QueuedBy
  <2>2. ASSUME NEW j \in QueuedBy(t, c) PROVE j \in Nat /\ j + 1 \in S
    <3>1. j \in 1 .. Len(q) - 1 /\ t[j].by = c
      BY <1>2 DEF QueuedBy
    <3>2. j + 1 \in 1 .. Len(q) /\ j + 1 # 1 /\ q[j + 1].by = c
      BY <1>1, <1>2, <3>1
    <3>3. QED
      BY <1>1, <3>1, <3>2 DEF QueuedBy
  <2>3. QED
    BY <2>1, <2>2
<1> HIDE DEF S, t
<1>4. down \in Bijection(S, QueuedBy(t, c))
  <2>1. down \in [S -> QueuedBy(t, c)]
    BY <1>3
  <2>2. \A i, j \in S : down[i] = down[j] => i = j
    BY <1>3
  <2>3. \A k \in QueuedBy(t, c) : \E i \in S : down[i] = k
    <3> SUFFICES ASSUME NEW k \in QueuedBy(t, c) PROVE \E i \in S : down[i] = k
      OBVIOUS
    <3>1. k + 1 \in S /\ (k + 1) - 1 = k
      BY <1>3
    <3>2. down[k + 1] = k
      BY <3>1
    <3>3. QED
      BY <3>1, <3>2
  <2> HIDE DEF down
  <2>4. QED
    BY <2>1, <2>2, <2>3, Fun_IsBij
<1>5. IsFiniteSet(QueuedBy(q, c)) /\ Cardinality(QueuedBy(q, c)) \in Nat
  BY QueuedFinite
<1>6. /\ IsFiniteSet(S)
      /\ Cardinality(S) = IF 1 \in QueuedBy(q, c) THEN Cardinality(QueuedBy(q, c)) - 1
                                                  ELSE Cardinality(QueuedBy(q, c))
  BY <1>5, FS_RemoveElement DEF S
<1>7. Cardinality(QueuedBy(t, c)) = Cardinality(S)
  <2>1. ExistsBijection(S, QueuedBy(t, c))
    BY <1>4, Fun_ExistsBij
  <2>2. QED
    BY <1>6, <2>1, FS_Bijection
<1>8. 1 \in QueuedBy(q, c) <=> Head(q).by = c
  BY <1>1 DEF QueuedBy
<1>9. QED
  BY <1>5, <1>6, <1>7, <1>8 DEF t

\* Two tables that differ in worker w, which has no request in the one: w takes
\* a request, or is through with it.
LEMMA HeldOne ==
    ASSUME NEW r, NEW s, NEW w \in Worker, r[w] = None, s[w] # None,
           \A v \in Worker \ {w} : s[v] = r[v], NEW c
    PROVE  Cardinality(HeldBy(s, c)) = Cardinality(HeldBy(r, c)) + (IF s[w].by = c THEN 1 ELSE 0)
<1>1. w \notin HeldBy(r, c)
  BY DEF HeldBy
<1>2. HeldBy(s, c) = IF s[w].by = c THEN HeldBy(r, c) \cup {w} ELSE HeldBy(r, c)
  BY DEF HeldBy
<1>3. Cardinality(HeldBy(r, c) \cup {w}) = Cardinality(HeldBy(r, c)) + 1
  BY <1>1, HeldFinite, FS_AddElement
<1>4. QED
  BY <1>2, <1>3, HeldFinite

LEMMA PendingIs ==
    ASSUME NEW c
    PROVE  /\ Pending(c) = Len(inbox[c]) + Cardinality(QueuedBy(op_queue, c))
                                         + Cardinality(HeldBy(req, c))
           /\ Pending(c)' = Len(inbox'[c]) + Cardinality(QueuedBy(op_queue', c))
                                           + Cardinality(HeldBy(req', c))
BY DEF Pending, QueuedBy, HeldBy

-----------------------------------------------------------------------------
(* The inductive invariant. *)

\* A client is not yet closed.
Alive(c) == conn[c] # "closed"

\* It waits for exactly the replies to come, also before it connects.  A client that
\* has left may have got fewer replies than it was owed, never more.
Fits(c) == Pending(c) <= unanswered[c] /\ (Alive(c) => unanswered[c] = Pending(c))
Counted == \A c \in Client : Fits(c)
\* Its requests all carry its descriptor.
Asker ==
    \A c \in Client : Alive(c) =>
        /\ \A i \in DOMAIN op_queue : op_queue[i].by = c => op_queue[i].client_fd = fd_of[c]
        /\ \A w \in Worker : req[w] # None /\ req[w].by = c => req[w].client_fd = fd_of[c]
\* It has a descriptor once it is accepted, not before.
NotAccepted ==
    \A c \in Client : /\ conn[c] = "new" => c \notin backlog /\ fd_of[c] = None
                      /\ c \in backlog => fd_of[c] = None
\* Its descriptor is read only while there is something to read: recv() does
\* not report the end of a connection that is open.
RoundReads ==
    \A c \in Client : Alive(c) /\ fd_of[c] # None /\ fd_of[c] \in round => inbox[c] # <<>>
\* A worker that handles no request has none.
IdleHolds ==
    \A w \in Worker : pc[w] \notin {"lookup", "call", "bind", "reply"} => req[w] = None

OnceInv == Counted /\ Asker /\ NotAccepted /\ RoundReads /\ IdleHolds

\* No two clients share a descriptor.
LEMMA OneHolder ==
    ASSUME ServInv, NEW c \in Client, NEW d \in Client, fd_of[c] = fd_of[d], fd_of[c] # None
    PROVE  c = d
<1>1. fd_of[c] \in FD
  BY DEF ServInv, TypeInv, ClientTypes
<1>2. Uses(c, fd_of[c]) /\ Uses(d, fd_of[c])
  BY DEF Uses
<1>3. QED
  BY <1>1, <1>2 DEF ServInv, UseInv, OneUser

LEMMA OnceInit == Init => OnceInv
<1> SUFFICES ASSUME Init PROVE OnceInv
  OBVIOUS
<1>1. ASSUME NEW c \in Client PROVE unanswered[c] = Pending(c)
  <2>1. inbox[c] = <<>> /\ op_queue = <<>> /\ \A w \in Worker : req[w] = None
    BY DEF Init
  <2>2. QueuedBy(op_queue, c) = {} /\ HeldBy(req, c) = {}
    BY <2>1 DEF QueuedBy, HeldBy
  <2>3. Len(inbox[c]) = 0 /\ unanswered[c] = 0
    BY <2>1 DEF Init
  <2>4. Cardinality(QueuedBy(op_queue, c)) = 0 /\ Cardinality(HeldBy(req, c)) = 0
    BY <2>2, FS_EmptySet
  <2>5. Pending(c) = 0 + 0 + 0
    BY <2>3, <2>4, PendingIs
  <2>6. QED
    BY <2>3, <2>5
<1>2. Counted
  BY <1>1 DEF Counted, Fits, Init
<1>3. Asker
  BY DEF Init, Asker
<1>4. NotAccepted /\ RoundReads /\ IdleHolds
  BY DEF Init, NotAccepted, RoundReads, IdleHolds
<1>5. QED
  BY <1>2, <1>3, <1>4 DEF OnceInv

-----------------------------------------------------------------------------
(* The steps. *)

\* Clients.
LEMMA ConnectOnce ==
    ASSUME ServInv, OnceInv, NEW c \in Client, connect(c) \/ close(c)
    PROVE  OnceInv'
<1>1. /\ UNCHANGED <<fd_of, inbox, unanswered, op_queue, req, round, pc>>
      /\ conn \in [Client -> {"new", "open", "closed"}]
  BY DEF connect, close, server_vars, worker_vars, ServInv, TypeInv, ClientTypes
<1>2. \A d \in Client : Alive(d)' => Alive(d)
  BY <1>1 DEF connect, close, Alive
<1>3. \A d \in Client : Pending(d)' = Pending(d)
  BY <1>1 DEF Pending
<1>4. (Counted /\ Asker /\ RoundReads /\ IdleHolds)'
  BY <1>1, <1>2, <1>3 DEF OnceInv, Counted, Fits, Asker, RoundReads, IdleHolds
<1>5. NotAccepted'
  BY <1>1 DEF connect, close, OnceInv, NotAccepted
<1>6. QED
  BY <1>4, <1>5 DEF OnceInv

LEMMA SendOnce ==
    ASSUME ServInv, OnceInv, NEW c \in Client, NEW cmd \in Cmd, send_command(c, cmd)
    PROVE  OnceInv'
<1>1. /\ inbox' = [inbox EXCEPT ![c] = Append(@, cmd)]
      /\ unanswered' = [unanswered EXCEPT ![c] = @ + 1]
      /\ UNCHANGED <<fd_of, conn, backlog, op_queue, req, round, pc>>
      /\ inbox \in [Client -> Seq(Cmd)] /\ unanswered \in [Client -> 0 .. InFlight]
  BY DEF send_command, server_vars, worker_vars, ServInv, TypeInv, ClientTypes
<1>2. Counted'
  <2> SUFFICES ASSUME NEW d \in Client PROVE Fits(d)'
    BY DEF Counted
  <2>1. Fits(d) /\ unanswered[d] \in Nat
    BY <1>1 DEF OnceInv, Counted
  <2>2. CASE d # c
    BY <1>1, <2>1, <2>2, PendingIs DEF Fits, Alive
  <2>3. CASE d = c
    <3>1. Len(inbox'[c]) = Len(inbox[c]) + 1 /\ Len(inbox[c]) \in Nat
      <4>1. inbox[c] \in Seq(Cmd)
        BY <1>1
      <4>2. inbox'[c] = Append(inbox[c], cmd)
        BY <1>1
      <4>3. QED
        BY <4>1, <4>2, AppendProperties
    <3>2. unanswered'[c] = unanswered[c] + 1
      BY <1>1
    <3>3. /\ Cardinality(QueuedBy(op_queue, c)) \in Nat
          /\ Cardinality(HeldBy(req, c)) \in Nat
      BY QueuedFinite, HeldFinite DEF ServInv, TypeInv, QueueTypes
    <3>4. Pending(c) \in Nat /\ Pending(c)' = Pending(c) + 1
      BY <1>1, <3>1, <3>3, PendingIs
    <3>5. QED
      BY <1>1, <2>1, <2>3, <3>2, <3>4 DEF Fits, Alive
  <2>4. QED
    BY <2>2, <2>3
<1>3. RoundReads'
  <2>1. Append(inbox[c], cmd) # <<>>
    BY <1>1, AppendProperties
  <2>2. QED
    BY <1>1, <2>1 DEF OnceInv, RoundReads, Alive
<1>4. (Asker /\ NotAccepted /\ IdleHolds)'
  BY <1>1 DEF OnceInv, Asker, NotAccepted, IdleHolds, Alive
<1>5. QED
  BY <1>2, <1>3, <1>4 DEF OnceInv

\* The accept thread.
LEMMA ReadableReads ==
    ASSUME ServInv, NEW c \in Client, Alive(c), fd_of[c] # None, fd_of[c] \in Readable
    PROVE  inbox[c] # <<>>
<1>1. PICK d \in Client : fd_of[d] # None /\ fd_of[c] = fd_of[d]
                          /\ (inbox[d] # <<>> \/ conn[d] = "closed")
  BY DEF Readable, Accepted
<1>2. c = d
  BY <1>1, OneHolder
<1>3. QED
  BY <1>1, <1>2 DEF Alive

LEMMA SelectOnce ==
    ASSUME ServInv, OnceInv, select_read \/ \E c \in Client, f \in FD : select_accept(c, f)
    PROVE  OnceInv'
<1>1. UNCHANGED <<conn, inbox, unanswered, op_queue, req, pc>> /\ round' = Readable
  BY DEF select_read, select_accept, worker_vars, client_vars
<1>2. \A d \in Client : Pending(d)' = Pending(d)
  BY <1>1 DEF Pending
<1>3. Counted' /\ IdleHolds'
  BY <1>1, <1>2 DEF OnceInv, Counted, Fits, IdleHolds, Alive
<1>4. CASE select_read
  <2>1. UNCHANGED <<fd_of, backlog>>
    BY <1>4 DEF select_read, client_vars
  <2>2. RoundReads'
    BY <1>1, <2>1, ReadableReads DEF RoundReads, Alive
  <2>3. Asker' /\ NotAccepted'
    BY <1>1, <2>1 DEF OnceInv, Asker, NotAccepted, Alive
  <2>4. QED
    BY <1>3, <2>2, <2>3 DEF OnceInv
<1>5. ASSUME NEW c \in Client, NEW f \in FD, select_accept(c, f)
      PROVE  OnceInv'
  <2>1. /\ fd_of' = [fd_of EXCEPT ![c] = f] /\ backlog' = backlog \ {c} /\ c \in backlog
        /\ fd_of \in [Client -> FD \cup {None}] /\ fd_of[c] = None /\ f # None
    BY <1>5, ServerAssumption
       DEF select_accept, ServInv, TypeInv, ClientTypes, OnceInv, NotAccepted
  <2>2. f \notin Readable
    <3>1. f \notin master
      BY <1>5 DEF select_accept, Selects, NextFD
    <3>2. \A d \in Client : fd_of[d] # f
      BY <3>1 DEF ServInv, UseInv, UsedInMaster, Uses
    <3>3. QED
      BY <3>2 DEF Readable, Accepted
  <2>3. RoundReads'
    BY <1>1, <2>1, <2>2, ReadableReads DEF RoundReads, Alive
  <2>4. NotAccepted'
    BY <1>1, <2>1 DEF OnceInv, NotAccepted
  <2>5. Asker'
    <3> SUFFICES ASSUME NEW d \in Client, Alive(d)
                 PROVE  /\ \A i \in DOMAIN op_queue : op_queue[i].by = d => op_queue[i].client_fd = fd_of'[d]
                        /\ \A w \in Worker : req[w] # None /\ req[w].by = d => req[w].client_fd = fd_of'[d]
      BY <1>1 DEF Asker, Alive
    <3>1. /\ \A i \in DOMAIN op_queue : op_queue[i].by = d => op_queue[i].client_fd = fd_of[d]
          /\ \A w \in Worker : req[w] # None /\ req[w].by = d => req[w].client_fd = fd_of[d]
      BY DEF OnceInv, Asker
    <3>2. /\ \A i \in DOMAIN op_queue : op_queue[i].client_fd # None
          /\ \A w \in Worker : req[w] # None => req[w].client_fd # None
      <4>1. \A r \in Request : r.client_fd # None
        BY ServerAssumption DEF Request
      <4>2. op_queue \in Seq(Request) /\ req \in [Worker -> Request \cup {None}]
        BY DEF ServInv, TypeInv, QueueTypes, WorkerTypes
      <4>3. QED
        BY <4>1, <4>2
    <3>3. QED
      BY <2>1, <3>1, <3>2
  <2>6. QED
    BY <1>3, <2>3, <2>4, <2>5 DEF OnceInv
<1>6. QED
  BY <1>4, <1>5

LEMMA RecvLineOnce ==
    ASSUME ServInv, OnceInv, NEW c \in Client, recv_line(c)
    PROVE  OnceInv'
<1> DEFINE r == [client_fd |-> fd_of[c], cmd |-> Head(inbox[c]), by |-> c]
<1>1. /\ op_queue' = Append(op_queue, r)
      /\ inbox' = [inbox EXCEPT ![c] = Tail(@)] /\ inbox[c] # <<>> /\ fd_of[c] \in round
      /\ round' = IF Tail(inbox[c]) = <<>> THEN round \ {fd_of[c]} ELSE round
      /\ UNCHANGED <<fd_of, conn, backlog, unanswered, req>>
  BY DEF recv_line, push
<1>2. /\ inbox \in [Client -> Seq(Cmd)] /\ op_queue \in Seq(Request) /\ fd_of[c] \in FD
      /\ fd_of \in [Client -> FD \cup {None}] /\ round \subseteq FD /\ None \notin FD
  BY <1>1, ServerAssumption DEF ServInv, TypeInv, ServerTypes, ClientTypes, QueueTypes
<1>3. /\ r \in Request /\ r.by = c /\ r.client_fd = fd_of[c]
      /\ Tail(inbox[c]) \in Seq(Cmd) /\ Len(inbox[c]) = Len(Tail(inbox[c])) + 1
      /\ Len(Tail(inbox[c])) \in Nat
  <2>1. inbox[c] \in Seq(Cmd)
    BY <1>2
  <2>2. Head(inbox[c]) \in Cmd /\ Tail(inbox[c]) \in Seq(Cmd)
    BY <1>1, <2>1, HeadTailType
  <2>3. Len(Tail(inbox[c])) = Len(inbox[c]) - 1 /\ Len(inbox[c]) \in Nat
    BY <1>1, <2>1, HeadTailProperties
  <2>4. Len(Tail(inbox[c])) \in Nat
    BY <2>2
  <2>5. Len(inbox[c]) = Len(Tail(inbox[c])) + 1
    BY <2>3
  <2>6. r \in Request /\ r.by = c /\ r.client_fd = fd_of[c]
    BY <1>2, <2>2 DEF Request
  <2> HIDE DEF r
  <2>7. QED
    BY <2>2, <2>4, <2>5, <2>6
<1> HIDE DEF r
<1>4. Counted'
  <2> SUFFICES ASSUME NEW d \in Client PROVE Fits(d)'
    BY DEF Counted
  <2> DEFINE one == IF c = d THEN 1 ELSE 0
  <2>1. Fits(d)
    BY DEF OnceInv, Counted
  <2>2. Cardinality(QueuedBy(op_queue', d)) = Cardinality(QueuedBy(op_queue, d)) + one
    BY <1>1, <1>2, <1>3, QueuedAppend
  <2>3. Len(inbox[d]) = Len(inbox'[d]) + one /\ Len(inbox'[d]) \in Nat /\ one \in Nat
    <3>1. CASE d = c
      <4>1. inbox'[d] = Tail(inbox[c])
        BY <1>1, <1>2, <3>1
      <4>2. QED
        BY <1>3, <3>1, <4>1
    <3>2. CASE d # c
      <4>1. inbox'[d] = inbox[d] /\ Len(inbox[d]) \in Nat /\ one = 0
        BY <1>1, <1>2, <3>2
      <4> HIDE DEF one
      <4>2. Len(inbox'[d]) = Len(inbox[d])
        BY <4>1
      <4>3. QED
        BY <4>1, <4>2
    <3>3. QED
      BY <3>1, <3>2
  <2>4. Cardinality(QueuedBy(op_queue, d)) \in Nat /\ Cardinality(HeldBy(req, d)) \in Nat
    BY <1>2, QueuedFinite, HeldFinite
  <2>5. /\ Pending(d) = Len(inbox[d]) + Cardinality(QueuedBy(op_queue, d))
                                      + Cardinality(HeldBy(req, d))
        /\ Pending(d)' = Len(inbox'[d]) + Cardinality(QueuedBy(op_queue', d))
                                        + Cardinality(HeldBy(req, d))
    BY <1>1, PendingIs
  <2> HIDE DEF one
  <2>6. Pending(d)' = Pending(d)
    BY <2>2, <2>3, <2>4, <2>5
  <2>7. QED
    BY <1>1, <2>1, <2>6 DEF Fits, Alive
<1>5. Asker'
  <2>1. \A i \in DOMAIN op_queue' : (i \in DOMAIN op_queue /\ op_queue'[i] = op_queue[i])
                                    \/ op_queue'[i] = r
    BY <1>1, <1>2, <1>3, AppendProperties
  <2>2. QED
    BY <1>1, <1>3, <2>1 DEF OnceInv, Asker, Alive
<1>6. RoundReads'
  <2> SUFFICES ASSUME NEW d \in Client, Alive(d), fd_of[d] # None, fd_of[d] \in round'
               PROVE  inbox'[d] # <<>>
    BY <1>1 DEF RoundReads, Alive
  <2>1. CASE d = c
    <3>1. Tail(inbox[c]) # <<>>
      BY <1>1, <2>1
    <3>2. QED
      BY <1>1, <1>2, <2>1, <3>1
  <2>2. CASE d # c
    BY <1>1, <1>2, <2>2 DEF OnceInv, RoundReads
  <2>3. QED
    BY <2>1, <2>2
<1>7. NotAccepted'
  BY <1>1 DEF OnceInv, NotAccepted
<1>8. IdleHolds'
  <2>1. \A w \in Worker : pc'[w] \notin {"lookup", "call", "bind", "reply"}
                        => pc[w] \notin {"lookup", "call", "bind", "reply"}
    BY DEF recv_line, push, ServInv, TypeInv, WorkerTypes
  <2>2. QED
    BY <1>1, <2>1 DEF OnceInv, IdleHolds
<1>9. QED
  BY <1>4, <1>5, <1>6, <1>7, <1>8 DEF OnceInv

\* The end of a connection is read of closed ones only.
LEMMA RecvEndOnce ==
    ASSUME ServInv, OnceInv, NEW c \in Client, recv_end(c)
    PROVE  OnceInv'
<1>1. /\ fd_of' = [fd_of EXCEPT ![c] = None] /\ round' = round \ {fd_of[c]}
      /\ inbox[c] = <<>> /\ fd_of[c] \in round
      /\ UNCHANGED <<conn, backlog, inbox, unanswered, op_queue, req, pc>>
  BY DEF recv_end, worker_vars
<1>2. fd_of[c] # None /\ fd_of \in [Client -> FD \cup {None}]
  BY <1>1, ServerAssumption DEF ServInv, TypeInv, ServerTypes, ClientTypes
<1>3. ~Alive(c)
  BY <1>1, <1>2 DEF OnceInv, RoundReads
<1>4. \A d \in Client : Pending(d)' = Pending(d)
  BY <1>1 DEF Pending
<1>5. Counted' /\ IdleHolds'
  BY <1>1, <1>4 DEF OnceInv, Counted, Fits, IdleHolds, Alive
<1>6. \A d \in Client : Alive(d)' => d # c /\ Alive(d) /\ fd_of'[d] = fd_of[d]
  BY <1>1, <1>2, <1>3 DEF Alive
<1>7. Asker'
  BY <1>1, <1>6 DEF OnceInv, Asker
<1>8. RoundReads'
  BY <1>1, <1>6 DEF OnceInv, RoundReads
<1>9. NotAccepted'
  BY <1>1, <1>2 DEF OnceInv, NotAccepted
<1>10. QED
  BY <1>5, <1>7, <1>8, <1>9 DEF OnceInv

\* Steps that move no command.
LEMMA SameOnce ==
    ASSUME OnceInv, UNCHANGED <<round, op_queue, req, client_vars>>,
           \A w \in Worker : pc'[w] \notin {"lookup", "call", "bind", "reply"}
                           => pc[w] \notin {"lookup", "call", "bind", "reply"}
    PROVE  OnceInv'
<1>1. \A d \in Client : Pending(d)' = Pending(d)
  BY DEF Pending, client_vars
<1>2. QED
  BY <1>1 DEF OnceInv, Counted, Fits, Asker, NotAccepted, RoundReads, IdleHolds, Alive, client_vars

\* Workers.
LEMMA PopOnce ==
    ASSUME ServInv, OnceInv, NEW w \in Worker, pop(w)
    PROVE  OnceInv'
<1>1. /\ op_queue' = Tail(op_queue) /\ req' = [req EXCEPT ![w] = Head(op_queue)]
      /\ op_queue # <<>> /\ pc' = [pc EXCEPT ![w] = "lookup"]
      /\ UNCHANGED <<fd_of, conn, backlog, inbox, unanswered, round>>
  BY DEF pop, take, server_vars, client_vars
<1>2. /\ op_queue \in Seq(Request) /\ inbox \in [Client -> Seq(Cmd)]
      /\ req \in [Worker -> Request \cup {None}] /\ req[w] = None
      /\ pc \in [Worker -> {"idle", "waiting", "notified", "lookup", "call", "bind", "reply", "done"}]
  BY DEF pop, ServInv, TypeInv, QueueTypes, ClientTypes, WorkerTypes, OnceInv, IdleHolds
<1>3. Head(op_queue) \in Request
  BY <1>1, <1>2, HeadTailType
<1>4. Counted'
  <2> SUFFICES ASSUME NEW d \in Client PROVE Fits(d)'
    BY DEF Counted
  <2> DEFINE one == IF Head(op_queue).by = d THEN 1 ELSE 0
  <2>1. Fits(d)
    BY DEF OnceInv, Counted
  <2>2. Cardinality(QueuedBy(op_queue, d)) = Cardinality(QueuedBy(op_queue', d)) + one
    BY <1>1, <1>2, QueuedTail
  <2>3. Cardinality(HeldBy(req', d)) = Cardinality(HeldBy(req, d)) + one
    <3>1. req'[w] = Head(op_queue) /\ \A v \in Worker \ {w} : req'[v] = req[v]
      BY <1>1, <1>2
    <3>2. req[w] = None /\ req'[w] # None
      BY <1>2, <1>3, <3>1, ServerAssumption
    <3>3. QED
      BY <3>1, <3>2, HeldOne
  <2>4. /\ Cardinality(QueuedBy(op_queue', d)) \in Nat /\ Cardinality(HeldBy(req, d)) \in Nat
        /\ Len(inbox[d]) \in Nat /\ one \in Nat
    <3>1. op_queue' \in Seq(Request)
      BY <1>1, <1>2, HeadTailType
    <3>2. QED
      BY <1>2, <3>1, QueuedFinite, HeldFinite
  <2>5. /\ Pending(d) = Len(inbox[d]) + Cardinality(QueuedBy(op_queue, d))
                                      + Cardinality(HeldBy(req, d))
        /\ Pending(d)' = Len(inbox[d]) + Cardinality(QueuedBy(op_queue', d))
                                       + Cardinality(HeldBy(req', d))
    BY <1>1, PendingIs
  <2> HIDE DEF one
  <2>6. Pending(d)' = Pending(d)
    BY <2>2, <2>3, <2>4, <2>5
  <2>7. QED
    BY <1>1, <2>1, <2>6 DEF Fits, Alive
<1>5. Asker'
  <2>1. \A i \in DOMAIN op_queue' : i + 1 \in DOMAIN op_queue /\ op_queue'[i] = op_queue[i + 1]
    BY <1>1, <1>2, HeadTailProperties
  <2>2. 1 \in DOMAIN op_queue /\ Head(op_queue) = op_queue[1]
    BY <1>1, <1>2
  <2>3. \A v \in Worker : req'[v] = req[v] \/ req'[v] = op_queue[1]
    BY <1>1, <1>2, <2>2
  <2>4. QED
    BY <1>1, <2>1, <2>2, <2>3 DEF OnceInv, Asker, Alive
<1>6. (RoundReads /\ NotAccepted)'
  BY <1>1 DEF OnceInv, RoundReads, NotAccepted, Alive
<1>7. IdleHolds'
  BY <1>1, <1>2 DEF OnceInv, IdleHolds
<1>8. QED
  BY <1>4, <1>5, <1>6, <1>7 DEF OnceInv

\* The reply goes to the client whose request it is, and to no other.
LEMMA ReplyOnce ==
    ASSUME ServInv, OnceInv, NEW w \in Worker, sendResponse(w)
    PROVE  OnceInv'
<1> DEFINE c == req[w].by
           f == req[w].client_fd
<1>1. /\ unanswered' = [d \in Client |-> IF fd_of[d] = f /\ unanswered[d] > 0
                                         THEN unanswered[d] - 1 ELSE unanswered[d]]
      /\ req' = [req EXCEPT ![w] = None] /\ pc' = [pc EXCEPT ![w] = "idle"]
      /\ UNCHANGED <<fd_of, conn, backlog, inbox, op_queue, round>>
  BY DEF sendResponse, server_vars
<1>2. /\ req[w] \in Request /\ c \in Client /\ f \in FD /\ None \notin Request
      /\ req \in [Worker -> Request \cup {None}] /\ op_queue \in Seq(Request)
      /\ inbox \in [Client -> Seq(Cmd)]
      /\ pc \in [Worker -> {"idle", "waiting", "notified", "lookup", "call", "bind", "reply", "done"}]
  BY ServerAssumption DEF sendResponse, ServInv, TypeInv, WorkerTypes, QueueTypes, ClientTypes, Request
<1>3. Counted'
  <2> SUFFICES ASSUME NEW d \in Client PROVE Fits(d)'
    BY DEF Counted
  <2>1. Fits(d) /\ unanswered[d] \in Nat
    BY DEF OnceInv, Counted, ServInv, TypeInv, ClientTypes
  <2>2. Cardinality(HeldBy(req, d)) = Cardinality(HeldBy(req', d)) + (IF c = d THEN 1 ELSE 0)
    <3>1. req'[w] = None /\ req[w] # None /\ \A v \in Worker \ {w} : req[v] = req'[v]
      BY <1>1, <1>2
    <3>2. QED
      BY <3>1, HeldOne
  <2>3. /\ Pending(d) = Len(inbox[d]) + Cardinality(QueuedBy(op_queue, d))
                                      + Cardinality(HeldBy(req, d))
        /\ Pending(d)' = Len(inbox[d]) + Cardinality(QueuedBy(op_queue, d))
                                       + Cardinality(HeldBy(req', d))
    BY <1>1, PendingIs
  <2>4. /\ Cardinality(QueuedBy(op_queue, d)) \in Nat /\ Cardinality(HeldBy(req', d)) \in Nat
        /\ Len(inbox[d]) \in Nat
    BY <1>2, QueuedFinite, HeldFinite
  <2>5. (Alive(d) /\ c = d => fd_of[d] = f) /\ (fd_of[d] = f => c = d)
    <3>1. Alive(d) /\ c = d => fd_of[d] = f
      BY <1>2 DEF OnceInv, Asker
    <3>2. fd_of[d] = f => c = d
      <4>1. Uses(c, f)
        BY <1>2 DEF Uses
      <4>2. fd_of[d] = f => Uses(d, f)
        BY DEF Uses
      <4>3. QED
        BY <1>2, <4>1, <4>2 DEF ServInv, UseInv, OneUser
    <3>3. QED
      BY <3>1, <3>2
  <2>6. unanswered'[d] = IF fd_of[d] = f /\ unanswered[d] > 0 THEN unanswered[d] - 1 ELSE unanswered[d]
    BY <1>1
  <2> HIDE DEF c, f
  <2>7. CASE c = d
    <3>1. Pending(d) \in Nat /\ Pending(d)' \in Nat /\ Pending(d) = Pending(d)' + 1
      BY <2>2, <2>3, <2>4, <2>7
    <3>2. QED
      BY <1>1, <2>1, <2>5, <2>6, <2>7, <3>1 DEF Fits, Alive
  <2>8. CASE c # d
    <3>1. Pending(d)' = Pending(d) /\ unanswered'[d] = unanswered[d]
      BY <2>2, <2>3, <2>4, <2>5, <2>6, <2>8
    <3>2. QED
      BY <1>1, <2>1, <3>1 DEF Fits, Alive
  <2>9. QED
    BY <2>7, <2>8
<1>4. \A v \in Worker : req'[v] # None => req'[v] = req[v]
  BY <1>1, <1>2
<1>5. Asker'
  BY <1>1, <1>4 DEF OnceInv, Asker, Alive
<1>6. (RoundReads /\ NotAccepted)'
  BY <1>1 DEF OnceInv, RoundReads, NotAccepted, Alive
<1>7. IdleHolds'
  BY <1>1, <1>2 DEF OnceInv, IdleHolds
<1>8. QED
  BY <1>3, <1>5, <1>6, <1>7 DEF OnceInv

LEMMA OnceStep ==
    ASSUME ServInv, OnceInv, [Next]_vars
    PROVE  OnceInv'
<1>1. CASE Accept
  <2>1. CASE accept_exit
    BY <2>1, SameOnce DEF accept_exit, worker_vars, client_vars
  <2>2. QED
    BY <1>1, <2>1, SelectOnce, RecvLineOnce, RecvEndOnce DEF Accept
<1>2. ASSUME NEW w \in Worker, workerLoop(w)
      PROVE  OnceInv'
  <2>1. CASE pop_wait(w) \/ worker_exit(w) \/ lookup(w) \/ login(w) \/ logout(w) \/ call(w) \/ bind(w)
    <3>1. \A v \in Worker : pc'[v] \notin {"lookup", "call", "bind", "reply"}
                          => pc[v] \notin {"lookup", "call", "bind", "reply"}
      BY <2>1 DEF pop_wait, worker_exit, lookup, login, logout, call, bind,
                  ServInv, TypeInv, WorkerTypes
    <3>2. UNCHANGED <<round, op_queue, req, client_vars>>
      BY <2>1 DEF pop_wait, worker_exit, lookup, login, logout, call, bind, server_vars
    <3>3. QED
      BY <3>1, <3>2, SameOnce
  <2>2. QED
    BY <1>2, <2>1, PopOnce, ReplyOnce DEF workerLoop
<1>3. CASE stop \/ join \/ UNCHANGED vars
  BY <1>3, SameOnce DEF stop, join, vars, server_vars, worker_vars, client_vars
<1>4. QED
  BY <1>1, <1>2, <1>3, ConnectOnce, SendOnce, ServerAssumption DEF Next

\* A connected client waits for exactly the replies to come: no command is lost,
\* repeated or answered twice on its way through socket, queue and workers.
THEOREM EachCommandOnceCorrect == Spec => []EachCommandOnce
<1>1. Init => OnceInv
  BY OnceInit
<1>2. ServInv /\ OnceInv /\ [Next]_vars => OnceInv'
  BY OnceStep
<1>3. OnceInv => EachCommandOnce
  BY DEF OnceInv, Counted, Fits, Alive, EachCommandOnce
<1>4. QED
  BY <1>1, <1>2, <1>3, Invariance, PTL DEF Spec

-----------------------------------------------------------------------------
(* No session is used after it was destroyed for a client that waits for its *)
(* replies.  The argument: such a client has one command in the server at    *)
(* most, and a session belongs to one client and is bound to one descriptor; *)
(* so between a logout's core call, which destroys it, and the lock that     *)
(* unbinds it nobody else can look it up.  That a descriptor leads to a      *)
(* destroyed session in this time only holds for every client.               *)

HeldAlive  == \A w \in Worker : pc[w] = "call" /\ session[w] # None /\ req[w].by \in Patient =>
                 session[w] \in live
LoginAlive == \A w \in Worker : pc[w] = "bind" /\ req[w].cmd = "login" => session[w] \in live

\* The session of a login that is not bound yet is known to its worker only.
LoginOwn ==
    \A w \in Worker : pc[w] = "bind" /\ req[w].cmd = "login" =>
        /\ session[w] # None
        /\ \A v \in Worker : pc[v] \in {"call", "bind"} /\ session[v] = session[w] => v = w
        /\ \A f \in FD : client_sessions[f] # session[w]
AliveInv == HeldAlive /\ LoginAlive /\ LoginOwn /\ BoundAlive

\* No two workers handle requests of one client that waits for its replies.
LEMMA OneHeld ==
    ASSUME ServInv, OnceInv, NEW v \in Worker, NEW w \in Worker,
           req[v] # None, req[w] # None, req[v].by = req[w].by, req[w].by \in Patient
    PROVE  v = w
<1> DEFINE c == req[w].by
           H == HeldBy(req, c)
<1>1. req[w] \in Request /\ c \in Client
  BY DEF ServInv, TypeInv, WorkerTypes, Request
<1>2. Pending(c) <= unanswered[c] /\ unanswered[c] \in 0 .. 1
  <2>1. unanswered[c] \in 0 .. InFlight /\ unanswered[c] <= 1
    BY <1>1 DEF ServInv, TypeInv, ClientTypes
  <2>2. unanswered[c] \in 0 .. 1
    BY <2>1, ServerAssumption
  <2>3. QED
    BY <1>1, <2>2 DEF OnceInv, Counted, Fits
<1>3. IsFiniteSet(H) /\ Cardinality(H) \in Nat
  BY HeldFinite
<1>4. Cardinality(QueuedBy(op_queue, c)) \in Nat
  BY QueuedFinite DEF ServInv, TypeInv, QueueTypes
<1>5. Len(inbox[c]) \in Nat
  BY <1>1 DEF ServInv, TypeInv, ClientTypes
<1>6. Pending(c) = Len(inbox[c]) + Cardinality(QueuedBy(op_queue, c)) + Cardinality(H)
  BY PendingIs
<1>7. v \in H /\ w \in H
  BY DEF HeldBy
<1> HIDE DEF H, c
<1>8. Cardinality(H) <= 1
  BY <1>2, <1>3, <1>4, <1>5, <1>6
<1>9. ASSUME v # w PROVE FALSE
  <2>1. IsFiniteSet({v}) /\ Cardinality({v}) = 1
    BY FS_Singleton
  <2>2. Cardinality({v} \cup {w}) = 2 /\ {v} \cup {w} \subseteq H
    <3>1. w \notin {v}
      BY <1>9
    <3>2. Cardinality({v} \cup {w}) = Cardinality({v}) + 1
      BY <2>1, <3>1, FS_AddElement
    <3>3. QED
      BY <1>7, <2>1, <3>2
  <2>3. Cardinality({v} \cup {w}) <= Cardinality(H)
    BY <1>3, <2>2, FS_Subset
  <2>4. QED
    BY <1>3, <1>8, <2>2, <2>3
<1>10. QED
  BY <1>9

\* Nor do two workers handle requests of its descriptor.
LEMMA OneServed ==
    ASSUME ServInv, OnceInv, NEW v \in Worker, NEW w \in Worker, req[w].by \in Patient,
           pc[v] \in {"lookup", "call", "bind", "reply"},
           pc[w] \in {"lookup", "call", "bind", "reply"}, req[v].client_fd = req[w].client_fd
    PROVE  v = w
<1>1. /\ req[v] \in Request /\ req[w] \in Request /\ None \notin Request
      /\ req[v].by \in Client /\ req[w].by \in Client /\ req[w].client_fd \in FD
  BY ServerAssumption DEF ServInv, TypeInv, WorkerTypes, Request
<1>2. Uses(req[v].by, req[w].client_fd) /\ Uses(req[w].by, req[w].client_fd)
  BY <1>1 DEF Uses
<1>3. req[v].by = req[w].by
  BY <1>1, <1>2 DEF ServInv, UseInv, OneUser
<1>4. QED
  BY <1>1, <1>3, OneHeld

\* Steps that neither destroy nor bind a session, nor end a logout.
LEMMA SameAlive ==
    ASSUME AliveInv, live \subseteq live', UNCHANGED req,
           \A f \in FD : client_sessions'[f] # None => client_sessions'[f] = client_sessions[f],
           \A w \in Worker : /\ pc[w] = "bind" <=> pc'[w] = "bind"
                             /\ pc'[w] \in {"call", "bind"} => pc'[w] = pc[w] /\ session'[w] = session[w]
    PROVE  AliveInv'
<1>1. \A f \in FD : LoggingOut(f) => LoggingOut(f)'
  BY DEF LoggingOut
<1>2. BoundAlive'
  BY <1>1 DEF AliveInv, BoundAlive
<1>3. HeldAlive'
  BY DEF AliveInv, HeldAlive
<1>4. LoginAlive'
  BY DEF AliveInv, LoginAlive
<1>5. LoginOwn'
  BY DEF AliveInv, LoginOwn
<1>6. QED
  BY <1>2, <1>3, <1>4, <1>5 DEF AliveInv

LEMMA LookupAlive ==
    ASSUME ServInv, OnceInv, AliveInv, NEW w \in Worker, lookup(w)
    PROVE  AliveInv'
<1> DEFINE f == req[w].client_fd
<1>1. /\ pc[w] = "lookup" /\ pc' = [pc EXCEPT ![w] = "call"]
      /\ session' = [session EXCEPT ![w] = client_sessions[f]]
      /\ UNCHANGED <<req, client_sessions, live>>
  BY DEF lookup, core_vars
<1>2. /\ req[w] \in Request /\ f \in FD
      /\ pc \in [Worker -> {"idle", "waiting", "notified", "lookup", "call", "bind", "reply", "done"}]
      /\ session \in [Worker -> Session \cup {None}]
  BY <1>1 DEF ServInv, TypeInv, WorkerTypes, Request
<1>3. req[w].by \in Patient => ~LoggingOut(f)
  BY <1>1, OneServed DEF LoggingOut
<1>4. req[w].by \in Patient /\ client_sessions[f] # None => client_sessions[f] \in live
  BY <1>2, <1>3 DEF AliveInv, BoundAlive
<1> HIDE DEF f
<1>5. HeldAlive'
  BY <1>1, <1>2, <1>4 DEF AliveInv, HeldAlive
<1>6. LoginAlive'
  BY <1>1, <1>2 DEF AliveInv, LoginAlive
<1>7. BoundAlive'
  BY <1>1, <1>2 DEF AliveInv, BoundAlive, LoggingOut
<1>8. LoginOwn'
  BY <1>1, <1>2 DEF AliveInv, LoginOwn
<1>9. QED
  BY <1>5, <1>6, <1>7, <1>8 DEF AliveInv

\* The session of a login is new: no worker holds it and no descriptor leads to it.
LEMMA LoginKeepsAlive ==
    ASSUME ServInv, AliveInv, NEW w \in Worker, login(w)
    PROVE  AliveInv'
<1>1. PICK s \in Session : /\ opener[s] = None /\ live' = live \cup {s}
                           /\ session' = [session EXCEPT ![w] = s]
  BY DEF login
<1>2. /\ pc[w] = "call" /\ pc' = [pc EXCEPT ![w] = "bind"] /\ UNCHANGED <<req, client_sessions>>
      /\ pc \in [Worker -> {"idle", "waiting", "notified", "lookup", "call", "bind", "reply", "done"}]
      /\ session \in [Worker -> Session \cup {None}]
  BY DEF login, ServInv, TypeInv, WorkerTypes
<1>3. s # None /\ None \notin Client
  BY ServerAssumption
<1>4. ASSUME NEW v \in Worker, pc[v] \in {"call", "bind"} PROVE session[v] # s
  <2>1. req[v].by \in Client
    BY <1>4 DEF ServInv, TypeInv, WorkerTypes, Request
  <2>2. QED
    BY <1>1, <1>3, <2>1 DEF ServInv, OwnSession
<1>5. ASSUME NEW f \in FD PROVE client_sessions[f] # s
  BY <1>1, <1>3 DEF ServInv, UseInv, BoundOpened
<1>6. HeldAlive'
  BY <1>1, <1>2 DEF AliveInv, HeldAlive
<1>7. LoginAlive'
  BY <1>1, <1>2 DEF AliveInv, LoginAlive
<1>8. LoginOwn'
  BY <1>1, <1>2, <1>3, <1>4, <1>5 DEF AliveInv, LoginOwn
<1>9. BoundAlive'
  BY <1>1, <1>2 DEF AliveInv, BoundAlive, LoggingOut
<1>10. QED
  BY <1>6, <1>7, <1>8, <1>9 DEF AliveInv

\* The session a logout destroys is bound to no descriptor but its own, and held by
\* no other worker that handles a client that waits.
LEMMA LogoutAlive ==
    ASSUME ServInv, OnceInv, AliveInv, NEW w \in Worker, logout(w)
    PROVE  AliveInv'
<1> DEFINE s == session[w]
           f == req[w].client_fd
<1>1. /\ pc[w] = "call" /\ req[w].cmd = "logout" /\ s # None
      /\ live' = live \ {s} /\ pc' = [pc EXCEPT ![w] = "bind"]
      /\ UNCHANGED <<req, session, client_sessions>>
  BY DEF logout
<1>2. /\ req[w] \in Request /\ f \in FD /\ req[w].by \in Client /\ opener[s] = req[w].by
      /\ pc \in [Worker -> {"idle", "waiting", "notified", "lookup", "call", "bind", "reply", "done"}]
  BY <1>1 DEF ServInv, TypeInv, WorkerTypes, Request, OwnSession
<1>3. ASSUME NEW v \in Worker, pc[v] \in {"call", "bind"}, session[v] = s, req[v].by \in Patient
      PROVE  v = w
  <2>1. req[v].by = req[w].by
    BY <1>1, <1>2, <1>3 DEF ServInv, OwnSession
  <2>2. req[v] # None /\ req[w] # None
    BY <1>2, <1>3, ServerAssumption DEF ServInv, TypeInv, WorkerTypes
  <2>3. QED
    BY <1>3, <2>1, <2>2, OneHeld
<1>4. ASSUME NEW g \in FD, client_sessions[g] = s PROVE g = f
  <2>1. Uses(req[w].by, g) /\ Uses(req[w].by, f)
    BY <1>1, <1>2, <1>4 DEF Uses
  <2>2. QED
    BY <1>2, <2>1 DEF ServInv, UseInv, OneFd
<1>5. HeldAlive'
  BY <1>1, <1>2, <1>3 DEF AliveInv, HeldAlive
<1>6. LoginAlive' /\ LoginOwn'
  <2>1. \A v \in Worker : pc[v] = "bind" /\ req[v].cmd = "login" => session[v] # s
    BY <1>1 DEF AliveInv, LoginOwn
  <2>2. \A v \in Worker : pc'[v] = "bind" /\ req'[v].cmd = "login" => pc[v] = "bind"
    BY <1>1, <1>2
  <2>3. \A v \in Worker : pc'[v] \in {"call", "bind"} => pc[v] \in {"call", "bind"}
    BY <1>1, <1>2
  <2> HIDE DEF s
  <2>4. LoginAlive'
    BY <1>1, <2>1, <2>2 DEF AliveInv, LoginAlive
  <2>5. LoginOwn'
    BY <1>1, <2>2, <2>3 DEF AliveInv, LoginOwn
  <2>6. QED
    BY <2>4, <2>5
<1>7. \A g \in FD : LoggingOut(g) => LoggingOut(g)'
  BY <1>1, <1>2 DEF LoggingOut
<1>8. \A g \in FD : g = f => LoggingOut(g)'
  BY <1>1, <1>2 DEF LoggingOut
<1> HIDE DEF f, s
<1>9. BoundAlive'
  <2> SUFFICES ASSUME NEW g \in FD, client_sessions[g] # None
               PROVE  client_sessions[g] \in live' \/ LoggingOut(g)'
    BY <1>1 DEF BoundAlive
  <2>1. client_sessions[g] \in live \/ LoggingOut(g)
    BY DEF AliveInv, BoundAlive
  <2>2. QED
    BY <1>1, <1>4, <1>7, <1>8, <2>1
<1>10. QED
  BY <1>5, <1>6, <1>9 DEF AliveInv

LEMMA BindAlive ==
    ASSUME ServInv, AliveInv, NEW w \in Worker, bind(w)
    PROVE  AliveInv'
<1> DEFINE f == req[w].client_fd
<1>1. /\ pc[w] = "bind" /\ pc' = [pc EXCEPT ![w] = "reply"] /\ UNCHANGED <<req, session, live>>
      /\ client_sessions' = [client_sessions EXCEPT ![f] =
                                IF req[w].cmd = "login" THEN session[w] ELSE None]
  BY DEF bind, bound_next, core_vars
<1>2. /\ f \in FD /\ client_sessions \in [FD -> Session \cup {None}]
      /\ pc \in [Worker -> {"idle", "waiting", "notified", "lookup", "call", "bind", "reply", "done"}]
  BY <1>1 DEF ServInv, TypeInv, WorkerTypes, SessionTypes, Request
<1>3. client_sessions'[f] # None => client_sessions'[f] \in live
  BY <1>1, <1>2 DEF AliveInv, LoginAlive
<1>4. \A g \in FD \ {f} : /\ client_sessions'[g] = client_sessions[g]
                          /\ LoggingOut(g) => LoggingOut(g)'
  BY <1>1, <1>2 DEF LoggingOut
<1>5. HeldAlive'
  BY <1>1, <1>2 DEF AliveInv, HeldAlive
<1>6. LoginAlive'
  BY <1>1, <1>2 DEF AliveInv, LoginAlive
<1>7. UNCHANGED live
  BY <1>1
<1>8. LoginOwn'
  <2>1. client_sessions'[f] = None \/ client_sessions'[f] = session[w]
    BY <1>1, <1>2
  <2>2. \A v \in Worker : pc'[v] \in {"call", "bind"} => pc'[v] = pc[v] /\ v # w
    BY <1>1, <1>2
  <2>3. \A v \in Worker : pc[v] = "bind" /\ req[v].cmd = "login" /\ v # w => session[v] # session[w]
    BY <1>1 DEF AliveInv, LoginOwn
  <2>4. UNCHANGED <<req, session>>
    BY <1>1
  <2> HIDE DEF f
  <2>5. QED
    BY <1>4, <2>1, <2>2, <2>3, <2>4 DEF AliveInv, LoginOwn
<1> HIDE DEF f
<1>9. BoundAlive'
  BY <1>3, <1>4, <1>7 DEF AliveInv, BoundAlive
<1>10. QED
  BY <1>5, <1>6, <1>8, <1>9 DEF AliveInv

\* A worker that takes a request, or has answered one, holds no session.
LEMMA TakeAlive ==
    ASSUME ServInv, AliveInv, NEW w \in Worker, pop(w) \/ sendResponse(w)
    PROVE  AliveInv'
<1>1. /\ pc[w] \in {"idle", "notified", "reply"} /\ pc' = [pc EXCEPT ![w] = pc'[w]]
      /\ pc'[w] \in {"lookup", "idle"}
      /\ \A v \in Worker \ {w} : req'[v] = req[v] /\ session'[v] = session[v]
      /\ UNCHANGED <<client_sessions, live>>
  BY DEF pop, take, sendResponse, core_vars, ServInv, TypeInv, WorkerTypes
<1>2. \A v \in Worker : pc'[v] \in {"call", "bind"} \/ pc[v] = "bind" =>
         v # w /\ pc'[v] = pc[v] /\ req'[v] = req[v] /\ session'[v] = session[v]
  BY <1>1 DEF ServInv, TypeInv, WorkerTypes
<1>3. \A f \in FD : LoggingOut(f) => LoggingOut(f)'
  BY <1>2 DEF LoggingOut
<1>4. BoundAlive'
  BY <1>1, <1>3 DEF AliveInv, BoundAlive
<1>5. HeldAlive' /\ LoginAlive' /\ LoginOwn'
  BY <1>1, <1>2 DEF AliveInv, HeldAlive, LoginAlive, LoginOwn
<1>6. QED
  BY <1>4, <1>5 DEF AliveInv

LEMMA AliveStep ==
    ASSUME ServInv, OnceInv, AliveInv, [Next]_vars
    PROVE  AliveInv'
<1> DEFINE Phase == {"idle", "waiting", "notified", "lookup", "call", "bind", "reply", "done"}
<1>1. /\ pc \in [Worker -> Phase] /\ client_sessions \in [FD -> Session \cup {None}]
      /\ AliveInv
  BY DEF ServInv, TypeInv, WorkerTypes, SessionTypes
<1>2. ASSUME NEW c \in Client, NEW cmd \in Cmd, connect(c) \/ send_command(c, cmd) \/ close(c)
      PROVE  AliveInv'
  BY <1>1, <1>2, SameAlive DEF connect, send_command, close, worker_vars, core_vars
<1>3. ASSUME NEW c \in Client, recv_line(c) PROVE AliveInv'
  <2>1. UNCHANGED <<req, session, live, client_sessions>>
    BY <1>3 DEF recv_line, core_vars
  <2>2. \A w \in Worker : pc'[w] = pc[w] \/ (pc[w] = "waiting" /\ pc'[w] = "notified")
    <3>1. UNCHANGED pc \/ \E v \in Worker : pc[v] = "waiting" /\ pc' = [pc EXCEPT ![v] = "notified"]
      BY <1>3 DEF recv_line, push
    <3>2. ASSUME NEW v \in Worker, pc[v] = "waiting", pc' = [pc EXCEPT ![v] = "notified"]
          PROVE  \A w \in Worker : pc'[w] = pc[w] \/ (pc[w] = "waiting" /\ pc'[w] = "notified")
      BY <1>1, <3>2
    <3>3. QED
      BY <3>1, <3>2
  <2>3. QED
    BY <1>1, <2>1, <2>2, SameAlive
<1>4. ASSUME NEW c \in Client, recv_end(c) PROVE AliveInv'
  <2>1. /\ UNCHANGED <<req, session, live, pc>>
        /\ client_sessions' = [client_sessions EXCEPT ![fd_of[c]] = None]
    BY <1>4 DEF recv_end, forget_session, worker_vars, core_vars
  <2>2. QED
    BY <1>1, <2>1, SameAlive
<1>5. CASE Accept
  <2>1. ASSUME NEW c \in Client, NEW f \in FD, select_accept(c, f) PROVE AliveInv'
    BY <1>1, <2>1, SameAlive DEF select_accept, worker_vars, core_vars
  <2>2. CASE select_read \/ accept_exit
    BY <1>1, <2>2, SameAlive DEF select_read, accept_exit, worker_vars, core_vars
  <2>3. QED
    BY <1>3, <1>4, <1>5, <2>1, <2>2 DEF Accept
<1>6. ASSUME NEW w \in Worker, workerLoop(w) PROVE AliveInv'
  <2>1. CASE pop_wait(w) \/ worker_exit(w) \/ call(w)
    <3>1. UNCHANGED <<req, session, live, client_sessions>>
      BY <2>1 DEF pop_wait, worker_exit, call, core_vars
    <3>2. \A v \in Worker : pc'[v] = pc[v] \/ (pc[v] # "bind" /\ pc'[v] \in {"waiting", "done", "reply"})
      BY <1>1, <2>1 DEF pop_wait, worker_exit, call
    <3>3. QED
      BY <1>1, <3>1, <3>2, SameAlive
  <2>2. QED
    BY <1>6, <2>1, LookupAlive, LoginKeepsAlive, LogoutAlive, BindAlive, TakeAlive DEF workerLoop
<1>7. CASE stop \/ join \/ UNCHANGED vars
  BY <1>1, <1>7, SameAlive DEF stop, join, vars, worker_vars, core_vars
<1>8. "call" \in Cmd /\ Sent \subseteq Cmd
  BY ServerAssumption DEF Cmd
<1>9. QED
  BY <1>2, <1>5, <1>6, <1>7, <1>8 DEF Next

\* What the last step keeps, it keeps for ever.
LEMMA AliveInvariance == Spec => []AliveInv
<1>1. Init => OnceInv /\ AliveInv
  BY OnceInit DEF Init, AliveInv, HeldAlive, LoginAlive, LoginOwn, BoundAlive
<1>2. ServInv /\ OnceInv /\ AliveInv /\ [Next]_vars => (OnceInv /\ AliveInv)'
  BY OnceStep, AliveStep
<1>3. QED
  BY <1>1, <1>2, Invariance, PTL DEF Spec

\* No core call for a client that waits for each reply is given a session that a
\* logout has destroyed, whatever the other clients do.
THEOREM SessionAliveCorrect == Spec => []SessionAlive
<1>1. AliveInv => SessionAlive
  BY DEF AliveInv, HeldAlive, SessionAlive
<1>2. QED
  BY <1>1, AliveInvariance, PTL

\* A descriptor leads to a destroyed session only while the logout that destroyed it
\* has still to unbind it, whatever any client does.
THEOREM BoundAliveCorrect == Spec => []BoundAlive
<1>1. AliveInv => BoundAlive
  BY DEF AliveInv
<1>2. QED
  BY <1>1, AliveInvariance, PTL
==========================================================================
