---------------------------- MODULE OFSServer ----------------------------
(*************************************************************************)
(* The request server (server/server.cpp, server/server.hpp) with its    *)
(* clients (ui/ofs_terminal_ui.py) and its main thread                   *)
(* (server/main_server.cpp): the accept thread, the request queue and    *)
(* its condition variable, the workers, the table that binds a           *)
(* descriptor to a session, and stop().                                  *)
(* Of the core only the life of sessions is kept: user_login makes one,  *)
(* user_logout destroys it, every other call reads it.                   *)
(*************************************************************************)
EXTENDS Naturals, Sequences, FiniteSets

CONSTANTS
    Client,    \* client programs
    Worker,    \* worker threads (start() makes four)
    NFD,       \* descriptors the process can give to clients: 1 .. NFD
    Session,   \* sessions that can ever be opened: bounds the logins
    Patient,   \* clients that send a command only after the reply to the last, as the UI
    InFlight,  \* commands another client may have sent before it reads a reply
    Sent,      \* commands clients send: bounds a run
    CanStop,   \* whether the operator may press Enter
    None       \* no descriptor, no session, no request

FD  == 1 .. NFD
Cmd == {"login", "logout", "call"}
Request == [client_fd : FD, cmd : Cmd, by : Client]

ASSUME ServerAssumption ==
    /\ NFD \in Nat /\ InFlight \in Nat \ {0} /\ CanStop \in BOOLEAN
    /\ Patient \subseteq Client /\ Sent \subseteq Cmd
    /\ None \notin FD \cup Session \cup Request \cup Client
ASSUME WorkerAssumption == IsFiniteSet(Worker)

VARIABLES
    running,          \* OFSServer::running
    main,             \* where the main thread is
    acceptor,         \* whether acceptLoop runs
    round,            \* descriptors select() reported that are still to be read
    master,           \* acceptLoop's fd_set, the listening socket apart
    open,             \* descriptors of the process that are open
    client_sessions,  \* OFSServer::client_sessions
    op_queue,         \* OFSServer::op_queue
    pc, req, session, \* of each worker: where it is, its request, its session
    live,             \* the sessions of the core (inst->sessions)
    opener,           \* which client's login made a session
    backlog,          \* clients whose connection waits to be accepted
    conn,             \* of each client: whether its end of the connection is open
    fd_of,            \* of each client: the descriptor its connection has
    inbox,            \* of each client: commands sent and not yet received
    unanswered        \* of each client: commands sent minus replies received

server_vars == <<running, main, acceptor, round, master, open>>
worker_vars == <<pc, req, session>>
core_vars   == <<live, opener>>
client_vars == <<backlog, conn, fd_of, inbox, unanswered>>
vars == <<server_vars, client_sessions, op_queue, worker_vars, core_vars, client_vars>>

-----------------------------------------------------------------------------
(* start(). *)
Init ==
    /\ running = TRUE /\ main = "serving" /\ acceptor = "loop"
    /\ round = {} /\ master = {} /\ open = {}
    /\ client_sessions = [f \in FD |-> None]
    /\ op_queue = <<>>
    /\ pc = [w \in Worker |-> "idle"]
    /\ req = [w \in Worker |-> None]
    /\ session = [w \in Worker |-> None]
    /\ live = {} /\ opener = [s \in Session |-> None]
    /\ backlog = {} /\ conn = [c \in Client |-> "new"]
    /\ fd_of = [c \in Client |-> None]
    /\ inbox = [c \in Client |-> <<>>]
    /\ unanswered = [c \in Client |-> 0]

-----------------------------------------------------------------------------
(* Clients. *)

\* The kernel completes the connection; it waits in the listen queue.
connect(c) ==
    /\ conn[c] = "new" /\ running
    /\ conn' = [conn EXCEPT ![c] = "open"]
    /\ backlog' = backlog \cup {c}
    /\ UNCHANGED <<fd_of, inbox, unanswered>>
    /\ UNCHANGED <<server_vars, client_sessions, op_queue, worker_vars, core_vars>>

Window(c) == IF c \in Patient THEN 1 ELSE InFlight

\* send_command up to its recv.
send_command(c, cmd) ==
    /\ conn[c] = "open" /\ unanswered[c] < Window(c)
    /\ inbox' = [inbox EXCEPT ![c] = Append(@, cmd)]
    /\ unanswered' = [unanswered EXCEPT ![c] = @ + 1]
    /\ UNCHANGED <<backlog, conn, fd_of>>
    /\ UNCHANGED <<server_vars, client_sessions, op_queue, worker_vars, core_vars>>

\* The client closes its connection, or dies, at any time.
close(c) ==
    /\ conn[c] = "open"
    /\ conn' = [conn EXCEPT ![c] = "closed"]
    /\ UNCHANGED <<backlog, fd_of, inbox, unanswered>>
    /\ UNCHANGED <<server_vars, client_sessions, op_queue, worker_vars, core_vars>>

-----------------------------------------------------------------------------
(* The threads of the server. *)

\* A core call reads the session its worker holds after a logout destroyed it;
\* user_login reads none.
UsesFreed(w) ==
    /\ pc[w] = "call" /\ req[w].cmd # "login"
    /\ session[w] # None /\ session[w] \notin live

\* What the process does after such a read is undefined: the model ends there.
Defined == \A w \in Worker : ~UsesFreed(w)

-----------------------------------------------------------------------------
(* The accept thread.  Its select() and the accept() after it are one step,  *)
(* every recv() with what follows it another.                                *)

\* Clients the server holds a descriptor for.
Accepted == {c \in Client : fd_of[c] # None}
Readable == {fd_of[c] : c \in {d \in Accepted : inbox[d] # <<>> \/ conn[d] = "closed"}}

\* The lowest descriptor not open.
NextFD == {f \in FD \ open : \A g \in FD \ open : f <= g}

\* A descriptor closed without FD_CLR stays in master: select() then fails with
\* EBADF, and the loop starts over.
Selects == master \subseteq open

\* select() returns, with the descriptors to read; a waiting client is accepted.
select_accept(c, f) ==
    /\ acceptor = "loop" /\ running /\ round = {} /\ Selects
    /\ c \in backlog /\ f \in NextFD
    /\ round' = Readable
    /\ master' = master \cup {f} /\ open' = open \cup {f}
    /\ fd_of' = [fd_of EXCEPT ![c] = f]
    /\ backlog' = backlog \ {c}
    /\ UNCHANGED <<running, main, acceptor, conn, inbox, unanswered>>
    /\ UNCHANGED <<client_sessions, op_queue, worker_vars, core_vars>>

\* select() returns with descriptors to read; accept() has nobody, or no descriptor.
select_read ==
    /\ acceptor = "loop" /\ running /\ round = {} /\ Selects
    /\ backlog = {} \/ NextFD = {}
    /\ Readable # {}
    /\ round' = Readable
    /\ UNCHANGED <<running, main, acceptor, master, open>>
    /\ UNCHANGED <<client_sessions, op_queue, worker_vars, core_vars, client_vars>>

Holder(f) == {c \in Client : fd_of[c] = f}

\* Faulty: nobody is notified.
push_silently(r) == op_queue' = Append(op_queue, r) /\ UNCHANGED pc

\* push: one waiting worker, if there is one, is notified.
push(r) ==
    /\ op_queue' = Append(op_queue, r)
    /\ \/ /\ \A w \in Worker : pc[w] # "waiting"
          /\ UNCHANGED pc
       \/ \E w \in Worker : /\ pc[w] = "waiting"
                            /\ pc' = [pc EXCEPT ![w] = "notified"]

\* recv() returns bytes: the next line becomes a request; the descriptor stays
\* in the round until its last line.
recv_line(c) ==
    /\ acceptor = "loop" /\ fd_of[c] \in round /\ inbox[c] # <<>>
    /\ push([client_fd |-> fd_of[c], cmd |-> Head(inbox[c]), by |-> c])
    /\ inbox' = [inbox EXCEPT ![c] = Tail(@)]
    /\ round' = IF Tail(inbox[c]) = <<>> THEN round \ {fd_of[c]} ELSE round
    /\ UNCHANGED <<running, main, acceptor, master, open, backlog, conn, fd_of, unanswered>>
    /\ UNCHANGED <<client_sessions, req, session, core_vars>>

\* Faulty: FD_CLR without close(); close() with FD_CLR and nothing more.
clear_fd(f)           == master' = master \ {f} /\ UNCHANGED open
close_and_clear_fd(f) == open' = open \ {f} /\ master' = master \ {f}

\* close(fd); master keeps the descriptor.
close_fd(f) == open' = open \ {f} /\ UNCHANGED master

\* Faulty: the session is logged out at once.
forget_and_logout(f) ==
    /\ client_sessions' = [client_sessions EXCEPT ![f] = None]
    /\ live' = live \ {client_sessions[f]} /\ UNCHANGED opener

\* client_sessions.erase(fd): the session itself lives on.
forget_session(f) ==
    client_sessions' = [client_sessions EXCEPT ![f] = None] /\ UNCHANGED core_vars

\* recv() returns 0 or an error.
recv_end(c) ==
    /\ acceptor = "loop" /\ fd_of[c] \in round /\ inbox[c] = <<>>
    /\ close_fd(fd_of[c])
    /\ forget_session(fd_of[c])
    /\ round' = round \ {fd_of[c]}
    /\ fd_of' = [fd_of EXCEPT ![c] = None]
    /\ UNCHANGED <<running, main, acceptor, backlog, conn, inbox, unanswered>>
    /\ UNCHANGED <<op_queue, worker_vars>>

\* Faulty: a failing select() is tried again without a look at running.
loop_ends_selecting == ~running /\ round = {} /\ Selects

\* while(running), looked at before every select().
loop_ends == ~running /\ round = {}

accept_exit ==
    /\ acceptor = "loop" /\ loop_ends
    /\ acceptor' = "done"
    /\ UNCHANGED <<running, main, round, master, open>>
    /\ UNCHANGED <<client_sessions, op_queue, worker_vars, core_vars, client_vars>>

Accept == /\ Defined
          /\ \/ \E c \in Client, f \in FD : select_accept(c, f)
             \/ select_read
             \/ \E c \in Client : recv_line(c)
             \/ \E c \in Client : recv_end(c)
             \/ accept_exit

-----------------------------------------------------------------------------
(* Workers. *)

\* Faulty: front() without pop().
take_front(w) ==
    req' = [req EXCEPT ![w] = Head(op_queue)] /\ UNCHANGED op_queue

\* front() and pop() of the queue.
take(w) ==
    req' = [req EXCEPT ![w] = Head(op_queue)] /\ op_queue' = Tail(op_queue)

\* pop with a request in the queue.
pop(w) ==
    /\ \/ pc[w] = "idle" /\ running
       \/ pc[w] = "notified"
    /\ op_queue # <<>>
    /\ take(w)
    /\ pc' = [pc EXCEPT ![w] = "lookup"]
    /\ UNCHANGED session
    /\ UNCHANGED <<server_vars, client_sessions, core_vars, client_vars>>

\* pop with an empty queue waits; running is not part of what it waits for.
pop_wait(w) ==
    /\ \/ pc[w] = "idle" /\ running
       \/ pc[w] = "notified"
    /\ op_queue = <<>>
    /\ pc' = [pc EXCEPT ![w] = "waiting"]
    /\ UNCHANGED <<req, session>>
    /\ UNCHANGED <<server_vars, client_sessions, op_queue, core_vars, client_vars>>

worker_exit(w) ==
    /\ pc[w] = "idle" /\ ~running
    /\ pc' = [pc EXCEPT ![w] = "done"]
    /\ UNCHANGED <<req, session>>
    /\ UNCHANGED <<server_vars, client_sessions, op_queue, core_vars, client_vars>>

\* handleRequest copies the session of the descriptor under session_mtx.
lookup(w) ==
    /\ pc[w] = "lookup"
    /\ session' = [session EXCEPT ![w] = client_sessions[req[w].client_fd]]
    /\ pc' = [pc EXCEPT ![w] = "call"]
    /\ UNCHANGED req
    /\ UNCHANGED <<server_vars, client_sessions, op_queue, core_vars, client_vars>>

\* user_login succeeds: a new session, whether or not there is one already.
login(w) ==
    /\ pc[w] = "call" /\ req[w].cmd = "login"
    /\ \E s \in {t \in Session : opener[t] = None} :
          /\ live' = live \cup {s}
          /\ opener' = [opener EXCEPT ![s] = req[w].by]
          /\ session' = [session EXCEPT ![w] = s]
    /\ pc' = [pc EXCEPT ![w] = "bind"]
    /\ UNCHANGED req
    /\ UNCHANGED <<server_vars, client_sessions, op_queue, client_vars>>

\* user_logout destroys the session the worker holds.
logout(w) ==
    /\ pc[w] = "call" /\ req[w].cmd = "logout" /\ session[w] # None
    /\ live' = live \ {session[w]}
    /\ pc' = [pc EXCEPT ![w] = "bind"]
    /\ UNCHANGED <<req, session, opener>>
    /\ UNCHANGED <<server_vars, client_sessions, op_queue, client_vars>>

\* Every other call, and a login or logout that fails, only reads the session.
call(w) ==
    /\ pc[w] = "call"
    /\ req[w].cmd = "logout" => session[w] = None
    /\ pc' = [pc EXCEPT ![w] = "reply"]
    /\ UNCHANGED <<req, session>>
    /\ UNCHANGED <<server_vars, client_sessions, op_queue, core_vars, client_vars>>

\* Faulty: a logout leaves its session bound.
bound_still(w) == session[w]

\* After the core call: the session is bound to the descriptor, or unbound,
\* whatever has become of the descriptor meanwhile.
bound_next(w) == IF req[w].cmd = "login" THEN session[w] ELSE None
bind(w) ==
    /\ pc[w] = "bind"
    /\ client_sessions' = [client_sessions EXCEPT ![req[w].client_fd] = bound_next(w)]
    /\ pc' = [pc EXCEPT ![w] = "reply"]
    /\ UNCHANGED <<req, session>>
    /\ UNCHANGED <<server_vars, op_queue, core_vars, client_vars>>

\* sendResponse: whoever holds the descriptor now gets the reply.
sendResponse(w) ==
    /\ pc[w] = "reply"
    /\ unanswered' = [c \in Client |->
                        IF fd_of[c] = req[w].client_fd /\ unanswered[c] > 0
                        THEN unanswered[c] - 1 ELSE unanswered[c]]
    /\ pc' = [pc EXCEPT ![w] = "idle"]
    /\ req' = [req EXCEPT ![w] = None]
    /\ session' = [session EXCEPT ![w] = None]
    /\ UNCHANGED <<backlog, conn, fd_of, inbox>>
    /\ UNCHANGED <<server_vars, client_sessions, op_queue, core_vars>>

workerLoop(w) ==
    /\ Defined
    /\ \/ pop(w) \/ pop_wait(w) \/ worker_exit(w)
       \/ lookup(w) \/ login(w) \/ logout(w) \/ call(w) \/ bind(w) \/ sendResponse(w)

-----------------------------------------------------------------------------
(* The main thread. *)

\* stop(): running is cleared and the listening socket closed.
stop ==
    /\ CanStop /\ main = "serving"
    /\ running' = FALSE /\ main' = "joining"
    /\ UNCHANGED <<acceptor, round, master, open>>
    /\ UNCHANGED <<client_sessions, op_queue, worker_vars, core_vars, client_vars>>

\* The joins return once the accept thread and every worker have ended.
join ==
    /\ main = "joining" /\ acceptor = "done" /\ \A w \in Worker : pc[w] = "done"
    /\ main' = "stopped"
    /\ UNCHANGED <<running, acceptor, round, master, open>>
    /\ UNCHANGED <<client_sessions, op_queue, worker_vars, core_vars, client_vars>>

Next ==
    \/ \E c \in Client : connect(c)
    \/ \E c \in Client, cmd \in Sent : send_command(c, cmd)
    \/ \E c \in Client : close(c)
    \/ Accept
    \/ \E w \in Worker : workerLoop(w)
    \/ stop
    \/ join

Spec == Init /\ [][Next]_vars

\* Every thread that can run does run.  Clients and the operator owe nothing.
FairSpec == /\ Spec
            /\ WF_vars(Accept)
            /\ \A w \in Worker : WF_vars(workerLoop(w))
            /\ WF_vars(join)

-----------------------------------------------------------------------------
(* Properties. *)

\* Type invariant.
TypeOK ==
    /\ running \in BOOLEAN /\ main \in {"serving", "joining", "stopped"}
    /\ acceptor \in {"loop", "done"}
    /\ round \subseteq FD /\ master \subseteq FD /\ open \subseteq master
    /\ client_sessions \in [FD -> Session \cup {None}]
    /\ op_queue \in Seq(Request)
    /\ pc \in [Worker -> {"idle", "waiting", "notified", "lookup", "call", "bind", "reply", "done"}]
    /\ req \in [Worker -> Request \cup {None}]
    /\ session \in [Worker -> Session \cup {None}]
    /\ live \subseteq Session /\ opener \in [Session -> Client \cup {None}]
    /\ backlog \subseteq Client /\ conn \in [Client -> {"new", "open", "closed"}]
    /\ fd_of \in [Client -> FD \cup {None}]
    /\ inbox \in [Client -> Seq(Cmd)] /\ unanswered \in [Client -> 0 .. InFlight]

\* No core call for a client that waits for each reply, as the UI does, is given a
\* session that a logout has destroyed, however many commands of other clients
\* run at once: the pointer a worker copied under the lock and uses after it
\* stays good.  A client that does not wait can do this to itself.
SessionAlive ==
    \A w \in Worker :
       pc[w] = "call" /\ session[w] # None /\ req[w].by \in Patient => session[w] \in live

\* No descriptor leads to a destroyed session, except while the worker whose
\* logout destroyed it is on its way from user_logout to the erase: that is all
\* the time in which a command can look one up, whatever logins, logouts and
\* disconnects run beside it.
LoggingOut(f) == \E w \in Worker : pc[w] = "bind" /\ req[w].cmd = "logout" /\ req[w].client_fd = f
BoundAlive ==
    \A f \in FD : client_sessions[f] # None => client_sessions[f] \in live \/ LoggingOut(f)

\* A request runs in a session its own client opened, never in one another
\* client's login left behind on the same descriptor.
SessionIsOwn ==
    \A w \in Worker : pc[w] = "call" /\ session[w] # None => opener[session[w]] = req[w].by

\* A reply reaches the client that sent the command or nobody.
ReplyToAsker == \A w \in Worker : pc[w] = "reply" => Holder(req[w].client_fd) \subseteq {req[w].by}

\* Commands of c that are on their way: sent, queued, or with a worker.
Pending(c) ==
    Len(inbox[c]) + Cardinality({i \in DOMAIN op_queue : op_queue[i].by = c})
                  + Cardinality({w \in Worker : req[w] # None /\ req[w].by = c})

\* No command is lost, repeated or answered twice between the socket, the queue
\* and the workers: a connected client waits for exactly the replies to come.
EachCommandOnce == \A c \in Client : conn[c] = "open" => unanswered[c] = Pending(c)

InServer(c) == \/ \E i \in DOMAIN op_queue : op_queue[i].by = c
               \/ \E w \in Worker : req[w] # None /\ req[w].by = c

\* A command that reached the queue is answered unless the server is stopped:
\* no worker waits for ever while requests are queued, whatever order pushes,
\* pops and notifications come in.
QueuedAnswered == \A c \in Client : InServer(c) ~> (~InServer(c) \/ ~running)

\* stop() gets past its first join: the accept thread ends, also when its
\* select() has been failing.
AcceptEnds == main = "joining" ~> acceptor = "done"

\* What the docstring of send_command says: a command gets a reply, or an error
\* when the network fails.  Neither comes once another client has left.
CommandsReturn ==
    \A c \in Client : unanswered[c] > 0 ~> (unanswered[c] = 0 \/ conn[c] = "closed")

\* "Press Enter to stop server": stop() returns.
StopEnds == main = "joining" ~> main = "stopped"
==========================================================================
