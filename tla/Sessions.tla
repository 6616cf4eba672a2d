------------------------------ MODULE Sessions ------------------------------
(***************************************************************************)
(* The server's sessions: one reactor thread (main's epoll loop), worker   *)
(* threads, and the array user[MAX_FD] of session objects, indexed by the  *)
(* descriptor of a connection.  A descriptor that was closed is given to   *)
(* the next connection, and its object with it, while the thread that      *)
(* closed it may still be inside close_connect.  Steps are the accesses to *)
(* the objects and to the kernel's tables, none of them locked.            *)
(*                                                                         *)
(* What a handler does with keys is module KeyService, the pool's locking  *)
(* is module ThreadPool; here the pool is a FIFO of pointers.  epoll_wait  *)
(* returns one event at a time.  m_customer_count is left out: it is only  *)
(* compared with MAX_FD, more descriptors than a process may have.         *)
(***************************************************************************)
EXTENDS Integers, Sequences, FiniteSets

CONSTANTS Conns,      \* bound: connections, one request each
          FDs,        \* descriptors the process may use for connections
          EMFILE,     \* errno of accept when all are in use
          Workers, Reactor,
          NoConn,
          Outcomes,   \* bound: how handlers end, of "answer", "drop", "refuse"
          Mishaps,    \* bound: of "fragment", "hangup", "sendfails"
          MaxErrnos   \* bound: failing accepts

ASSUME FDsAssumption == FDs \subseteq Nat \ {0}
ASSUME NamesAssumption == NoConn \notin Conns /\ Reactor \notin Workers

Threads == Workers \cup {Reactor}

VARIABLES
    conn,    \* each connection: "none", "pending" in the backlog, "open", "closed"
    msg,     \* what the client has sent: "whole", or "part" of a message; "read"
    fin,     \* the client has closed its end
    fdOf,    \* the kernel's descriptor table: the connection of each descriptor
    epoll,   \* per descriptor: "none", "armed", or "fired" (EPOLLONESHOT, never re-armed)
    user,    \* the session objects
    queue,   \* the pool's requests: pointers to session objects
    pc, obj, \* each thread's next step, and the object it works on
    own,     \* history: the connection the thread works for
    again,   \* close_connect will be called once more by the caller's caller
    alive,   \* the server process runs
    errnos,
    twice,   \* history: a second close_connect for one connection has begun
    handled, \* history: how often each request was handled
    sent,    \* history: answers sent, as <<request's connection, receiving connection>>
    cut      \* history: a thread has closed a connection it did not work for

netVars    == <<conn, msg, fin>>
kernelVars == <<fdOf, epoll>>
threadVars == <<pc, obj, own, again>>
history    == <<twice, handled, sent, cut>>
vars == <<netVars, kernelVars, user, queue, threadVars, alive, errnos, history>>

EmptySession == [sockfd |-> -1, sock |-> -1, data |-> NoConn]

Init == /\ conn = [c \in Conns |-> "none"]
        /\ msg = [c \in Conns |-> "whole"]
        /\ fin = [c \in Conns |-> FALSE]
        /\ fdOf = [f \in FDs |-> NoConn]
        /\ epoll = [f \in FDs |-> "none"]
        /\ user = [f \in FDs |-> EmptySession]
        /\ queue = <<>>
        /\ pc = [t \in Threads |-> "idle"]
        /\ obj = [t \in Threads |-> 0]
        /\ own = [t \in Threads |-> NoConn]
        /\ again = [t \in Threads |-> FALSE]
        /\ alive = TRUE /\ errnos = 0
        /\ twice = FALSE /\ sent = {} /\ cut = FALSE
        /\ handled = [c \in Conns |-> 0]

Goto(t, l) == pc' = [pc EXCEPT ![t] = l]

\* The thread t turns to an object, on behalf of a connection.
Begin(t, l, f, c) == /\ Goto(t, l)
                     /\ obj' = [obj EXCEPT ![t] = f]
                     /\ own' = [own EXCEPT ![t] = c]

\* The thread t will call close_connect, once or twice.
Leave(t, calls) == /\ Goto(t, "close")
                   /\ again' = [again EXCEPT ![t] = calls = 2]
-----------------------------------------------------------------------------
(* The clients. *)

Connect(c) == /\ alive /\ conn[c] = "none"
              /\ conn' = [conn EXCEPT ![c] = "pending"]
              /\ \E m \in IF "fragment" \in Mishaps THEN {"whole", "part"} ELSE {"whole"} :
                    msg' = [msg EXCEPT ![c] = m]
              /\ UNCHANGED <<fin, kernelVars, user, queue, threadVars, alive, errnos, history>>

HangUp(c) == /\ "hangup" \in Mishaps
             /\ alive /\ conn[c] \in {"pending", "open"} /\ ~fin[c]
             /\ fin' = [fin EXCEPT ![c] = TRUE]
             /\ UNCHANGED <<conn, msg, kernelVars, user, queue, threadVars, alive, errnos,
                            history>>
-----------------------------------------------------------------------------
(* The reactor: main's epoll loop. *)

\* The connection a descriptor names, if any: -1 and closed ones name none.
ConnOn(s) == IF s \in FDs THEN fdOf[s] ELSE NoConn

FreeFDs == {f \in FDs : fdOf[f] = NoConn}
Lowest(S) == CHOOSE f \in S : \A g \in S : f <= g

\* acceptConn: the lowest free descriptor.
Accept(c) == /\ alive /\ pc[Reactor] = "idle"
             /\ conn[c] = "pending" /\ FreeFDs # {}
             /\ conn' = [conn EXCEPT ![c] = "open"]
             /\ fdOf' = [fdOf EXCEPT ![Lowest(FreeFDs)] = c]
             /\ Begin(Reactor, "init", Lowest(FreeFDs), c)
             /\ UNCHANGED <<msg, fin, epoll, user, queue, again, alive, errnos, history>>

\* No descriptor is left: acceptTimeout returns errno, which main takes for one.
AcceptErrno == /\ alive /\ pc[Reactor] = "idle"
               /\ \E c \in Conns : conn[c] = "pending"
               /\ FreeFDs = {} /\ EMFILE \in FDs
               /\ errnos < MaxErrnos /\ errnos' = errnos + 1
               /\ Begin(Reactor, "init", EMFILE, NoConn)
               /\ UNCHANGED <<netVars, kernelVars, user, queue, again, alive, history>>

\* init up to addfd.
InitSession == /\ alive /\ pc[Reactor] = "init"
               /\ user' = [user EXCEPT ![obj[Reactor]].sockfd = obj[Reactor]]
               /\ Goto(Reactor, "addfd")
               /\ UNCHANGED <<netVars, kernelVars, queue, obj, own, again, alive, errnos,
                              history>>

\* Mutant: a descriptor that is registered already is re-armed.
AddOrModFd == /\ alive /\ pc[Reactor] = "addfd"
              /\ epoll' = [f \in FDs |-> IF /\ f = user[obj[Reactor]].sockfd
                                            /\ fdOf[f] # NoConn
                                         THEN "armed" ELSE epoll[f]]
              /\ user' = [user EXCEPT ![obj[Reactor]].data = NoConn]
              /\ Begin(Reactor, "idle", 0, NoConn)
              /\ UNCHANGED <<netVars, fdOf, queue, again, alive, errnos, history>>

\* addfd registers m_sockfd, one shot; a descriptor that is -1, closed, or registered
\* already, is not.  Then init_data.
AddFd == /\ alive /\ pc[Reactor] = "addfd"
         /\ epoll' = [f \in FDs |-> IF /\ f = user[obj[Reactor]].sockfd
                                       /\ fdOf[f] # NoConn /\ epoll[f] = "none"
                                    THEN "armed" ELSE epoll[f]]
         /\ user' = [user EXCEPT ![obj[Reactor]].data = NoConn]
         /\ Begin(Reactor, "idle", 0, NoConn)
         /\ UNCHANGED <<netVars, fdOf, queue, again, alive, errnos, history>>

\* EPOLLRDHUP comes before EPOLLIN: a client that is gone is not read.
PeerClosed(f) == /\ alive /\ pc[Reactor] = "idle"
                 /\ epoll[f] = "armed" /\ fdOf[f] # NoConn /\ fin[fdOf[f]]
                 /\ epoll' = [epoll EXCEPT ![f] = "fired"]
                 /\ obj' = [obj EXCEPT ![Reactor] = f]
                 /\ own' = [own EXCEPT ![Reactor] = fdOf[f]]
                 /\ Leave(Reactor, 1)
                 /\ UNCHANGED <<netVars, fdOf, user, queue, alive, errnos, history>>

\* Mutant: EPOLLONESHOT is not set.
ReadableAgain(f) == /\ alive /\ pc[Reactor] = "idle"
                    /\ epoll[f] = "armed" /\ fdOf[f] # NoConn /\ ~fin[fdOf[f]]
                    /\ msg[fdOf[f]] # "read"
                    /\ Begin(Reactor, "read", f, fdOf[f])
                    /\ UNCHANGED <<netVars, kernelVars, user, queue, again, alive, errnos,
                                   history>>

Readable(f) == /\ alive /\ pc[Reactor] = "idle"
               /\ epoll[f] = "armed" /\ fdOf[f] # NoConn /\ ~fin[fdOf[f]]
               /\ epoll' = [epoll EXCEPT ![f] = "fired"]
               /\ Begin(Reactor, "read", f, fdOf[f])
               /\ UNCHANGED <<netVars, fdOf, user, queue, again, alive, errnos, history>>

\* read_data: recvMsg on m_sockfd.  A whole message is kept in Data_code; a
\* fragment or a bad descriptor fails (the latter after select waited for nothing
\* for 1000 seconds), and read_data and main both close.
ReadData ==
    /\ alive /\ pc[Reactor] = "read"
    /\ LET f == obj[Reactor]
           s == user[f].sockfd
           c == ConnOn(s)
       IN \/ /\ c # NoConn /\ msg[c] = "whole"
             /\ user' = [user EXCEPT ![f].sock = s, ![f].data = c]
             /\ msg' = [msg EXCEPT ![c] = "read"]
             /\ Goto(Reactor, "append")
             /\ UNCHANGED again
          \/ /\ c \notin {d \in Conns : msg[d] = "whole"}
             /\ user' = [user EXCEPT ![f].sock = s, ![f].data = NoConn]
             /\ Leave(Reactor, 2)
             /\ UNCHANGED msg
    /\ UNCHANGED <<conn, fin, kernelVars, queue, obj, own, alive, errnos, history>>

\* Mutant: the descriptor is queued in place of the object.
EnqueueSockfd == /\ alive /\ pc[Reactor] = "append"
                 /\ queue' = Append(queue, user[obj[Reactor]].sockfd)
                 /\ Begin(Reactor, "idle", 0, NoConn)
                 /\ UNCHANGED <<netVars, kernelVars, user, again, alive, errnos, history>>

Enqueue == /\ alive /\ pc[Reactor] = "append"
           /\ queue' = Append(queue, obj[Reactor])
           /\ Begin(Reactor, "idle", 0, NoConn)
           /\ UNCHANGED <<netVars, kernelVars, user, again, alive, errnos, history>>
-----------------------------------------------------------------------------
(* close_connect, called by the reactor and by the workers. *)

\* remove_fd: the connection m_sockfd names at this moment is closed.
CloseFd(t) ==
    /\ alive /\ pc[t] = "close"
    /\ LET s == user[obj[t]].sockfd
           c == ConnOn(s)
       IN /\ fdOf' = [f \in FDs |-> IF f = s THEN NoConn ELSE fdOf[f]]
          /\ epoll' = [f \in FDs |-> IF f = s THEN "none" ELSE epoll[f]]
          /\ conn' = [d \in Conns |-> IF d = c THEN "closed" ELSE conn[d]]
          /\ cut' = (cut \/ c \notin {own[t], NoConn})
    /\ Goto(t, "forget")
    /\ UNCHANGED <<msg, fin, user, queue, obj, own, again, alive, errnos, twice, handled, sent>>

\* init_data (and the memset of m_info).
Forget(t) == /\ alive /\ pc[t] = "forget"
             /\ user' = [user EXCEPT ![obj[t]].data = NoConn]
             /\ Goto(t, "nofd")
             /\ UNCHANGED <<netVars, kernelVars, queue, obj, own, again, alive, errnos, history>>

\* m_sockfd = -1; a caller that has closed already lets process, or main, close
\* the object once more.
DropFd(t) ==
    /\ alive /\ pc[t] = "nofd"
    /\ user' = [user EXCEPT ![obj[t]].sockfd = -1]
    /\ \/ /\ again[t]
          /\ Goto(t, "close")
          /\ again' = [again EXCEPT ![t] = FALSE]
          /\ twice' = TRUE
          /\ UNCHANGED <<obj, own>>
       \/ /\ ~again[t]
          /\ Begin(t, "idle", 0, NoConn)
          /\ UNCHANGED <<again, twice>>
    /\ UNCHANGED <<netVars, kernelVars, queue, alive, errnos, handled, sent, cut>>
-----------------------------------------------------------------------------
(* A worker: threadpool::run calls process on the object it took. *)

Take(w) == /\ alive /\ pc[w] = "idle" /\ queue # <<>>
           /\ Begin(w, "resolve", Head(queue), NoConn)
           /\ queue' = Tail(queue)
           /\ UNCHANGED <<netVars, kernelVars, user, again, alive, errnos, history>>

\* resolution decodes Data_code; without one the decoder dereferences null.
Resolve(w) ==
    /\ alive /\ pc[w] = "resolve"
    /\ LET c == user[obj[w]].data
       IN \/ /\ c = NoConn
             /\ alive' = FALSE
             /\ UNCHANGED <<pc, own, handled>>
          \/ /\ c # NoConn
             /\ Goto(w, "handle")
             /\ own' = [own EXCEPT ![w] = c]
             /\ handled' = [handled EXCEPT ![c] = @ + 1]
             /\ UNCHANGED alive
    /\ UNCHANGED <<netVars, kernelVars, user, queue, obj, again, errnos, twice, sent, cut>>

\* The handler: it encodes its answer into Data_code, returns without one and
\* without closing ("drop": unknown client, no such key to cancel), or closes the
\* connection itself before process does ("refuse": bad authCode, failed check).
Handle(w) ==
    /\ alive /\ pc[w] = "handle"
    /\ \/ /\ "answer" \in Outcomes
          /\ user' = [user EXCEPT ![obj[w]].data = own[w]]
          /\ Goto(w, "send")
          /\ UNCHANGED again
       \/ /\ "drop" \in Outcomes
          /\ Leave(w, 1)
          /\ UNCHANGED user
       \/ /\ "refuse" \in Outcomes
          /\ Leave(w, 2)
          /\ UNCHANGED user
    /\ UNCHANGED <<netVars, kernelVars, queue, obj, own, alive, errnos, history>>

\* sendMsg writes Data_code to the descriptor read_data noted.  When that fails the
\* handler forgets its data and closes, and process closes again.
Send(w) ==
    /\ alive /\ pc[w] = "send"
    /\ LET s == user[obj[w]].sock
           d == user[obj[w]].data
           c == ConnOn(s)
       IN \/ /\ c # NoConn /\ d # NoConn
             /\ sent' = sent \cup {<<d, c>>}
             /\ Leave(w, 1)
             /\ UNCHANGED user
          \/ /\ c = NoConn \/ d = NoConn \/ "sendfails" \in Mishaps
             /\ user' = [user EXCEPT ![obj[w]].data = NoConn]
             /\ Leave(w, 2)
             /\ UNCHANGED sent
    /\ UNCHANGED <<netVars, kernelVars, queue, obj, own, alive, errnos, twice, handled, cut>>

WorkerStep(w) == Take(w) \/ Resolve(w) \/ Handle(w) \/ Send(w)
CloseStep(t)  == CloseFd(t) \/ Forget(t) \/ DropFd(t)
ReactorStep   == \/ \E c \in Conns : Accept(c)
                 \/ AcceptErrno \/ InitSession \/ AddFd \/ ReadData \/ Enqueue
                 \/ \E f \in FDs : PeerClosed(f) \/ Readable(f)

Next == \/ \E c \in Conns : Connect(c) \/ HangUp(c)
        \/ ReactorStep
        \/ \E w \in Workers : WorkerStep(w)
        \/ \E t \in Threads : CloseStep(t)

Spec == Init /\ [][Next]_vars
-----------------------------------------------------------------------------
(* Properties. *)

\* Type invariant.
TypeOK ==
    /\ conn \in [Conns -> {"none", "pending", "open", "closed"}]
    /\ msg \in [Conns -> {"whole", "part", "read"}]
    /\ fin \in [Conns -> BOOLEAN]
    /\ fdOf \in [FDs -> Conns \cup {NoConn}]
    /\ epoll \in [FDs -> {"none", "armed", "fired"}]
    /\ user \in [FDs -> [sockfd : FDs \cup {-1}, sock : FDs \cup {-1},
                         data : Conns \cup {NoConn}]]
    /\ queue \in Seq(FDs)
    /\ pc \in [Threads -> {"idle", "init", "addfd", "read", "append", "close", "forget", "nofd",
                           "resolve", "handle", "send"}]
    /\ obj \in [Threads -> FDs \cup {0}]
    /\ own \in [Threads -> Conns \cup {NoConn}]
    /\ again \in [Threads -> BOOLEAN]
    /\ alive \in BOOLEAN /\ errnos \in Nat
    /\ twice \in BOOLEAN /\ cut \in BOOLEAN
    /\ handled \in [Conns -> Nat]
    /\ sent \subseteq Conns \X Conns

\* As long as no connection was closed twice, every answer goes to the client whose
\* request it answers, although descriptors and session objects are reused while
\* their last user is still inside close_connect.
AnswersReachTheirClient == ~twice => \A a \in sent : a[1] = a[2]

\* And no thread closes a connection it does not work for.
OnlyOwnConnectionCut == ~twice => ~cut

\* And no request is handled twice.
HandledOnce == ~twice => \A c \in Conns : handled[c] <= 1

\* EPOLLONESHOT keeps different threads from working on one SOCKET's events
\* (Sec_Key_Server.cpp:29): no thread closes a connection another one works for.
OneThreadPerSocket ==
    [][ \A t \in Threads :
          pc[t] = "close" /\ pc'[t] = "forget" =>
            \A u \in Threads \ {t} : own[u] = NoConn \/ own[u] # ConnOn(user[obj[t]].sockfd) ]_vars
=============================================================================
