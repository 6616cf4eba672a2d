--------------------------- MODULE SessionsProofs ---------------------------
(***************************************************************************)
(* The theorems about the server's sessions, for every number of           *)
(* connections, descriptors and workers: as long as no connection was      *)
(* closed twice, the one-shot registration of a descriptor (addfd) leaves  *)
(* its session object to one thread at a time, whoever else is still       *)
(* inside close_connect with it.                                           *)
(***************************************************************************)
EXTENDS Sessions, FiniteSetTheorems, TLAPS

(* Who is not idle has an object, and only the reactor accepts and reads.      *)
Objects ==
    /\ \A t \in Threads : pc[t] # "idle" => obj[t] \in FDs
    /\ \A w \in Workers : pc[w] \notin {"init", "addfd", "read", "append"}

(* An object names its own descriptor, if any; a descriptor is watched only    *)
(* while it is open, and names an open connection; no connection has two.      *)
Descriptors ==
    /\ \A f \in FDs : /\ user[f].sockfd \in {f, -1} /\ user[f].sock \in {f, -1}
                      /\ fdOf[f] = NoConn => epoll[f] = "none"
                      /\ fdOf[f] # NoConn => conn[fdOf[f]] = "open"
    /\ \A f \in FDs : \A g \in FDs \ {f} : fdOf[f] = fdOf[g] => fdOf[f] = NoConn

(* A request is held from the event that fired for it until remove_fd: by the  *)
(* thread that reads, handles, answers or closes it, or by the queue.          *)
Working     == {"read", "append", "resolve", "handle", "send", "close"}
Works(t, f) == pc[t] \in Working /\ obj[t] = f
Queued(f)   == \E i \in DOMAIN queue : queue[i] = f

(* A held object has one holder, and its descriptor has fired.                 *)
OneHolder ==
    /\ \A t \in Threads : pc[t] \in Working =>
          /\ epoll[obj[t]] = "fired" /\ ~Queued(obj[t])
          /\ \A u \in Threads \ {t} : ~Works(u, obj[t])
    /\ \A i \in DOMAIN queue : /\ epoll[queue[i]] = "fired"
                               /\ \A j \in DOMAIN queue \ {i} : queue[i] # queue[j]

\* The object holds the request of its descriptor's connection, or has lost it.
Faithful(f)  == user[f].data \in {NoConn, fdOf[f]}
\* The connection's request was not handled yet.
Unhandled(f) == fdOf[f] # NoConn => handled[fdOf[f]] = 0

(* The holder works for the connection its descriptor names now, and for a     *)
(* request that nobody has handled before it.                                  *)
HolderKnows ==
    /\ \A t \in Threads :
          /\ pc[t] \in Working \ {"resolve"} => own[t] = fdOf[obj[t]]
          /\ pc[t] \in {"append", "resolve", "send"} => Faithful(obj[t])
          /\ pc[t] \in {"read", "append", "resolve"} => Unhandled(obj[t])
    /\ \A i \in DOMAIN queue : Faithful(queue[i]) /\ Unhandled(queue[i])
    /\ \A f \in FDs : epoll[f] # "fired" => Unhandled(f)
    /\ \A c \in Conns : conn[c] \in {"none", "pending"} => handled[c] = 0

(* What the three invariants that the runs check say of the history.           *)
Promises == /\ \A a \in sent : a[1] = a[2]
            /\ ~cut
            /\ \A c \in Conns : handled[c] <= 1

Owned == ~twice => OneHolder /\ HolderKnows /\ Promises

SessionsInv == TypeOK /\ Objects /\ Descriptors /\ Owned
-----------------------------------------------------------------------------
(* A set of descriptors that is not empty has a lowest one.                    *)
LEMMA LowestIsOne ==
    ASSUME NEW S \in SUBSET FDs, S # {}
    PROVE  Lowest(S) \in S
<1> DEFINE Below == {0..i : i \in S}
<1>1. S \subseteq Nat
  BY FDsAssumption
<1>2. PICK T \in Below : \A U \in Below : ~(<<U, T>> \in StrictSubsetOrdering(Nat))
  <2>1. ASSUME NEW i \in S PROVE 0..i \in FiniteSubsetsOf(Nat)
    BY <1>1, FS_Interval, 0..i \subseteq Nat DEF FiniteSubsetsOf
  <2>2. Below \subseteq FiniteSubsetsOf(Nat) /\ Below # {}
    BY <2>1
  <2> HIDE DEF Below
  <2>3. QED
    BY <2>2, FS_StrictSubsetOrderingWellFounded, WFMin
<1>3. PICK i \in S : T = 0..i
  OBVIOUS
<1>4. ASSUME NEW j \in S, j < i PROVE FALSE
  <2>1. 0..j \subseteq 0..i /\ i \notin 0..j /\ i \in 0..i
    BY <1>1, <1>4
  <2>2. <<0..j, 0..i>> \in StrictSubsetOrdering(Nat)
    BY <2>1, 0..j \in SUBSET Nat, 0..i \in SUBSET Nat DEF StrictSubsetOrdering
  <2>3. QED
    BY <2>2, <1>2, <1>3
<1>5. \A j \in S : i <= j
  BY <1>1, <1>4
<1>6. QED
  BY <1>5 DEF Lowest

LEMMA InitiallyOwned == Init => SessionsInv
<1> SUFFICES ASSUME Init PROVE SessionsInv
  OBVIOUS
<1>1. queue \in Seq(FDs) /\ DOMAIN queue = {}
  BY DEF Init
<1>2. TypeOK
  BY <1>1 DEF Init, TypeOK, EmptySession
<1>3. Objects /\ Descriptors
  <2>1. Objects
    BY DEF Init, Objects, Threads
  <2>2. \A f \in FDs : user[f].sockfd = -1 /\ user[f].sock = -1 /\ fdOf[f] = NoConn
    BY DEF Init, EmptySession
  <2>3. QED
    BY <2>1, <2>2 DEF Init, Descriptors
<1>4. OneHolder /\ HolderKnows /\ Promises
  BY <1>1 DEF Init, OneHolder, HolderKnows, Promises, Working, Unhandled
<1>5. QED
  BY <1>2, <1>3, <1>4 DEF SessionsInv, Owned

Users == [FDs -> [sockfd : FDs \cup {-1}, sock : FDs \cup {-1}, data : Conns \cup {NoConn}]]

(* What the assignments to the fields of a session object leave of its type.   *)
LEMMA FieldTypes ==
    ASSUME NEW u \in Users, NEW f \in FDs, NEW s \in FDs \cup {-1}, NEW c \in Conns \cup {NoConn}
    PROVE  /\ [u EXCEPT ![f].data = c] \in Users
           /\ [u EXCEPT ![f].sockfd = s] \in Users
           /\ [u EXCEPT ![f].sock = s] \in Users
<1>1. [u EXCEPT ![f].data = c] \in Users
  BY DEF Users
<1>2. [u EXCEPT ![f].sockfd = s] \in Users
  BY DEF Users
<1>3. [u EXCEPT ![f].sock = s] \in Users
  BY DEF Users
<1>4. QED
  BY <1>1, <1>2, <1>3

LEMMA SessionTypes ==
    ASSUME TypeOK, NEW f \in FDs, NEW s \in FDs \cup {-1}, NEW c \in Conns \cup {NoConn}
    PROVE  /\ [user EXCEPT ![f].data = c] \in Users
           /\ [user EXCEPT ![f].sockfd = s] \in Users
           /\ [user EXCEPT ![f].sock = s, ![f].data = c] \in Users
<1> DEFINE u == [user EXCEPT ![f].sock = s]
<1>1. user \in Users
  BY DEF TypeOK, Users
<1>2. u \in Users
  BY <1>1, FieldTypes
<1>3. [user EXCEPT ![f].sock = s, ![f].data = c] = [u EXCEPT ![f].data = c]
  OBVIOUS
<1> HIDE DEF u
<1>4. [u EXCEPT ![f].data = c] \in Users
  BY <1>2, FieldTypes
<1>5. QED
  BY <1>1, <1>3, <1>4, FieldTypes

(* What a call of close_connect in sight does to the thread.                   *)
LEMMA LeaveTypes ==
    ASSUME TypeOK, NEW t \in Threads, NEW calls, Leave(t, calls)
    PROVE  /\ pc' = [pc EXCEPT ![t] = "close"]
           /\ again' \in [Threads -> BOOLEAN]
<1>1. (calls = 2) \in BOOLEAN
  OBVIOUS
<1>2. again' = [again EXCEPT ![t] = (calls = 2)]
  BY Zenon DEF Leave
<1> DEFINE b == (calls = 2)
<1>3. b \in BOOLEAN /\ again' = [again EXCEPT ![t] = b]
  BY <1>1, <1>2
<1> HIDE DEF b
<1>4. again' \in [Threads -> BOOLEAN]
  BY <1>3 DEF TypeOK
<1>5. QED
  BY <1>4 DEF Leave, Goto

LEMMA TypesKept == TypeOK /\ Objects /\ [Next]_vars => TypeOK'
<1> SUFFICES ASSUME TypeOK, Objects, [Next]_vars PROVE TypeOK'
  OBVIOUS
<1> USE NamesAssumption DEF TypeOK, Objects, Threads, netVars, kernelVars, threadVars, history,
                            Goto, Begin, ConnOn
<1>1. ASSUME NEW c \in Conns, Connect(c) \/ HangUp(c) PROVE TypeOK'
  <2>1. ASSUME Connect(c) PROVE TypeOK'
    <3>1. PICK m \in {"whole", "part"} : msg' = [msg EXCEPT ![c] = m]
      BY <2>1 DEF Connect
    <3>2. QED
      BY <2>1, <3>1 DEF Connect
  <2>2. ASSUME HangUp(c) PROVE TypeOK'
    BY <2>2 DEF HangUp
  <2>3. QED
    BY <1>1, <2>1, <2>2
<1>2. ASSUME NEW c \in Conns, Accept(c) PROVE TypeOK'
  <2>1. Lowest(FreeFDs) \in FDs
    <3>1. FreeFDs \in SUBSET FDs /\ FreeFDs # {}
      BY <1>2 DEF Accept, FreeFDs
    <3>2. QED
      BY <3>1, LowestIsOne
  <2>2. QED
    BY <1>2, <2>1 DEF Accept
<1>3. CASE AcceptErrno
  BY <1>3 DEF AcceptErrno
<1>4. CASE InitSession
  <2>1. obj[Reactor] \in FDs
    BY <1>4 DEF InitSession
  <2>2. user' \in Users
    BY <1>4, <2>1, SessionTypes DEF InitSession
  <2>3. /\ pc' = [pc EXCEPT ![Reactor] = "addfd"]
        /\ UNCHANGED <<netVars, kernelVars, queue, obj, own, again, alive, errnos, history>>
    BY <1>4 DEF InitSession
  <2>4. QED
    BY <2>2, <2>3 DEF Users
<1>5. CASE AddFd
  <2>1. obj[Reactor] \in FDs
    BY <1>5 DEF AddFd
  <2>2. user' \in Users
    BY <1>5, <2>1, SessionTypes DEF AddFd
  <2>3. epoll' \in [FDs -> {"none", "armed", "fired"}]
    BY <1>5 DEF AddFd
  <2>4. /\ Begin(Reactor, "idle", 0, NoConn)
        /\ UNCHANGED <<netVars, fdOf, queue, again, alive, errnos, history>>
    BY <1>5 DEF AddFd
  <2>5. QED
    BY <2>2, <2>3, <2>4 DEF Users
<1>6. CASE ReadData
  <2> DEFINE f == obj[Reactor]
             s == user[f].sockfd
             c == ConnOn(s)
  <2>1. f \in FDs /\ s \in FDs \cup {-1} /\ c \in Conns \cup {NoConn}
    BY <1>6 DEF ReadData
  <2>2. CASE /\ user' = [user EXCEPT ![f].sock = s, ![f].data = c]
             /\ msg' = [msg EXCEPT ![c] = "read"]
             /\ Goto(Reactor, "append")
             /\ UNCHANGED again
    <3>1. user' \in Users
      BY <2>1, <2>2, SessionTypes
    <3> HIDE DEF c, s, f
    <3>2. c \in Conns => msg' \in [Conns -> {"whole", "part", "read"}]
      BY <2>2
    <3>3. QED
      BY <1>6, <2>1, <2>2, <3>1 DEF ReadData, Users
  <2>3. CASE /\ user' = [user EXCEPT ![f].sock = s, ![f].data = NoConn]
             /\ Leave(Reactor, 2)
             /\ UNCHANGED msg
    <3>1. user' \in Users
      BY <2>1, <2>3, SessionTypes
    <3> HIDE DEF c, s, f
    <3>2. Leave(Reactor, 2) /\ Reactor \in Threads
      BY <2>3
    <3>3. pc' = [pc EXCEPT ![Reactor] = "close"] /\ again' \in [Threads -> BOOLEAN]
      BY <3>2, LeaveTypes, Zenon
    <3>4. UNCHANGED <<conn, fin, kernelVars, queue, obj, own, alive, errnos, history, msg>>
      BY <1>6, <2>3 DEF ReadData
    <3>5. QED
      BY <3>1, <3>3, <3>4 DEF Users
  <2>4. QED
    BY <1>6, <2>2, <2>3 DEF ReadData
<1>7. CASE Enqueue
  BY <1>7 DEF Enqueue
<1>8. ASSUME NEW f \in FDs, PeerClosed(f) PROVE TypeOK'
  <2>1. Leave(Reactor, 1)
    BY <1>8 DEF PeerClosed
  <2>2. QED
    BY <1>8, <2>1, LeaveTypes DEF PeerClosed
<1>18. ASSUME NEW f \in FDs, Readable(f) PROVE TypeOK'
  BY <1>18 DEF Readable
<1>9. ASSUME NEW w \in Workers, Take(w) PROVE TypeOK'
  <2>1. Head(queue) \in FDs /\ Tail(queue) \in Seq(FDs)
    BY <1>9 DEF Take
  <2>2. QED
    BY <1>9, <2>1 DEF Take
<1>10. ASSUME NEW w \in Workers, Resolve(w) PROVE TypeOK'
  <2> DEFINE c == user[obj[w]].data
  <2>1. c \in Conns \cup {NoConn}
    BY <1>10 DEF Resolve
  <2>2. CASE c = NoConn
    BY <1>10, <2>2 DEF Resolve
  <2>3. CASE c # NoConn
    <3> HIDE DEF c
    <3>1. /\ own' = [own EXCEPT ![w] = c]
          /\ handled' = [handled EXCEPT ![c] = @ + 1]
          /\ Goto(w, "handle") /\ UNCHANGED alive
      BY <1>10, <2>3 DEF Resolve, c
    <3>2. QED
      BY <1>10, <2>1, <2>3, <3>1 DEF Resolve
  <2>4. QED
    BY <2>2, <2>3
<1>11. ASSUME NEW w \in Workers, Handle(w) PROVE TypeOK'
  <2>1. CASE /\ user' = [user EXCEPT ![obj[w]].data = own[w]]
             /\ Goto(w, "send")
             /\ UNCHANGED again
    <3>1. obj[w] \in FDs /\ own[w] \in Conns \cup {NoConn}
      BY <1>11 DEF Handle
    <3>2. user' \in Users
      BY <2>1, <3>1, SessionTypes
    <3>3. /\ pc' = [pc EXCEPT ![w] = "send"]
          /\ UNCHANGED <<netVars, kernelVars, queue, obj, own, again, alive, errnos, history>>
      BY <1>11, <2>1 DEF Handle
    <3>4. QED
      BY <3>2, <3>3 DEF Users
  <2>2. ASSUME NEW n, Leave(w, n), UNCHANGED user PROVE TypeOK'
    BY <1>11, <2>2, LeaveTypes DEF Handle
  <2>3. QED
    BY <1>11, <2>1, <2>2 DEF Handle
<1>12. ASSUME NEW w \in Workers, Send(w) PROVE TypeOK'
  <2> DEFINE d == user[obj[w]].data
             c == ConnOn(user[obj[w]].sock)
  <2>1. d \in Conns \cup {NoConn} /\ c \in Conns \cup {NoConn} /\ obj[w] \in FDs
    BY <1>12 DEF Send
  <2>2. CASE /\ c # NoConn /\ d # NoConn
             /\ sent' = sent \cup {<<d, c>>}
             /\ Leave(w, 1)
             /\ UNCHANGED user
    <3> HIDE DEF c, d
    <3>1. sent' \subseteq Conns \X Conns
      BY <2>1, <2>2
    <3>2. pc' = [pc EXCEPT ![w] = "close"] /\ again' \in [Threads -> BOOLEAN]
      BY <2>2, LeaveTypes
    <3>3. UNCHANGED <<netVars, kernelVars, user, queue, obj, own, alive, errnos, twice, handled, cut>>
      BY <1>12, <2>2 DEF Send
    <3>4. QED
      BY <3>1, <3>2, <3>3
  <2>3. CASE /\ user' = [user EXCEPT ![obj[w]].data = NoConn]
             /\ Leave(w, 2)
             /\ UNCHANGED sent
    <3>1. user' \in Users
      BY <2>1, <2>3, SessionTypes
    <3> HIDE DEF c, d
    <3>2. pc' = [pc EXCEPT ![w] = "close"] /\ again' \in [Threads -> BOOLEAN]
      BY <2>3, LeaveTypes
    <3>3. UNCHANGED <<netVars, kernelVars, queue, obj, own, alive, errnos, history>>
      BY <1>12, <2>3 DEF Send
    <3>4. QED
      BY <3>1, <3>2, <3>3 DEF Users
  <2>4. QED
    BY <1>12, <2>2, <2>3 DEF Send
<1>13. ASSUME NEW t \in Threads, CloseFd(t) PROVE TypeOK'
  BY <1>13 DEF CloseFd
<1>14. ASSUME NEW t \in Threads, Forget(t) PROVE TypeOK'
  <2>1. obj[t] \in FDs
    BY <1>14 DEF Forget
  <2>2. user' \in Users
    BY <1>14, <2>1, SessionTypes DEF Forget
  <2>3. /\ pc' = [pc EXCEPT ![t] = "nofd"]
        /\ UNCHANGED <<netVars, kernelVars, queue, obj, own, again, alive, errnos, history>>
    BY <1>14 DEF Forget
  <2>4. QED
    BY <2>2, <2>3 DEF Users
<1>15. ASSUME NEW t \in Threads, DropFd(t) PROVE TypeOK'
  <2>1. user' \in Users
    BY <1>15, SessionTypes DEF DropFd
  <2>2. CASE again[t]
    <3>1. Goto(t, "close") /\ again' = [again EXCEPT ![t] = FALSE] /\ twice'
      BY <1>15, <2>2 DEF DropFd
    <3>2. UNCHANGED <<netVars, kernelVars, queue, alive, errnos, handled, sent, cut, obj, own>>
      BY <1>15, <2>2 DEF DropFd
    <3>3. again' \in [Threads -> BOOLEAN] /\ twice' \in BOOLEAN
      BY <1>15, <2>2 DEF DropFd
    <3>4. QED
      BY <2>1, <3>1, <3>2, <3>3 DEF Users
  <2>3. CASE ~again[t]
    <3>1. Begin(t, "idle", 0, NoConn)
      BY <1>15, <2>3 DEF DropFd
    <3>2. UNCHANGED <<netVars, kernelVars, queue, alive, errnos, handled, sent, cut, again, twice>>
      BY <1>15, <2>3 DEF DropFd
    <3>3. QED
      BY <2>1, <3>1, <3>2 DEF Users
  <2>4. QED
    BY <2>2, <2>3
<1>16. CASE UNCHANGED vars
  BY <1>16 DEF vars
<1>17. QED
  BY <1>1, <1>2, <1>3, <1>4, <1>5, <1>6, <1>7, <1>8, <1>9, <1>10, <1>11, <1>12, <1>13, <1>14,
     <1>15, <1>16, <1>18 DEF Next, ReactorStep, WorkerStep, CloseStep

LEMMA ObjectsKept == TypeOK /\ Objects /\ [Next]_vars => Objects'
<1> SUFFICES ASSUME TypeOK, Objects, [Next]_vars PROVE Objects'
  OBVIOUS
<1> USE NamesAssumption DEF TypeOK, Objects, Threads, netVars, kernelVars, threadVars, history,
                            Goto, Begin, Leave
<1>1. ASSUME NEW c \in Conns, Connect(c) \/ HangUp(c) PROVE Objects'
  BY <1>1 DEF Connect, HangUp
<1>2. ASSUME NEW c \in Conns, Accept(c) PROVE Objects'
  <2>1. Lowest(FreeFDs) \in FDs
    <3>1. FreeFDs \in SUBSET FDs /\ FreeFDs # {}
      BY <1>2 DEF Accept, FreeFDs
    <3>2. QED
      BY <3>1, LowestIsOne
  <2>2. QED
    BY <1>2, <2>1 DEF Accept
<1>3. CASE AcceptErrno
  BY <1>3 DEF AcceptErrno
<1>4. CASE InitSession
  BY <1>4 DEF InitSession
<1>5. CASE AddFd
  BY <1>5 DEF AddFd
<1>6. CASE ReadData
  BY <1>6 DEF ReadData
<1>7. CASE Enqueue
  BY <1>7 DEF Enqueue
<1>8. ASSUME NEW f \in FDs, PeerClosed(f) \/ Readable(f) PROVE Objects'
  BY <1>8 DEF PeerClosed, Readable
<1>9. ASSUME NEW w \in Workers, Take(w) PROVE Objects'
  <2>1. Head(queue) \in FDs
    BY <1>9 DEF Take
  <2>2. QED
    BY <1>9, <2>1 DEF Take
<1>10. ASSUME NEW w \in Workers, Resolve(w) PROVE Objects'
  BY <1>10 DEF Resolve
<1>11. ASSUME NEW w \in Workers, Handle(w) PROVE Objects'
  BY <1>11 DEF Handle
<1>12. ASSUME NEW w \in Workers, Send(w) PROVE Objects'
  BY <1>12 DEF Send
<1>13. ASSUME NEW t \in Threads, CloseFd(t) PROVE Objects'
  BY <1>13 DEF CloseFd
<1>14. ASSUME NEW t \in Threads, Forget(t) PROVE Objects'
  BY <1>14 DEF Forget
<1>15. ASSUME NEW t \in Threads, DropFd(t) PROVE Objects'
  <2>1. CASE again[t]
    <3>1. pc' = [pc EXCEPT ![t] = "close"] /\ UNCHANGED obj
      BY <1>15, <2>1 DEF DropFd
    <3>2. obj[t] \in FDs
      BY <1>15 DEF DropFd
    <3>3. QED
      BY <3>1, <3>2
  <2>2. CASE ~again[t]
    <3>1. Begin(t, "idle", 0, NoConn)
      BY <1>15, <2>2 DEF DropFd
    <3>2. QED
      BY <3>1
  <2>3. QED
    BY <2>1, <2>2
<1>16. CASE UNCHANGED vars
  BY <1>16 DEF vars
<1>17. QED
  BY <1>1, <1>2, <1>3, <1>4, <1>5, <1>6, <1>7, <1>8, <1>9, <1>10, <1>11, <1>12, <1>13, <1>14,
     <1>15, <1>16 DEF Next, ReactorStep, WorkerStep, CloseStep

LEMMA DescriptorsKept == TypeOK /\ Objects /\ Descriptors /\ [Next]_vars => Descriptors'
<1> SUFFICES ASSUME TypeOK, Objects, Descriptors, [Next]_vars PROVE Descriptors'
  OBVIOUS
<1> USE NamesAssumption DEF Descriptors, Threads, netVars, kernelVars, threadVars, history,
                            Goto, Begin
<1>1. ASSUME NEW c \in Conns, Connect(c) \/ HangUp(c) PROVE Descriptors'
  BY <1>1 DEF Connect, HangUp, TypeOK
<1>2. ASSUME NEW c \in Conns, Accept(c) PROVE Descriptors'
  <2> DEFINE n == Lowest(FreeFDs)
  <2>1. n \in FDs /\ fdOf[n] = NoConn
    <3>1. FreeFDs \in SUBSET FDs /\ FreeFDs # {}
      BY <1>2 DEF Accept, FreeFDs
    <3>2. n \in FreeFDs
      BY <3>1, LowestIsOne
    <3>3. QED
      BY <3>2 DEF FreeFDs
  <2>2. /\ conn[c] = "pending" /\ conn' = [conn EXCEPT ![c] = "open"]
        /\ fdOf' = [fdOf EXCEPT ![n] = c]
        /\ UNCHANGED <<epoll, user, handled>>
    BY <1>2 DEF Accept
  <2>3. \A f \in FDs : fdOf[f] # c
    <3>1. ASSUME NEW f \in FDs, fdOf[f] = c PROVE FALSE
      <4>1. fdOf[f] # NoConn /\ conn[fdOf[f]] = "open"
        BY <3>1
      <4>2. QED
        BY <4>1, <3>1, <2>2
    <3>2. QED
      BY <3>1
  <2> HIDE DEF n
  <2>4. QED
    BY <1>2, <2>1, <2>2, <2>3 DEF TypeOK
<1>3. CASE AcceptErrno
  BY <1>3 DEF AcceptErrno
<1>4. CASE InitSession
  BY <1>4 DEF InitSession, TypeOK, Objects
<1>5. CASE AddFd
  BY <1>5 DEF AddFd, TypeOK, Objects
<1>6. CASE ReadData
  <2> DEFINE f == obj[Reactor]
  <2>1. f \in FDs
    BY <1>6 DEF ReadData, Objects
  <2>2. PICK d : user' = [user EXCEPT ![f].sock = user[f].sockfd, ![f].data = d]
    BY <1>6 DEF ReadData
  <2> HIDE DEF f
  <2>3. \A g \in FDs : /\ user'[g].sockfd = user[g].sockfd
                       /\ user'[g].sock \in {user[g].sock, user[g].sockfd}
    BY <2>1, <2>2 DEF TypeOK
  <2>4. UNCHANGED <<fdOf, epoll, conn, handled>>
    BY <1>6 DEF ReadData
  <2>5. QED
    BY <2>3, <2>4
<1>7. CASE Enqueue
  BY <1>7 DEF Enqueue
<1>8. ASSUME NEW f \in FDs, PeerClosed(f) \/ Readable(f) PROVE Descriptors'
  BY <1>8 DEF PeerClosed, Readable, TypeOK
<1>9. ASSUME NEW w \in Workers, Take(w) PROVE Descriptors'
  BY <1>9 DEF Take
<1>10. ASSUME NEW w \in Workers, Resolve(w) PROVE Descriptors'
  BY <1>10 DEF Resolve
<1>11. ASSUME NEW w \in Workers, Handle(w) \/ Send(w) PROVE Descriptors'
  <2>1. \A g \in FDs : /\ user'[g].sockfd = user[g].sockfd
                       /\ user'[g].sock = user[g].sock
    <3>1. user' = user \/ \E d : user' = [user EXCEPT ![obj[w]].data = d]
      BY <1>11 DEF Handle, Send
    <3>2. QED
      <4>1. ASSUME NEW d, user' = [user EXCEPT ![obj[w]].data = d], NEW g \in FDs
            PROVE  user'[g].sockfd = user[g].sockfd /\ user'[g].sock = user[g].sock
        BY <4>1 DEF TypeOK
      <4>2. QED
        BY <3>1, <4>1
  <2>2. UNCHANGED <<fdOf, epoll, conn, handled>>
    BY <1>11 DEF Handle, Send
  <2>3. QED
    BY <2>1, <2>2
<1>12. ASSUME NEW t \in Threads, CloseFd(t) PROVE Descriptors'
  <2>1. obj[t] \in FDs /\ UNCHANGED <<user, handled>>
    BY <1>12 DEF CloseFd, Objects
  <2>2. \A g \in FDs : \/ fdOf'[g] = NoConn /\ epoll'[g] = "none"
                       \/ /\ fdOf'[g] = fdOf[g] /\ epoll'[g] = epoll[g]
                          /\ g # user[obj[t]].sockfd
    BY <1>12 DEF CloseFd
  <2>3. \A g \in FDs : fdOf[g] # NoConn /\ g # user[obj[t]].sockfd
                       => conn'[fdOf[g]] = conn[fdOf[g]]
    BY <1>12 DEF CloseFd, ConnOn, TypeOK
  <2>4. QED
    BY <2>1, <2>2, <2>3
<1>13. ASSUME NEW t \in Threads, Forget(t) PROVE Descriptors'
  BY <1>13 DEF Forget, TypeOK, Objects
<1>14. ASSUME NEW t \in Threads, DropFd(t) PROVE Descriptors'
  BY <1>14 DEF DropFd, TypeOK, Objects
<1>15. CASE UNCHANGED vars
  BY <1>15 DEF vars
<1>16. QED
  BY <1>1, <1>2, <1>3, <1>4, <1>5, <1>6, <1>7, <1>8, <1>9, <1>10, <1>11, <1>12, <1>13, <1>14,
     <1>15 DEF Next, ReactorStep, WorkerStep, CloseStep

(* A step that hands no object to a thread and takes none away, and registers  *)
(* no fired descriptor again, leaves the holders alone.                        *)
LEMMA HoldersAlone ==
    ASSUME TypeOK, Objects, OneHolder, UNCHANGED queue,
           \A f \in FDs : epoll[f] = "fired" => epoll'[f] = "fired",
           \A t \in Threads : pc'[t] \in Working => pc[t] \in Working /\ obj'[t] = obj[t]
    PROVE  OneHolder'
<1>1. \A i \in DOMAIN queue : queue[i] \in FDs
  BY DEF TypeOK
<1>2. \A t \in Threads : pc[t] \in Working => obj[t] \in FDs
  BY DEF Objects, Working
<1>3. QED
  BY <1>1, <1>2 DEF OneHolder, Works, Queued

(* What is left in the queue keeps its order.                                  *)
LEMMA TakenFromQueue ==
    ASSUME TypeOK, queue # <<>>
    PROVE  /\ 1 \in DOMAIN queue /\ Head(queue) = queue[1]
           /\ \A i \in DOMAIN Tail(queue) :
                 i + 1 \in DOMAIN queue \ {1} /\ Tail(queue)[i] = queue[i + 1]
           /\ \A i, j \in DOMAIN Tail(queue) : i # j => i + 1 # j + 1
<1>1. queue \in Seq(FDs)
  BY DEF TypeOK
<1>2. QED
  BY <1>1

(* The descriptor an object names is its own, or -1, which is none.            *)
LEMMA OwnOrNone ==
    ASSUME Descriptors, NEW f \in FDs
    PROVE  /\ ConnOn(user[f].sockfd) \in {fdOf[f], NoConn}
           /\ ConnOn(user[f].sock) \in {fdOf[f], NoConn}
<1>1. -1 \notin FDs
  BY FDsAssumption
<1>2. user[f].sockfd \in {f, -1} /\ user[f].sock \in {f, -1}
  BY DEF Descriptors
<1>3. QED
  BY <1>1, <1>2 DEF ConnOn

(* close_connect closes the descriptor of its object, or nothing.              *)
LEMMA CloseFdCloses ==
    ASSUME TypeOK, Objects, Descriptors, NEW t \in Threads, CloseFd(t)
    PROVE  /\ obj[t] \in FDs
           /\ pc' = [pc EXCEPT ![t] = "forget"]
           /\ \A g \in FDs \ {obj[t]} : fdOf'[g] = fdOf[g] /\ epoll'[g] = epoll[g]
           /\ \/ fdOf'[obj[t]] = NoConn
              \/ fdOf'[obj[t]] = fdOf[obj[t]] /\ epoll'[obj[t]] = epoll[obj[t]]
           /\ \A d \in Conns : conn'[d] \in {conn[d], "closed"}
           /\ cut' = (cut \/ ConnOn(user[obj[t]].sockfd) \notin {own[t], NoConn})
           /\ ConnOn(user[obj[t]].sockfd) \in {fdOf[obj[t]], NoConn}
           /\ UNCHANGED <<user, queue, obj, own, handled, sent, twice>>
<1>1. obj[t] \in FDs
  BY DEF CloseFd, Objects
<1>2. user[obj[t]].sockfd \in {obj[t], -1}
  BY <1>1 DEF Descriptors
<1>3. -1 \notin FDs
  BY FDsAssumption
<1>4. /\ pc' = [pc EXCEPT ![t] = "forget"]
      /\ \A g \in FDs \ {obj[t]} : fdOf'[g] = fdOf[g] /\ epoll'[g] = epoll[g]
      /\ \/ fdOf'[obj[t]] = NoConn
         \/ fdOf'[obj[t]] = fdOf[obj[t]] /\ epoll'[obj[t]] = epoll[obj[t]]
  BY <1>1, <1>2, <1>3 DEF CloseFd, Goto, TypeOK
<1>5. \A d \in Conns : conn'[d] \in {conn[d], "closed"}
  BY DEF CloseFd, TypeOK
<1>6. /\ cut' = (cut \/ ConnOn(user[obj[t]].sockfd) \notin {own[t], NoConn})
      /\ UNCHANGED <<user, queue, obj, own, handled, sent, twice>>
  BY Zenon DEF CloseFd
<1>7. ConnOn(user[obj[t]].sockfd) \in {fdOf[obj[t]], NoConn}
  BY <1>1, OwnOrNone
<1>8. QED
  BY <1>1, <1>4, <1>5, <1>6, <1>7

LEMMA OneHolderKept ==
    TypeOK /\ Objects /\ Descriptors /\ OneHolder /\ HolderKnows /\ [Next]_vars /\ ~twice'
    => OneHolder'
<1> SUFFICES ASSUME TypeOK, Objects, Descriptors, OneHolder, HolderKnows, [Next]_vars, ~twice'
             PROVE  OneHolder'
  OBVIOUS
<1> USE NamesAssumption DEF Threads, netVars, kernelVars, threadVars, history, Goto, Begin
<1> DEFINE Alone == /\ UNCHANGED queue
                    /\ \A f \in FDs : epoll[f] = "fired" => epoll'[f] = "fired"
                    /\ \A t \in Threads : pc'[t] \in Working => pc[t] \in Working /\ obj'[t] = obj[t]
<1>0. Alone => OneHolder'
  BY HoldersAlone
<1>1. ASSUME NEW c \in Conns, Connect(c) \/ HangUp(c) PROVE Alone
  BY <1>1 DEF Connect, HangUp
<1>2. ASSUME (\E c \in Conns : Accept(c)) \/ AcceptErrno PROVE Alone
  BY <1>2 DEF Accept, AcceptErrno, TypeOK, Working
<1>3. ASSUME InitSession \/ AddFd PROVE Alone
  BY <1>3 DEF InitSession, AddFd, TypeOK, Working
<1>4. CASE ReadData
  <2>1. Alone
    BY <1>4 DEF ReadData, TypeOK, Working, Leave
  <2>2. QED
    BY <1>0, <2>1
<1>5. CASE Enqueue
  BY <1>5 DEF Enqueue, OneHolder, Works, Queued, Working, TypeOK, Objects
<1>6. ASSUME NEW f \in FDs, PeerClosed(f) \/ Readable(f) PROVE OneHolder'
  <2>1. PICK l \in Working : pc' = [pc EXCEPT ![Reactor] = l]
    BY <1>6 DEF PeerClosed, Readable, Leave, Working
  <2>2. /\ pc[Reactor] = "idle" /\ epoll[f] = "armed"
        /\ obj' = [obj EXCEPT ![Reactor] = f] /\ epoll' = [epoll EXCEPT ![f] = "fired"]
        /\ UNCHANGED queue
    BY <1>6 DEF PeerClosed, Readable
  <2>3. /\ \A t \in Threads : pc[t] \in Working => obj[t] # f
        /\ \A i \in DOMAIN queue : queue[i] # f /\ queue[i] \in FDs
    BY <2>2 DEF OneHolder, TypeOK
  <2>4. \A t \in Threads \ {Reactor} : pc'[t] = pc[t] /\ obj'[t] = obj[t]
    BY <2>1, <2>2 DEF TypeOK
  <2>5. obj'[Reactor] = f /\ epoll'[f] = "fired"
        /\ \A g \in FDs \ {f} : epoll'[g] = epoll[g]
    BY <2>2 DEF TypeOK
  <2>6. \A t \in Threads : pc[t] \in Working => obj[t] \in FDs /\ t # Reactor
    BY <2>2 DEF Objects, Working
  <2>7. QED
    BY <2>2, <2>3, <2>4, <2>5, <2>6 DEF OneHolder, Works, Queued
<1>7. ASSUME NEW w \in Workers, Take(w) PROVE OneHolder'
  <2> DEFINE f == queue[1]
  <2>1. /\ pc[w] = "idle" /\ queue # <<>> /\ queue' = Tail(queue) /\ UNCHANGED epoll
        /\ pc' = [pc EXCEPT ![w] = "resolve"] /\ obj' = [obj EXCEPT ![w] = f]
    BY <1>7, TakenFromQueue DEF Take
  <2>2. /\ 1 \in DOMAIN queue
        /\ \A i \in DOMAIN queue' :
              i + 1 \in DOMAIN queue \ {1} /\ queue'[i] = queue[i + 1]
        /\ \A i, j \in DOMAIN queue' : i # j => i + 1 # j + 1
    BY <2>1, TakenFromQueue
  <2>3. /\ \A t \in Threads : pc[t] \in Working => obj[t] # f
        /\ \A i \in DOMAIN queue \ {1} : queue[i] # f
        /\ epoll[f] = "fired"
    BY <2>2 DEF OneHolder, Queued
  <2>4. \A t \in Threads \ {w} : pc'[t] = pc[t] /\ obj'[t] = obj[t]
    BY <2>1 DEF TypeOK
  <2>5. obj'[w] = f /\ pc[w] \notin Working
    BY <2>1 DEF TypeOK, Working
  <2> HIDE DEF f
  <2>6. \A i \in DOMAIN queue' : /\ epoll[queue'[i]] = "fired" /\ queue'[i] # f
                                /\ \A j \in DOMAIN queue' \ {i} : queue'[i] # queue'[j]
    BY <2>2, <2>3 DEF OneHolder
  <2>7. \A g : (\E i \in DOMAIN queue' : queue'[i] = g) => \E i \in DOMAIN queue : queue[i] = g
    BY <2>2
  <2>8. ASSUME NEW t \in Threads, pc'[t] \in Working
        PROVE  /\ epoll'[obj'[t]] = "fired" /\ ~Queued(obj[t])'
               /\ \A u \in Threads \ {t} : ~Works(u, obj[t])'
    <3>1. CASE t = w
      BY <2>1, <2>3, <2>4, <2>5, <2>6, <3>1 DEF Works, Queued
    <3>2. CASE t # w
      <4>1. pc[t] \in Working /\ obj'[t] = obj[t] /\ obj[t] # f
        BY <2>3, <2>4, <2>8, <3>2
      <4>2. epoll[obj[t]] = "fired" /\ ~Queued(obj[t])
        BY <4>1 DEF OneHolder
      <4>3. ~Queued(obj[t])'
        BY <2>7, <4>1, <4>2 DEF Queued
      <4>4. \A u \in Threads \ {t} : ~Works(u, obj[t])'
        BY <2>4, <2>5, <4>1 DEF OneHolder, Works
      <4>5. QED
        BY <2>1, <4>1, <4>2, <4>3, <4>4
    <3>3. QED
      BY <3>1, <3>2
  <2>9. QED
    BY <2>1, <2>6, <2>8 DEF OneHolder
<1>8. ASSUME NEW w \in Workers, Resolve(w) PROVE Alone
  BY <1>8 DEF Resolve, TypeOK, Working
<1>9. ASSUME NEW w \in Workers, Handle(w) PROVE Alone
  BY <1>9 DEF Handle, Leave, TypeOK, Working
<1>10. ASSUME NEW w \in Workers, Send(w) PROVE Alone
  BY <1>10 DEF Send, Leave, TypeOK, Working
<1>11. ASSUME NEW t \in Threads, CloseFd(t) PROVE OneHolder'
  <2>1. /\ obj[t] \in FDs /\ pc' = [pc EXCEPT ![t] = "forget"] /\ UNCHANGED <<queue, obj>>
        /\ \A g \in FDs \ {obj[t]} : epoll'[g] = epoll[g]
    BY <1>11, CloseFdCloses
  <2>2. pc[t] \in Working
    BY <1>11 DEF CloseFd, Working
  <2>3. \A u \in Threads : pc'[u] \in Working => /\ pc[u] \in Working /\ u # t
                                               /\ obj[u] \in FDs
    BY <2>1 DEF TypeOK, Objects, Working
  <2>4. \A i \in DOMAIN queue : queue[i] \in FDs
    BY DEF TypeOK
  <2>5. QED
    BY <2>1, <2>2, <2>3, <2>4 DEF OneHolder, Works, Queued
<1>12. ASSUME NEW t \in Threads, Forget(t) PROVE Alone
  BY <1>12 DEF Forget, TypeOK, Working
<1>13. ASSUME NEW t \in Threads, DropFd(t) PROVE Alone
  BY <1>13 DEF DropFd, TypeOK, Working
<1>14. CASE UNCHANGED vars
  BY <1>14 DEF vars, OneHolder, Works, Queued
<1> HIDE DEF Alone
<1>15. QED
  BY <1>0, <1>1, <1>2, <1>3, <1>4, <1>5, <1>6, <1>7, <1>8, <1>9, <1>10, <1>11, <1>12, <1>13,
     <1>14 DEF Next, ReactorStep, WorkerStep, CloseStep

LEMMA HolderKnowsKept ==
    TypeOK /\ Objects /\ Descriptors /\ OneHolder /\ HolderKnows /\ [Next]_vars /\ ~twice'
    => HolderKnows'
<1> SUFFICES ASSUME TypeOK, Objects, Descriptors, OneHolder, HolderKnows, [Next]_vars, ~twice'
             PROVE  HolderKnows'
  OBVIOUS
<1> USE NamesAssumption DEF Threads, netVars, kernelVars, threadVars, history, Goto, Begin,
                            HolderKnows, Faithful, Unhandled, Working
<1>1. ASSUME NEW c \in Conns, Connect(c) \/ HangUp(c) PROVE HolderKnows'
  BY <1>1 DEF Connect, HangUp, TypeOK
<1>2. ASSUME NEW c \in Conns, Accept(c) PROVE HolderKnows'
  <2> DEFINE n == Lowest(FreeFDs)
  <2>1. n \in FDs /\ fdOf[n] = NoConn
    <3>1. FreeFDs \in SUBSET FDs /\ FreeFDs # {}
      BY <1>2 DEF Accept, FreeFDs
    <3>2. n \in FreeFDs
      BY <3>1, LowestIsOne
    <3>3. QED
      BY <3>2 DEF FreeFDs
  <2>2. /\ conn[c] = "pending" /\ conn' = [conn EXCEPT ![c] = "open"]
        /\ fdOf' = [fdOf EXCEPT ![n] = c]
        /\ Begin(Reactor, "init", n, c)
        /\ UNCHANGED <<epoll, user, queue, handled>>
    BY <1>2 DEF Accept
  <2>3. epoll[n] # "fired" /\ handled[c] = 0
    BY <2>1, <2>2 DEF Descriptors
  <2>4. /\ \A t \in Threads : pc[t] \in Working => obj[t] # n
        /\ \A i \in DOMAIN queue : queue[i] # n
    BY <2>3 DEF OneHolder
  <2> HIDE DEF n
  <2>5. QED
    BY <2>1, <2>2, <2>3, <2>4 DEF TypeOK
<1>3. CASE AcceptErrno
  BY <1>3 DEF AcceptErrno, TypeOK
<1>4. CASE InitSession
  BY <1>4 DEF InitSession, TypeOK, Objects
<1>5. CASE AddFd
  BY <1>5 DEF AddFd, TypeOK, Objects
<1>6. CASE ReadData
  <2> DEFINE f == obj[Reactor]
             c == ConnOn(user[f].sockfd)
  <2>1. f \in FDs /\ pc[Reactor] = "read"
    BY <1>6 DEF ReadData, Objects
  <2>2. c \in {NoConn, fdOf[f]}
    BY <2>1, OwnOrNone
  <2>3. PICK d \in {NoConn, c}, l \in {"append", "close"} :
           /\ user' = [user EXCEPT ![f].sock = user[f].sockfd, ![f].data = d]
           /\ pc' = [pc EXCEPT ![Reactor] = l]
    BY <1>6 DEF ReadData, Leave
  <2>4. UNCHANGED <<queue, obj, own, handled, fdOf, epoll, conn>>
    BY <1>6 DEF ReadData
  <2> HIDE DEF f, c
  <2>5. user'[f].data = d /\ \A g \in FDs \ {f} : user'[g].data = user[g].data
    BY <2>1, <2>3 DEF TypeOK
  <2>6. \A g \in FDs : Faithful(g) \/ g = f => Faithful(g)'
    <3>1. d \in {NoConn, fdOf[f]}
      BY <2>2, <2>3
    <3>2. QED
      BY <2>4, <2>5, <3>1
  <2>7. /\ \A t \in Threads \ {Reactor} : pc'[t] = pc[t]
        /\ pc'[Reactor] = l
    BY <2>3 DEF TypeOK
  <2>8. /\ \A t \in Threads : pc[t] \in Working => obj[t] \in FDs
        /\ \A i \in DOMAIN queue : queue[i] \in FDs
    BY DEF Objects, TypeOK
  <2>9. QED
    BY <2>1, <2>4, <2>6, <2>7, <2>8 DEF f
<1>7. CASE Enqueue
  BY <1>7 DEF Enqueue, TypeOK, Objects
<1>8. ASSUME NEW f \in FDs, PeerClosed(f) \/ Readable(f) PROVE HolderKnows'
  BY <1>8 DEF PeerClosed, Readable, Leave, TypeOK
<1>9. ASSUME NEW w \in Workers, Take(w) PROVE HolderKnows'
  BY <1>9 DEF Take, TypeOK
<1>10. ASSUME NEW w \in Workers, Resolve(w) PROVE HolderKnows'
  <2> DEFINE f == obj[w]
             c == user[f].data
  <2>1. f \in FDs /\ pc[w] = "resolve" /\ Faithful(f) /\ Unhandled(f)
    BY <1>10 DEF Resolve, Objects
  <2>2. UNCHANGED <<user, queue, obj, fdOf, epoll, conn>>
    BY <1>10 DEF Resolve
  <2>3. CASE c = NoConn
    BY <1>10, <2>2, <2>3 DEF Resolve
  <2>4. CASE c # NoConn
    <3>1. /\ pc' = [pc EXCEPT ![w] = "handle"]
          /\ own' = [own EXCEPT ![w] = c]
          /\ handled' = [handled EXCEPT ![c] = @ + 1]
      BY <1>10, <2>4 DEF Resolve
    <3>2. c = fdOf[f] /\ c \in Conns /\ conn[c] = "open"
      BY <2>1, <2>4 DEF TypeOK, Descriptors
    <3>3. \A g \in FDs \ {f} : fdOf[g] # c
      BY <2>1, <2>4, <3>2 DEF Descriptors
    <3>4. /\ \A t \in Threads \ {w} : pc[t] \in Working => obj[t] # f
          /\ \A i \in DOMAIN queue : queue[i] # f
          /\ epoll[f] = "fired"
      BY <2>1 DEF OneHolder, Works, Queued
    <3>5. /\ \A t \in Threads : pc[t] \in Working => obj[t] \in FDs
          /\ \A i \in DOMAIN queue : queue[i] \in FDs
      BY DEF Objects, TypeOK
    <3> HIDE DEF c, f
    <3>6. \A d \in Conns \ {c} : handled'[d] = handled[d]
      BY <3>1 DEF TypeOK
    <3>7. \A g \in FDs \ {f} : Unhandled(g) => Unhandled(g)'
      BY <2>2, <3>3, <3>6 DEF TypeOK
    <3>8. \A t \in Threads \ {w} : pc'[t] = pc[t] /\ own'[t] = own[t]
      BY <3>1 DEF TypeOK
    <3>9. pc'[w] = "handle" /\ own'[w] = c
      BY <3>1 DEF TypeOK
    <3>10. \A t \in Threads :
             /\ pc'[t] \in Working \ {"resolve"} => own'[t] = fdOf'[obj'[t]]
             /\ pc'[t] \in {"append", "resolve", "send"} => Faithful(obj[t])'
             /\ pc'[t] \in {"read", "append", "resolve"} => Unhandled(obj[t])'
      BY <2>2, <3>2, <3>4, <3>5, <3>7, <3>8, <3>9 DEF f
    <3>11. \A i \in DOMAIN queue : Faithful(queue[i])' /\ Unhandled(queue[i])'
      BY <2>2, <3>4, <3>5, <3>7
    <3>12. \A g \in FDs : epoll[g] # "fired" => Unhandled(g)'
      BY <3>4, <3>7
    <3>13. \A d \in Conns : conn[d] \in {"none", "pending"} => handled'[d] = 0
      BY <3>2, <3>6
    <3>14. QED
      BY <2>2, <3>10, <3>11, <3>12, <3>13
  <2>5. QED
    BY <2>3, <2>4
<1>11. ASSUME NEW w \in Workers, Handle(w) PROVE HolderKnows'
  <2>1. /\ pc[w] = "handle" /\ obj[w] \in FDs /\ own[w] = fdOf[obj[w]]
        /\ UNCHANGED <<queue, obj, own, handled, fdOf, epoll, conn>>
    BY <1>11 DEF Handle, Objects
  <2>2. /\ \A t \in Threads : pc[t] \in Working => obj[t] \in FDs
        /\ \A i \in DOMAIN queue : queue[i] \in FDs
    BY DEF Objects, TypeOK
  <2>3. CASE pc' = [pc EXCEPT ![w] = "send"] /\ user' = [user EXCEPT ![obj[w]].data = own[w]]
    <3>1. /\ user'[obj[w]].data = own[w]
          /\ \A g \in FDs \ {obj[w]} : user'[g].data = user[g].data
      BY <2>1, <2>3 DEF TypeOK
    <3>2. \A g \in FDs : Faithful(g) \/ g = obj[w] => Faithful(g)'
      BY <2>1, <3>1
    <3>3. pc'[w] = "send" /\ \A t \in Threads \ {w} : pc'[t] = pc[t]
      BY <2>3 DEF TypeOK
    <3>4. QED
      BY <2>1, <2>2, <3>2, <3>3
  <2>4. CASE pc' = [pc EXCEPT ![w] = "close"] /\ UNCHANGED user
    <3>1. pc'[w] = "close" /\ \A t \in Threads \ {w} : pc'[t] = pc[t]
      BY <2>4 DEF TypeOK
    <3>2. QED
      BY <2>1, <2>2, <2>4, <3>1
  <2>5. QED
    BY <1>11, <2>3, <2>4 DEF Handle, Leave
<1>12. ASSUME NEW w \in Workers, Send(w) PROVE HolderKnows'
  <2>1. /\ pc[w] = "send" /\ obj[w] \in FDs
        /\ UNCHANGED <<queue, obj, own, handled, fdOf, epoll, conn>>
        /\ pc' = [pc EXCEPT ![w] = "close"]
    BY <1>12 DEF Send, Leave, Objects
  <2>2. UNCHANGED user \/ user' = [user EXCEPT ![obj[w]].data = NoConn]
    BY <1>12 DEF Send
  <2>3. \A g \in FDs : Faithful(g) => Faithful(g)'
    BY <2>1, <2>2 DEF TypeOK
  <2>4. pc'[w] = "close" /\ \A t \in Threads \ {w} : pc'[t] = pc[t]
    BY <2>1 DEF TypeOK
  <2>5. /\ \A t \in Threads : pc[t] \in Working => obj[t] \in FDs
        /\ \A i \in DOMAIN queue : queue[i] \in FDs
    BY DEF Objects, TypeOK
  <2>6. QED
    BY <2>1, <2>3, <2>4, <2>5
<1>13. ASSUME NEW t \in Threads, CloseFd(t) PROVE HolderKnows'
  <2> DEFINE f == obj[t]
  <2>1. /\ f \in FDs
        /\ pc' = [pc EXCEPT ![t] = "forget"]
        /\ \A g \in FDs \ {f} : fdOf'[g] = fdOf[g] /\ epoll'[g] = epoll[g]
        /\ \/ fdOf'[f] = NoConn
           \/ fdOf'[f] = fdOf[f] /\ epoll'[f] = epoll[f]
        /\ \A d \in Conns : conn'[d] \in {conn[d], "closed"}
        /\ UNCHANGED <<user, queue, obj, own, handled>>
    BY <1>13, CloseFdCloses
  <2>2. /\ \A u \in Threads \ {t} : pc[u] \in Working => obj[u] # f
        /\ \A i \in DOMAIN queue : queue[i] # f
    BY <1>13 DEF CloseFd, OneHolder, Works, Queued
  <2>3. /\ \A u \in Threads : pc[u] \in Working => obj[u] \in FDs
        /\ \A i \in DOMAIN queue : queue[i] \in FDs
    BY DEF Objects, TypeOK
  <2>4. pc'[t] = "forget" /\ \A u \in Threads \ {t} : pc'[u] = pc[u]
    BY <2>1 DEF TypeOK
  <2> HIDE DEF f
  <2>5. QED
    BY <2>1, <2>2, <2>3, <2>4
<1>14. ASSUME NEW t \in Threads, Forget(t) PROVE HolderKnows'
  BY <1>14 DEF Forget, TypeOK, Objects
<1>15. ASSUME NEW t \in Threads, DropFd(t) PROVE HolderKnows'
  <2>1. /\ pc' = [pc EXCEPT ![t] = "idle"] /\ obj' = [obj EXCEPT ![t] = 0]
        /\ own' = [own EXCEPT ![t] = NoConn]
        /\ UNCHANGED <<queue, handled, fdOf, epoll, conn>>
    BY <1>15 DEF DropFd
  <2>2. \A g \in FDs : user'[g].data = user[g].data
    BY <1>15 DEF DropFd, TypeOK
  <2>3. /\ \A u \in Threads : pc[u] \in Working => obj[u] \in FDs
        /\ \A i \in DOMAIN queue : queue[i] \in FDs
    BY DEF Objects, TypeOK
  <2>4. pc'[t] = "idle" /\ \A u \in Threads \ {t} : /\ pc'[u] = pc[u] /\ obj'[u] = obj[u]
                                                   /\ own'[u] = own[u]
    BY <2>1 DEF TypeOK
  <2>5. QED
    BY <2>1, <2>2, <2>3, <2>4
<1>16. CASE UNCHANGED vars
  BY <1>16 DEF vars
<1>17. QED
  BY <1>1, <1>2, <1>3, <1>4, <1>5, <1>6, <1>7, <1>8, <1>9, <1>10, <1>11, <1>12, <1>13, <1>14,
     <1>15, <1>16 DEF Next, ReactorStep, WorkerStep, CloseStep

LEMMA PromisesKept ==
    TypeOK /\ Objects /\ Descriptors /\ OneHolder /\ HolderKnows /\ Promises /\ [Next]_vars
    /\ ~twice' => Promises'
<1> SUFFICES ASSUME TypeOK, Objects, Descriptors, HolderKnows, Promises, [Next]_vars, ~twice'
             PROVE  Promises'
  OBVIOUS
<1> USE DEF Promises, Threads, netVars, kernelVars, threadVars, history
<1>1. ASSUME NEW c \in Conns, Connect(c) \/ HangUp(c) \/ Accept(c) PROVE Promises'
  BY <1>1 DEF Connect, HangUp, Accept
<1>2. CASE AcceptErrno \/ InitSession \/ AddFd \/ ReadData \/ Enqueue
  BY <1>2 DEF AcceptErrno, InitSession, AddFd, ReadData, Enqueue
<1>3. ASSUME NEW f \in FDs, PeerClosed(f) \/ Readable(f) PROVE Promises'
  BY <1>3 DEF PeerClosed, Readable
<1>4. ASSUME NEW w \in Workers, Take(w) \/ Handle(w) PROVE Promises'
  BY <1>4 DEF Take, Handle
<1>5. ASSUME NEW w \in Workers, Resolve(w) PROVE Promises'
  <2> DEFINE c == user[obj[w]].data
  <2>1. UNCHANGED <<sent, cut>>
    BY <1>5 DEF Resolve
  <2>2. CASE c = NoConn
    BY <1>5, <2>2 DEF Resolve
  <2>3. CASE c # NoConn
    <3>1. obj[w] \in FDs /\ Faithful(obj[w]) /\ Unhandled(obj[w])
      BY <1>5 DEF Resolve, Objects, HolderKnows
    <3>2. c = fdOf[obj[w]] /\ handled[c] = 0
      BY <2>3, <3>1 DEF Faithful, Unhandled
    <3>3. handled' = [handled EXCEPT ![c] = @ + 1]
      BY <1>5, <2>3 DEF Resolve
    <3> HIDE DEF c
    <3>4. QED
      BY <2>1, <3>2, <3>3 DEF TypeOK
  <2>4. QED
    BY <2>2, <2>3
<1>6. ASSUME NEW w \in Workers, Send(w) PROVE Promises'
  <2> DEFINE d == user[obj[w]].data
             c == ConnOn(user[obj[w]].sock)
  <2>1. UNCHANGED <<cut, handled>>
    BY <1>6 DEF Send
  <2>2. CASE UNCHANGED sent
    BY <2>1, <2>2
  <2>3. CASE c # NoConn /\ d # NoConn /\ sent' = sent \cup {<<d, c>>}
    <3>1. obj[w] \in FDs /\ Faithful(obj[w])
      BY <1>6 DEF Send, Objects, HolderKnows
    <3>2. d = c
      BY <2>3, <3>1, OwnOrNone DEF Faithful
    <3>3. QED
      BY <2>1, <2>3, <3>2
  <2>4. QED
    BY <1>6, <2>2, <2>3 DEF Send
<1>7. ASSUME NEW t \in Threads, CloseFd(t) PROVE Promises'
  <2>1. own[t] = fdOf[obj[t]]
    BY <1>7 DEF CloseFd, HolderKnows, Working
  <2>2. /\ cut' = (cut \/ ConnOn(user[obj[t]].sockfd) \notin {own[t], NoConn})
        /\ ConnOn(user[obj[t]].sockfd) \in {fdOf[obj[t]], NoConn}
        /\ UNCHANGED <<handled, sent>>
    BY <1>7, CloseFdCloses
  <2>3. QED
    BY <2>1, <2>2
<1>8. ASSUME NEW t \in Threads, Forget(t) \/ DropFd(t) PROVE Promises'
  BY <1>8 DEF Forget, DropFd
<1>9. CASE UNCHANGED vars
  BY <1>9 DEF vars
<1>10. QED
  BY <1>1, <1>2, <1>3, <1>4, <1>5, <1>6, <1>7, <1>8, <1>9
     DEF Next, ReactorStep, WorkerStep, CloseStep

(* A connection that was closed twice stays so in the history.                 *)
LEMMA TwiceStays == TypeOK /\ [Next]_vars /\ ~twice' => ~twice
<1> USE DEF netVars, kernelVars, threadVars, history
<1>1. ASSUME TypeOK, ~twice', NEW t \in Threads, DropFd(t) PROVE ~twice
  BY <1>1 DEF DropFd
<1>2. QED
  BY <1>1 DEF Next, ReactorStep, WorkerStep, CloseStep, Connect, HangUp, Accept, AcceptErrno,
     InitSession, AddFd, ReadData, Enqueue, PeerClosed, Readable, Take, Resolve, Handle, Send,
     CloseFd, Forget, vars
-----------------------------------------------------------------------------
(* The inductive invariant: types; which objects and descriptors belong        *)
(* together; and, until a connection is closed twice, one holder per object,   *)
(* who works for the connection that the object's descriptor names.            *)
THEOREM SessionsInvariant == Spec => []SessionsInv
<1>1. SessionsInv /\ [Next]_vars => SessionsInv'
  <2> SUFFICES ASSUME SessionsInv, [Next]_vars PROVE SessionsInv'
    OBVIOUS
  <2>1. TypeOK' /\ Objects' /\ Descriptors'
    BY TypesKept, ObjectsKept, DescriptorsKept DEF SessionsInv
  <2>2. Owned'
    BY OneHolderKept, HolderKnowsKept, PromisesKept, TwiceStays DEF SessionsInv, Owned
  <2>3. QED
    BY <2>1, <2>2 DEF SessionsInv
<1>2. QED
  BY <1>1, InitiallyOwned, PTL DEF Spec

(* Types of the reactor's, the workers' and the kernel's state (main.cpp's     *)
(* loop, Sec_Key_Server.cpp).                                                  *)
THEOREM SessionsTypes == Spec => []TypeOK
<1>1. SessionsInv => TypeOK
  BY DEF SessionsInv
<1>2. QED
  BY <1>1, SessionsInvariant, PTL

(* Send writes to the client whose request the object holds: descriptors and   *)
(* objects may be reused while their last user is still inside close_connect.  *)
THEOREM SessionsAnswers == Spec => []AnswersReachTheirClient
<1>1. SessionsInv => AnswersReachTheirClient
  BY DEF SessionsInv, Owned, Promises, AnswersReachTheirClient
<1>2. QED
  BY <1>1, SessionsInvariant, PTL

(* remove_fd closes the connection of the thread that calls it, or none.       *)
THEOREM SessionsOwnCut == Spec => []OnlyOwnConnectionCut
<1>1. SessionsInv => OnlyOwnConnectionCut
  BY DEF SessionsInv, Owned, Promises, OnlyOwnConnectionCut
<1>2. QED
  BY <1>1, SessionsInvariant, PTL

(* A request leaves the one-shot epoll set, the reactor and the queue once.    *)
THEOREM SessionsOnce == Spec => []HandledOnce
<1>1. SessionsInv => HandledOnce
  BY DEF SessionsInv, Owned, Promises, HandledOnce
<1>2. QED
  BY <1>1, SessionsInvariant, PTL
=============================================================================
