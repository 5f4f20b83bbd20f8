-------------------------------- MODULE Server --------------------------------
(***************************************************************************)
(* The main thread after start-up (src/src/networking.c, src/src/main.c):  *)
(* the accept loop of RunServer, SIGINT, the hand-over of an accepted      *)
(* socket to a detached thread, the release of the socket by that thread   *)
(* and FreeServerParams at the end of main.  What a thread does with its   *)
(* connection is HttpConnection's matter; here it lives until it is done.  *)
(*                                                                         *)
(* A descriptor is a number the kernel gives out again as soon as it was   *)
(* closed.  A thread is named by the client it serves.                     *)
(***************************************************************************)
EXTENDS Naturals, FiniteSets

CONSTANTS Clients,         \* clients, each of which connects at most once
          FDs,             \* descriptors the process may have
          NoClient, NoFd,  \* -1 and nothing
          CreateMayFail    \* can pthread_create fail

ASSUME ServerAssumption ==
    /\ NoClient \notin Clients /\ NoFd \notin FDs
    /\ CreateMayFail \in BOOLEAN

VARIABLES
    main_pc,            \* where the main thread is
    server_should_run,
    queue,              \* clients the kernel has connected and nobody accepted
    connected,          \* clients that have connected so far
    socket,             \* the client at the other end of each descriptor
    client_fd,          \* server_tls.session_tls.client_fd, the slot of accept
    thread,             \* the state of each client's thread
    thread_fd,          \* the copy of client_fd in its thread_data
    late_accepts        \* connections accepted after SIGINT

kernel  == <<queue, connected>>
threads == <<thread, thread_fd>>
vars    == <<main_pc, server_should_run, kernel, socket, client_fd, threads, late_accepts>>

TypeOK ==
    /\ main_pc \in {"check", "accept", "spawn", "detach", "free", "return", "exited", "crashed"}
    /\ server_should_run \in BOOLEAN
    /\ queue \subseteq Clients /\ connected \subseteq Clients
    /\ socket \in [FDs -> Clients \cup {NoClient}]
    /\ client_fd \in FDs \cup {NoFd}
    /\ main_pc = "spawn" => client_fd \in FDs
    /\ thread \in [Clients -> {"none", "running", "closed", "gone", "not_created"}]
    /\ thread_fd \in [Clients -> FDs \cup {NoFd}]
    /\ late_accepts \in Nat

Init ==
    /\ main_pc = "check" /\ server_should_run = TRUE
    /\ queue = {} /\ connected = {}
    /\ socket = [fd \in FDs |-> NoClient]
    /\ client_fd = NoFd
    /\ thread = [c \in Clients |-> "none"]
    /\ thread_fd = [c \in Clients |-> NoFd]
    /\ late_accepts = 0

Running == main_pc \notin {"exited", "crashed"}
FreeFDs == {fd \in FDs : socket[fd] = NoClient}

-----------------------------------------------------------------------------
(* The environment.                                                         *)

Connect(c) ==
    /\ Running /\ main_pc # "return"
    /\ c \notin connected
    /\ connected' = connected \cup {c}
    /\ queue' = queue \cup {c}
    /\ UNCHANGED <<main_pc, server_should_run, socket, client_fd, threads, late_accepts>>

(***************************************************************************)
(* SIGINT runs TerminateHandler in one thread of the process.  When that   *)
(* thread is main and waits in accept, accept fails, because the handler   *)
(* was installed without SA_RESTART, and the loop starts over.  When main  *)
(* has tested the flag and not yet begun to wait, or another thread runs   *)
(* the handler, main is where it was and may wait for good.                *)
(***************************************************************************)
TerminateHandler ==
    /\ Running
    /\ server_should_run' = FALSE
    /\ \/ UNCHANGED <<main_pc, client_fd>>
       \/ /\ main_pc = "accept" /\ main_pc' = "check"
          /\ queue = {}
          /\ client_fd' = NoFd
    /\ UNCHANGED <<kernel, socket, threads, late_accepts>>

-----------------------------------------------------------------------------
(* RunServer.                                                               *)

\* Mutant: the loop has no condition.
LoopWithoutTest ==
    /\ main_pc = "check" /\ main_pc' = "accept"
    /\ UNCHANGED <<server_should_run, kernel, socket, client_fd, threads, late_accepts>>

LoopTest ==
    /\ main_pc = "check"
    /\ main_pc' = IF server_should_run THEN "accept" ELSE "free"
    /\ UNCHANGED <<server_should_run, kernel, socket, client_fd, threads, late_accepts>>

\* pool are the numbers the kernel has to give; files hold some of the others.
Accept(pool) ==
    /\ main_pc = "accept" /\ main_pc' = "spawn"
    /\ \E c \in queue, fd \in pool :
         /\ queue' = queue \ {c}
         /\ socket' = [socket EXCEPT ![fd] = c]
         /\ client_fd' = fd
    /\ late_accepts' = IF server_should_run THEN late_accepts ELSE late_accepts + 1
    /\ UNCHANGED <<server_should_run, connected, threads>>

\* Mutant: accept is called again without the test of the loop.
AcceptRetries(pool) ==
    /\ main_pc = "accept"
    /\ \/ pool = {} /\ UNCHANGED queue
       \/ \E c \in queue : queue' = queue \ {c}
    /\ client_fd' = NoFd
    /\ UNCHANGED <<main_pc, server_should_run, connected, socket, threads, late_accepts>>

\* Mutant: the failure is printed and a thread is started all the same.
AcceptFailsAndGoesOn(pool) ==
    /\ main_pc = "accept" /\ main_pc' = "spawn"
    /\ \/ pool = {} /\ UNCHANGED queue
       \/ \E c \in queue : queue' = queue \ {c}
    /\ client_fd' = NoFd
    /\ UNCHANGED <<server_should_run, connected, socket, threads, late_accepts>>

\* With every descriptor in use accept does not wait; it also fails, and takes
\* the client from the queue, when that client has given up.
AcceptFails(pool) ==
    /\ main_pc = "accept" /\ main_pc' = "check"
    /\ \/ pool = {} /\ UNCHANGED queue
       \/ \E c \in queue : queue' = queue \ {c}
    /\ client_fd' = NoFd
    /\ UNCHANGED <<server_should_run, connected, socket, threads, late_accepts>>

\* thread_data gets its own copies of the descriptor and of the two strings;
\* nobody looks at what pthread_create returns.
PthreadCreate ==
    LET c == socket[client_fd]
    IN  /\ main_pc = "spawn"
        /\ \/ /\ thread' = [thread EXCEPT ![c] = "running"]
              /\ main_pc' = "check"
           \/ /\ CreateMayFail
              /\ thread' = [thread EXCEPT ![c] = "not_created"]
              /\ main_pc' = "detach"
        /\ thread_fd' = [thread_fd EXCEPT ![c] = client_fd]
        /\ UNCHANGED <<server_should_run, kernel, socket, client_fd, late_accepts>>

\* After a failed pthread_create the handle is not initialized or names an
\* earlier thread, detached long ago.
PthreadDetachStale ==
    /\ main_pc = "detach" /\ main_pc' \in {"check", "crashed"}
    /\ UNCHANGED <<server_should_run, kernel, socket, client_fd, threads, late_accepts>>

\* FreeServerParams, while the detached threads go on; then main returns and
\* the process ends with all of them.  The listening socket is closed here.
FreeServerParams ==
    /\ main_pc = "free" /\ main_pc' = "return"
    /\ UNCHANGED <<server_should_run, kernel, socket, client_fd, threads, late_accepts>>

\* A thread that uses the TLS configuration after it was freed may end the
\* process before main does.
ThreadUsesFreedConf ==
    /\ main_pc = "return" /\ main_pc' = "crashed"
    /\ \E c \in Clients : thread[c] = "running"
    /\ UNCHANGED <<server_should_run, kernel, socket, client_fd, threads, late_accepts>>

Return ==
    /\ main_pc = "return" /\ main_pc' = "exited"
    /\ socket' = [fd \in FDs |-> NoClient]
    /\ thread' = [c \in Clients |-> IF thread[c] \in {"running", "closed"} THEN "gone" ELSE thread[c]]
    /\ thread_fd' = [c \in Clients |-> NoFd]
    /\ UNCHANGED <<server_should_run, kernel, client_fd, late_accepts>>

Main(pool) ==
    \/ LoopTest \/ Accept(pool) \/ AcceptFails(pool) \/ PthreadCreate \/ PthreadDetachStale
    \/ FreeServerParams \/ Return

-----------------------------------------------------------------------------
(* ServerTlsSessionFree in the thread of c: mbedtls_net_free closes the     *)
(* descriptor and forgets it; mbedtls_ssl_close_notify and the end of the   *)
(* thread come later.                                                       *)

\* Mutant: close without setting the descriptor to -1.
NetFreeKeepsNumber(c) ==
    /\ Running
    /\ thread[c] = "running"
    /\ thread' = [thread EXCEPT ![c] = "closed"]
    /\ socket' = [socket EXCEPT ![thread_fd[c]] = NoClient]
    /\ UNCHANGED <<main_pc, server_should_run, kernel, client_fd, thread_fd, late_accepts>>

\* Mutant: the descriptor is forgotten and not closed.
NetFreeWithoutClose(c) ==
    /\ Running
    /\ thread[c] = "running"
    /\ thread' = [thread EXCEPT ![c] = "closed"]
    /\ thread_fd' = [thread_fd EXCEPT ![c] = NoFd]
    /\ UNCHANGED <<main_pc, server_should_run, kernel, socket, client_fd, late_accepts>>

NetFree(c) ==
    /\ Running
    /\ thread[c] = "running"
    /\ thread' = [thread EXCEPT ![c] = "closed"]
    /\ socket' = [socket EXCEPT ![thread_fd[c]] = NoClient]
    /\ thread_fd' = [thread_fd EXCEPT ![c] = NoFd]
    /\ UNCHANGED <<main_pc, server_should_run, kernel, client_fd, late_accepts>>

ThreadEnds(c) ==
    /\ Running
    /\ thread[c] = "closed"
    /\ thread' = [thread EXCEPT ![c] = "gone"]
    /\ UNCHANGED <<main_pc, server_should_run, kernel, socket, client_fd, thread_fd,
                   late_accepts>>

Next ==
    \/ \E pool \in SUBSET FreeFDs : Main(pool)
    \/ TerminateHandler
    \/ ThreadUsesFreedConf
    \/ \E c \in Clients : Connect(c) \/ NetFree(c) \/ ThreadEnds(c)

Spec == Init /\ [][Next]_vars

-----------------------------------------------------------------------------
(* Properties.                                                              *)

(***************************************************************************)
(* No thread ever works on the socket of another client.  Descriptors are  *)
(* given out again between mbedtls_net_free and mbedtls_ssl_close_notify   *)
(* of the old thread: it must not be left with a number that has become    *)
(* the socket of a newer client.                                           *)
(***************************************************************************)
SocketIsOwnClients ==
    \A c \in Clients : thread_fd[c] # NoFd => socket[thread_fd[c]] = c

(***************************************************************************)
(* Every open descriptor is about to be handed over or belongs to a thread *)
(* that will close it, except those of threads that could not be created:  *)
(* only they shrink the number of connections the server can serve.        *)
(***************************************************************************)
DescriptorsAccountedFor ==
    \A fd \in FDs \ FreeFDs :
        \/ main_pc = "spawn" /\ fd = client_fd /\ thread[socket[fd]] = "none"
        \/ thread_fd[socket[fd]] = fd /\ thread[socket[fd]] \in {"running", "not_created"}

(***************************************************************************)
(* A SIGINT that comes between the loop test and the wait of accept, or is *)
(* handled by another thread, is noticed after one more connection, never  *)
(* later.                                                                  *)
(***************************************************************************)
AtMostOneLateAccept == late_accepts <= 1

=============================================================================
