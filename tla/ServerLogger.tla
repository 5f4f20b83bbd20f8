----------------------------- MODULE ServerLogger -----------------------------
(***************************************************************************)
(* The accept loop of Server together with the logger its threads use: the *)
(* thread of a client is the thread of Server that owns its descriptor and *)
(* the thread of Logger that takes the mutexes.  They meet in three places *)
(* of the code: LogInit runs before RunServer, a thread gives its          *)
(* descriptor back only after its last call of the logger, and fopen of    *)
(* the log file needs a descriptor of the pool accept takes from.          *)
(***************************************************************************)
EXTENDS Server

CONSTANTS MaxRequests,    \* as in Logger
          PeersMayFail

ASSUME ServerLoggerAssumption == MaxRequests \in Nat /\ PeersMayFail \in BOOLEAN

VARIABLES server_mutex, stdout_mutex, log_init, pc, requests, prints, fopen_failed, perror_called,
          log_fd  \* the descriptor each thread has the log file open on

logVars    == <<server_mutex, stdout_mutex, log_init, pc, requests, prints, fopen_failed,
                perror_called>>
serverVars == <<vars, logVars, log_fd>>

L == INSTANCE Logger WITH Threads <- Clients, FopenMayFail <- TRUE, main_pc <- log_init

ServerInit == Init /\ L!Init /\ log_fd = [c \in Clients |-> NoFd]

\* What is left of the pool for accept and for fopen.
Pool == FreeFDs \ {log_fd[c] : c \in Clients}

-----------------------------------------------------------------------------
\* main calls LogInit before SetupServer and RunServer; a client may connect as
\* soon as the socket listens.
LogInit ==
    /\ L!LogInit
    /\ UNCHANGED <<vars, log_fd>>

MainStep == log_init = "running" /\ Main(Pool) /\ UNCHANGED <<logVars, log_fd>>

\* The kernel, the clients and the end of the process.
OutsideStep ==
    /\ log_init = "running"
    /\ TerminateHandler \/ ThreadUsesFreedConf \/ \E c \in Clients : Connect(c) \/ ThreadEnds(c)
    /\ UNCHANGED <<logVars, log_fd>>

\* fopen(log_filename, "a") takes a free descriptor, and fails when there is
\* none; fclose gives it back before the mutex is unlocked.
LogFileOpened(c) ==
    /\ pc[c] = "logging" /\ log_fd[c] = NoFd
    /\ \E fd \in Pool : log_fd' = [log_fd EXCEPT ![c] = fd]
    /\ UNCHANGED logVars

LogMessageReturn(c) ==
    /\ pc[c] = "logging" /\ L!Goto(c, "serve")
    /\ \/ log_fd[c] # NoFd /\ L!LogMessageWrites
       \/ log_fd[c] = NoFd /\ Pool = {} /\ L!LogMessageCannotOpen
    /\ log_fd' = [log_fd EXCEPT ![c] = NoFd]
    /\ UNCHANGED <<stdout_mutex, log_init, requests, prints, perror_called>>

\* HandleConnection until it releases its connection.
Handle(c) ==
    /\ Running /\ thread[c] = "running"
    /\ \/ LogFileOpened(c) \/ LogMessageReturn(c)
       \/ /\ \/ L!SessionInit(c) \/ L!Receive(c) \/ L!Serve(c) \/ L!LogMessageLock(c)
             \/ L!log_perror_lock(c) \/ L!log_perror_return(c)
             \/ L!log_printf_lock(c) \/ L!log_printf_return(c)
          /\ UNCHANGED log_fd
    /\ UNCHANGED vars

Release(c) == L!FreeThreadData(c) /\ NetFree(c) /\ UNCHANGED log_fd

ServerNext ==
    \/ LogInit \/ MainStep \/ OutsideStep
    \/ \E c \in Clients : Handle(c) \/ Release(c)

ServerSpec == ServerInit /\ [][ServerNext]_serverVars

(***************************************************************************)
(* Main and the threads keep running and, unlike in Logger, every client   *)
(* acts or goes away in the end: the code has no timeout, so that nothing  *)
(* is promised to those who wait for a descriptor of an idle connection.   *)
(* MaxRequests and the threads' number bound the calls of the logger: weak *)
(* fairness is enough for its locks.                                       *)
(***************************************************************************)
ServerFairSpec ==
    /\ ServerSpec
    /\ WF_serverVars(LogInit \/ MainStep)
    /\ \A c \in Clients : WF_serverVars(Handle(c) \/ Release(c))

-----------------------------------------------------------------------------
(* Properties.                                                              *)

(***************************************************************************)
(* After SIGINT the process ends once one more client connects: whatever   *)
(* accept does with it, it does not hold the main thread any longer.       *)
(***************************************************************************)
StopsOnceAwoken == (~server_should_run /\ queue # {}) ~> ~Running

(***************************************************************************)
(* Clients that have connected are all accepted, more of them than there   *)
(* are descriptors: connections give theirs back, and an accept that       *)
(* failed for want of one is tried again.  Only threads that wait for a    *)
(* leaked mutex and threads that could not be created keep the descriptors *)
(* for good.                                                               *)
(***************************************************************************)
LockLeaked == fopen_failed \/ perror_called

DescriptorsLost == \A fd \in FDs : socket[fd] # NoClient /\ thread[socket[fd]] = "not_created"

EveryoneIsAccepted ==
    (queue # {}) ~> \/ queue = {}
                    \/ FreeFDs = {} /\ LockLeaked
                    \/ DescriptorsLost
                    \/ ~server_should_run \/ ~Running

=============================================================================
