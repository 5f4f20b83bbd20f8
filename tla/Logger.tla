-------------------------------- MODULE Logger --------------------------------
(***************************************************************************)
(* src/src/logger.c as the threads of the server use it: LogInit by main,  *)
(* LogMessage for every request, log_perror when a connection broke and    *)
(* log_printf (twice) when a handshake failed, always before the thread    *)
(* releases its connection.  What a thread does between two calls of the   *)
(* logger is HttpConnection's matter and one step here.                    *)
(*                                                                         *)
(* A mutex is TRUE when it is locked.  They are default pthread mutexes:   *)
(* pthread_mutex_unlock does not ask who locked it, and unlocking a free   *)
(* one leaves it free.                                                     *)
(***************************************************************************)
EXTENDS Naturals, FiniteSets

CONSTANTS Threads,        \* the threads that run HandleConnection
          MaxRequests,    \* bound: requests one connection sends
          FopenMayFail,   \* can the log file become impossible to open
          PeersMayFail    \* can a handshake, a read or a send of a connection fail

ASSUME LoggerAssumption ==
    /\ MaxRequests \in Nat
    /\ FopenMayFail \in BOOLEAN /\ PeersMayFail \in BOOLEAN

VARIABLES
    server_mutex, stdout_mutex,
    main_pc,      \* main: in LogInit, or done with it
    pc,           \* where each thread is
    requests,     \* requests each thread has logged
    prints,       \* log_printf calls each thread has still to make
    fopen_failed, \* has LogMessage ever failed to open the file
    perror_called \* has log_perror ever returned

vars == <<server_mutex, stdout_mutex, main_pc, pc, requests, prints, fopen_failed, perror_called>>

TypeOK ==
    /\ server_mutex \in BOOLEAN /\ stdout_mutex \in BOOLEAN
    /\ main_pc \in {"access", "LogMessage", "logging", "running"}
    /\ pc \in [Threads -> {"session_init", "receive", "LogMessage", "logging", "serve",
                           "log_perror", "in_perror", "log_printf", "in_printf",
                           "free", "freed"}]
    /\ requests \in [Threads -> 0 .. MaxRequests]
    /\ prints \in [Threads -> 0 .. 2]
    /\ fopen_failed \in BOOLEAN /\ perror_called \in BOOLEAN

Init ==
    /\ server_mutex = FALSE /\ stdout_mutex = FALSE
    /\ main_pc = "access"
    /\ pc = [t \in Threads |-> "session_init"]
    /\ requests = [t \in Threads |-> 0]
    /\ prints = [t \in Threads |-> 0]
    /\ fopen_failed = FALSE /\ perror_called = FALSE

Goto(t, next) == pc' = [pc EXCEPT ![t] = next]

-----------------------------------------------------------------------------
(* LogMessage is in its critical section between its lock and its return.   *)
(* When fopen fails it returns with server_mutex locked.                    *)

\* Mutant: pthread_mutex_trylock whose result is not looked at.
LockWithoutWaiting(mutex) == mutex' = TRUE

Lock(mutex) == ~mutex /\ mutex' = TRUE

LogMessageWrites == server_mutex' = FALSE /\ UNCHANGED fopen_failed

LogMessageCannotOpen ==
    /\ FopenMayFail
    /\ fopen_failed' = TRUE
    /\ UNCHANGED server_mutex

\* LogInit writes the header lines when the log file does not exist.
LogInit ==
    /\ \/ /\ main_pc = "access" /\ main_pc' \in {"LogMessage", "running"}
          /\ UNCHANGED <<server_mutex, fopen_failed>>
       \/ /\ main_pc = "LogMessage" /\ main_pc' = "logging"
          /\ Lock(server_mutex)
          /\ UNCHANGED fopen_failed
       \/ /\ main_pc = "logging" /\ main_pc' = "running"
          /\ LogMessageWrites \/ LogMessageCannotOpen
    /\ UNCHANGED <<stdout_mutex, pc, requests, prints, perror_called>>

LogMessageLock(t) ==
    /\ pc[t] = "LogMessage" /\ Goto(t, "logging")
    /\ Lock(server_mutex)
    /\ UNCHANGED <<stdout_mutex, main_pc, requests, prints, fopen_failed, perror_called>>

LogMessageReturn(t) ==
    /\ pc[t] = "logging" /\ Goto(t, "serve")
    /\ LogMessageWrites \/ LogMessageCannotOpen
    /\ UNCHANGED <<stdout_mutex, main_pc, requests, prints, perror_called>>

-----------------------------------------------------------------------------
(* The two wrappers.  log_perror locks stdout_mutex and unlocks             *)
(* server_mutex.                                                            *)

log_perror_lock(t) ==
    /\ pc[t] = "log_perror" /\ Goto(t, "in_perror")
    /\ Lock(stdout_mutex)
    /\ UNCHANGED <<server_mutex, main_pc, requests, prints, fopen_failed, perror_called>>

\* Mutant: the missing unlock is added and the wrong one is left.
log_perror_unlocks_both(t) ==
    /\ pc[t] = "in_perror" /\ Goto(t, "free")
    /\ server_mutex' = FALSE /\ stdout_mutex' = FALSE
    /\ perror_called' = TRUE
    /\ UNCHANGED <<main_pc, requests, prints, fopen_failed>>

log_perror_return(t) ==
    /\ pc[t] = "in_perror" /\ Goto(t, "free")
    /\ server_mutex' = FALSE
    /\ perror_called' = TRUE
    /\ UNCHANGED <<stdout_mutex, main_pc, requests, prints, fopen_failed>>

\* Mutant: the lock is missing.
log_printf_without_lock(t) ==
    /\ pc[t] = "log_printf" /\ Goto(t, "in_printf")
    /\ UNCHANGED <<server_mutex, stdout_mutex, main_pc, requests, prints, fopen_failed,
                   perror_called>>

log_printf_lock(t) ==
    /\ pc[t] = "log_printf" /\ Goto(t, "in_printf")
    /\ Lock(stdout_mutex)
    /\ UNCHANGED <<server_mutex, main_pc, requests, prints, fopen_failed, perror_called>>

\* Mutant: one call too many is made.
log_printf_once_more(t) ==
    /\ pc[t] = "in_printf"
    /\ stdout_mutex' = FALSE
    /\ prints' = [prints EXCEPT ![t] = @ - 1]
    /\ Goto(t, IF prints[t] = 0 THEN "free" ELSE "log_printf")
    /\ UNCHANGED <<server_mutex, main_pc, requests, fopen_failed, perror_called>>

\* Mutant: the mutex of the log file is unlocked, as log_perror does.
log_printf_unlocks_server(t) ==
    /\ pc[t] = "in_printf"
    /\ server_mutex' = FALSE
    /\ prints' = [prints EXCEPT ![t] = @ - 1]
    /\ Goto(t, IF prints'[t] = 0 THEN "free" ELSE "log_printf")
    /\ UNCHANGED <<stdout_mutex, main_pc, requests, fopen_failed, perror_called>>

log_printf_return(t) ==
    /\ pc[t] = "in_printf"
    /\ stdout_mutex' = FALSE
    /\ prints' = [prints EXCEPT ![t] = @ - 1]
    /\ Goto(t, IF prints'[t] = 0 THEN "free" ELSE "log_printf")
    /\ UNCHANGED <<server_mutex, main_pc, requests, fopen_failed, perror_called>>

-----------------------------------------------------------------------------
(* HandleConnection between the calls.  Threads start when main is in       *)
(* RunServer.                                                               *)

SessionInit(t) ==
    /\ main_pc = "running"
    /\ pc[t] = "session_init"
    /\ \/ Goto(t, "receive") /\ UNCHANGED prints
       \/ /\ PeersMayFail
          /\ Goto(t, "log_printf")
          /\ prints' = [prints EXCEPT ![t] = 2]
    /\ UNCHANGED <<server_mutex, stdout_mutex, main_pc, requests, fopen_failed, perror_called>>

\* A request that is logged, one that is refused or the end of the stream, or a
\* read error.
Receive(t) ==
    /\ pc[t] = "receive"
    /\ \/ /\ requests[t] < MaxRequests
          /\ requests' = [requests EXCEPT ![t] = @ + 1]
          /\ Goto(t, "LogMessage")
       \/ Goto(t, "free") /\ UNCHANGED requests
       \/ PeersMayFail /\ Goto(t, "log_perror") /\ UNCHANGED requests
    /\ UNCHANGED <<server_mutex, stdout_mutex, main_pc, prints, fopen_failed, perror_called>>

\* The response is sent, with or without keep-alive, or its sending fails.
Serve(t) ==
    /\ pc[t] = "serve"
    /\ \/ Goto(t, "receive")
       \/ Goto(t, "free")
       \/ PeersMayFail /\ Goto(t, "log_perror")
    /\ UNCHANGED <<server_mutex, stdout_mutex, main_pc, requests, prints, fopen_failed,
                   perror_called>>

FreeThreadData(t) ==
    /\ pc[t] = "free" /\ Goto(t, "freed")
    /\ UNCHANGED <<server_mutex, stdout_mutex, main_pc, requests, prints, fopen_failed,
                   perror_called>>

\* What a thread does without its client: once it has a request, or has none to
\* wait for.
OwnStep(t) ==
    \/ Serve(t) \/ FreeThreadData(t)
    \/ LogMessageLock(t) \/ LogMessageReturn(t)
    \/ log_perror_lock(t) \/ log_perror_return(t)
    \/ log_printf_lock(t) \/ log_printf_return(t)

Step(t) == SessionInit(t) \/ Receive(t) \/ OwnStep(t)

Next == LogInit \/ \E t \in Threads : Step(t)

Spec == Init /\ [][Next]_vars

(***************************************************************************)
(* Every thread keeps running, and a client takes what is sent to it.  The *)
(* handshake and the read have no timeout: nobody has to answer them, and  *)
(* SessionInit and Receive are not fair.  Weak fairness is enough for the  *)
(* locks: with MaxRequests a mutex is only taken finitely often, so nobody *)
(* is overtaken forever.                                                   *)
(***************************************************************************)
FairSpec == Spec /\ WF_vars(LogInit) /\ \A t \in Threads : WF_vars(OwnStep(t))

-----------------------------------------------------------------------------
(* Properties.                                                              *)

InLogMessage == {t \in Threads : pc[t] = "logging"}
Printing     == {t \in Threads : pc[t] \in {"in_perror", "in_printf"}}

(***************************************************************************)
(* No two threads are inside perror or printf of the wrappers at once,     *)
(* whatever the mismatched unlock of log_perror does to the other mutex.   *)
(***************************************************************************)
StdoutSerialised == \A t, u \in Printing : t = u

(***************************************************************************)
(* At most one thread has the log file open, the initial lines of LogInit  *)
(* included, until log_perror has unlocked a mutex that is not its own.    *)
(* From then on two may have, the one it let in and one more, but never    *)
(* three: that log_perror has kept stdout_mutex, and no second one gets as *)
(* far as its unlock.                                                      *)
(***************************************************************************)
LogFileSerialised ==
    /\ ~perror_called => /\ \A t, u \in InLogMessage : t = u
                         /\ main_pc = "logging" => InLogMessage = {}
    /\ perror_called => Printing = {}
    /\ \A s, t, u \in InLogMessage : s = t \/ t = u \/ s = u

(***************************************************************************)
(* A failed fopen is not made good: LogMessage keeps server_mutex, and no  *)
(* request the parser accepts is served any more on any connection, though *)
(* the server goes on accepting them, unless the mismatched unlock of      *)
(* log_perror happens to free the mutex.  (A refused request is answered   *)
(* without being logged.)                                                  *)
(***************************************************************************)
NobodyIsServedAgain ==
    [][(fopen_failed /\ ~perror_called) =>
          \A t \in Threads : pc'[t] = "serve" => pc[t] = "serve"]_vars

(***************************************************************************)
(* Once a thread has something to do, a request or a failure, it comes     *)
(* back to its client or releases the connection, unless a failed fopen or *)
(* a log_perror has left a mutex locked: with any number of connections    *)
(* that print, log and serve in between, while others are silent forever.  *)
(***************************************************************************)
ServedUnlessLockLeaked ==
    \A t \in Threads :
        (pc[t] \notin {"session_init", "receive"}) ~>
            (pc[t] \in {"receive", "freed"} \/ fopen_failed \/ perror_called)

-----------------------------------------------------------------------------
(* What the repository's comments say of this code.                         *)

\* include/logger.h: log_perror and log_printf have a built-in mutex; a call
\* returns.
WrapperCallsReturn ==
    \A t \in Threads : (pc[t] \in {"log_perror", "log_printf"}) ~> (pc[t] = "free")

\* include/logger.h: LogMessage returns LOGGER_ERROR in case of error; a call
\* returns.
LogMessageReturns == \A t \in Threads : (pc[t] = "LogMessage") ~> (pc[t] = "serve")

=============================================================================
