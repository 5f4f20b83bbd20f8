----------------------------- MODULE LoggerProofs -----------------------------
(***************************************************************************)
(* What the two mutexes of src/src/logger.c protect, for any number of     *)
(* threads and requests.                                                   *)
(***************************************************************************)
EXTENDS Logger, TLAPS

\* Who prints has locked stdout_mutex, and nobody else unlocks it.
StdoutInv ==
    /\ \A t \in Threads : pc[t] \in {"in_perror", "in_printf"} => stdout_mutex
    /\ \A t, u \in Threads : (pc[t] \in {"in_perror", "in_printf"} /\
                              pc[u] \in {"in_perror", "in_printf"}) => t = u

\* Who has the log file open has locked server_mutex, which stays locked until
\* that thread, or a log_perror, unlocks it, and for good when fopen failed.
LogFileInv ==
    ~perror_called =>
        /\ \A t \in Threads : pc[t] = "logging" => server_mutex
        /\ main_pc = "logging" => server_mutex
        /\ \A t, u \in Threads : (pc[t] = "logging" /\ pc[u] = "logging") => t = u
        /\ \A t \in Threads : pc[t] = "logging" => main_pc # "logging"
        /\ fopen_failed => /\ server_mutex /\ main_pc # "logging"
                           /\ \A t \in Threads : pc[t] # "logging"

\* Threads are started when LogInit has returned.
StartInv ==
    main_pc # "running" => ~perror_called /\ \A t \in Threads : pc[t] = "session_init"

\* What the first log_perror that returns leaves: stdout_mutex locked for good, so
\* that nobody prints or unlocks any more, and room for one thread more in
\* LogMessage than server_mutex says.
AfterPerrorInv ==
    /\ perror_called =>
         /\ stdout_mutex
         /\ \A t \in Threads : pc[t] \notin {"in_perror", "in_printf"}
         /\ ~server_mutex =>
              \A t, u \in Threads : (pc[t] = "logging" /\ pc[u] = "logging") => t = u
    /\ \A s, t, u \in Threads :
         (pc[s] = "logging" /\ pc[t] = "logging" /\ pc[u] = "logging") =>
            s = t \/ t = u \/ s = u

\* log_printf is called while there are calls left to make.
PrintsInv ==
    \A t \in Threads : pc[t] \in {"log_printf", "in_printf"} => prints[t] > 0

Inv == TypeOK /\ StdoutInv /\ LogFileInv /\ StartInv /\ AfterPerrorInv /\ PrintsInv

LEMMA InitInv == Init => Inv
  <1> SUFFICES ASSUME Init PROVE Inv
    OBVIOUS
  <1> USE DEF Init
  <1>1. /\ server_mutex \in BOOLEAN /\ stdout_mutex \in BOOLEAN
        /\ fopen_failed \in BOOLEAN /\ perror_called \in BOOLEAN
    OBVIOUS
  <1>2. TypeOK
    BY <1>1, LoggerAssumption DEF TypeOK
  <1> QED
    BY <1>2 DEF Inv, StdoutInv, LogFileInv, StartInv, AfterPerrorInv, PrintsInv

-----------------------------------------------------------------------------
(* The steps.                                                               *)

LEMMA LogInitInv ==
    ASSUME Inv, LogInit
    PROVE  Inv'
  <1> USE DEF Inv, LogInit, Lock, LogMessageWrites, LogMessageCannotOpen
  <1>1. server_mutex' \in BOOLEAN /\ fopen_failed' \in BOOLEAN
    BY DEF TypeOK
  <1>2. TypeOK'
    BY <1>1 DEF TypeOK
  <1>3. StdoutInv' /\ PrintsInv'
    BY DEF StdoutInv, PrintsInv
  <1>4. LogFileInv'
    BY DEF LogFileInv
  <1>5. StartInv' /\ AfterPerrorInv'
    BY DEF StartInv, AfterPerrorInv
  <1> QED
    BY <1>2, <1>3, <1>4, <1>5

LEMMA LogMessageInv ==
    ASSUME Inv, NEW t \in Threads, LogMessageLock(t) \/ LogMessageReturn(t)
    PROVE  Inv'
  <1> USE DEF Inv, LogMessageLock, LogMessageReturn, Goto, Lock, LogMessageWrites,
              LogMessageCannotOpen
  <1>1. server_mutex' \in BOOLEAN /\ fopen_failed' \in BOOLEAN
    BY DEF TypeOK
  <1>2. TypeOK'
    BY <1>1 DEF TypeOK
  <1>3. StdoutInv' /\ PrintsInv'
    BY DEF StdoutInv, PrintsInv, TypeOK
  <1>4. LogFileInv'
    BY DEF LogFileInv, TypeOK
  <1>5. StartInv'
    BY DEF StartInv, TypeOK
  <1>6. AfterPerrorInv'
    BY DEF AfterPerrorInv, LogFileInv, StdoutInv, TypeOK
  <1> QED
    BY <1>2, <1>3, <1>4, <1>5, <1>6

LEMMA LogPerrorInv ==
    ASSUME Inv, NEW t \in Threads, log_perror_lock(t) \/ log_perror_return(t)
    PROVE  Inv'
  <1> USE DEF Inv, log_perror_lock, log_perror_return, Goto, Lock
  <1>1. /\ server_mutex' \in BOOLEAN /\ stdout_mutex' \in BOOLEAN
        /\ perror_called' \in BOOLEAN
    BY DEF TypeOK
  <1>2. TypeOK'
    BY <1>1 DEF TypeOK
  <1>3. StdoutInv' /\ PrintsInv'
    BY DEF StdoutInv, PrintsInv, TypeOK
  <1>4. LogFileInv'
    BY DEF LogFileInv, TypeOK
  <1>5. StartInv'
    BY DEF StartInv, TypeOK
  <1>6. AfterPerrorInv'
    BY DEF AfterPerrorInv, LogFileInv, StdoutInv, TypeOK
  <1> QED
    BY <1>2, <1>3, <1>4, <1>5, <1>6

LEMMA LogPrintfInv ==
    ASSUME Inv, NEW t \in Threads, log_printf_lock(t) \/ log_printf_return(t)
    PROVE  Inv'
  <1> USE DEF Inv, log_printf_lock, log_printf_return, Goto, Lock
  <1>1. stdout_mutex' \in BOOLEAN
    BY DEF TypeOK
  <1>2. prints' \in [Threads -> 0 .. 2] /\ PrintsInv'
    BY DEF TypeOK, PrintsInv
  <1>3. TypeOK'
    BY <1>1, <1>2 DEF TypeOK
  <1>4. StdoutInv'
    BY DEF StdoutInv, TypeOK
  <1>5. LogFileInv'
    BY DEF LogFileInv, TypeOK
  <1>6. StartInv'
    BY DEF StartInv, TypeOK
  <1>7. AfterPerrorInv'
    BY DEF AfterPerrorInv, StdoutInv, TypeOK
  <1> QED
    BY <1>2, <1>3, <1>4, <1>5, <1>6, <1>7

\* What a thread does between its calls of the logger touches no mutex.
LEMMA ConnectionInv ==
    ASSUME Inv, NEW t \in Threads,
           SessionInit(t) \/ Receive(t) \/ Serve(t) \/ FreeThreadData(t)
    PROVE  Inv'
  <1> USE DEF Inv, SessionInit, Receive, Serve, FreeThreadData, Goto
  <1>1. requests' \in [Threads -> 0 .. MaxRequests] /\ prints' \in [Threads -> 0 .. 2]
    BY LoggerAssumption DEF TypeOK
  <1>2. TypeOK'
    BY <1>1 DEF TypeOK
  <1>3. StdoutInv' /\ PrintsInv'
    BY DEF StdoutInv, PrintsInv, TypeOK
  <1>4. LogFileInv'
    BY DEF LogFileInv, TypeOK
  <1>5. StartInv'
    BY DEF StartInv, TypeOK
  <1>6. AfterPerrorInv'
    BY DEF AfterPerrorInv, LogFileInv, StdoutInv, TypeOK
  <1> QED
    BY <1>2, <1>3, <1>4, <1>5, <1>6

LEMMA StutterInv ==
    ASSUME Inv, UNCHANGED vars
    PROVE  Inv'
  BY DEF Inv, vars, TypeOK, StdoutInv, LogFileInv, StartInv, AfterPerrorInv, PrintsInv

-----------------------------------------------------------------------------
(* The theorems.                                                            *)

\* Inv is an inductive invariant of the logger and its callers.
THEOREM Invariant == Spec => []Inv
  <1>1. Init => Inv
    BY InitInv
  <1>2. Inv /\ [Next]_vars => Inv'
    <2> SUFFICES ASSUME Inv, [Next]_vars PROVE Inv'
      OBVIOUS
    <2>1. CASE LogInit
      BY <2>1, LogInitInv
    <2>2. CASE \E t \in Threads : Step(t)
      BY <2>2, LogMessageInv, LogPerrorInv, LogPrintfInv, ConnectionInv DEF Step, OwnStep
    <2>3. CASE UNCHANGED vars
      BY <2>3, StutterInv
    <2> QED
      BY <2>1, <2>2, <2>3 DEF Next
  <1> QED
    BY <1>1, <1>2, PTL DEF Spec

\* The state of the logger keeps its type.
THEOREM TypeCorrect == Spec => []TypeOK
  <1>1. Inv => TypeOK
    BY DEF Inv
  <1> QED
    BY <1>1, Invariant, PTL

(***************************************************************************)
(* log_perror unlocks the wrong mutex, but stdout_mutex still keeps any    *)
(* two threads from printing at once: it is the liveness that is lost.     *)
(***************************************************************************)
THEOREM PrintsAreSerialised == Spec => []StdoutSerialised
  <1>1. Inv => StdoutSerialised
    BY DEF Inv, StdoutInv, StdoutSerialised, Printing
  <1> QED
    BY <1>1, Invariant, PTL

(***************************************************************************)
(* Until the first log_perror returns, server_mutex protects the log file; *)
(* its unlock of the wrong mutex lets one more thread in, and never a      *)
(* third, for any number of threads.                                       *)
(***************************************************************************)
THEOREM LogFileIsSerialised == Spec => []LogFileSerialised
  <1>1. Inv => LogFileSerialised
    BY DEF Inv, LogFileInv, AfterPerrorInv, LogFileSerialised, InLogMessage, Printing
  <1> QED
    BY <1>1, Invariant, PTL

(***************************************************************************)
(* A failed fopen ends the answering of requests, with any number of       *)
(* connections, until a log_perror returns.                                *)
(***************************************************************************)
THEOREM LeakIsFinal == Spec => NobodyIsServedAgain
  <1> DEFINE Blocked == (fopen_failed /\ ~perror_called) =>
                            \A t \in Threads : pc'[t] = "serve" => pc[t] = "serve"
  <1>1. ASSUME Inv, [Next]_vars PROVE [Blocked]_vars
    <2> SUFFICES ASSUME fopen_failed, ~perror_called, NEW t \in Threads,
                        pc'[t] = "serve", pc[t] # "serve"
                 PROVE  FALSE
      BY DEF Blocked
    <2>1. pc[t] # "logging" /\ TypeOK
      BY <1>1 DEF Inv, LogFileInv
    <2>2. CASE LogInit
      BY <2>2 DEF LogInit
    <2>3. ASSUME NEW u \in Threads, Step(u) PROVE FALSE
      BY <2>1, <2>3
      DEF Step, OwnStep, SessionInit, Receive, Serve, FreeThreadData, LogMessageLock,
          LogMessageReturn,
          log_perror_lock, log_perror_return, log_printf_lock, log_printf_return, Goto, TypeOK
    <2>4. CASE UNCHANGED vars
      BY <2>4 DEF vars
    <2> QED
      BY <1>1, <2>2, <2>3, <2>4 DEF Next
  <1> QED
    BY <1>1, Invariant, PTL DEF Spec, NobodyIsServedAgain

=============================================================================
