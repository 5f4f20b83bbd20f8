-------------------------- MODULE ServerLoggerProofs --------------------------
(***************************************************************************)
(* The composition of the accept loop and the logger implements each of    *)
(* them, so that what is proved of either holds of the whole, for any      *)
(* number of clients and descriptors.                                      *)
(***************************************************************************)
EXTENDS ServerLogger, ServerProofs

LP == INSTANCE LoggerProofs WITH Threads <- Clients, FopenMayFail <- TRUE, main_pc <- log_init

\* Whatever the threads log and whatever locks they wait for, the accept loop
\* behaves as Server says.
THEOREM AcceptLoopIsImplemented == ServerSpec => Spec
  <1>1. ServerInit => Init
    BY DEF ServerInit
  <1>2. ASSUME [ServerNext]_serverVars PROVE [Next]_vars
    <2>1. CASE LogInit
      BY <2>1 DEF LogInit
    <2>2. CASE MainStep
      <3>1. Pool \in SUBSET FreeFDs
        BY DEF Pool
      <3> QED
        BY <2>2, <3>1 DEF MainStep, Next
    <2>3. CASE OutsideStep
      BY <2>3 DEF OutsideStep, Next
    <2>4. ASSUME NEW c \in Clients, Handle(c) \/ Release(c) PROVE [Next]_vars
      BY <2>4 DEF Handle, Release, Next
    <2>5. CASE UNCHANGED serverVars
      BY <2>5 DEF serverVars
    <2> QED
      BY <1>2, <2>1, <2>2, <2>3, <2>4, <2>5 DEF ServerNext
  <1> QED
    BY <1>1, <1>2, PTL DEF ServerSpec, Spec

\* The threads of the accept loop use the logger as Logger says, with fopen
\* failing when accept has taken every descriptor.
THEOREM LoggerIsImplemented == ServerSpec => L!Spec
  <1>1. ServerInit => L!Init
    BY DEF ServerInit
  <1>2. ASSUME [ServerNext]_serverVars PROVE [L!Next]_L!vars
    <2>1. CASE LogInit
      BY <2>1 DEF LogInit, L!Next
    <2>2. CASE MainStep
      BY <2>2 DEF MainStep, logVars, L!vars
    <2>3. CASE OutsideStep
      BY <2>3 DEF OutsideStep, logVars, L!vars
    <2>4. ASSUME NEW c \in Clients, Handle(c) PROVE [L!Next]_L!vars
      <3>1. LogMessageReturn(c) => L!LogMessageReturn(c)
        BY DEF LogMessageReturn, L!LogMessageReturn
      <3>2. LogFileOpened(c) => UNCHANGED L!vars
        BY DEF LogFileOpened, logVars, L!vars
      <3> QED
        BY <2>4, <3>1, <3>2 DEF Handle, L!Step, L!OwnStep, L!Next
    <2>5. ASSUME NEW c \in Clients, Release(c) PROVE L!Next
      BY <2>5 DEF Release, L!Step, L!OwnStep, L!Next
    <2>6. CASE UNCHANGED serverVars
      BY <2>6 DEF serverVars, logVars, L!vars
    <2> QED
      BY <1>2, <2>1, <2>2, <2>3, <2>4, <2>5, <2>6 DEF ServerNext
  <1> QED
    BY <1>1, <1>2, PTL DEF ServerSpec, L!Spec

\* In the whole server no thread works on the socket of another client, and
\* only a failed pthread_create loses a descriptor.
THEOREM ServerKeepsDescriptors == ServerSpec => [](SocketIsOwnClients /\ DescriptorsAccountedFor)
  BY AcceptLoopIsImplemented, NoForeignSocket, NoDescriptorLost, PTL

\* LP!Spec is the specification the theorems of LoggerProofs speak of; it is
\* that of Logger, instantiated once more.
LEMMA SameLogger == L!Spec => LP!Spec
  <1>1. L!Init => LP!Init
    BY DEF L!Init, LP!Init
  <1>2. L!vars = LP!vars
    BY DEF L!vars, LP!vars
  <1>3. L!Next => LP!Next
    <2>1. L!LogInit => LP!LogInit
      BY DEF L!LogInit, L!Lock, L!LogMessageWrites, L!LogMessageCannotOpen,
             LP!LogInit, LP!Lock, LP!LogMessageWrites, LP!LogMessageCannotOpen
    <2>2. ASSUME NEW t \in Clients, L!Step(t) PROVE LP!Step(t)
      <3>1. L!SessionInit(t) => LP!SessionInit(t)
        BY DEF L!SessionInit, L!Goto, LP!SessionInit, LP!Goto
      <3>2. L!Receive(t) => LP!Receive(t)
        BY DEF L!Receive, L!Goto, LP!Receive, LP!Goto
      <3>3. L!Serve(t) => LP!Serve(t)
        BY DEF L!Serve, L!Goto, LP!Serve, LP!Goto
      <3>4. L!FreeThreadData(t) => LP!FreeThreadData(t)
        BY DEF L!FreeThreadData, L!Goto, LP!FreeThreadData, LP!Goto
      <3>5. L!LogMessageLock(t) => LP!LogMessageLock(t)
        BY DEF L!LogMessageLock, L!Goto, L!Lock, LP!LogMessageLock, LP!Goto, LP!Lock
      <3>6. L!LogMessageReturn(t) => LP!LogMessageReturn(t)
        BY DEF L!LogMessageReturn, L!Goto, L!LogMessageWrites, L!LogMessageCannotOpen,
               LP!LogMessageReturn, LP!Goto, LP!LogMessageWrites, LP!LogMessageCannotOpen
      <3>7. L!log_perror_lock(t) => LP!log_perror_lock(t)
        BY DEF L!log_perror_lock, L!Goto, L!Lock, LP!log_perror_lock, LP!Goto, LP!Lock
      <3>8. L!log_perror_return(t) => LP!log_perror_return(t)
        BY DEF L!log_perror_return, L!Goto, LP!log_perror_return, LP!Goto
      <3>9. L!log_printf_lock(t) => LP!log_printf_lock(t)
        BY DEF L!log_printf_lock, L!Goto, L!Lock, LP!log_printf_lock, LP!Goto, LP!Lock
      <3>10. L!log_printf_return(t) => LP!log_printf_return(t)
        BY DEF L!log_printf_return, L!Goto, LP!log_printf_return, LP!Goto
      <3> QED
        BY <2>2, <3>1, <3>2, <3>3, <3>4, <3>5, <3>6, <3>7, <3>8, <3>9, <3>10
        DEF L!Step, L!OwnStep, LP!Step, LP!OwnStep
    <2> QED
      BY <2>1, <2>2 DEF L!Next, LP!Next
  <1>4. [L!Next]_L!vars => [LP!Next]_LP!vars
    BY <1>2, <1>3 DEF L!vars, LP!vars
  <1> QED
    BY <1>1, <1>4, PTL DEF L!Spec, LP!Spec

(***************************************************************************)
(* In the whole server prints are serialised; the log file is used by one  *)
(* thread at a time until a log_perror returns, and never by three; and    *)
(* once fopen has failed for want of a descriptor no thread gets past      *)
(* LogMessage before a log_perror returns.                                 *)
(***************************************************************************)
THEOREM ServerLogsInTurn ==
    ServerSpec => /\ []LP!StdoutSerialised
                  /\ []LP!LogFileSerialised
                  /\ LP!NobodyIsServedAgain
  <1>1. LP!LoggerAssumption
    BY ServerLoggerAssumption DEF LP!LoggerAssumption
  <1>2. LP!Spec => []LP!StdoutSerialised
    BY <1>1, LP!PrintsAreSerialised
  <1>3. LP!Spec => []LP!LogFileSerialised
    BY <1>1, LP!LogFileIsSerialised
  <1>4. LP!Spec => LP!NobodyIsServedAgain
    BY <1>1, LP!LeakIsFinal
  <1> QED
    BY <1>2, <1>3, <1>4, LoggerIsImplemented, SameLogger, PTL

=============================================================================
