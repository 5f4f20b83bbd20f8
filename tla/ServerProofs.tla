----------------------------- MODULE ServerProofs -----------------------------
(***************************************************************************)
(* What Server promises for any number of clients and descriptors.         *)
(***************************************************************************)
EXTENDS Server, TLAPS

-----------------------------------------------------------------------------
(* The invariant.                                                           *)

\* The descriptor main is about to hand over has a client without a thread.
SpawnInv ==
    main_pc = "spawn" =>
        /\ client_fd \in FDs
        /\ socket[client_fd] \in Clients
        /\ thread[socket[client_fd]] = "none"

\* A client in the queue has no thread and no descriptor.
QueueInv ==
    \A c \in queue : /\ thread[c] = "none"
                     /\ \A fd \in FDs : socket[fd] # c
                     /\ c \in connected

\* A thread has a descriptor until it frees it.
ThreadInv ==
    \A c \in Clients :
        /\ thread[c] = "running" => thread_fd[c] \in FDs
        /\ thread[c] \in {"none", "closed", "gone"} => thread_fd[c] = NoFd

\* Who has not connected has no thread and no descriptor.
ConnectedInv ==
    \A c \in Clients : c \notin connected => /\ thread[c] = "none"
                                             /\ \A fd \in FDs : socket[fd] # c

\* A late accept was the last one.
LateInv ==
    /\ late_accepts \in {0, 1}
    /\ late_accepts = 1 => ~server_should_run /\ main_pc # "accept"

Inv ==
    /\ TypeOK
    /\ SocketIsOwnClients
    /\ DescriptorsAccountedFor
    /\ SpawnInv
    /\ QueueInv
    /\ ThreadInv
    /\ ConnectedInv
    /\ LateInv

LEMMA InitInv == Init => Inv
  <1> SUFFICES ASSUME Init PROVE Inv
    OBVIOUS
  <1> USE ServerAssumption DEF Init
  <1>1. server_should_run \in BOOLEAN
    OBVIOUS
  <1>2. TypeOK
    BY <1>1 DEF TypeOK
  <1>3. SocketIsOwnClients /\ DescriptorsAccountedFor
    BY DEF SocketIsOwnClients, DescriptorsAccountedFor, FreeFDs
  <1>4. SpawnInv /\ QueueInv /\ ThreadInv /\ ConnectedInv /\ LateInv
    BY DEF SpawnInv, QueueInv, ThreadInv, ConnectedInv, LateInv
  <1> QED
    BY <1>2, <1>3, <1>4 DEF Inv

-----------------------------------------------------------------------------
(* One lemma for each step.                                                 *)

LEMMA ConnectInv ==
    ASSUME Inv, NEW c \in Clients, Connect(c)
    PROVE  Inv'
  <1> USE DEF Inv, Connect, kernel, threads
  <1>1. TypeOK'
    BY DEF TypeOK
  <1>2. SocketIsOwnClients' /\ DescriptorsAccountedFor'
    BY DEF SocketIsOwnClients, DescriptorsAccountedFor, FreeFDs
  <1>3. SpawnInv' /\ ThreadInv' /\ LateInv'
    BY DEF SpawnInv, ThreadInv, LateInv
  <1>4. QueueInv' /\ ConnectedInv'
    BY DEF QueueInv, ConnectedInv, TypeOK
  <1> QED
    BY <1>1, <1>2, <1>3, <1>4

LEMMA TerminateHandlerInv ==
    ASSUME Inv, TerminateHandler
    PROVE  Inv'
  <1> USE DEF Inv, TerminateHandler, kernel, threads
  <1>1. server_should_run' \in BOOLEAN
    OBVIOUS
  <1>2. TypeOK'
    BY <1>1 DEF TypeOK
  <1>3. SocketIsOwnClients' /\ DescriptorsAccountedFor'
    BY DEF SocketIsOwnClients, DescriptorsAccountedFor, FreeFDs
  <1>4. SpawnInv' /\ QueueInv' /\ ThreadInv' /\ ConnectedInv' /\ LateInv'
    BY DEF SpawnInv, QueueInv, ThreadInv, ConnectedInv, LateInv
  <1> QED
    BY <1>2, <1>3, <1>4

LEMMA AcceptInv ==
    ASSUME Inv, NEW pool \in SUBSET FreeFDs, Accept(pool)
    PROVE  Inv'
  <1> USE DEF Inv
  <1>1. PICK c \in queue, fd \in pool :
            /\ queue' = queue \ {c}
            /\ socket' = [socket EXCEPT ![fd] = c]
            /\ client_fd' = fd
    BY DEF Accept
  <1>2. /\ main_pc = "accept" /\ main_pc' = "spawn"
        /\ late_accepts' = IF server_should_run THEN late_accepts ELSE late_accepts + 1
        /\ UNCHANGED <<server_should_run, connected, thread, thread_fd>>
    BY DEF Accept, threads
  <1>3. /\ c \in Clients /\ fd \in FDs /\ socket[fd] = NoClient
        /\ thread[c] = "none" /\ c \in connected
    BY DEF FreeFDs, TypeOK, QueueInv
  <1>4. LateInv'
    BY <1>2 DEF LateInv
  <1>5. TypeOK'
    BY <1>1, <1>2, <1>3, <1>4 DEF TypeOK, LateInv
  <1>6. SocketIsOwnClients'
    BY <1>1, <1>2, <1>3, ServerAssumption DEF SocketIsOwnClients, TypeOK
  <1>7. DescriptorsAccountedFor'
    BY <1>1, <1>2, <1>3 DEF DescriptorsAccountedFor, FreeFDs, TypeOK
  <1>8. SpawnInv' /\ ThreadInv'
    BY <1>1, <1>2, <1>3 DEF SpawnInv, ThreadInv, TypeOK
  <1>9. QueueInv' /\ ConnectedInv'
    BY <1>1, <1>2, <1>3 DEF QueueInv, ConnectedInv, TypeOK
  <1> QED
    BY <1>4, <1>5, <1>6, <1>7, <1>8, <1>9

LEMMA PthreadCreateInv ==
    ASSUME Inv, PthreadCreate
    PROVE  Inv'
  <1> DEFINE c == socket[client_fd]
  <1> USE DEF Inv
  <1>1. PICK state \in {"running", "not_created"} :
            /\ thread' = [thread EXCEPT ![c] = state]
            /\ main_pc' \in {"check", "detach"}
    BY DEF PthreadCreate
  <1>2. /\ main_pc = "spawn"
        /\ thread_fd' = [thread_fd EXCEPT ![c] = client_fd]
        /\ UNCHANGED <<server_should_run, queue, connected, socket, client_fd, late_accepts>>
    BY DEF PthreadCreate, kernel
  <1>3. c \in Clients /\ client_fd \in FDs /\ thread[c] = "none" /\ c \in connected
    BY <1>2 DEF SpawnInv, ConnectedInv
  <1>4. TypeOK'
    BY <1>1, <1>2, <1>3 DEF TypeOK
  <1>5. SocketIsOwnClients'
    BY <1>2, <1>3 DEF SocketIsOwnClients, TypeOK
  <1>6. DescriptorsAccountedFor'
    BY <1>1, <1>2, <1>3, ServerAssumption DEF DescriptorsAccountedFor, FreeFDs, TypeOK
  <1>7. SpawnInv' /\ LateInv'
    BY <1>1, <1>2 DEF SpawnInv, LateInv
  <1>8. ThreadInv'
    BY <1>1, <1>2, <1>3 DEF ThreadInv, TypeOK
  <1>9. QueueInv' /\ ConnectedInv'
    BY <1>1, <1>2, <1>3 DEF QueueInv, ConnectedInv, TypeOK
  <1> QED
    BY <1>4, <1>5, <1>6, <1>7, <1>8, <1>9

LEMMA NetFreeInv ==
    ASSUME Inv, NEW c \in Clients, NetFree(c)
    PROVE  Inv'
  <1> USE DEF Inv
  <1>1. /\ thread[c] = "running" /\ thread_fd[c] \in FDs /\ socket[thread_fd[c]] = c
        /\ c \in connected
    BY ServerAssumption DEF NetFree, ThreadInv, SocketIsOwnClients, ConnectedInv
  <1>2. /\ thread' = [thread EXCEPT ![c] = "closed"]
        /\ socket' = [socket EXCEPT ![thread_fd[c]] = NoClient]
        /\ thread_fd' = [thread_fd EXCEPT ![c] = NoFd]
        /\ UNCHANGED <<main_pc, server_should_run, queue, connected, client_fd, late_accepts>>
    BY DEF NetFree, kernel
  <1>3. TypeOK'
    BY <1>1, <1>2 DEF TypeOK
  <1>4. SocketIsOwnClients'
    BY <1>1, <1>2, ServerAssumption DEF SocketIsOwnClients, TypeOK
  <1>5. DescriptorsAccountedFor'
    BY <1>1, <1>2, ServerAssumption DEF DescriptorsAccountedFor, FreeFDs, TypeOK
  <1>6. SpawnInv' /\ LateInv'
    BY <1>1, <1>2 DEF SpawnInv, LateInv, TypeOK
  <1>7. ThreadInv'
    BY <1>1, <1>2 DEF ThreadInv, TypeOK
  <1>8. QueueInv' /\ ConnectedInv'
    BY <1>1, <1>2, ServerAssumption DEF QueueInv, ConnectedInv, TypeOK
  <1> QED
    BY <1>3, <1>4, <1>5, <1>6, <1>7, <1>8

LEMMA ThreadEndsInv ==
    ASSUME Inv, NEW c \in Clients, ThreadEnds(c)
    PROVE  Inv'
  <1> USE DEF Inv
  <1>1. /\ thread[c] = "closed"
        /\ thread' = [thread EXCEPT ![c] = "gone"]
        /\ UNCHANGED <<main_pc, server_should_run, queue, connected, socket, client_fd, thread_fd,
                       late_accepts>>
    BY DEF ThreadEnds, kernel
  <1>2. TypeOK'
    BY <1>1 DEF TypeOK
  <1>3. SocketIsOwnClients' /\ DescriptorsAccountedFor'
    BY <1>1 DEF SocketIsOwnClients, DescriptorsAccountedFor, FreeFDs, TypeOK
  <1>4. SpawnInv' /\ LateInv' /\ ThreadInv'
    BY <1>1 DEF SpawnInv, LateInv, ThreadInv, TypeOK
  <1>5. QueueInv' /\ ConnectedInv'
    BY <1>1 DEF QueueInv, ConnectedInv, TypeOK
  <1> QED
    BY <1>2, <1>3, <1>4, <1>5

LEMMA ReturnInv ==
    ASSUME Inv, Return
    PROVE  Inv'
  <1> USE DEF Inv
  <1>1. /\ main_pc' = "exited"
        /\ socket' = [fd \in FDs |-> NoClient]
        /\ thread' = [c \in Clients |-> IF thread[c] \in {"running", "closed"}
                                        THEN "gone" ELSE thread[c]]
        /\ thread_fd' = [c \in Clients |-> NoFd]
        /\ UNCHANGED <<server_should_run, queue, connected, client_fd, late_accepts>>
    BY DEF Return, kernel
  <1>2. TypeOK'
    BY <1>1 DEF TypeOK
  <1>3. SocketIsOwnClients' /\ DescriptorsAccountedFor'
    BY <1>1 DEF SocketIsOwnClients, DescriptorsAccountedFor, FreeFDs
  <1>4. SpawnInv' /\ LateInv' /\ ThreadInv'
    BY <1>1 DEF SpawnInv, LateInv, ThreadInv, TypeOK
  <1>5. QueueInv' /\ ConnectedInv'
    BY <1>1, ServerAssumption DEF QueueInv, ConnectedInv, TypeOK
  <1> QED
    BY <1>2, <1>3, <1>4, <1>5

\* The steps that move nothing between clients, descriptors and threads.
LEMMA OtherMainInv ==
    ASSUME Inv,
           \/ LoopTest \/ (\E pool \in SUBSET FreeFDs : AcceptFails(pool))
           \/ PthreadDetachStale \/ FreeServerParams \/ ThreadUsesFreedConf
    PROVE  Inv'
  <1> USE DEF Inv
  <1>1. /\ main_pc' \in {"accept", "free", "check", "crashed", "return"}
        /\ main_pc' = "accept" => main_pc = "check" /\ server_should_run
        /\ queue' \subseteq queue
        /\ client_fd' \in {client_fd, NoFd}
        /\ main_pc # "spawn"
        /\ UNCHANGED <<server_should_run, connected, socket, thread, thread_fd, late_accepts>>
    BY DEF LoopTest, AcceptFails, PthreadDetachStale, FreeServerParams, ThreadUsesFreedConf,
           kernel, threads
  <1>2. TypeOK'
    BY <1>1 DEF TypeOK
  <1>3. SocketIsOwnClients' /\ DescriptorsAccountedFor'
    BY <1>1 DEF SocketIsOwnClients, DescriptorsAccountedFor, FreeFDs
  <1>4. SpawnInv' /\ ThreadInv' /\ LateInv'
    BY <1>1 DEF SpawnInv, ThreadInv, LateInv
  <1>5. QueueInv' /\ ConnectedInv'
    BY <1>1 DEF QueueInv, ConnectedInv
  <1> QED
    BY <1>2, <1>3, <1>4, <1>5

LEMMA StutterInv ==
    ASSUME Inv, UNCHANGED vars
    PROVE  Inv'
  BY DEF Inv, vars, kernel, threads, TypeOK, SocketIsOwnClients, DescriptorsAccountedFor, FreeFDs,
         SpawnInv, QueueInv, ThreadInv, ConnectedInv, LateInv

-----------------------------------------------------------------------------
(* The theorems.                                                            *)

\* Inv is an inductive invariant of the server.
THEOREM Invariant == Spec => []Inv
  <1>1. Init => Inv
    BY InitInv
  <1>2. Inv /\ [Next]_vars => Inv'
    <2> SUFFICES ASSUME Inv, [Next]_vars PROVE Inv'
      OBVIOUS
    <2>1. CASE \E pool \in SUBSET FreeFDs : Main(pool)
      BY <2>1, OtherMainInv, AcceptInv, PthreadCreateInv, ReturnInv DEF Main
    <2>2. CASE TerminateHandler
      BY <2>2, TerminateHandlerInv
    <2>3. CASE \E c \in Clients : Connect(c) \/ NetFree(c) \/ ThreadEnds(c)
      BY <2>3, ConnectInv, NetFreeInv, ThreadEndsInv
    <2>4. CASE ThreadUsesFreedConf
      BY <2>4, OtherMainInv
    <2>5. CASE UNCHANGED vars
      BY <2>5, StutterInv
    <2> QED
      BY <2>1, <2>2, <2>3, <2>4, <2>5 DEF Next
  <1> QED
    BY <1>1, <1>2, PTL DEF Spec

\* The variables of the accept loop keep their types.
THEOREM TypeCorrect == Spec => []TypeOK
  <1>1. Inv => TypeOK
    BY DEF Inv
  <1> QED
    BY <1>1, Invariant, PTL

(***************************************************************************)
(* However often descriptors are closed and given out again, no thread is  *)
(* left with the number of another client's socket.                        *)
(***************************************************************************)
THEOREM NoForeignSocket == Spec => []SocketIsOwnClients
  <1>1. Inv => SocketIsOwnClients
    BY DEF Inv
  <1> QED
    BY <1>1, Invariant, PTL

\* Only a pthread_create that failed leaves a descriptor nobody will close.
THEOREM NoDescriptorLost == Spec => []DescriptorsAccountedFor
  <1>1. Inv => DescriptorsAccountedFor
    BY DEF Inv
  <1> QED
    BY <1>1, Invariant, PTL

\* After SIGINT the accept loop takes at most one more connection.
THEOREM LateAcceptsBounded == Spec => []AtMostOneLateAccept
  <1>1. Inv => AtMostOneLateAccept
    BY DEF Inv, LateInv, AtMostOneLateAccept
  <1> QED
    BY <1>1, Invariant, PTL

=============================================================================
