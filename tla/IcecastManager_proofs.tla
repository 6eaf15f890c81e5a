----------------------- MODULE IcecastManager_proofs -----------------------
(***************************************************************************)
(* For every set of mounts, servers, handles and requests, every subset of *)
(* the operations and every failure: the registry of the Icecast manager   *)
(* is exact, a mount never has two goroutines, the manager implements      *)
(* ExclusiveStreams, and the status column is true of every mount but      *)
(* those a crash or a lost write left behind.                              *)
(***************************************************************************)
EXTENDS IcecastManager, TLAPS

USE NoneAssumption, ServerOfAssumption

\* The initial state satisfies the inductive invariant.
LEMMA InitInv == Init => IInv
BY DEF Init, IInv, TypeOK, RegistryExact, RefsBound, ShutdownOrder, RowStates, Statuses,
       Live, PCs, OnAir

\* Every action writes values of the right sort.
LEMMA TypeOKStep == IInv /\ [Next]_vars => TypeOK'
<1> SUFFICES ASSUME IInv, [Next]_vars PROVE TypeOK'
  OBVIOUS
<1> USE DEF IInv
<1>1. ASSUME NEW m \in Mounts, NEW e \in BOOLEAN, CreateIcecastMount(m, e)
      PROVE  TypeOK'
  BY <1>1 DEF CreateIcecastMount, EnabledRow, TypeOK, RefsBound, Exists, RowStates,
         Statuses, Live, PCs, rows, handles, requests, process
<1>2. ASSUME NEW m \in Mounts, DeleteIcecastMount(m)
      PROVE  TypeOK'
  BY <1>2 DEF DeleteIcecastMount, DeleteRows, TypeOK, RefsBound, Exists, RowStates,
         Statuses, Live, PCs, rows, handles, requests, process
<1>3. ASSUME NEW s \in Servers, DeleteIcecastServer(s)
      PROVE  TypeOK'
  BY <1>3 DEF DeleteIcecastServer, DeleteRows, TypeOK, RefsBound, Exists,
         RowStates, Statuses, Live, PCs, rows, handles, requests, process
<1>4. ASSUME NEW r \in Requests, NEW m \in Mounts, StartRead(r, m)
      PROVE  TypeOK'
  BY <1>4 DEF StartRead, Read, TypeOK, RefsBound, Exists, RowStates, Statuses,
         Live, PCs, rows, handles, requests, process
<1>5. ASSUME NEW r \in Requests, NEW m \in Mounts, StopRead(r, m)
      PROVE  TypeOK'
  BY <1>5 DEF StopRead, Read, TypeOK, RefsBound, Exists, RowStates, Statuses, Live,
         PCs, rows, handles, requests, process
<1>6. ASSUME NEW r \in Requests, NEW m \in Mounts, NEW e \in BOOLEAN, UpdateRead(r, m, e)
      PROVE  TypeOK'
  BY <1>6 DEF UpdateRead, Read, TypeOK, RefsBound, Exists, RowStates, Statuses,
         Live, PCs, rows, handles, requests, process
<1>7. ASSUME NEW r \in Requests, UpdateWrite(r)
      PROVE  TypeOK'
  BY <1>7 DEF UpdateWrite, WriteRow, EnabledRow, Reply, TypeOK, RefsBound, Exists,
         RowStates, Statuses, Live, PCs, rows, handles, requests, process
<1>8. ASSUME NEW r \in Requests, StartWrite(r)
      PROVE  TypeOK'
  BY <1>8 DEF StartWrite, WriteRow, EnabledRow, GoTo, TypeOK, RefsBound, Exists,
         RowStates, Statuses, Live, PCs, rows, handles, requests, process
<1>9. ASSUME NEW r \in Requests, StartCall(r)
      PROVE  TypeOK'
  BY <1>9 DEF StartCall, Launch, Fresh, Reply, TypeOK, RefsBound, Exists,
         RowStates, Statuses, Live, PCs, rows, handles, requests, process
<1>10. ASSUME NEW r \in Requests, StopWrite(r)
      PROVE  TypeOK'
  BY <1>10 DEF StopWrite, WriteRow, EnabledRow, GoTo, TypeOK, RefsBound, Exists,
         RowStates, Statuses, Live, PCs, rows, handles, requests, process
<1>11. ASSUME NEW r \in Requests, StopLookup(r)
      PROVE  TypeOK'
  <2>1. target[r] \in Mounts /\ mounts[target[r]] \in Handles \cup {None}
    BY <1>11 DEF StopLookup, TypeOK, RefsBound
  <2>2. pc' \in [Requests -> PCs] /\ waiting' \in [Requests -> Handles \cup {None}]
    BY <1>11, <2>1 DEF StopLookup, Reply, TypeOK, PCs
  <2>3. target' \in [Requests -> Mounts \cup {None}] /\ flag' \in [Requests -> BOOLEAN]
    BY <1>11 DEF StopLookup, Reply, TypeOK
  <2>4. QED
    BY <1>11, <2>2, <2>3 DEF StopLookup, TypeOK, rows, handles, process
<1>12. ASSUME NEW r \in Requests, StopCancel(r)
      PROVE  TypeOK'
  BY <1>12 DEF StopCancel, Cancel, GoTo, TypeOK, RefsBound, Exists, RowStates,
         Statuses, Live, PCs, rows, handles, requests, process
<1>13. ASSUME NEW r \in Requests, StopWait(r)
      PROVE  TypeOK'
  BY <1>13 DEF StopWait, Reply, TypeOK, RefsBound, Exists, RowStates, Statuses,
         Live, PCs, rows, handles, requests, process
<1>14. ASSUME NEW r \in Requests, StoreError(r)
      PROVE  TypeOK'
  BY <1>14 DEF StoreError, Reply, TypeOK, RefsBound, Exists, RowStates, Statuses,
         Live, PCs, rows, handles, requests, process
<1>15. ASSUME NEW h \in Handles, NEW s \in Statuses, Report(h, s)
      PROVE  TypeOK'
  BY <1>15 DEF Report, WriteStatus, TypeOK, RefsBound, Exists, RowStates, Statuses,
         Live, PCs, rows, handles, requests, process
<1>16. ASSUME NEW h \in Handles, Block(h)
      PROVE  TypeOK'
  BY <1>16 DEF Block, TypeOK, RefsBound, Exists, RowStates, Statuses, Live, PCs,
         rows, handles, requests, process
<1>17. ASSUME NEW h \in Handles, PeerAnswers(h)
      PROVE  TypeOK'
  BY <1>17 DEF PeerAnswers, TypeOK, RefsBound, Exists, RowStates, Statuses, Live,
         PCs, rows, handles, requests, process
<1>18. ASSUME NEW h \in Handles, Return(h)
      PROVE  TypeOK'
  BY <1>18 DEF Return, WriteStatus, TypeOK, RefsBound, Exists, RowStates, Statuses,
         Live, PCs, rows, handles, requests, process
<1>19. ASSUME NEW h \in Handles, Unregister(h)
      PROVE  TypeOK'
  BY <1>19 DEF Unregister, TypeOK, RefsBound, Exists, RowStates, Statuses, Live,
         PCs, rows, handles, requests, process
<1>20. ASSUME NEW h \in Handles, CloseDone(h)
      PROVE  TypeOK'
  BY <1>20 DEF CloseDone, TypeOK, RefsBound, Exists, RowStates, Statuses, Live,
         PCs, rows, handles, requests, process
<1>21. CASE Boot
  BY <1>21 DEF Boot, TypeOK, RefsBound, Exists, RowStates, Statuses, Live, PCs,
         rows, handles, requests, process
<1>22. CASE Crash
  BY <1>22 DEF Crash, Vanish, TypeOK, RefsBound, Exists, RowStates, Statuses, Live,
         PCs, rows, handles, requests, process
<1>23. CASE Sigterm
  BY <1>23 DEF Sigterm, TypeOK, RefsBound, Exists, RowStates, Statuses, Live, PCs,
         rows, handles, requests, process
<1>24. CASE Drained
  BY <1>24 DEF Drained, Cancel, TypeOK, RefsBound, Exists, RowStates, Statuses,
         Live, PCs, rows, handles, requests, process
<1>25. CASE DrainTimeout
  BY <1>25 DEF DrainTimeout, Vanish, TypeOK, RefsBound, Exists, RowStates,
         Statuses, Live, PCs, rows, handles, requests, process
<1>26. CASE StopSnapshot
  BY <1>26 DEF StopSnapshot, TypeOK, RefsBound, Exists, RowStates, Statuses, Live,
         PCs, rows, handles, requests, process
<1>27. ASSUME NEW h \in Handles, StopNext(h)
      PROVE  TypeOK'
  BY <1>27 DEF StopNext, Cancel, TypeOK, RefsBound, Exists, RowStates, Statuses,
         Live, PCs, rows, handles, requests, process
<1>28. CASE StopJoin
  BY <1>28 DEF StopJoin, TypeOK, RefsBound, Exists, RowStates, Statuses, Live, PCs,
         rows, handles, requests, process
<1>29. CASE Exit
  BY <1>29 DEF Exit, TypeOK, RefsBound, Exists, RowStates, Statuses, Live, PCs,
         rows, handles, requests, process
<1>30. CASE UNCHANGED vars
  BY <1>30 DEF vars, TypeOK, RefsBound, Exists, RowStates, Statuses, Live, PCs,
         rows, handles, requests, process
<1>31. QED
  BY <1>1, <1>2, <1>3, <1>4, <1>5, <1>6, <1>7, <1>8, <1>9, <1>10, <1>11, <1>12,
     <1>13, <1>14, <1>15, <1>16, <1>17, <1>18, <1>19, <1>20, <1>21, <1>22, <1>23,
     <1>24, <1>25, <1>26, <1>27, <1>28, <1>29, <1>30
  DEF Next, Handler, Goroutine, Shutdown

\* Only a launch, a boot, an exit of a goroutine and the death of the process
\* touch the registry or the life of a handle.
LEMMA RegistryExactStep == IInv /\ [Next]_vars => RegistryExact'
<1> SUFFICES ASSUME IInv, [Next]_vars PROVE RegistryExact'
  OBVIOUS
<1> USE DEF IInv
<1>1. ASSUME NEW r \in Requests, StartCall(r)
      PROVE  RegistryExact'
  <2>1. CASE UNCHANGED <<mounts, handles>>
    BY <2>1 DEF RegistryExact, handles
  <2>2. ASSUME NEW h \in Handles, mounts[target[r]] = None, Launch(target[r], h)
        PROVE  RegistryExact'
    <3>1. target[r] \in Mounts
      BY <1>1 DEF StartCall, RefsBound
    <3>2. hstate[h] \notin Live
      BY <2>2 DEF Launch, Fresh, Live
    <3>3. \A g \in Handles : hstate[g] \in Live => hmount[g] # target[r]
      BY <2>2, <3>1 DEF RegistryExact
    <3>4. QED
      BY <2>2, <3>1, <3>2, <3>3 DEF Launch, TypeOK, RegistryExact, Live
  <2>3. QED
    BY <1>1, <2>1, <2>2 DEF StartCall
<1>2. ASSUME NEW h \in Handles, Block(h)
      PROVE  RegistryExact'
  BY <1>2 DEF Block, TypeOK, RegistryExact, RefsBound, Live
<1>3. ASSUME NEW h \in Handles, PeerAnswers(h)
      PROVE  RegistryExact'
  BY <1>3 DEF PeerAnswers, TypeOK, RegistryExact, RefsBound, Live
<1>4. ASSUME NEW h \in Handles, Return(h)
      PROVE  RegistryExact'
  BY <1>4 DEF Return, WriteStatus, TypeOK, RegistryExact, RefsBound, Live
<1>5. ASSUME NEW h \in Handles, Unregister(h)
      PROVE  RegistryExact'
  BY <1>5 DEF Unregister, TypeOK, RegistryExact, RefsBound, Live
<1>6. ASSUME NEW h \in Handles, CloseDone(h)
      PROVE  RegistryExact'
  BY <1>6 DEF CloseDone, TypeOK, RegistryExact, RefsBound, Live
<1>7. CASE Boot
  BY <1>7 DEF Boot, TypeOK, RegistryExact, RefsBound, Live
<1>8. CASE Crash
  BY <1>8 DEF Crash, Vanish, TypeOK, RegistryExact, RefsBound, Live
<1>9. CASE DrainTimeout
  BY <1>9 DEF DrainTimeout, Vanish, TypeOK, RegistryExact, RefsBound, Live
<1>10. CASE UNCHANGED <<mounts, hstate, hmount>>
  BY <1>10 DEF TypeOK, RegistryExact, RefsBound
<1>11. QED
  BY <1>1, <1>2, <1>3, <1>4, <1>5, <1>6, <1>7, <1>8, <1>9, <1>10
  DEF Next, Handler, Goroutine, Shutdown, vars, rows, handles, requests, process,
      Cancel, CreateIcecastMount, DeleteIcecastMount, DeleteIcecastServer,
      DeleteRows, Drained, EnabledRow, Exit, GoTo, Read, Reply, Report, Sigterm,
      StartRead, StartWrite, StopCancel, StopJoin, StopLookup, StopNext, StopRead,
      StopSnapshot, StopWait, StopWrite, StoreError, UpdateRead, UpdateWrite,
      WriteRow, WriteStatus

\* A request keeps its mount and its handle until it replies; a handle keeps its
\* mount until doneCh is closed.
LEMMA RefsBoundStep == IInv /\ [Next]_vars => RefsBound'
<1> SUFFICES ASSUME IInv, [Next]_vars PROVE RefsBound'
  OBVIOUS
<1> USE DEF IInv
<1>1. ASSUME NEW r \in Requests, NEW m \in Mounts, StartRead(r, m)
      PROVE  RefsBound'
  BY <1>1 DEF StartRead, Read, TypeOK, RegistryExact, RefsBound, Live, PCs,
         handles, requests, process
<1>2. ASSUME NEW r \in Requests, NEW m \in Mounts, StopRead(r, m)
      PROVE  RefsBound'
  BY <1>2 DEF StopRead, Read, TypeOK, RegistryExact, RefsBound, Live, PCs, handles,
         requests, process
<1>3. ASSUME NEW r \in Requests, NEW m \in Mounts, NEW e \in BOOLEAN, UpdateRead(r, m, e)
      PROVE  RefsBound'
  BY <1>3 DEF UpdateRead, Read, TypeOK, RegistryExact, RefsBound, Live, PCs,
         handles, requests, process
<1>4. ASSUME NEW r \in Requests, UpdateWrite(r)
      PROVE  RefsBound'
  BY <1>4 DEF UpdateWrite, WriteRow, EnabledRow, Reply, TypeOK, RegistryExact,
         RefsBound, Live, PCs, handles, requests, process
<1>5. ASSUME NEW r \in Requests, StartWrite(r)
      PROVE  RefsBound'
  BY <1>5 DEF StartWrite, WriteRow, EnabledRow, GoTo, TypeOK, RegistryExact,
         RefsBound, Live, PCs, handles, requests, process
<1>6. ASSUME NEW r \in Requests, StartCall(r)
      PROVE  RefsBound'
  BY <1>6 DEF StartCall, Launch, Fresh, Reply, TypeOK, RegistryExact, RefsBound,
         Live, PCs, handles, requests, process
<1>7. ASSUME NEW r \in Requests, StopWrite(r)
      PROVE  RefsBound'
  BY <1>7 DEF StopWrite, WriteRow, EnabledRow, GoTo, TypeOK, RegistryExact,
         RefsBound, Live, PCs, handles, requests, process
<1>8. ASSUME NEW r \in Requests, StopLookup(r)
      PROVE  RefsBound'
  BY <1>8 DEF StopLookup, Reply, TypeOK, RegistryExact, RefsBound, Live, PCs,
         handles, requests, process
<1>9. ASSUME NEW r \in Requests, StopCancel(r)
      PROVE  RefsBound'
  BY <1>9 DEF StopCancel, Cancel, GoTo, TypeOK, RegistryExact, RefsBound, Live,
         PCs, handles, requests, process
<1>10. ASSUME NEW r \in Requests, StopWait(r)
      PROVE  RefsBound'
  BY <1>10 DEF StopWait, Reply, TypeOK, RegistryExact, RefsBound, Live, PCs,
         handles, requests, process
<1>11. ASSUME NEW r \in Requests, StoreError(r)
      PROVE  RefsBound'
  BY <1>11 DEF StoreError, Reply, TypeOK, RegistryExact, RefsBound, Live, PCs,
         handles, requests, process
<1>12. ASSUME NEW h \in Handles, Block(h)
      PROVE  RefsBound'
  BY <1>12 DEF Block, TypeOK, RegistryExact, RefsBound, Live, PCs, handles,
         requests, process
<1>13. ASSUME NEW h \in Handles, PeerAnswers(h)
      PROVE  RefsBound'
  BY <1>13 DEF PeerAnswers, TypeOK, RegistryExact, RefsBound, Live, PCs, handles,
         requests, process
<1>14. ASSUME NEW h \in Handles, Return(h)
      PROVE  RefsBound'
  BY <1>14 DEF Return, WriteStatus, TypeOK, RegistryExact, RefsBound, Live, PCs,
         handles, requests, process
<1>15. ASSUME NEW h \in Handles, Unregister(h)
      PROVE  RefsBound'
  BY <1>15 DEF Unregister, TypeOK, RegistryExact, RefsBound, Live, PCs, handles,
         requests, process
<1>16. ASSUME NEW h \in Handles, CloseDone(h)
      PROVE  RefsBound'
  BY <1>16 DEF CloseDone, TypeOK, RegistryExact, RefsBound, Live, PCs, handles,
         requests, process
<1>17. CASE Boot
  BY <1>17 DEF Boot, TypeOK, RegistryExact, RefsBound, Live, PCs, handles,
         requests, process
<1>18. CASE Crash
  BY <1>18 DEF Crash, Vanish, TypeOK, RegistryExact, RefsBound, Live, PCs, handles,
         requests, process
<1>19. CASE DrainTimeout
  BY <1>19 DEF DrainTimeout, Vanish, TypeOK, RegistryExact, RefsBound, Live, PCs,
         handles, requests, process
<1>20. CASE UNCHANGED <<hstate, hmount, pc, target, waiting>>
  BY <1>20 DEF TypeOK, RegistryExact, RefsBound
<1>21. QED
  BY <1>1, <1>2, <1>3, <1>4, <1>5, <1>6, <1>7, <1>8, <1>9, <1>10, <1>11, <1>12,
     <1>13, <1>14, <1>15, <1>16, <1>17, <1>18, <1>19, <1>20
  DEF Next, Handler, Goroutine, Shutdown, vars, rows, handles, requests, process,
      Cancel, CreateIcecastMount, DeleteIcecastMount, DeleteIcecastServer,
      DeleteRows, Drained, EnabledRow, Exit, Report, Sigterm, StopJoin, StopNext,
      StopSnapshot, WriteStatus

\* Stop collects every live handle once no request can launch another.
LEMMA ShutdownOrderStep == IInv /\ [Next]_vars => ShutdownOrder'
<1> SUFFICES ASSUME IInv, [Next]_vars PROVE ShutdownOrder'
  OBVIOUS
<1> USE DEF IInv
<1>1. ASSUME NEW r \in Requests, NEW m \in Mounts, StartRead(r, m)
      PROVE  ShutdownOrder'
  BY <1>1 DEF StartRead, Read, TypeOK, RegistryExact, RefsBound, ShutdownOrder,
         Live, PCs, handles, requests, process
<1>2. ASSUME NEW r \in Requests, NEW m \in Mounts, StopRead(r, m)
      PROVE  ShutdownOrder'
  BY <1>2 DEF StopRead, Read, TypeOK, RegistryExact, RefsBound, ShutdownOrder,
         Live, PCs, handles, requests, process
<1>3. ASSUME NEW r \in Requests, NEW m \in Mounts, NEW e \in BOOLEAN, UpdateRead(r, m, e)
      PROVE  ShutdownOrder'
  BY <1>3 DEF UpdateRead, Read, TypeOK, RegistryExact, RefsBound, ShutdownOrder,
         Live, PCs, handles, requests, process
<1>4. ASSUME NEW r \in Requests, UpdateWrite(r)
      PROVE  ShutdownOrder'
  BY <1>4 DEF UpdateWrite, WriteRow, EnabledRow, Reply, TypeOK, RegistryExact,
         RefsBound, ShutdownOrder, Live, PCs, handles, requests, process
<1>5. ASSUME NEW r \in Requests, StartWrite(r)
      PROVE  ShutdownOrder'
  BY <1>5 DEF StartWrite, WriteRow, EnabledRow, GoTo, TypeOK, RegistryExact,
         RefsBound, ShutdownOrder, Live, PCs, handles, requests, process
<1>6. ASSUME NEW r \in Requests, StartCall(r)
      PROVE  ShutdownOrder'
  BY <1>6 DEF StartCall, Launch, Fresh, Reply, TypeOK, RegistryExact, RefsBound,
         ShutdownOrder, Live, PCs, handles, requests, process
<1>7. ASSUME NEW r \in Requests, StopWrite(r)
      PROVE  ShutdownOrder'
  BY <1>7 DEF StopWrite, WriteRow, EnabledRow, GoTo, TypeOK, RegistryExact,
         RefsBound, ShutdownOrder, Live, PCs, handles, requests, process
<1>8. ASSUME NEW r \in Requests, StopLookup(r)
      PROVE  ShutdownOrder'
  BY <1>8 DEF StopLookup, Reply, TypeOK, RegistryExact, RefsBound, ShutdownOrder,
         Live, PCs, handles, requests, process
<1>9. ASSUME NEW r \in Requests, StopCancel(r)
      PROVE  ShutdownOrder'
  BY <1>9 DEF StopCancel, Cancel, GoTo, TypeOK, RegistryExact, RefsBound,
         ShutdownOrder, Live, PCs, handles, requests, process
<1>10. ASSUME NEW r \in Requests, StopWait(r)
      PROVE  ShutdownOrder'
  BY <1>10 DEF StopWait, Reply, TypeOK, RegistryExact, RefsBound, ShutdownOrder,
         Live, PCs, handles, requests, process
<1>11. ASSUME NEW r \in Requests, StoreError(r)
      PROVE  ShutdownOrder'
  BY <1>11 DEF StoreError, Reply, TypeOK, RegistryExact, RefsBound, ShutdownOrder,
         Live, PCs, handles, requests, process
<1>12. ASSUME NEW h \in Handles, Block(h)
      PROVE  ShutdownOrder'
  BY <1>12 DEF Block, TypeOK, RegistryExact, RefsBound, ShutdownOrder, Live, PCs,
         handles, requests, process
<1>13. ASSUME NEW h \in Handles, PeerAnswers(h)
      PROVE  ShutdownOrder'
  BY <1>13 DEF PeerAnswers, TypeOK, RegistryExact, RefsBound, ShutdownOrder, Live,
         PCs, handles, requests, process
<1>14. ASSUME NEW h \in Handles, Return(h)
      PROVE  ShutdownOrder'
  BY <1>14 DEF Return, WriteStatus, TypeOK, RegistryExact, RefsBound,
         ShutdownOrder, Live, PCs, handles, requests, process
<1>15. ASSUME NEW h \in Handles, Unregister(h)
      PROVE  ShutdownOrder'
  BY <1>15 DEF Unregister, TypeOK, RegistryExact, RefsBound, ShutdownOrder, Live,
         PCs, handles, requests, process
<1>16. ASSUME NEW h \in Handles, CloseDone(h)
      PROVE  ShutdownOrder'
  BY <1>16 DEF CloseDone, TypeOK, RegistryExact, RefsBound, ShutdownOrder, Live,
         PCs, handles, requests, process
<1>17. CASE Boot
  BY <1>17 DEF Boot, TypeOK, RegistryExact, RefsBound, ShutdownOrder, Live, PCs,
         handles, requests, process
<1>18. CASE Crash
  BY <1>18 DEF Crash, Vanish, TypeOK, RegistryExact, RefsBound, ShutdownOrder,
         Live, PCs, handles, requests, process
<1>19. CASE Sigterm
  BY <1>19 DEF Sigterm, TypeOK, RegistryExact, RefsBound, ShutdownOrder, Live, PCs,
         handles, requests, process
<1>20. CASE Drained
  BY <1>20 DEF Drained, Cancel, TypeOK, RegistryExact, RefsBound, ShutdownOrder,
         Live, PCs, handles, requests, process
<1>21. CASE DrainTimeout
  BY <1>21 DEF DrainTimeout, Vanish, TypeOK, RegistryExact, RefsBound,
         ShutdownOrder, Live, PCs, handles, requests, process
<1>22. CASE StopSnapshot
  BY <1>22 DEF StopSnapshot, TypeOK, RegistryExact, RefsBound, ShutdownOrder, Live,
         PCs, handles, requests, process
<1>23. CASE StopJoin
  BY <1>23 DEF StopJoin, TypeOK, RegistryExact, RefsBound, ShutdownOrder, Live,
         PCs, handles, requests, process
<1>24. CASE Exit
  BY <1>24 DEF Exit, TypeOK, RegistryExact, RefsBound, ShutdownOrder, Live, PCs,
         handles, requests, process
<1>25. CASE UNCHANGED <<hstate, pc, phase, stopSet>>
  BY <1>25 DEF TypeOK, RegistryExact, RefsBound, ShutdownOrder
<1>26. QED
  BY <1>1, <1>2, <1>3, <1>4, <1>5, <1>6, <1>7, <1>8, <1>9, <1>10, <1>11, <1>12,
     <1>13, <1>14, <1>15, <1>16, <1>17, <1>18, <1>19, <1>20, <1>21, <1>22, <1>23,
     <1>24, <1>25
  DEF Next, Handler, Goroutine, Shutdown, vars, rows, handles, requests, process,
      Cancel, CreateIcecastMount, DeleteIcecastMount, DeleteIcecastServer,
      DeleteRows, EnabledRow, Report, StopNext, WriteStatus

\* The inductive invariant holds in every reachable state.
LEMMA Invariance == Spec => []IInv
<1>1. IInv /\ [Next]_vars => IInv'
  BY TypeOKStep, RegistryExactStep, RefsBoundStep, ShutdownOrderStep DEF IInv
<1>2. QED
  BY InitInv, <1>1, PTL DEF Spec

\* The manager's variables, rows and requests keep their types.
THEOREM TypeCorrect == Spec => []TypeOK
<1>1. IInv => TypeOK
  BY DEF IInv
<1>2. QED
  BY Invariance, <1>1, PTL

\* The registry holds exactly the goroutines that have not left it.
THEOREM RegistryIsExact == Spec => []RegistryExact
<1>1. IInv => RegistryExact
  BY DEF IInv
<1>2. QED
  BY Invariance, <1>1, PTL

\* No mount ever has two goroutines, under any interleaving and any failure.
THEOREM Exclusion == Spec => []AtMostOneStream
<1>1. IInv => AtMostOneStream
  <2> SUFFICES ASSUME IInv,
                      NEW g \in Handles, NEW h \in Handles,
                      hstate[g] \in Live, hstate[h] \in Live, hmount[g] = hmount[h]
               PROVE  g = h
    BY DEF AtMostOneStream
  <2>1. hmount[g] \in Mounts
    BY DEF IInv, RefsBound
  <2>2. mounts[hmount[g]] = g /\ mounts[hmount[g]] = h
    BY <2>1 DEF IInv, RegistryExact
  <2>3. QED
    BY <2>2
<1>2. QED
  BY Invariance, <1>1, PTL

-----------------------------------------------------------------------------
(* The manager implements ExclusiveStreams.                                *)

\* The sources on air are pairs of a mount and the handle that streams it.
LEMMA SourcesOnAir ==
  ASSUME IInv
  PROVE  /\ \A p \in Sources : p[1] \in Mounts /\ p[2] \in Handles
         /\ \A h \in Handles : Streaming(h) => <<hmount[h], h>> \in Sources
         /\ \A p \in Sources : Streaming(p[2]) /\ hmount[p[2]] = p[1]
BY DEF IInv, RefsBound, Sources, Streaming, Live

\* A handle that streams makes its mount's report the promise's Report.
LEMMA ReportKeepsPromise ==
  ASSUME IInv, NEW h \in Handles, NEW s \in Statuses, Report(h, s)
  PROVE  [Promise!Next]_<<Sources, status>>
<1>1. Sources' = Sources
  BY DEF Report, Sources, Streaming, handles
<1>2. hmount[h] \in Mounts /\ Promise!OnAir(hmount[h])
  BY SourcesOnAir DEF Report, Streaming, IInv, RefsBound, Live, Promise!OnAir
<1>3. CASE UNCHANGED status
  BY <1>1, <1>3
<1>4. CASE status' = [status EXCEPT ![hmount[h]] = s]
  BY <1>1, <1>2, <1>4 DEF Promise!Next, Promise!Report
<1>5. status' = status \/ status' = [status EXCEPT ![hmount[h]] = s]
  BY DEF Report, WriteStatus, IInv, TypeOK
<1>6. QED
  BY <1>3, <1>4, <1>5, <1>1

\* A return takes one source off the air, with a final status or none.
LEMMA ReturnKeepsPromise ==
  ASSUME IInv, NEW h \in Handles, Return(h)
  PROVE  [Promise!Next]_<<Sources, status>>
<1> DEFINE p == <<hmount[h], h>>
<1>1. p \in Sources
  BY SourcesOnAir DEF Return, Streaming
<1>2. Sources' = Sources \ {p}
  BY DEF Return, Sources, Streaming, IInv, TypeOK
<1>3. \E s \in {"disconnected", "error"} \cup {status[hmount[h]]} :
        status' = [status EXCEPT ![hmount[h]] = s]
  BY DEF Return, WriteStatus, IInv, TypeOK
<1>4. QED
  BY <1>1, <1>2, <1>3 DEF Promise!Next, Promise!End

\* A launch on a mount without a goroutine begins one source.
LEMMA LaunchKeepsPromise ==
  ASSUME IInv, NEW m \in Mounts, NEW h \in Handles, mounts[m] = None,
         Launch(m, h), UNCHANGED status
  PROVE  [Promise!Next]_<<Sources, status>>
<1> DEFINE S == {<<m, h>>}
<1>1. ~Streaming(h)
  BY DEF Launch, Fresh, Streaming
<1>2. Sources' = Sources \cup S
  BY <1>1 DEF Launch, Sources, Streaming, IInv, TypeOK
<1>3. \A p \in Sources : p[1] # m /\ p[2] # h
  <2>1. \A g \in Handles : Streaming(g) => hmount[g] # m
    BY DEF IInv, RegistryExact, Streaming, Live
  <2>2. QED
    BY <2>1, <1>1, SourcesOnAir
<1>4. Promise!Exclusive(Sources \cup S)
  <2>1. \A p, q \in Sources : p[1] = q[1] \/ p[2] = q[2] => p = q
    <3> SUFFICES ASSUME NEW g \in Handles, NEW k \in Handles, Streaming(g), Streaming(k),
                        hmount[g] = hmount[k] \/ g = k
                 PROVE  g = k
      BY DEF Sources
    <3>1. hmount[g] \in Mounts /\ mounts[hmount[g]] = g
      BY DEF IInv, RegistryExact, RefsBound, Streaming, Live
    <3>2. hmount[k] \in Mounts /\ mounts[hmount[k]] = k
      BY DEF IInv, RegistryExact, RefsBound, Streaming, Live
    <3>3. QED
      BY <3>1, <3>2
  <2>2. QED
    BY <2>1, <1>3 DEF Promise!Exclusive
<1>5. S \in SUBSET (Mounts \X Handles) /\ S # {} /\ S \cap Sources = {}
  BY <1>3
<1>6. QED
  BY <1>2, <1>4, <1>5 DEF Promise!Next, Promise!Begin

\* A boot begins the sources of all the mounts that start.
LEMMA BootKeepsPromise ==
  ASSUME IInv, Boot
  PROVE  [Promise!Next]_<<Sources, status>>
<1>1. Sources = {}
  BY DEF Boot, IInv, ShutdownOrder, Sources, Streaming, Live
<1>2. PICK ms \in SUBSET {m \in Mounts : row[m] = "enabled"} :
        \E f \in [ms -> Handles] :
          /\ \A a, b \in ms : f[a] = f[b] => a = b
          /\ hstate' = [h \in Handles |-> IF \E m \in ms : f[m] = h THEN "running"
                                                                   ELSE "unused"]
          /\ hmount' = [h \in Handles |-> IF \E m \in ms : f[m] = h
                                            THEN CHOOSE m \in ms : f[m] = h ELSE None]
  BY DEF Boot
<1>3. PICK f \in [ms -> Handles] :
          /\ \A a, b \in ms : f[a] = f[b] => a = b
          /\ hstate' = [h \in Handles |-> IF \E m \in ms : f[m] = h THEN "running"
                                                                   ELSE "unused"]
          /\ hmount' = [h \in Handles |-> IF \E m \in ms : f[m] = h
                                            THEN CHOOSE m \in ms : f[m] = h ELSE None]
  BY <1>2
<1> DEFINE S == {<<m, f[m]>> : m \in ms}
<1>4. \A m \in ms : hmount'[f[m]] = m /\ Streaming(f[m])'
  BY <1>3 DEF Streaming
<1>5. \A h \in Handles : Streaming(h)' => \E m \in ms : f[m] = h
  BY <1>3 DEF Streaming
<1>6. Sources' = S
  <2>1. \A h \in Handles : Streaming(h)' => <<hmount'[h], h>> \in S
    BY <1>4, <1>5
  <2>2. \A m \in ms : f[m] \in Handles /\ Streaming(f[m])'
                      /\ <<m, f[m]>> = <<hmount'[f[m]], f[m]>>
    BY <1>4
  <2>3. Sources' = {<<hmount'[h], h>> : h \in {g \in Handles : Streaming(g)'}}
    BY DEF Sources
  <2> HIDE DEF S
  <2>4. Sources' \subseteq S
    BY <2>1, <2>3
  <2>5. S \subseteq Sources'
    BY <2>2, <2>3 DEF S
  <2>6. QED
    BY <2>4, <2>5
<1>7. UNCHANGED status
  BY DEF Boot
<1>8. CASE S = {}
  BY <1>1, <1>6, <1>7, <1>8
<1>9. CASE S # {}
  <2>1. S \in SUBSET (Mounts \X Handles) /\ Promise!Exclusive(Sources \cup S)
    BY <1>1, <1>3 DEF Promise!Exclusive
  <2>2. Sources' = Sources \cup S /\ S \cap Sources = {}
    BY <1>1, <1>6
  <2>3. QED
    BY <1>7, <1>9, <2>1, <2>2 DEF Promise!Next, Promise!Begin
<1>10. QED
  BY <1>8, <1>9

\* Every step of the manager is a step of the promise or leaves it alone.
LEMMA PromiseStep == IInv /\ [Next]_vars => [Promise!Next]_<<Sources, status>>
<1> SUFFICES ASSUME IInv, [Next]_vars PROVE [Promise!Next]_<<Sources, status>>
  OBVIOUS
<1>1. ASSUME NEW h \in Handles, NEW s \in Statuses, Report(h, s)
      PROVE  [Promise!Next]_<<Sources, status>>
  BY <1>1, ReportKeepsPromise
<1>2. ASSUME NEW h \in Handles, Return(h)
      PROVE  [Promise!Next]_<<Sources, status>>
  BY <1>2, ReturnKeepsPromise
<1>3. ASSUME NEW r \in Requests, StartCall(r)
      PROVE  [Promise!Next]_<<Sources, status>>
  <2>1. target[r] \in Mounts
    BY <1>3 DEF StartCall, IInv, RefsBound
  <2>2. CASE UNCHANGED <<mounts, handles>>
    BY <1>3, <2>2 DEF StartCall, Sources, Streaming, handles, rows
  <2>3. ASSUME NEW h \in Handles, mounts[target[r]] = None, Launch(target[r], h)
        PROVE  [Promise!Next]_<<Sources, status>>
    BY <1>3, <2>1, <2>3, LaunchKeepsPromise DEF StartCall, rows
  <2>4. QED
    BY <1>3, <2>2, <2>3 DEF StartCall
<1>4. CASE Boot
  BY <1>4, BootKeepsPromise
<1>5. CASE Crash \/ DrainTimeout
  <2>1. Sources' = {} /\ UNCHANGED status
    BY <1>5 DEF Crash, DrainTimeout, Vanish, Sources, Streaming, rows
  <2>2. QED
    BY <2>1 DEF Promise!Next, Promise!Die
<1>6. ASSUME NEW h \in Handles, Block(h) \/ PeerAnswers(h) \/ Unregister(h) \/ CloseDone(h)
      PROVE  UNCHANGED <<Sources, status>>
  <2>1. \A g \in Handles : Streaming(g)' <=> Streaming(g)
    BY <1>6 DEF Block, PeerAnswers, Unregister, CloseDone, Streaming, IInv, TypeOK
  <2>2. \A g \in Handles : Streaming(g) => hmount'[g] = hmount[g]
    BY <1>6 DEF Block, PeerAnswers, Unregister, CloseDone, Streaming, IInv, TypeOK
  <2>3. QED
    BY <1>6, <2>1, <2>2 DEF Block, PeerAnswers, Unregister, CloseDone, Sources, rows
<1>7. CASE UNCHANGED <<hstate, hmount, status>>
  BY <1>7 DEF Sources, Streaming
<1>8. QED
  BY <1>1, <1>2, <1>3, <1>4, <1>5, <1>6, <1>7
  DEF Next, Handler, Goroutine, Shutdown, vars, rows, handles, requests, process,
      CreateIcecastMount, DeleteIcecastMount, DeleteIcecastServer, DeleteRows,
      StartRead, StopRead, UpdateRead, Read, UpdateWrite, StartWrite, StopWrite,
      WriteRow, StopLookup, StopCancel, StopWait, StoreError, Sigterm, Drained,
      StopSnapshot, StopNext, StopJoin, Exit

\* The Icecast manager implements ExclusiveStreams: one source per mount, and
\* only that source reports for it, through every restart, failure and race.
THEOREM Implements == Spec => PromiseKept
<1>1. Init => Promise!Init
  BY DEF Init, Promise!Init, Sources, Streaming
<1>2. QED
  BY Invariance, PromiseStep, <1>1, PTL DEF Spec, PromiseKept, Promise!Spec

-----------------------------------------------------------------------------
(* The status column is true, whatever fails.                              *)

\* Only its own goroutine changes the status of a mount, and the last thing it
\* writes is final; a process that starts answers for no row it finds on air.
LEMMA StatusStep ==
  IInv /\ StatusTruth /\ UnbornQuiet /\ [Next]_vars => (StatusTruth /\ UnbornQuiet)'
<1> SUFFICES ASSUME IInv, StatusTruth, UnbornQuiet, [Next]_vars
             PROVE  (StatusTruth /\ UnbornQuiet)'
  OBVIOUS
<1> USE DEF StatusTruth, UnbornQuiet, OnAir
<1>1. ASSUME NEW h \in Handles, NEW s \in Statuses, Report(h, s)
      PROVE  (StatusTruth /\ UnbornQuiet)'
  <2>1. hmount[h] \in Mounts /\ Streaming(h)' /\ hmount'[h] = hmount[h]
    BY <1>1 DEF Report, IInv, RefsBound, Streaming, Live, handles
  <2>2. \A m \in Mounts \ {hmount[h]} :
          /\ status'[m] = status[m]
          /\ m \in stale' <=> m \in stale
    BY <1>1, <2>1 DEF Report, WriteStatus, IInv, TypeOK
  <2>3. row[hmount[h]] = "unborn" => status'[hmount[h]] = status[hmount[h]]
    BY <1>1, <2>1 DEF Report, WriteStatus, Exists, IInv, TypeOK
  <2>4. UNCHANGED <<row, phase, hstate, hmount>>
    BY <1>1 DEF Report, handles, process
  <2>5. QED
    BY <2>1, <2>2, <2>3, <2>4 DEF Streaming, Exists
<1>2. ASSUME NEW h \in Handles, Return(h)
      PROVE  (StatusTruth /\ UnbornQuiet)'
  <2>1. hmount[h] \in Mounts
    BY <1>2 DEF Return, IInv, RefsBound, Live
  <2>2. PICK s \in {"disconnected", "error"} : WriteStatus(hmount[h], s)
    BY <1>2 DEF Return
  <2>3. \A g \in Handles : Streaming(g) /\ hmount[g] # hmount[h] =>
          Streaming(g)' /\ hmount'[g] = hmount[g]
    BY <1>2 DEF Return, Streaming, IInv, TypeOK
  <2>4. \A m \in Mounts \ {hmount[h]} :
          /\ status'[m] = status[m]
          /\ m \in stale' <=> m \in stale
    BY <2>1, <2>2 DEF WriteStatus, IInv, TypeOK
  <2>5. \/ hmount[h] \in stale'
        \/ Exists(hmount[h]) => status'[hmount[h]] \in {"disconnected", "error"}
    BY <2>1, <2>2 DEF WriteStatus, IInv, TypeOK
  <2>6. row[hmount[h]] = "unborn" => status'[hmount[h]] = status[hmount[h]]
    BY <2>1, <2>2 DEF WriteStatus, IInv, TypeOK, Exists
  <2>7. UNCHANGED <<row, phase>>
    BY <1>2 DEF Return, process
  <2>8. StatusTruth'
    <3> SUFFICES ASSUME NEW m \in Mounts \ stale', phase' # "down", Exists(m)',
                        status'[m] \in {"connecting", "connected"}
                 PROVE  \E k \in Handles : Streaming(k)' /\ hmount'[k] = m
      OBVIOUS
    <3>1. m # hmount[h] /\ Exists(m)
      BY <2>5, <2>7 DEF Exists
    <3>2. PICK k \in Handles : Streaming(k) /\ hmount[k] = m
      BY <3>1, <2>4, <2>7
    <3>3. QED
      BY <3>1, <3>2, <2>3
  <2>9. QED
    BY <2>1, <2>4, <2>6, <2>7, <2>8
<1>3. ASSUME NEW r \in Requests, StartCall(r)
      PROVE  (StatusTruth /\ UnbornQuiet)'
  <2>1. \A h \in Handles : Streaming(h) => Streaming(h)' /\ hmount'[h] = hmount[h]
    BY <1>3 DEF StartCall, Launch, Fresh, Streaming, handles, IInv, TypeOK
  <2>2. QED
    BY <1>3, <2>1 DEF StartCall, rows, Exists, process
<1>4. CASE Boot
  BY <1>4 DEF Boot
<1>5. CASE Crash \/ DrainTimeout
  BY <1>5 DEF Crash, DrainTimeout, Vanish, rows
<1>6. ASSUME NEW m \in Mounts, NEW e \in BOOLEAN, CreateIcecastMount(m, e)
      PROVE  (StatusTruth /\ UnbornQuiet)'
  BY <1>6 DEF CreateIcecastMount, EnabledRow, handles, process, Exists, Streaming, IInv,
              TypeOK
<1>7. ASSUME NEW ms \in SUBSET Mounts, DeleteRows(ms)
      PROVE  (StatusTruth /\ UnbornQuiet)'
  BY <1>7 DEF DeleteRows, handles, process, Exists, Streaming
<1>8. ASSUME NEW r \in Requests, pc[r] # "idle", WriteRow(r)
      PROVE  (StatusTruth /\ UnbornQuiet)'
  <2>1. target[r] \in Mounts
    BY <1>8 DEF IInv, RefsBound
  <2>2. \A m \in Mounts : /\ Exists(m)' <=> Exists(m)
                          /\ row'[m] = "unborn" <=> row[m] = "unborn"
    BY <1>8, <2>1 DEF WriteRow, EnabledRow, Exists, IInv, TypeOK
  <2>3. QED
    BY <1>8, <2>2 DEF WriteRow, handles, process, Streaming
<1>9. ASSUME NEW h \in Handles, Block(h) \/ PeerAnswers(h) \/ Unregister(h) \/ CloseDone(h)
      PROVE  (StatusTruth /\ UnbornQuiet)'
  <2>1. \A g \in Handles : Streaming(g) => Streaming(g)' /\ hmount'[g] = hmount[g]
    BY <1>9 DEF Block, PeerAnswers, Unregister, CloseDone, Streaming, IInv, TypeOK
  <2>2. QED
    BY <1>9, <2>1 DEF Block, PeerAnswers, Unregister, CloseDone, rows, process, Exists
<1>10. CASE UNCHANGED <<row, status, stale, hstate, hmount>> /\ (phase = "down" => UNCHANGED phase)
  BY <1>10 DEF Exists, Streaming
<1>11. QED
  BY <1>1, <1>2, <1>3, <1>4, <1>5, <1>6, <1>7, <1>8, <1>9, <1>10
  DEF Next, Handler, Goroutine, Shutdown, vars, rows, handles, requests, process,
      DeleteIcecastMount, DeleteIcecastServer, StartRead, StopRead, UpdateRead, Read,
      UpdateWrite, StartWrite, StopWrite, StopLookup, StopCancel, StopWait, StoreError,
      Sigterm, Drained, StopSnapshot, StopNext, StopJoin, Exit

\* Through crashes, drain timeouts and lost writes: a status that says on air
\* is true, unless its row was left behind and not written since.
THEOREM StatusIsTrue == Spec => []StatusTruth
<1>1. Init => StatusTruth /\ UnbornQuiet
  BY DEF Init, StatusTruth, UnbornQuiet, OnAir
<1>2. IInv /\ StatusTruth /\ UnbornQuiet /\ [Next]_vars => (StatusTruth /\ UnbornQuiet)'
  BY StatusStep
<1>3. QED
  BY Invariance, <1>1, <1>2, PTL DEF Spec

\* An orderly shutdown leaves no stream, and no row that says on air but those
\* left behind earlier.
THEOREM ExitIsClean == Spec => []CleanExit
<1>1. IInv /\ StatusTruth => CleanExit
  <2> SUFFICES ASSUME IInv, StatusTruth, phase = "exited"
               PROVE  /\ \A h \in Handles : hstate[h] \notin Live
                      /\ \A m \in Mounts \ stale : Exists(m) => status[m] \notin OnAir
    BY DEF CleanExit
  <2>1. \A h \in Handles : hstate[h] \notin Live
    BY DEF IInv, ShutdownOrder
  <2>2. QED
    BY <2>1 DEF StatusTruth, Streaming, Live
<1>2. QED
  BY Invariance, StatusIsTrue, <1>1, PTL

=============================================================================
