--------------------------- MODULE PipelineProofs ---------------------------
(***************************************************************************)
(* Proofs, for every number of stages, pipe capacity and amount of data,   *)
(* that IInv (module PipelineInvariant) is inductive, and of the safety    *)
(* properties it implies.  Each part of IInv has a lemma with one step per *)
(* action that can disturb it; the frame lemmas dispose of the others.     *)
(***************************************************************************)
EXTENDS PipelineRefinement, FiniteSetTheorems, TLAPS

\* Only the caller of execute and the end of its context move ctx and call.
LEMMA JoinFrame ==
  ASSUME [Next]_vars
  PROVE  UNCHANGED joinVars \/ Cancel \/ (Caller /\ UNCHANGED <<goVars, ctx>>)
<1>1. ASSUME NEW s \in Stages, Executor(s) PROVE UNCHANGED joinVars
  BY <1>1 DEF Executor, StartFail, StartOk, GetpgidOk, GetpgidFail, ZeroId, Reap, WaitReturn,
              CloseWriter, CloseReader, Record, Return
<1>2. ASSUME NEW s \in Stages, Watcher(s) \/ CtxKill(s) PROVE UNCHANGED joinVars
  BY <1>2 DEF Watcher, WatcherFire, SigInt, SigKill, CtxKill
<1>3. ASSUME NEW s \in Stages, OutCopier(s) \/ ErrEof(s) PROVE UNCHANGED joinVars
  BY <1>3 DEF OutCopier, OutTake, OutEof, Handover, OutBroken, ErrEof
<1>4. ASSUME NEW s \in Stages, InCopier(s) PROVE UNCHANGED joinVars
  BY <1>4 DEF InCopier, InPut, InEpipe, InEof
<1>8. ASSUME NEW s \in Stages, Sink(s) PROVE UNCHANGED joinVars
  BY <1>8 DEF Sink, OutSink, OutSinkFails, ErrSink, ErrSinkFails
<1>5. ASSUME NEW s \in Stages, Processes(s) PROVE UNCHANGED joinVars
  BY <1>5 DEF Processes, ChildWrite, ErrWrite, ChildRead, ChildExit, ChildFork, KidExit
<1>6. ASSUME UNCHANGED vars PROVE UNCHANGED joinVars
  BY <1>6 DEF vars
<1>7. ASSUME Caller PROVE UNCHANGED <<goVars, ctx>>
  BY <1>7 DEF Caller, JoinGroup, Collect
<1> QED
  BY <1>1, <1>2, <1>3, <1>4, <1>5, <1>6, <1>7, <1>8 DEF Next, Terminated

\* Only a stage goroutine changes its own records, the join counter, or the pipe ends.
LEMMA GoFrame ==
  ASSUME [Next]_vars
  PROVE  \/ \E s \in Stages : Executor(s)
         \/ UNCHANGED <<goVars, endVars>>
<1>1. ASSUME NEW s \in Stages, Watcher(s) PROVE UNCHANGED <<goVars, endVars>>
  BY <1>1 DEF Watcher, WatcherFire, SigInt, SigKill, sigVars
<1>2. ASSUME NEW s \in Stages, CtxKill(s) PROVE UNCHANGED <<goVars, endVars>>
  BY <1>2 DEF CtxKill
<1>3. ASSUME NEW s \in Stages, OutCopier(s) \/ ErrEof(s) PROVE UNCHANGED <<goVars, endVars>>
  BY <1>3 DEF OutCopier, OutTake, OutEof, Handover, OutBroken, ErrEof
<1>4. ASSUME NEW s \in Stages, InCopier(s) PROVE UNCHANGED <<goVars, endVars>>
  BY <1>4 DEF InCopier, InPut, InEpipe, InEof
<1>7. ASSUME NEW s \in Stages, Sink(s) PROVE UNCHANGED <<goVars, endVars>>
  BY <1>7 DEF Sink, OutSink, OutSinkFails, ErrSink, ErrSinkFails
<1>5. ASSUME NEW s \in Stages, Processes(s) PROVE UNCHANGED <<goVars, endVars>>
  BY <1>5 DEF Processes, ChildWrite, ErrWrite, ChildRead, ChildExit, ChildFork, KidExit
<1>6. ASSUME Caller \/ Cancel \/ UNCHANGED vars PROVE UNCHANGED <<goVars, endVars>>
  BY <1>6 DEF Caller, JoinGroup, Collect, Cancel, vars
<1> QED
  BY <1>1, <1>2, <1>3, <1>4, <1>5, <1>6, <1>7 DEF Next, Terminated

\* Every step keeps every variable in its type.
LEMMA TypeStep ==
  ASSUME TypeOK, [Next]_vars
  PROVE  TypeOK'
<1>1. ASSUME NEW s \in Stages, StartFail(s)
      PROVE  TypeOK'
  BY <1>1 DEF StartFail, TypeOK, Outcomes, goVars, joinVars, osVars, copyVars, endVars, sigVars
<1>2. ASSUME NEW s \in Stages, StartOk(s)
      PROVE  TypeOK'
  BY <1>2 DEF StartOk, TypeOK, Outcomes, goVars, joinVars, osVars, copyVars, endVars, sigVars
<1>3. ASSUME NEW s \in Stages, GetpgidOk(s)
      PROVE  TypeOK'
  BY <1>3 DEF GetpgidOk, TypeOK, Outcomes, goVars, joinVars, osVars, copyVars, endVars, sigVars
<1>4. ASSUME NEW s \in Stages, GetpgidFail(s)
      PROVE  TypeOK'
  BY <1>4 DEF GetpgidFail, TypeOK, Outcomes, goVars, joinVars, osVars, copyVars, endVars, sigVars
<1>5. ASSUME NEW s \in Stages, ZeroId(s)
      PROVE  TypeOK'
  BY <1>5 DEF ZeroId, TypeOK, Outcomes, goVars, joinVars, osVars, copyVars, endVars, sigVars
<1>6. ASSUME NEW s \in Stages, Reap(s)
      PROVE  TypeOK'
  BY <1>6 DEF Reap, TypeOK, Outcomes, goVars, joinVars, osVars, copyVars, endVars, sigVars
<1>7. ASSUME NEW s \in Stages, WaitReturn(s)
      PROVE  TypeOK'
  <2>1. WaitOutcome(s) \in Outcomes
    BY DEF WaitOutcome, Outcomes
  <2> QED
    BY <1>7, <2>1 DEF WaitReturn, TypeOK, Outcomes, goVars, joinVars, osVars, copyVars, endVars,
                      sigVars
<1>8. ASSUME NEW s \in Stages, CloseWriter(s)
      PROVE  TypeOK'
  BY <1>8 DEF CloseWriter, TypeOK, Outcomes, goVars, joinVars, osVars, copyVars, endVars, sigVars
<1>9. ASSUME NEW s \in Stages, CloseReader(s)
      PROVE  TypeOK'
  BY <1>9 DEF CloseReader, TypeOK, Outcomes, goVars, joinVars, osVars, copyVars, endVars, sigVars
<1>10. ASSUME NEW s \in Stages, Record(s)
      PROVE  TypeOK'
  BY <1>10 DEF Record, TypeOK, Outcomes, goVars, joinVars, osVars, copyVars, endVars, sigVars
<1>11. ASSUME NEW s \in Stages, Return(s)
      PROVE  TypeOK'
  <2>1. gerr' \in 0..N
    BY <1>11, NAssumption DEF Return, TypeOK, Stages
  <2> QED
    BY <1>11, <2>1 DEF Return, TypeOK, Outcomes, goVars, joinVars, osVars, copyVars, endVars,
                       sigVars
<1>12. ASSUME NEW s \in Stages, WatcherFire(s)
      PROVE  TypeOK'
  BY <1>12 DEF WatcherFire, TypeOK, Outcomes, goVars, joinVars, osVars, copyVars, endVars, sigVars
<1>13. ASSUME NEW s \in Stages, SigInt(s)
      PROVE  TypeOK'
  BY <1>13 DEF SigInt, TypeOK, Outcomes, goVars, joinVars, osVars, copyVars, endVars, sigVars
<1>14. ASSUME NEW s \in Stages, SigKill(s)
      PROVE  TypeOK'
  BY <1>14 DEF SigKill, TypeOK, Outcomes, goVars, joinVars, osVars, copyVars, endVars, sigVars
<1>15. ASSUME NEW s \in Stages, CtxKill(s)
      PROVE  TypeOK'
  BY <1>15 DEF CtxKill, TypeOK, Outcomes, goVars, joinVars, osVars, copyVars, endVars, sigVars
<1>16. ASSUME NEW s \in Stages, OutTake(s)
      PROVE  TypeOK'
  <2>1. obuf[s] \in 0..Cap
    BY DEF TypeOK
  <2>2. obuf[s] - 1 \in 0..Cap
    BY <1>16, <2>1, CapAssumption DEF OutTake
  <2> QED
    BY <1>16, <2>1, <2>2 DEF OutTake, TypeOK, Outcomes, goVars, joinVars, osVars, copyVars,
                             endVars, sigVars
<1>17. ASSUME NEW s \in Stages, OutEof(s)
      PROVE  TypeOK'
  BY <1>17 DEF OutEof, TypeOK, Outcomes, goVars, joinVars, osVars, copyVars, endVars, sigVars
<1>18. ASSUME NEW s \in Stages, OutSink(s)
      PROVE  TypeOK'
  BY <1>18 DEF OutSink, TypeOK, Outcomes, goVars, joinVars, osVars, copyVars, endVars, sigVars
<1>19. ASSUME NEW s \in Stages, Handover(s)
      PROVE  TypeOK'
  <2>1. s+1 \in Stages
    BY <1>19, NAssumption DEF Handover, Stages
  <2> QED
    BY <1>19, <2>1 DEF Handover, TypeOK, Outcomes, goVars, joinVars, osVars, copyVars, endVars,
                       sigVars
<1>20. ASSUME NEW s \in Stages, OutBroken(s)
      PROVE  TypeOK'
  BY <1>20, CapAssumption DEF OutBroken, TypeOK, Outcomes, goVars, joinVars, osVars, copyVars,
                              endVars, sigVars
<1>21. ASSUME NEW s \in Stages, InPut(s)
      PROVE  TypeOK'
  <2>1. ibuf[s] \in 0..Cap
    BY DEF TypeOK
  <2>2. ibuf[s] + 1 \in 0..Cap
    BY <1>21, <2>1, CapAssumption DEF InPut
  <2> QED
    BY <1>21, <2>1, <2>2 DEF InPut, TypeOK, Outcomes, goVars, joinVars, osVars, copyVars,
                             endVars, sigVars
<1>22. ASSUME NEW s \in Stages, InEpipe(s)
      PROVE  TypeOK'
  BY <1>22 DEF InEpipe, TypeOK, Outcomes, goVars, joinVars, osVars, copyVars, endVars, sigVars
<1>23. ASSUME NEW s \in Stages, InEof(s)
      PROVE  TypeOK'
  BY <1>23 DEF InEof, TypeOK, Outcomes, goVars, joinVars, osVars, copyVars, endVars, sigVars
<1>24. ASSUME NEW s \in Stages, ChildWrite(s)
      PROVE  TypeOK'
  <2>1. obuf[s] \in 0..Cap /\ wrote[s] \in 0..MaxChunks
    BY DEF TypeOK
  <2>2. obuf[s] + 1 \in 0..Cap /\ wrote[s] + 1 \in 0..MaxChunks
    BY <1>24, <2>1, CapAssumption, MaxChunksAssumption DEF ChildWrite
  <2> QED
    BY <1>24, <2>1, <2>2 DEF ChildWrite, TypeOK, Outcomes, goVars, joinVars, osVars, copyVars,
                             endVars, sigVars
<1>25. ASSUME NEW s \in Stages, ErrWrite(s)
      PROVE  TypeOK'
  BY <1>25 DEF ErrWrite, TypeOK, Outcomes, goVars, joinVars, osVars, copyVars, endVars, sigVars
<1>26. ASSUME NEW s \in Stages, ChildRead(s)
      PROVE  TypeOK'
  <2>1. ibuf[s] \in 0..Cap
    BY DEF TypeOK
  <2>2. ibuf[s] - 1 \in 0..Cap
    BY <1>26, <2>1, CapAssumption DEF ChildRead
  <2> QED
    BY <1>26, <2>1, <2>2 DEF ChildRead, TypeOK, Outcomes, goVars, joinVars, osVars, copyVars,
                             endVars, sigVars
<1>27. ASSUME NEW s \in Stages, ChildExit(s)
      PROVE  TypeOK'
  BY <1>27 DEF ChildExit, TypeOK, Outcomes, goVars, joinVars, osVars, copyVars, endVars, sigVars
<1>28. ASSUME NEW s \in Stages, ChildFork(s)
      PROVE  TypeOK'
  BY <1>28, KidsAssumption DEF ChildFork, TypeOK, Outcomes, goVars, joinVars, osVars, copyVars,
                               endVars, sigVars
<1>29. ASSUME NEW s \in Stages, KidExit(s)
      PROVE  TypeOK'
  BY <1>29 DEF KidExit, TypeOK, Outcomes, goVars, joinVars, osVars, copyVars, endVars, sigVars
<1>30. ASSUME JoinGroup
      PROVE  TypeOK'
  BY <1>30 DEF JoinGroup, TypeOK, Outcomes, goVars, joinVars, osVars, copyVars, endVars, sigVars
<1>31. ASSUME Collect
      PROVE  TypeOK'
  BY <1>31 DEF Collect, TypeOK, Outcomes, goVars, joinVars, osVars, copyVars, endVars, sigVars
<1>32. ASSUME Cancel
      PROVE  TypeOK'
  BY <1>32 DEF Cancel, TypeOK, Outcomes, goVars, joinVars, osVars, copyVars, endVars, sigVars
<1>34. ASSUME NEW s \in Stages, OutSinkFails(s)
      PROVE  TypeOK'
  BY <1>34, CapAssumption DEF OutSinkFails, TypeOK, Outcomes, goVars, joinVars, osVars, copyVars,
                              endVars, sigVars
<1>35. ASSUME NEW s \in Stages, ErrSink(s) \/ ErrSinkFails(s) \/ ErrEof(s)
      PROVE  TypeOK'
  BY <1>35 DEF ErrSink, ErrSinkFails, ErrEof, TypeOK, Outcomes, goVars, joinVars, osVars, copyVars,
               endVars, sigVars
<1>33. ASSUME UNCHANGED vars
      PROVE  TypeOK'
  BY <1>33 DEF TypeOK, Outcomes, goVars, joinVars, osVars, copyVars, endVars, sigVars, vars
<1> QED
  BY <1>1, <1>2, <1>3, <1>4, <1>5, <1>6, <1>7, <1>8, <1>9, <1>10, <1>11, <1>12, <1>13, <1>14,
       <1>15, <1>16, <1>17, <1>18, <1>19, <1>20, <1>21, <1>22, <1>23, <1>24, <1>25, <1>26, <1>27,
       <1>28, <1>29, <1>30, <1>31, <1>32, <1>33, <1>34, <1>35
  DEF Next, Executor, Watcher, OutCopier, InCopier, Sink, Processes, Caller, Terminated

\* StageInv is preserved: what a goroutine set follows its position.
LEMMA StageStep ==
  ASSUME TypeOK, StageInv, [Next]_vars
  PROVE  StageInv'
<1>1. ASSUME NEW s \in Stages, StartFail(s)
      PROVE  StageInv'
  BY <1>1 DEF StartFail, StageInv, Past, TypeOK, Outcomes, goVars, endVars
<1>2. ASSUME NEW s \in Stages, StartOk(s)
      PROVE  StageInv'
  BY <1>2 DEF StartOk, StageInv, Past, TypeOK, Outcomes, goVars, endVars
<1>3. ASSUME NEW s \in Stages, GetpgidOk(s)
      PROVE  StageInv'
  BY <1>3 DEF GetpgidOk, StageInv, Past, TypeOK, Outcomes, goVars, endVars
<1>4. ASSUME NEW s \in Stages, GetpgidFail(s)
      PROVE  StageInv'
  BY <1>4 DEF GetpgidFail, StageInv, Past, TypeOK, Outcomes, goVars, endVars
<1>5. ASSUME NEW s \in Stages, ZeroId(s)
      PROVE  StageInv'
  BY <1>5 DEF ZeroId, StageInv, Past, TypeOK, Outcomes, goVars, endVars
<1>6. ASSUME NEW s \in Stages, Reap(s)
      PROVE  StageInv'
  BY <1>6 DEF Reap, StageInv, Past, TypeOK, Outcomes, goVars, endVars
<1>7. ASSUME NEW s \in Stages, WaitReturn(s)
      PROVE  StageInv'
  <2>1. WaitOutcome(s) \in {"ok", "exit", "copyErr"}
    BY DEF WaitOutcome
  <2> QED
    BY <1>7, <2>1 DEF WaitReturn, StageInv, Past, TypeOK, Outcomes, goVars, endVars
<1>8. ASSUME NEW s \in Stages, CloseWriter(s)
      PROVE  StageInv'
  BY <1>8 DEF CloseWriter, StageInv, Past, TypeOK, Outcomes, goVars, endVars
<1>9. ASSUME NEW s \in Stages, CloseReader(s)
      PROVE  StageInv'
  BY <1>9 DEF CloseReader, StageInv, Past, TypeOK, Outcomes, goVars, endVars
<1>10. ASSUME NEW s \in Stages, Record(s)
      PROVE  StageInv'
  BY <1>10 DEF Record, StageInv, Past, TypeOK, Outcomes, goVars, endVars
<1>11. ASSUME NEW s \in Stages, Return(s)
      PROVE  StageInv'
  BY <1>11 DEF Return, StageInv, Past, TypeOK, Outcomes, goVars, endVars
<1>12. ASSUME UNCHANGED <<goVars, endVars>>
      PROVE  StageInv'
  BY <1>12 DEF StageInv, Past, goVars, endVars
<1> QED
  BY <1>1, <1>2, <1>3, <1>4, <1>5, <1>6, <1>7, <1>8, <1>9, <1>10, <1>11, <1>12, GoFrame DEF Executor

\* CopyInv is preserved: no step of a copier or process loses count of a chunk.
LEMMA CopyStep ==
  ASSUME TypeOK, StageInv, CopyInv, [Next]_vars
  PROVE  CopyInv'
<1>1. ASSUME NEW s \in Stages, StartOk(s)
      PROVE  CopyInv'
  BY <1>1 DEF StartOk, CopyInv, Open, KidHolds, TypeOK, goVars, osVars, copyVars
<1>2. ASSUME NEW s \in Stages, Reap(s)
      PROVE  CopyInv'
  BY <1>2 DEF Reap, CopyInv, Open, KidHolds, TypeOK, goVars, osVars, copyVars
<1>3. ASSUME NEW s \in Stages, SigInt(s)
      PROVE  CopyInv'
  BY <1>3 DEF SigInt, CopyInv, Open, KidHolds, KidInGroup, TypeOK, goVars, osVars, copyVars
<1>4. ASSUME NEW s \in Stages, SigKill(s)
      PROVE  CopyInv'
  BY <1>4 DEF SigKill, CopyInv, Open, KidHolds, KidInGroup, TypeOK, goVars, osVars, copyVars
<1>5. ASSUME NEW s \in Stages, CtxKill(s)
      PROVE  CopyInv'
  BY <1>5 DEF CtxKill, CopyInv, Open, KidHolds, TypeOK, goVars, osVars, copyVars
<1>6. ASSUME NEW s \in Stages, OutTake(s)
      PROVE  CopyInv'
  BY <1>6 DEF OutTake, CopyInv, Open, KidHolds, TypeOK, goVars, osVars, copyVars
<1>7. ASSUME NEW s \in Stages, OutEof(s)
      PROVE  CopyInv'
  BY <1>7 DEF OutEof, CopyInv, Open, KidHolds, TypeOK, goVars, osVars, copyVars
<1>8. ASSUME NEW s \in Stages, OutSink(s)
      PROVE  CopyInv'
  BY <1>8 DEF OutSink, CopyInv, Open, KidHolds, TypeOK, goVars, osVars, copyVars
<1>9. ASSUME NEW s \in Stages, Handover(s)
      PROVE  CopyInv'
  BY <1>9 DEF Handover, CopyInv, Open, KidHolds, TypeOK, goVars, osVars, copyVars
<1>10. ASSUME NEW s \in Stages, OutBroken(s)
      PROVE  CopyInv'
  BY <1>10 DEF OutBroken, CopyInv, Open, KidHolds, TypeOK, goVars, osVars, copyVars
<1>11. ASSUME NEW s \in Stages, InPut(s)
      PROVE  CopyInv'
  BY <1>11 DEF InPut, CopyInv, Open, KidHolds, TypeOK, goVars, osVars, copyVars
<1>12. ASSUME NEW s \in Stages, InEpipe(s)
      PROVE  CopyInv'
  BY <1>12 DEF InEpipe, CopyInv, Open, KidHolds, TypeOK, goVars, osVars, copyVars
<1>13. ASSUME NEW s \in Stages, InEof(s)
      PROVE  CopyInv'
  BY <1>13 DEF InEof, CopyInv, Open, KidHolds, TypeOK, goVars, osVars, copyVars
<1>14. ASSUME NEW s \in Stages, ChildWrite(s)
      PROVE  CopyInv'
  <2>1. /\ obuf[s] \in Nat /\ wrote[s] \in Nat /\ captured[s] \in Nat
        /\ outCp[s] # "failed" /\ outCp[s] # "done"
    BY <1>14, CapAssumption, MaxChunksAssumption DEF ChildWrite, TypeOK
  <2>2. wrote'[s] = captured'[s] + obuf'[s] + (IF outCp'[s] = "write" THEN 1 ELSE 0)
    BY <1>14, <2>1 DEF ChildWrite, CopyInv, TypeOK
  <2> QED
    BY <1>14, <2>1, <2>2 DEF ChildWrite, CopyInv, Open, KidHolds, TypeOK, goVars, osVars, copyVars
<1>15. ASSUME NEW s \in Stages, ErrWrite(s)
      PROVE  CopyInv'
  BY <1>15 DEF ErrWrite, CopyInv, Open, KidHolds, TypeOK, goVars, osVars, copyVars
<1>16. ASSUME NEW s \in Stages, ChildRead(s)
      PROVE  CopyInv'
  BY <1>16 DEF ChildRead, CopyInv, Open, KidHolds, TypeOK, goVars, osVars, copyVars
<1>17. ASSUME NEW s \in Stages, ChildExit(s)
      PROVE  CopyInv'
  BY <1>17 DEF ChildExit, CopyInv, Open, KidHolds, TypeOK, goVars, osVars, copyVars
<1>18. ASSUME NEW s \in Stages, ChildFork(s)
      PROVE  CopyInv'
  BY <1>18 DEF ChildFork, CopyInv, Open, KidHolds, TypeOK, goVars, osVars, copyVars
<1>19. ASSUME NEW s \in Stages, KidExit(s)
      PROVE  CopyInv'
  BY <1>19 DEF KidExit, CopyInv, Open, KidHolds, KidInGroup, TypeOK, goVars, osVars, copyVars
<1>24. ASSUME NEW s \in Stages, OutSinkFails(s) \/ ErrSinkFails(s)
      PROVE  CopyInv'
  BY <1>24 DEF OutSinkFails, ErrSinkFails, CopyInv, Open, KidHolds, TypeOK, goVars, osVars, copyVars
<1>25. ASSUME NEW s \in Stages, ErrSink(s) \/ ErrEof(s)
      PROVE  CopyInv'
  BY <1>25 DEF ErrSink, ErrEof, CopyInv, Open, KidHolds, TypeOK, goVars, osVars, copyVars
<1>20. ASSUME UNCHANGED <<osVars, copyVars>>, \A s \in Stages : pc'[s] = "start" => pc[s] = "start"
      PROVE  CopyInv'
  BY <1>20 DEF CopyInv, Open, KidHolds, osVars, copyVars
<1>21. ASSUME NEW s \in Stages,
             \/ StartFail(s) \/ GetpgidOk(s) \/ GetpgidFail(s) \/ ZeroId(s) \/ WaitReturn(s)
             \/ CloseWriter(s) \/ CloseReader(s) \/ Record(s) \/ Return(s)
      PROVE  CopyInv'
  BY <1>20, <1>21 DEF StartFail, GetpgidOk, GetpgidFail, ZeroId, WaitReturn, CloseWriter,
                      CloseReader, Record, Return, TypeOK
<1>22. ASSUME NEW s \in Stages, WatcherFire(s)
      PROVE  CopyInv'
  BY <1>20, <1>22 DEF WatcherFire, goVars
<1>23. ASSUME Caller \/ Cancel \/ UNCHANGED vars
      PROVE  CopyInv'
  BY <1>20, <1>23 DEF Caller, JoinGroup, Collect, Cancel, vars, goVars
<1> QED
  BY <1>1, <1>2, <1>3, <1>4, <1>5, <1>6, <1>7, <1>8, <1>9, <1>10, <1>11, <1>12, <1>13, <1>14,
       <1>15, <1>16, <1>17, <1>18, <1>19, <1>21, <1>22, <1>23, <1>24, <1>25
  DEF Next, Executor, Watcher, OutCopier, InCopier, Sink, Processes, Terminated

\* ResultInv is preserved: an outcome, once set, keeps describing its stage.
LEMMA ResultStep ==
  ASSUME TypeOK, StageInv, CopyInv, ResultInv, [Next]_vars
  PROVE  ResultInv'
<1>1. ASSUME NEW s \in Stages, StartFail(s)
      PROVE  ResultInv'
  BY <1>1 DEF StartFail, CopyInv, ResultInv, CopiersEnded, TypeOK, StageInv, goVars, osVars,
              copyVars
<1>2. ASSUME NEW s \in Stages, StartOk(s)
      PROVE  ResultInv'
  BY <1>2 DEF StartOk, ResultInv, CopiersEnded, TypeOK, StageInv, goVars, osVars, copyVars
<1>3. ASSUME NEW s \in Stages, GetpgidFail(s)
      PROVE  ResultInv'
  BY <1>3 DEF GetpgidFail, ResultInv, CopiersEnded, TypeOK, StageInv, goVars, osVars, copyVars
<1>4. ASSUME NEW s \in Stages, ZeroId(s)
      PROVE  ResultInv'
  BY <1>4 DEF ZeroId, ResultInv, CopiersEnded, TypeOK, StageInv, goVars, osVars, copyVars
<1>5. ASSUME NEW s \in Stages, Reap(s)
      PROVE  ResultInv'
  BY <1>5 DEF Reap, ResultInv, CopiersEnded, TypeOK, StageInv, goVars, osVars, copyVars
<1>6. ASSUME NEW s \in Stages, WaitReturn(s)
      PROVE  ResultInv'
  <2>1. /\ WaitOutcome(s) \in {"ok", "exit", "copyErr"}
        /\ WaitOutcome(s) = "ok" => outCp[s] = "done" /\ errCp[s] = "done"
    BY <1>6 DEF WaitOutcome, WaitReturn, CopiersEnded
  <2> QED
    BY <1>6, <2>1 DEF WaitReturn, ResultInv, CopiersEnded, TypeOK, StageInv, goVars, osVars,
                      copyVars
<1>7. ASSUME NEW s \in Stages, SigInt(s)
      PROVE  ResultInv'
  BY <1>7 DEF SigInt, ResultInv, CopiersEnded, TypeOK, StageInv, goVars, osVars, copyVars
<1>8. ASSUME NEW s \in Stages, SigKill(s)
      PROVE  ResultInv'
  BY <1>8 DEF SigKill, ResultInv, CopiersEnded, TypeOK, StageInv, goVars, osVars, copyVars
<1>9. ASSUME NEW s \in Stages, CtxKill(s)
      PROVE  ResultInv'
  BY <1>9 DEF CtxKill, ResultInv, CopiersEnded, TypeOK, StageInv, goVars, osVars, copyVars
<1>10. ASSUME NEW s \in Stages, OutEof(s)
      PROVE  ResultInv'
  BY <1>10 DEF OutEof, ResultInv, CopiersEnded, TypeOK, StageInv, goVars, osVars, copyVars
<1>11. ASSUME NEW s \in Stages, Handover(s)
      PROVE  ResultInv'
  BY <1>11 DEF Handover, ResultInv, CopiersEnded, TypeOK, StageInv, goVars, osVars, copyVars
<1>12. ASSUME NEW s \in Stages, OutBroken(s)
      PROVE  ResultInv'
  BY <1>12 DEF OutBroken, ResultInv, CopiersEnded, TypeOK, StageInv, goVars, osVars, copyVars
<1>13. ASSUME NEW s \in Stages, InEpipe(s)
      PROVE  ResultInv'
  BY <1>13 DEF InEpipe, ResultInv, CopiersEnded, TypeOK, StageInv, goVars, osVars, copyVars
<1>14. ASSUME NEW s \in Stages, InEof(s)
      PROVE  ResultInv'
  BY <1>14 DEF InEof, ResultInv, CopiersEnded, TypeOK, StageInv, goVars, osVars, copyVars
<1>15. ASSUME NEW s \in Stages, ErrWrite(s)
      PROVE  ResultInv'
  BY <1>15 DEF ErrWrite, ResultInv, CopiersEnded, TypeOK, StageInv, goVars, osVars, copyVars
<1>16. ASSUME NEW s \in Stages, ChildExit(s)
      PROVE  ResultInv'
  BY <1>16 DEF ChildExit, ResultInv, CopiersEnded, TypeOK, StageInv, goVars, osVars, copyVars
<1>17. ASSUME NEW s \in Stages, OutTake(s) \/ OutSink(s) \/ InPut(s)
      PROVE  ResultInv'
  BY <1>17 DEF OutTake, OutSink, InPut, ResultInv, CopiersEnded, TypeOK, StageInv, goVars,
               osVars, copyVars
<1>22. ASSUME NEW s \in Stages, OutSinkFails(s) \/ ErrSinkFails(s)
      PROVE  ResultInv'
  BY <1>22 DEF OutSinkFails, ErrSinkFails, ResultInv, CopiersEnded, TypeOK, StageInv, goVars,
               osVars, copyVars
<1>23. ASSUME NEW s \in Stages, ErrSink(s) \/ ErrEof(s)
      PROVE  ResultInv'
  BY <1>23 DEF ErrSink, ErrEof, ResultInv, CopiersEnded, TypeOK, StageInv, goVars, osVars, copyVars
<1>18. ASSUME UNCHANGED <<r, child, inCp, outCp, errCp>>
      PROVE  ResultInv'
  BY <1>18 DEF ResultInv, CopiersEnded
<1>19. ASSUME NEW s \in Stages,
             \/ GetpgidOk(s) \/ CloseWriter(s) \/ CloseReader(s) \/ Record(s) \/ Return(s)
             \/ WatcherFire(s)
      PROVE  ResultInv'
  BY <1>18, <1>19 DEF GetpgidOk, CloseWriter, CloseReader, Record, Return, WatcherFire, goVars,
                      osVars, copyVars
<1>20. ASSUME NEW s \in Stages, ChildWrite(s) \/ ChildRead(s) \/ ChildFork(s) \/ KidExit(s)
      PROVE  ResultInv'
  BY <1>18, <1>20 DEF ChildWrite, ChildRead, ChildFork, KidExit, goVars, osVars, copyVars
<1>21. ASSUME Caller \/ Cancel \/ UNCHANGED vars
      PROVE  ResultInv'
  BY <1>18, <1>21 DEF Caller, JoinGroup, Collect, Cancel, vars, goVars, osVars, copyVars
<1> QED
  BY <1>1, <1>2, <1>3, <1>4, <1>5, <1>6, <1>7, <1>8, <1>9, <1>10, <1>11, <1>12, <1>13, <1>14,
       <1>15, <1>16, <1>17, <1>19, <1>20, <1>21, <1>22, <1>23
  DEF Next, Executor, Watcher, OutCopier, InCopier, Sink, Processes, Terminated

\* JoinInv is preserved: Record takes one stage off the count, Return sets the error.
LEMMA JoinStep ==
  ASSUME TypeOK, StageInv, JoinInv, [Next]_vars
  PROVE  JoinInv'
<1> DEFINE Missing == {s \in Stages : saved[s] = "unset"}
<1>1. IsFiniteSet(Missing)
  <2>1. IsFiniteSet(Stages)
    BY NAssumption, FS_Interval DEF Stages
  <2> QED
    BY <2>1, FS_Subset
<1>2. ASSUME NEW s \in Stages, Record(s)
      PROVE  JoinInv'
  <2>1. s \in Missing /\ {t \in Stages : saved'[t] = "unset"} = Missing \ {s}
    BY <1>2 DEF Record, StageInv, Past, TypeOK
  <2>2. Cardinality(Missing \ {s}) = Cardinality(Missing) - 1
    BY <1>1, <2>1, FS_RemoveElement
  <2>3. WaitGroupExact'
    BY <1>2, <2>1, <2>2 DEF Record, WaitGroupExact, JoinInv
  <2>4. call = "wait"
    BY <1>2 DEF Record, JoinInv, TypeOK
  <2> QED
    BY <1>2, <2>3, <2>4 DEF Record, JoinInv, Returned, TypeOK, joinVars
<1>3. ASSUME NEW s \in Stages, Return(s)
      PROVE  JoinInv'
  <2>1. WaitGroupExact'
    BY <1>3 DEF Return, WaitGroupExact, JoinInv
  <2> QED
    BY <1>3, <2>1, NAssumption DEF Return, JoinInv, Returned, TypeOK, Stages, joinVars
<1>4. ASSUME NEW s \in Stages,
             \/ StartFail(s) \/ StartOk(s) \/ GetpgidOk(s) \/ GetpgidFail(s) \/ ZeroId(s)
             \/ Reap(s) \/ WaitReturn(s) \/ CloseWriter(s) \/ CloseReader(s)
      PROVE  JoinInv'
  <2>1. /\ UNCHANGED <<saved, pending, gerr, call>>
        /\ \A t \in Stages : t # s => pc'[t] = pc[t] /\ r'[t] = r[t]
        /\ (pc[s] # "done" /\ pc'[s] # "done") \/ UNCHANGED <<pc, r>>
    BY <1>4 DEF StartFail, StartOk, GetpgidOk, GetpgidFail, ZeroId, Reap, WaitReturn,
                CloseWriter, CloseReader, TypeOK, joinVars, goVars
  <2>2. WaitGroupExact'
    BY <2>1 DEF WaitGroupExact, JoinInv
  <2>3. gerr # 0 => gerr \in Stages
    BY NAssumption DEF TypeOK, Stages
  <2> QED
    BY <2>1, <2>2, <2>3 DEF JoinInv, Returned
<1>5. ASSUME JoinGroup \/ Collect
      PROVE  JoinInv'
  <2>1. UNCHANGED goVars
    BY <1>5 DEF JoinGroup, Collect
  <2>2. WaitGroupExact'
    BY <2>1 DEF WaitGroupExact, JoinInv, goVars
  <2>3. \A s \in Stages : pc[s] = "done"
    BY <1>5 DEF JoinGroup, Collect, JoinInv
  <2>4. call' = "returned" => pending = 0
    BY <1>5 DEF JoinGroup, Collect
  <2> QED
    BY <2>1, <2>2, <2>3, <2>4 DEF JoinInv, Returned, goVars
<1>6. ASSUME UNCHANGED <<goVars, call>>
      PROVE  JoinInv'
  BY <1>6 DEF JoinInv, WaitGroupExact, Returned, goVars
<1> QED
  BY <1>2, <1>3, <1>4, <1>5, <1>6, GoFrame, JoinFrame DEF Executor, Caller, Cancel, joinVars

\* Once gCtx is done it stays done.
LEMMA CauseStable ==
  ASSUME TypeOK, [Next]_vars
  PROVE  GroupCtxDone => GroupCtxDone'
<1>1. ASSUME NEW s \in Stages, Executor(s)
      PROVE  gerr # 0 => gerr' # 0
  <2>1. CASE Return(s)
    BY <2>1 DEF Return
  <2>2. CASE ~Return(s)
    BY <1>1, <2>2 DEF Executor, StartFail, StartOk, GetpgidOk, GetpgidFail, ZeroId, Reap,
                      WaitReturn, CloseWriter, CloseReader, Record, goVars
  <2> QED
    BY <2>1, <2>2
<1>2. gerr # 0 => gerr' # 0
  BY <1>1, GoFrame DEF goVars
<1>3. call # "wait" => call' # "wait"
  BY JoinFrame DEF Caller, JoinGroup, Collect, Cancel, joinVars
<1>4. ctx = "done" => ctx' = "done"
  BY JoinFrame DEF Cancel, joinVars
<1> QED
  BY <1>2, <1>3, <1>4 DEF GroupCtxDone

\* What brings a process down for the group's context, and what else changes a status.
LEMMA StatusFrame ==
  ASSUME TypeOK, [Next]_vars, NEW s \in Stages, status'[s] = "signaled", status[s] # "signaled"
  PROVE  child[s] = "alive" /\ (watcher[s] = "fired" \/ ctx = "done") /\ UNCHANGED joinVars
<1> USE DEF TypeOK
<1>1. ASSUME NEW t \in Stages, Executor(t) PROVE FALSE
  BY <1>1 DEF Executor, StartFail, StartOk, GetpgidOk, GetpgidFail, ZeroId, Reap, WaitReturn,
              CloseWriter, CloseReader, Record, Return, osVars
<1>2. ASSUME NEW t \in Stages, OutCopier(t) \/ ErrEof(t) \/ InCopier(t) PROVE FALSE
  BY <1>2 DEF OutCopier, OutTake, OutEof, Handover, OutBroken, ErrEof, InCopier, InPut, InEpipe,
              InEof, osVars
<1>3. ASSUME NEW t \in Stages, Sink(t) PROVE FALSE
  BY <1>3 DEF Sink, OutSink, OutSinkFails, ErrSink, ErrSinkFails, osVars
<1>4. ASSUME NEW t \in Stages, Processes(t) PROVE FALSE
  BY <1>4 DEF Processes, ChildWrite, ErrWrite, ChildRead, ChildExit, ChildFork, KidExit, osVars
<1>5. ASSUME NEW t \in Stages, Watcher(t) \/ CtxKill(t)
      PROVE  child[s] = "alive" /\ (watcher[s] = "fired" \/ ctx = "done") /\ UNCHANGED joinVars
  BY <1>5 DEF Watcher, WatcherFire, SigInt, SigKill, CtxKill, osVars
<1>6. ASSUME Caller \/ Cancel \/ UNCHANGED vars PROVE FALSE
  BY <1>6 DEF Caller, JoinGroup, Collect, Cancel, vars, osVars
<1> QED
  BY <1>1, <1>2, <1>3, <1>4, <1>5, <1>6 DEF Next, Terminated

\* Who moves a watcher, and when a goroutine gives up without one.
LEMMA WatcherFrame ==
  ASSUME TypeOK, StageInv, SignalInv, [Next]_vars, NEW s \in Stages
  PROVE  /\ watcher'[s] = "fired" => watcher[s] = "fired" \/ GroupCtxDone
         /\ pc'[s] \in {"start", "pgid"} => watcher'[s] = "none"
         /\ r'[s] \in {"startErr", "pgidErr", "zeroId"} => watcher'[s] = "none"
<1> USE DEF TypeOK, SignalInv
<1>1. ASSUME NEW t \in Stages, GetpgidOk(t)
      PROVE  /\ watcher'[s] = "fired" => watcher[s] = "fired"
             /\ pc'[s] \in {"start", "pgid"} => watcher'[s] = "none"
             /\ r'[s] \in {"startErr", "pgidErr", "zeroId"} => watcher'[s] = "none"
  BY <1>1 DEF GetpgidOk, StageInv
<1>2. ASSUME NEW t \in Stages, Executor(t), ~GetpgidOk(t)
      PROVE  /\ UNCHANGED watcher
             /\ pc'[s] \in {"start", "pgid"} => watcher'[s] = "none"
             /\ r'[s] \in {"startErr", "pgidErr", "zeroId"} => watcher'[s] = "none"
  <2>1. CASE StartFail(t) \/ GetpgidFail(t) \/ ZeroId(t)
    BY <2>1 DEF StartFail, GetpgidFail, ZeroId, sigVars
  <2>2. CASE WaitReturn(t)
    <3>1. WaitOutcome(t) \in {"ok", "exit", "copyErr"}
      BY DEF WaitOutcome
    <3> QED
      BY <2>2, <3>1 DEF WaitReturn, sigVars
  <2>3. CASE StartOk(t) \/ Reap(t) \/ CloseWriter(t) \/ CloseReader(t) \/ Record(t) \/ Return(t)
    BY <2>3 DEF StartOk, Reap, CloseWriter, CloseReader, Record, Return, goVars, sigVars
  <2> QED
    BY <1>2, <2>1, <2>2, <2>3 DEF Executor
<1>3. ASSUME NEW t \in Stages, Watcher(t)
      PROVE  /\ UNCHANGED goVars
             /\ watcher'[s] = "none" <=> watcher[s] = "none"
             /\ watcher'[s] = "fired" => watcher[s] = "fired" \/ GroupCtxDone
  BY <1>3 DEF Watcher, WatcherFire, SigInt, SigKill
<1>4. ASSUME NEW t \in Stages, CtxKill(t) \/ OutCopier(t) \/ ErrEof(t) \/ InCopier(t)
      PROVE  UNCHANGED <<goVars, watcher>>
  BY <1>4 DEF CtxKill, OutCopier, OutTake, OutEof, Handover, OutBroken, ErrEof, InCopier, InPut,
              InEpipe, InEof, sigVars
<1>5. ASSUME NEW t \in Stages, Sink(t) \/ Processes(t)
      PROVE  UNCHANGED <<goVars, watcher>>
  BY <1>5 DEF Sink, OutSink, OutSinkFails, ErrSink, ErrSinkFails, Processes, ChildWrite, ErrWrite,
              ChildRead, ChildExit, ChildFork, KidExit, sigVars
<1>6. ASSUME Caller \/ Cancel \/ UNCHANGED vars
      PROVE  UNCHANGED <<goVars, watcher>>
  BY <1>6 DEF Caller, JoinGroup, Collect, Cancel, vars, sigVars
<1> QED
  BY <1>1, <1>2, <1>3, <1>4, <1>5, <1>6 DEF Next, Terminated, goVars

\* SignalInv is preserved: a watcher fires, and a command is brought down, only after gCtx
\* is done.
LEMMA SignalStep ==
  ASSUME TypeOK, StageInv, SignalInv, [Next]_vars
  PROVE  SignalInv'
<1>1. GroupCtxDone => GroupCtxDone'
  BY CauseStable
<1> SUFFICES ASSUME NEW s \in Stages
             PROVE  /\ watcher'[s] = "fired" => GroupCtxDone'
                    /\ status'[s] = "signaled" => GroupCtxDone'
                    /\ pc'[s] \in {"start", "pgid"} => watcher'[s] = "none"
                    /\ r'[s] \in {"startErr", "pgidErr", "zeroId"} => watcher'[s] = "none"
  BY DEF SignalInv
<1>2. watcher[s] = "fired" \/ status[s] = "signaled" \/ ctx = "done" => GroupCtxDone
  BY DEF SignalInv, GroupCtxDone
<1>3. status'[s] = "signaled" => status[s] = "signaled" \/ watcher[s] = "fired" \/ ctx = "done"
  BY StatusFrame
<1> QED
  BY <1>1, <1>2, <1>3, WatcherFrame

\* Only the return of a stage sets the error, and a live context has not ended before.
LEMMA ErrorFrame ==
  ASSUME [Next]_vars
  PROVE  /\ gerr' = gerr \/ (gerr = 0 /\ \E s \in Stages : Return(s) /\ gerr' = s)
         /\ ctx' = "live" => ctx = "live"
<1>1. ASSUME NEW s \in Stages, Executor(s), ~Return(s) PROVE gerr' = gerr
  BY <1>1 DEF Executor, StartFail, StartOk, GetpgidOk, GetpgidFail, ZeroId, Reap, WaitReturn,
              CloseWriter, CloseReader, Record, goVars
<1>2. ASSUME NEW s \in Stages, Return(s) PROVE gerr' = gerr \/ (gerr = 0 /\ gerr' = s)
  BY <1>2 DEF Return
<1>3. ctx' = "live" => ctx = "live"
  BY JoinFrame DEF Cancel, joinVars
<1> QED
  BY <1>1, <1>2, <1>3, GoFrame DEF goVars

\* FirstErrorIsOwn is preserved: the first error is set before any signal, and the command
\* it is of is reaped by then, or nobody watches it.
LEMMA CulpritStep ==
  ASSUME TypeOK, StageInv, ResultInv, JoinInv, SignalInv, FirstErrorIsOwn, [Next]_vars
  PROVE  FirstErrorIsOwn'
<1> SUFFICES ASSUME gerr' # 0, ctx' = "live", status'[gerr'] = "signaled" PROVE FALSE
  BY DEF FirstErrorIsOwn
<1>1. ctx = "live"
  BY ErrorFrame
<1>2. CASE gerr' = gerr
  <2>1. gerr \in Stages /\ pc[gerr] = "done" /\ r[gerr] # "ok" /\ status[gerr] # "signaled"
    BY <1>1, <1>2, NAssumption DEF TypeOK, Stages, JoinInv, FirstErrorIsOwn
  <2>2. child[gerr] = "alive" /\ watcher[gerr] = "fired"
    BY <1>1, <1>2, <2>1, StatusFrame
  <2>3. r[gerr] \in {"exit", "copyErr", "startErr", "pgidErr", "zeroId"}
    BY <2>1 DEF StageInv, TypeOK, Outcomes
  <2> QED
    BY <2>1, <2>2, <2>3 DEF ResultInv, SignalInv
<1>3. CASE gerr = 0 /\ gerr' # gerr
  <2>1. PICK s \in Stages : Return(s) /\ gerr' = s
    BY <1>3, ErrorFrame
  <2>2. ~GroupCtxDone
    BY <1>1, <1>3, <2>1 DEF GroupCtxDone, JoinInv, Return, TypeOK
  <2>3. status[s] = "signaled"
    BY <2>1 DEF Return, osVars
  <2> QED
    BY <2>2, <2>3 DEF SignalInv
<1> QED
  BY <1>2, <1>3, ErrorFrame

\* The state in which the second pass begins satisfies the invariant.
LEMMA InitIInv == Init => IInv
<1> SUFFICES ASSUME Init PROVE IInv
  OBVIOUS
<1>1. TypeOK
  BY NAssumption, CapAssumption, MaxChunksAssumption DEF Init, TypeOK, Outcomes, Stages
<1>2. StageInv /\ CopyInv /\ ResultInv /\ SignalInv /\ FirstErrorIsOwn
  BY DEF Init, StageInv, Past, CopyInv, Open, KidHolds, ResultInv, CopiersEnded, SignalInv,
         FirstErrorIsOwn
<1>3. WaitGroupExact
  <2>1. {s \in Stages : saved[s] = "unset"} = 1..N
    BY DEF Init, Stages
  <2>2. Cardinality(1..N) = N
    BY NAssumption, FS_Interval
  <2> QED
    BY <2>1, <2>2 DEF Init, WaitGroupExact
<1>4. JoinInv
  BY <1>3 DEF Init, JoinInv, Returned
<1> QED
  BY <1>1, <1>2, <1>4 DEF IInv

\* Every step preserves the invariant.
LEMMA NextIInv == IInv /\ [Next]_vars => IInv'
  BY TypeStep, StageStep, CopyStep, ResultStep, JoinStep, SignalStep,
     CulpritStep DEF IInv

\* The inductive invariant holds in every reachable state.
THEOREM Invariance == Spec => []IInv
  BY InitIInv, NextIInv, PTL DEF Spec

\* The variables of execute keep their types.
THEOREM TypeCorrect == Spec => []TypeOK
<1>1. IInv => TypeOK
  BY DEF IInv
<1> QED
  BY <1>1, Invariance, PTL

\* A stage of execute reported successful has all its output in its Result, even when
\* another stage failed or the context ended.
THEOREM CaptureComplete == Spec => []CompleteCapture
<1>1. IInv => CompleteCapture
  <2> SUFFICES ASSUME IInv, NEW s \in Stages, saved[s] = "ok"
               PROVE  captured[s] = wrote[s]
    BY DEF CompleteCapture
  <2>1. r[s] = "ok"
    BY DEF IInv, StageInv
  <2>2. outCp[s] = "done" /\ obuf[s] = 0
    BY <2>1 DEF IInv, ResultInv, CopyInv
  <2> QED
    BY <2>2 DEF IInv, CopyInv, TypeOK
<1> QED
  BY <1>1, Invariance, PTL

\* A goroutine that closes an end has joined the copiers first, or got no group id.
LEMMA InvClosesLate == IInv => PipeEndsClosedLate
<1> SUFFICES ASSUME IInv, NEW s \in Stages, r[s] # "pgidErr", s \in wclosed \/ s \in rclosed
             PROVE  outCp[s] \in {"none", "done", "failed"} /\ inCp[s] \in {"none", "done"}
  BY DEF PipeEndsClosedLate
<1>1. r[s] \in {"ok", "exit", "copyErr", "startErr"}
  BY DEF IInv, StageInv, TypeOK, Outcomes
<1>2. CASE r[s] = "startErr"
  BY <1>2 DEF IInv, ResultInv, CopyInv
<1>3. CASE r[s] # "startErr"
  BY <1>1, <1>3 DEF IInv, ResultInv, CopiersEnded
<1> QED
  BY <1>2, <1>3

\* closePipe closes an end under a copier of the same stage only where Getpgid failed.
THEOREM EndsClosedLate == Spec => []PipeEndsClosedLate
<1> QED
  BY InvClosesLate, Invariance, PTL

\* A stdin copier that ended while its stage still had readers had seen the writer of
\* the stage before closed.
EofInv ==
  "pgidErr" \notin OsFaults =>
    \A s \in Stages \ {1} : inCp[s] = "done" /\ Open(s) => s - 1 \in wclosed

\* Who may end a stdin copier, and who may open the OS pipes of a stage.
LEMMA EofFrame ==
  ASSUME TypeOK, [Next]_vars, NEW s \in Stages
  PROVE  /\ inCp'[s] = "done" => inCp[s] = "done" \/ InEpipe(s) \/ InEof(s)
         /\ inCp'[s] = "done" /\ Open(s)' => Open(s)
         /\ wclosed \subseteq wclosed'
<1> USE DEF TypeOK, Open, KidHolds
<1>1. ASSUME NEW t \in Stages, Executor(t)
      PROVE  /\ inCp'[s] = "done" => inCp[s] = "done"
             /\ inCp'[s] = "done" /\ Open(s)' => Open(s)
             /\ wclosed \subseteq wclosed'
  <2>1. CASE StartOk(t)
    BY <2>1 DEF StartOk, endVars
  <2>2. CASE Reap(t)
    BY <2>2 DEF Reap, copyVars, endVars
  <2>3. CASE CloseWriter(t)
    BY <2>3 DEF CloseWriter, copyVars, osVars
  <2>4. CASE CloseReader(t)
    BY <2>4 DEF CloseReader, copyVars, osVars
  <2>5. CASE StartFail(t) \/ GetpgidOk(t) \/ GetpgidFail(t) \/ ZeroId(t)
    BY <2>5 DEF StartFail, GetpgidOk, GetpgidFail, ZeroId, copyVars, osVars, endVars
  <2>6. CASE WaitReturn(t) \/ Record(t) \/ Return(t)
    BY <2>6 DEF WaitReturn, Record, Return, copyVars, osVars, endVars
  <2> QED
    BY <1>1, <2>1, <2>2, <2>3, <2>4, <2>5, <2>6 DEF Executor
<1>2. ASSUME NEW t \in Stages, Watcher(t) \/ CtxKill(t)
      PROVE  UNCHANGED inCp /\ (Open(s)' => Open(s)) /\ UNCHANGED wclosed
  BY <1>2 DEF Watcher, WatcherFire, SigInt, SigKill, CtxKill, KidInGroup, copyVars, osVars, endVars
<1>7. ASSUME NEW t \in Stages, ErrEof(t) \/ Sink(t)
      PROVE  UNCHANGED inCp /\ (Open(s)' => Open(s)) /\ UNCHANGED wclosed
  BY <1>7 DEF ErrEof, Sink, OutSink, OutSinkFails, ErrSink, ErrSinkFails, osVars, endVars
<1>3. ASSUME NEW t \in Stages, OutCopier(t)
      PROVE  (inCp'[s] = "done" => inCp[s] = "done") /\ (Open(s)' => Open(s)) /\ UNCHANGED wclosed
  <2>1. CASE Handover(t)
    BY <2>1 DEF Handover, osVars, endVars
  <2>2. CASE ~Handover(t)
    BY <1>3, <2>2 DEF OutCopier, OutTake, OutEof, OutBroken, osVars, endVars
  <2> QED
    BY <2>1, <2>2
<1>4. ASSUME NEW t \in Stages, InCopier(t)
      PROVE  /\ inCp'[s] = "done" => inCp[s] = "done" \/ InEpipe(s) \/ InEof(s)
             /\ Open(s)' => Open(s)
             /\ UNCHANGED wclosed
  <2>1. UNCHANGED <<osVars, wclosed>>
    BY <1>4 DEF InCopier, InPut, InEpipe, InEof, endVars
  <2>2. CASE s = t
    BY <1>4, <2>1, <2>2 DEF InCopier, InPut, osVars
  <2>3. CASE s # t
    BY <1>4, <2>1, <2>3 DEF InCopier, InPut, InEpipe, InEof, osVars
  <2> QED
    BY <2>2, <2>3, <2>1
<1>5. ASSUME NEW t \in Stages, Processes(t)
      PROVE  UNCHANGED inCp /\ (Open(s)' => Open(s)) /\ UNCHANGED wclosed
  <2>1. CASE ChildFork(t)
    BY <2>1 DEF ChildFork, copyVars, endVars
  <2>2. CASE ~ChildFork(t)
    BY <1>5, <2>2 DEF Processes, ChildWrite, ErrWrite, ChildRead, ChildExit, KidExit,
                      copyVars, osVars, endVars
  <2> QED
    BY <2>1, <2>2
<1>6. ASSUME Caller \/ Cancel \/ UNCHANGED vars
      PROVE  UNCHANGED <<inCp, child, kid, wclosed>>
  BY <1>6 DEF Caller, JoinGroup, Collect, Cancel, vars, copyVars, osVars, endVars
<1> QED
  BY <1>1, <1>2, <1>3, <1>4, <1>5, <1>6, <1>7 DEF Next, Terminated

\* EofInv is preserved: a copier that ends by InEof while its stage is open cannot have
\* seen its own reader closed, for closePipe waits for it.
LEMMA EofStep ==
  ASSUME IInv, EofInv, [Next]_vars
  PROVE  EofInv'
<1> SUFFICES ASSUME "pgidErr" \notin OsFaults, NEW s \in Stages \ {1}, inCp'[s] = "done", Open(s)'
             PROVE  s - 1 \in wclosed'
  BY DEF EofInv
<1>1. Open(s) /\ wclosed \subseteq wclosed' /\ (inCp[s] = "done" \/ InEpipe(s) \/ InEof(s))
  BY EofFrame DEF IInv
<1>2. CASE inCp[s] = "done"
  BY <1>1, <1>2 DEF EofInv
<1>3. CASE InEpipe(s)
  BY <1>1, <1>3 DEF InEpipe
<1>4. CASE InEof(s)
  <2>1. s \notin rclosed
    <3> SUFFICES ASSUME s \in rclosed PROVE FALSE
      OBVIOUS
    <3>1. r[s] # "pgidErr"
      BY DEF IInv, ResultInv
    <3>2. inCp[s] # "read"
      BY <3>1, InvClosesLate DEF PipeEndsClosedLate
    <3> QED
      BY <1>4, <3>2 DEF InEof
  <2> QED
    BY <1>1, <1>4, <2>1 DEF InEof
<1> QED
  BY <1>1, <1>2, <1>3, <1>4

\* No stage sees the end of its input while the stage before it may still write.
THEOREM EofIsTrue == Spec => []NoEarlyEof
<1>1. Init => EofInv
  BY DEF Init, EofInv
<1>2. IInv /\ EofInv /\ [Next]_vars => EofInv'
  BY EofStep
<1>3. IInv /\ EofInv => NoEarlyEof
  <2> SUFFICES ASSUME IInv, EofInv, NEW s \in Stages \ {1},
                      inCp[s] = "done", Open(s), "pgidErr" \notin OsFaults
               PROVE  outCp[s-1] \in {"none", "done", "failed"}
    BY DEF NoEarlyEof
  <2>1. s - 1 \in wclosed
    BY DEF EofInv
  <2>2. s - 1 \in Stages
    BY <2>1 DEF IInv, TypeOK
  <2>3. r[s-1] # "pgidErr"
    BY <2>2 DEF IInv, ResultInv
  <2> QED
    BY <2>1, <2>2, <2>3, InvClosesLate DEF PipeEndsClosedLate, IInv, TypeOK
<1> QED
  BY <1>1, <1>2, <1>3, Invariance, PTL DEF Spec

\* The counter of stageResWg is the number of stages without a stored result, so it is
\* never negative.
THEOREM WaitGroupCounts == Spec => []WaitGroupExact
<1>1. IInv => WaitGroupExact
  BY DEF IInv, JoinInv
<1> QED
  BY <1>1, Invariance, PTL

\* At the return of execute, every stage has ended and stored its outcome.
LEMMA AllSaved ==
  ASSUME IInv, Returned
  PROVE  \A s \in Stages : pc[s] = "done" /\ saved[s] = r[s] /\ r[s] # "unset"
<1> DEFINE Missing == {s \in Stages : saved[s] = "unset"}
<1>1. IsFiniteSet(Missing)
  <2>1. IsFiniteSet(Stages)
    BY NAssumption, FS_Interval DEF Stages
  <2> QED
    BY <2>1, FS_Subset
<1>2. Cardinality(Missing) = 0
  BY DEF IInv, JoinInv, WaitGroupExact
<1>3. Missing = {}
  BY <1>1, <1>2, FS_EmptySet
<1>4. \A s \in Stages : pc[s] = "done"
  BY DEF IInv, JoinInv, Returned
<1> QED
  BY <1>3, <1>4 DEF IInv, StageInv, Past

\* The error execute returns is nil exactly when every stored result is a success, and
\* otherwise belongs to a stage whose stored result is a failure.
THEOREM ErrorMatchesResults == Spec => []ErrorAgreesWithResults
<1>1. IInv => ErrorAgreesWithResults
  <2> SUFFICES ASSUME IInv, Returned PROVE ErrorAgreesWithResults
    BY DEF ErrorAgreesWithResults
  <2>1. \A s \in Stages : pc[s] = "done" /\ saved[s] = r[s] /\ r[s] # "unset"
    BY AllSaved
  <2>2. gerr # 0 => gerr \in Stages
    BY NAssumption DEF IInv, TypeOK, Stages
  <2> QED
    BY <2>1, <2>2 DEF IInv, JoinInv, ErrorAgreesWithResults
<1> QED
  BY <1>1, Invariance, PTL

\* While the caller's context lives, the error execute returns is not that of a command its
\* watcher brought down.
THEOREM ErrorIsOwn == Spec => []FirstErrorIsOwn
<1>1. IInv => FirstErrorIsOwn
  BY DEF IInv
<1> QED
  BY <1>1, Invariance, PTL

\* What is left of a stage once execute has returned: nothing that can still be heard.
LEMMA QuietStage ==
  ASSUME OsFaults \subseteq {"sinkErr"}, IInv, Returned, NEW s \in Stages
  PROVE  /\ child[s] \in {"none", "reaped"}
         /\ KidHolds(s) => outCp[s] = "failed" /\ errCp[s] = "failed"
         /\ outCp[s] \in {"none", "done", "failed"} /\ errCp[s] \in {"none", "done", "failed"}
         /\ inCp[s] \in {"none", "done"}
<1>1. r[s] \in {"ok", "exit", "copyErr", "startErr"}
  BY AllSaved DEF IInv, ResultInv, TypeOK, Outcomes
<1>2. CASE r[s] = "startErr"
  BY <1>2 DEF IInv, ResultInv, CopyInv, KidHolds
<1>3. CASE r[s] # "startErr"
  BY <1>1, <1>3 DEF IInv, ResultInv, CopyInv, CopiersEnded, Open
<1> QED
  BY <1>2, <1>3

\* When Getpgid does not fail and no id is 0, execute returns with every started child
\* reaped and every copier ended, whether or not the program's output can be written.
THEOREM QuietAtReturn ==
  ASSUME OsFaults \subseteq {"sinkErr"}
  PROVE  Spec => []NothingRunsAtReturn
<1>1. IInv => NothingRunsAtReturn
  BY QuietStage DEF NothingRunsAtReturn
<1> QED
  BY <1>1, Invariance, PTL

-----------------------------------------------------------------------------
(* Pipeline implements StageJoin *)

\* The second pass begins as StageJoin does.
LEMMA JoinInit == Init => Join!Init
  BY DEF Init, Join!Init, Join!Members, Stages, StageView, ResultView, PhaseView, Returned

\* Return is the step in which a stage ends for the caller.
LEMMA ReturnEnds ==
  ASSUME IInv, NEW s \in Stages, Return(s)
  PROVE  Join!End(s)
<1> DEFINE o == Verdict(r[s])
<1>1. pc[s] = "ret" /\ pc' = [pc EXCEPT ![s] = "done"] /\ UNCHANGED <<r, saved, call>>
  BY DEF Return, joinVars
<1>2. o \in {"ok", "failed"} /\ (o = "failed" <=> r[s] # "ok")
  BY DEF Verdict
<1>3. StageView[s] = "running"
  BY <1>1 DEF StageView
<1>4. StageView' = [StageView EXCEPT ![s] = o]
  BY <1>1 DEF StageView, IInv, TypeOK
<1>5. gerr' = IF gerr = 0 /\ o = "failed" THEN s ELSE gerr
  BY <1>2 DEF Return
<1>6. UNCHANGED <<ResultView, PhaseView>>
  BY <1>1 DEF ResultView, PhaseView, Returned
<1> QED
  BY <1>2, <1>3, <1>4, <1>5, <1>6 DEF Join!End

\* Collect is the step in which the call closes, with the outcome of every stage.
LEMMA CollectCloses ==
  ASSUME IInv, IInv', Collect
  PROVE  Join!Close
<1>1. call = "collect" /\ call' = "returned" /\ UNCHANGED <<pc, r, saved, gerr>>
  BY DEF Collect, goVars
<1>2. Returned'
  BY <1>1 DEF Returned
<1>3. \A s \in Stages : pc[s] = "done" /\ saved[s] = r[s] /\ r[s] # "unset"
  <2>1. \A s \in Stages : pc[s] = "done"
    BY <1>1 DEF IInv, JoinInv
  <2>2. {s \in Stages : saved[s] = "unset"} = {}
    <3>1. IsFiniteSet({s \in Stages : saved[s] = "unset"})
      <4>1. IsFiniteSet(Stages)
        BY NAssumption, FS_Interval DEF Stages
      <4> QED
        BY <4>1, FS_Subset
    <3>2. Cardinality({s \in Stages : saved[s] = "unset"}) = 0
      BY DEF Collect, IInv, JoinInv, WaitGroupExact
    <3> QED
      BY <3>1, <3>2, FS_EmptySet
  <2> QED
    BY <2>1, <2>2 DEF IInv, StageInv, Past
<1>4. \A s \in Stages : StageView[s] # "running"
  BY <1>3 DEF StageView, Verdict
<1>5. ResultView' = StageView
  BY <1>1, <1>2, <1>3 DEF ResultView, StageView
<1>6. PhaseView = "open" /\ PhaseView' = "closed"
  BY <1>1, <1>2 DEF PhaseView, Returned
<1>7. UNCHANGED <<StageView, gerr>>
  BY <1>1 DEF StageView
<1> QED
  BY <1>4, <1>5, <1>6, <1>7 DEF Join!Close, Join!Members, Stages

\* A goroutine step before its return is invisible to the caller.
LEMMA QuietStep ==
  ASSUME IInv, NEW s \in Stages, Executor(s), ~Return(s)
  PROVE  UNCHANGED <<StageView, gerr, ResultView, PhaseView>>
<1>1. /\ UNCHANGED <<gerr, call>>
      /\ \A t \in Stages : t # s => pc'[t] = pc[t] /\ r'[t] = r[t] /\ saved'[t] = saved[t]
      /\ pc[s] # "done" /\ pc'[s] # "done"
  BY DEF Executor, StartFail, StartOk, GetpgidOk, GetpgidFail, ZeroId, Reap, WaitReturn,
         CloseWriter, CloseReader, Record, IInv, TypeOK, joinVars, goVars
<1>2. ~Returned
  BY <1>1 DEF IInv, JoinInv, Returned
<1>3. \A t \in Stages : (pc'[t] = "done" <=> pc[t] = "done") /\ (pc[t] = "done" => r'[t] = r[t])
  BY <1>1
<1>4. UNCHANGED StageView
  BY <1>3 DEF StageView
<1> QED
  BY <1>1, <1>2, <1>4 DEF ResultView, PhaseView, Returned

\* Every step of execute is a step of StageJoin or changes nothing the caller sees.
LEMMA JoinNext ==
  ASSUME IInv, IInv', [Next]_vars
  PROVE  [Join!Next]_<<StageView, gerr, ResultView, PhaseView>>
<1>1. ASSUME NEW s \in Stages, Return(s)
      PROVE  Join!Next
  BY <1>1, ReturnEnds DEF Join!Next, Join!Members, Stages
<1>2. ASSUME Collect
      PROVE  Join!Next
  BY <1>2, CollectCloses DEF Join!Next
<1>3. ASSUME NEW s \in Stages, Executor(s), ~Return(s)
      PROVE  UNCHANGED <<StageView, gerr, ResultView, PhaseView>>
  BY <1>3, QuietStep
<1>4. ASSUME UNCHANGED goVars, UNCHANGED joinVars \/ Cancel \/ JoinGroup
      PROVE  UNCHANGED <<StageView, gerr, ResultView, PhaseView>>
  <2>1. UNCHANGED <<pc, r, saved, gerr>> /\ (call' = "returned" <=> call = "returned")
    BY <1>4 DEF goVars, joinVars, Cancel, JoinGroup
  <2> QED
    BY <2>1 DEF StageView, ResultView, PhaseView, Returned
<1> QED
  BY <1>1, <1>2, <1>3, <1>4, GoFrame, JoinFrame DEF Caller

\* execute keeps the contract of StageJoin: it returns once all stages have ended, with
\* one result each and the error of the first that failed.
THEOREM Implementation == Spec => ImplementsJoin
<1>1. Init => Join!Init
  BY JoinInit
<1>2. IInv /\ IInv' /\ [Next]_vars => [Join!Next]_<<StageView, gerr, ResultView, PhaseView>>
  BY JoinNext
<1> QED
  BY <1>1, <1>2, Invariance, PTL DEF Spec, ImplementsJoin, Join!Spec, Join!jvars
=============================================================================
