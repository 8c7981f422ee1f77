---------------------- MODULE SpreadsheetEngine_proofs ----------------------
(***************************************************************************)
(* Proofs about SpreadsheetEngine, for every number of callers, processes, *)
(* requests and work directories.                                          *)
(***************************************************************************)
EXTENDS SpreadsheetEngine, TLAPS

\* The workbooks the engine builds are workbooks.
LEMMA BooksMade ==
  ASSUME NEW r \in Requests
  PROVE  Blank(r) \in Books /\ Own(r) \in Books
BY ShapeAssumption DEF Blank, Own, Books

\* Writing a request's inputs on a workbook gives a workbook.
LEMMA BookWritten ==
  ASSUME NEW r \in Requests, NEW b \in Books
  PROVE  [b EXCEPT !.inputs = @ \cup {r}] \in Books
BY DEF Books

\* Writing them on the blank template gives the request's own workbook.
LEMMA BlankWritten ==
  ASSUME NEW r \in Requests
  PROVE  [Blank(r) EXCEPT !.inputs = @ \cup {r}] = Own(r)
BY DEF Blank, Own

\* Every reachable state is well typed: in particular a compute under way
\* always has a request, and memory never holds a zero-byte file.
THEOREM TypeCorrect == Spec => []TypeOK
<1>1. Init => TypeOK
  BY DEF Init, TypeOK, PC
<1>2. TypeOK /\ [Next]_vars => TypeOK'
  <2> SUFFICES ASSUME TypeOK, [Next]_vars PROVE TypeOK'
    OBVIOUS
  <2> USE ShapeAssumption DEF TypeOK, PC, Busy, Goto, Hold, Raise, Release
  <2>1. ASSUME NEW c \in Callers, NEW r \in Requests, Begin(c, r) PROVE TypeOK'
    BY <2>1 DEF Begin
  <2>0. ASSUME NEW c \in Callers, MissVersion(c) PROVE TypeOK'
    BY <2>0 DEF MissVersion
  <2>2. ASSUME NEW c \in Callers, ProbeVersion(c) PROVE TypeOK'
    BY <2>2 DEF ProbeVersion
  <2>3. ASSUME NEW c \in Callers, NoCacheEntry(c) PROVE TypeOK'
    BY <2>3 DEF NoCacheEntry
  <2>4. ASSUME NEW c \in Callers, LookUp(c) PROVE TypeOK'
    BY <2>4 DEF LookUp
  <2>5. ASSUME NEW c \in Callers, CopyTemplate(c) PROVE TypeOK'
    BY <2>5, BooksMade DEF CopyTemplate
  <2>6. ASSUME NEW c \in Callers, LoadWorkbook(c) PROVE TypeOK'
    BY <2>6 DEF LoadWorkbook
  <2>7. ASSUME NEW c \in Callers, SaveInputs(c) PROVE TypeOK'
    BY <2>7, BookWritten DEF SaveInputs
  <2>8. ASSUME NEW c \in Callers, LaunchSoffice(c) PROVE TypeOK'
    BY <2>8 DEF LaunchSoffice
  <2>9. ASSUME NEW c \in Callers, SofficeExitsZero(c) PROVE TypeOK'
    BY <2>9 DEF SofficeExitsZero
  <2>10. ASSUME NEW c \in Callers, SofficeFails(c) PROVE TypeOK'
    BY <2>10 DEF SofficeFails
  <2>11. ASSUME NEW c \in Callers, CheckOutput(c) PROVE TypeOK'
    BY <2>11 DEF CheckOutput
  <2>12. ASSUME NEW c \in Callers, ReadOutputs(c) PROVE TypeOK'
    BY <2>12 DEF ReadOutputs
  <2>13. ASSUME NEW c \in Callers, StoreAnswer(c) PROVE TypeOK'
    BY <2>13 DEF StoreAnswer
  <2>14. ASSUME NEW p \in Processes, Crash(p) PROVE TypeOK'
    BY <2>14 DEF Crash
  <2>15. ASSUME NEW k \in Keys, DamageEntry(k) PROVE TypeOK'
    BY <2>15 DEF DamageEntry
  <2>16. CASE UNCHANGED vars
    BY <2>16 DEF vars
  <2>17. QED
    BY <2>0, <2>1, <2>2, <2>3, <2>4, <2>5, <2>6, <2>7, <2>8, <2>9, <2>10, <2>11,
       <2>12, <2>13, <2>14, <2>15, <2>16 DEF Next, Advance
<1>3. QED
  BY <1>1, <1>2, PTL DEF Spec

\* Every reachable state has at most one soffice per process, and the caller
\* that runs it is the one that holds that process's lock: no exception, crash
\* or overtaking caller leaves a lock without its soffice, or the reverse.
THEOREM Serialised == Spec => []SofficeSerialised
<1>1. Init => SofficeSerialised
  BY ShapeAssumption, NullAssumption DEF Init, SofficeSerialised
<1>2. TypeOK /\ SofficeSerialised /\ [Next]_vars => SofficeSerialised'
  <2> SUFFICES ASSUME TypeOK, SofficeSerialised, [Next]_vars PROVE SofficeSerialised'
    OBVIOUS
  <2> USE ShapeAssumption, NullAssumption
      DEF TypeOK, SofficeSerialised, Goto, Raise, Release, Busy
  <2>1. ASSUME NEW c \in Callers, NEW r \in Requests, Begin(c, r) PROVE SofficeSerialised'
    BY <2>1 DEF Begin
  <2>0. ASSUME NEW c \in Callers, MissVersion(c) PROVE SofficeSerialised'
    BY <2>0 DEF MissVersion
  <2>2. ASSUME NEW c \in Callers, ProbeVersion(c) PROVE SofficeSerialised'
    BY <2>2 DEF ProbeVersion
  <2>3. ASSUME NEW c \in Callers, NoCacheEntry(c) PROVE SofficeSerialised'
    BY <2>3 DEF NoCacheEntry
  <2>4. ASSUME NEW c \in Callers, LookUp(c) PROVE SofficeSerialised'
    BY <2>4 DEF LookUp
  <2>5. ASSUME NEW c \in Callers, CopyTemplate(c) PROVE SofficeSerialised'
    BY <2>5 DEF CopyTemplate
  <2>6. ASSUME NEW c \in Callers, LoadWorkbook(c) PROVE SofficeSerialised'
    BY <2>6 DEF LoadWorkbook
  <2>7. ASSUME NEW c \in Callers, SaveInputs(c) PROVE SofficeSerialised'
    BY <2>7 DEF SaveInputs
  <2>8. ASSUME NEW c \in Callers, LaunchSoffice(c) PROVE SofficeSerialised'
    BY <2>8 DEF LaunchSoffice
  <2>9. ASSUME NEW c \in Callers, SofficeExitsZero(c) PROVE SofficeSerialised'
    BY <2>9 DEF SofficeExitsZero
  <2>10. ASSUME NEW c \in Callers, SofficeFails(c) PROVE SofficeSerialised'
    BY <2>10 DEF SofficeFails
  <2>11. ASSUME NEW c \in Callers, CheckOutput(c) PROVE SofficeSerialised'
    BY <2>11 DEF CheckOutput
  <2>12. ASSUME NEW c \in Callers, ReadOutputs(c) PROVE SofficeSerialised'
    BY <2>12 DEF ReadOutputs
  <2>13. ASSUME NEW c \in Callers, StoreAnswer(c) PROVE SofficeSerialised'
    BY <2>13 DEF StoreAnswer
  <2>14. ASSUME NEW p \in Processes, Crash(p) PROVE SofficeSerialised'
    BY <2>14 DEF Crash
  <2>15. ASSUME NEW k \in Keys, DamageEntry(k) PROVE SofficeSerialised'
    BY <2>15 DEF DamageEntry
  <2>16. CASE UNCHANGED vars
    BY <2>16 DEF vars
  <2>17. QED
    BY <2>0, <2>1, <2>2, <2>3, <2>4, <2>5, <2>6, <2>7, <2>8, <2>9, <2>10, <2>11, <2>12, <2>13, <2>14, <2>15, <2>16 DEF Next, Advance
<1>3. QED
  BY <1>1, <1>2, TypeCorrect, PTL DEF Spec

\* The condition of the theorems below: no two callers share a work
\* directory, and soffice does not exit 0 without writing while an output of
\* an earlier compute is there.
Sheltered == ExclusiveDirs /\ StaleSilentExit = FALSE

\* The inductive invariant is preserved by every step of the engine and of
\* its environment.
LEMMA InductiveStep ==
  ASSUME Sheltered, IInv, TypeOK', [Next]_vars
  PROVE  IInv'
<1> SUFFICES /\ CacheSound'
             /\ \A x \in Callers : OwnBookInv(x)' /\ OwnEntryInv(x)'
  BY DEF IInv
<1> USE ShapeAssumption, NullAssumption, KeyAssumption, BooksMade
    DEF IInv, TypeOK, Busy, Goto, Hold, Raise, Release
<1>1. ASSUME NEW c \in Callers, NEW r \in Requests, Begin(c, r)
     PROVE  CacheSound' /\ \A x \in Callers : OwnBookInv(x)' /\ OwnEntryInv(x)'
  <2>1. CacheSound'
    BY <1>1 DEF Begin, Bypasses, Cacheable, CacheSound
  <2>2. ASSUME NEW x \in Callers PROVE OwnBookInv(x)'
    BY <1>1 DEF Begin, Bypasses, Cacheable, OwnBookInv, Sheltered, ExclusiveDirs
  <2>3. ASSUME NEW x \in Callers PROVE OwnEntryInv(x)'
    BY <1>1 DEF Begin, Bypasses, Cacheable, OwnEntryInv
  <2>4. QED
    BY <2>1, <2>2, <2>3
<1>0. ASSUME NEW c \in Callers, MissVersion(c)
     PROVE  CacheSound' /\ \A x \in Callers : OwnBookInv(x)' /\ OwnEntryInv(x)'
  <2>1. CacheSound'
    BY <1>0 DEF MissVersion, CacheSound
  <2>2. ASSUME NEW x \in Callers PROVE OwnBookInv(x)'
    BY <1>0 DEF MissVersion, OwnBookInv, Sheltered, ExclusiveDirs
  <2>3. ASSUME NEW x \in Callers PROVE OwnEntryInv(x)'
    BY <1>0 DEF MissVersion, OwnEntryInv
  <2>4. QED
    BY <2>1, <2>2, <2>3
<1>2. ASSUME NEW c \in Callers, ProbeVersion(c)
     PROVE  CacheSound' /\ \A x \in Callers : OwnBookInv(x)' /\ OwnEntryInv(x)'
  <2>1. CacheSound'
    BY <1>2 DEF ProbeVersion, CacheSound
  <2>2. ASSUME NEW x \in Callers PROVE OwnBookInv(x)'
    BY <1>2 DEF ProbeVersion, OwnBookInv, Sheltered, ExclusiveDirs
  <2>3. ASSUME NEW x \in Callers PROVE OwnEntryInv(x)'
    BY <1>2 DEF ProbeVersion, OwnEntryInv
  <2>4. QED
    BY <2>1, <2>2, <2>3
<1>3. ASSUME NEW c \in Callers, NoCacheEntry(c)
     PROVE  CacheSound' /\ \A x \in Callers : OwnBookInv(x)' /\ OwnEntryInv(x)'
  <2>1. CacheSound'
    BY <1>3 DEF NoCacheEntry, CacheSound
  <2>2. ASSUME NEW x \in Callers PROVE OwnBookInv(x)'
    BY <1>3 DEF NoCacheEntry, OwnBookInv, Sheltered, ExclusiveDirs
  <2>3. ASSUME NEW x \in Callers PROVE OwnEntryInv(x)'
    BY <1>3 DEF NoCacheEntry, OwnEntryInv
  <2>4. QED
    BY <2>1, <2>2, <2>3
<1>4. ASSUME NEW c \in Callers, LookUp(c)
     PROVE  CacheSound' /\ \A x \in Callers : OwnBookInv(x)' /\ OwnEntryInv(x)'
  <2>1. CacheSound'
    BY <1>4 DEF LookUp, CacheSound
  <2>2. ASSUME NEW x \in Callers PROVE OwnBookInv(x)'
    <3>1. cache[KeyOf[req[c]]] \in Books => cache[KeyOf[req[c]]] = Own(req[c])
      BY <1>4 DEF LookUp, CacheSound, OwnEntryInv
    <3>2. CASE x = c
      BY <1>4, <3>1, <3>2 DEF LookUp, OwnBookInv
    <3>3. CASE x # c
      BY <1>4, <3>3 DEF LookUp, OwnBookInv
    <3>4. QED
      BY <3>2, <3>3
  <2>3. ASSUME NEW x \in Callers PROVE OwnEntryInv(x)'
    BY <1>4 DEF LookUp, OwnEntryInv
  <2>4. QED
    BY <2>1, <2>2, <2>3
<1>5. ASSUME NEW c \in Callers, CopyTemplate(c)
     PROVE  CacheSound' /\ \A x \in Callers : OwnBookInv(x)' /\ OwnEntryInv(x)'
  <2>1. CacheSound'
    BY <1>5 DEF CopyTemplate, CacheSound
  <2>2. ASSUME NEW x \in Callers PROVE OwnBookInv(x)'
    BY <1>5 DEF CopyTemplate, OwnBookInv, Sheltered, ExclusiveDirs
  <2>3. ASSUME NEW x \in Callers PROVE OwnEntryInv(x)'
    BY <1>5 DEF CopyTemplate, OwnEntryInv
  <2>4. QED
    BY <2>1, <2>2, <2>3
<1>6. ASSUME NEW c \in Callers, LoadWorkbook(c)
     PROVE  CacheSound' /\ \A x \in Callers : OwnBookInv(x)' /\ OwnEntryInv(x)'
  <2>1. CacheSound'
    BY <1>6 DEF LoadWorkbook, CacheSound
  <2>2. ASSUME NEW x \in Callers PROVE OwnBookInv(x)'
    BY <1>6 DEF LoadWorkbook, OwnBookInv, Sheltered, ExclusiveDirs
  <2>3. ASSUME NEW x \in Callers PROVE OwnEntryInv(x)'
    BY <1>6 DEF LoadWorkbook, OwnEntryInv
  <2>4. QED
    BY <2>1, <2>2, <2>3
<1>7. ASSUME NEW c \in Callers, SaveInputs(c)
     PROVE  CacheSound' /\ \A x \in Callers : OwnBookInv(x)' /\ OwnEntryInv(x)'
  <2>1. CacheSound'
    BY <1>7 DEF SaveInputs, CacheSound
  <2>2. ASSUME NEW x \in Callers PROVE OwnBookInv(x)'
    <3>1. [held[c] EXCEPT !.inputs = @ \cup {req[c]}] = Own(req[c])
      <4>1. held[c] = Blank(req[c]) /\ req[c] \in Requests
        BY <1>7 DEF SaveInputs, OwnBookInv
      <4>2. QED
        BY <4>1, BlankWritten
    <3>2. CASE x = c
      <4>1. working'[DirOf[x]] = Own(req[x]) /\ req' = req
        BY <1>7, <3>1, <3>2 DEF SaveInputs
      <4>2. pc'[x] = "wait" /\ silent' = silent
        BY <1>7, <3>2 DEF SaveInputs
      <4>3. Own(req[x])' = Own(req'[x])
        BY DEF Own
      <4>4. QED
        BY <1>7, <3>2, <4>1, <4>2, <4>3 DEF SaveInputs, OwnBookInv
    <3>3. CASE x # c
      BY <1>7, <3>3 DEF SaveInputs, OwnBookInv, Sheltered, ExclusiveDirs
    <3>4. QED
      BY <3>2, <3>3
  <2>3. ASSUME NEW x \in Callers PROVE OwnEntryInv(x)'
    BY <1>7 DEF SaveInputs, OwnEntryInv
  <2>4. QED
    BY <2>1, <2>2, <2>3
<1>8. ASSUME NEW c \in Callers, LaunchSoffice(c)
     PROVE  CacheSound' /\ \A x \in Callers : OwnBookInv(x)' /\ OwnEntryInv(x)'
  <2>1. CacheSound'
    BY <1>8 DEF LaunchSoffice, CacheSound
  <2>2. ASSUME NEW x \in Callers PROVE OwnBookInv(x)'
    BY <1>8 DEF LaunchSoffice, OwnBookInv, Sheltered, ExclusiveDirs
  <2>3. ASSUME NEW x \in Callers PROVE OwnEntryInv(x)'
    BY <1>8 DEF LaunchSoffice, OwnEntryInv
  <2>4. QED
    BY <2>1, <2>2, <2>3
<1>9. ASSUME NEW c \in Callers, SofficeExitsZero(c)
     PROVE  CacheSound' /\ \A x \in Callers : OwnBookInv(x)' /\ OwnEntryInv(x)'
  <2>1. CacheSound'
    BY <1>9 DEF SofficeExitsZero, CacheSound
  <2>2. ASSUME NEW x \in Callers PROVE OwnBookInv(x)'
    <3>1. CASE x = c
      BY <1>9, <3>1 DEF SofficeExitsZero, OwnBookInv, Sheltered
    <3>2. CASE x # c
      BY <1>9, <3>2 DEF SofficeExitsZero, OwnBookInv, Sheltered, ExclusiveDirs
    <3>3. QED
      BY <3>1, <3>2
  <2>3. ASSUME NEW x \in Callers PROVE OwnEntryInv(x)'
    BY <1>9 DEF SofficeExitsZero, OwnEntryInv
  <2>4. QED
    BY <2>1, <2>2, <2>3
<1>10. ASSUME NEW c \in Callers, SofficeFails(c)
     PROVE  CacheSound' /\ \A x \in Callers : OwnBookInv(x)' /\ OwnEntryInv(x)'
  <2>1. CacheSound'
    BY <1>10 DEF SofficeFails, CacheSound
  <2>2. ASSUME NEW x \in Callers PROVE OwnBookInv(x)'
    BY <1>10 DEF SofficeFails, OwnBookInv, Sheltered, ExclusiveDirs
  <2>3. ASSUME NEW x \in Callers PROVE OwnEntryInv(x)'
    BY <1>10 DEF SofficeFails, OwnEntryInv
  <2>4. QED
    BY <2>1, <2>2, <2>3
<1>11. ASSUME NEW c \in Callers, CheckOutput(c)
     PROVE  CacheSound' /\ \A x \in Callers : OwnBookInv(x)' /\ OwnEntryInv(x)'
  <2>1. CacheSound'
    BY <1>11 DEF CheckOutput, CacheSound
  <2>2. ASSUME NEW x \in Callers PROVE OwnBookInv(x)'
    BY <1>11 DEF CheckOutput, OwnBookInv, Sheltered, ExclusiveDirs
  <2>3. ASSUME NEW x \in Callers PROVE OwnEntryInv(x)'
    BY <1>11 DEF CheckOutput, OwnEntryInv
  <2>4. QED
    BY <2>1, <2>2, <2>3
<1>12. ASSUME NEW c \in Callers, ReadOutputs(c)
     PROVE  CacheSound' /\ \A x \in Callers : OwnBookInv(x)' /\ OwnEntryInv(x)'
  <2>1. CacheSound'
    BY <1>12 DEF ReadOutputs, CacheSound
  <2>2. ASSUME NEW x \in Callers PROVE OwnBookInv(x)'
    BY <1>12 DEF ReadOutputs, OwnBookInv, Sheltered, ExclusiveDirs
  <2>3. ASSUME NEW x \in Callers PROVE OwnEntryInv(x)'
    BY <1>12 DEF ReadOutputs, OwnEntryInv
  <2>4. QED
    BY <2>1, <2>2, <2>3
<1>13. ASSUME NEW c \in Callers, StoreAnswer(c)
     PROVE  CacheSound' /\ \A x \in Callers : OwnBookInv(x)' /\ OwnEntryInv(x)'
  <2>1. CacheSound'
    <3>1. req[c] \in Cacheable /\ entry[c] = KeyOf[req[c]] /\ held[c] = Own(req[c])
      BY <1>13 DEF StoreAnswer, OwnEntryInv, OwnBookInv
    <3>2. ASSUME NEW r \in Cacheable, cache'[KeyOf[r]] \in Books
          PROVE  cache'[KeyOf[r]] = Own(r) /\ r \notin Unreproducible
      <4>1. CASE r = req[c]
        BY <1>13, <3>1, <3>2, <4>1 DEF StoreAnswer, CacheSound, Cacheable
      <4>2. CASE r # req[c]
        BY <1>13, <3>1, <3>2, <4>2 DEF StoreAnswer, CacheSound, Cacheable
      <4>3. QED
        BY <4>1, <4>2
    <3>3. QED
      BY <3>2 DEF CacheSound
  <2>2. ASSUME NEW x \in Callers PROVE OwnBookInv(x)'
    BY <1>13 DEF StoreAnswer, OwnBookInv, Sheltered, ExclusiveDirs
  <2>3. ASSUME NEW x \in Callers PROVE OwnEntryInv(x)'
    BY <1>13 DEF StoreAnswer, OwnEntryInv
  <2>4. QED
    BY <2>1, <2>2, <2>3
<1>14. ASSUME NEW p \in Processes, Crash(p)
     PROVE  CacheSound' /\ \A x \in Callers : OwnBookInv(x)' /\ OwnEntryInv(x)'
  <2>1. CacheSound'
    BY <1>14 DEF Crash, CacheSound
  <2>2. ASSUME NEW x \in Callers PROVE OwnBookInv(x)'
    BY <1>14 DEF Crash, OwnBookInv, Sheltered, ExclusiveDirs
  <2>3. ASSUME NEW x \in Callers PROVE OwnEntryInv(x)'
    BY <1>14 DEF Crash, OwnEntryInv
  <2>4. QED
    BY <2>1, <2>2, <2>3
<1>15. ASSUME NEW k \in Keys, DamageEntry(k)
     PROVE  CacheSound' /\ \A x \in Callers : OwnBookInv(x)' /\ OwnEntryInv(x)'
  <2>1. CacheSound'
    BY <1>15 DEF DamageEntry, CacheSound
  <2>2. ASSUME NEW x \in Callers PROVE OwnBookInv(x)'
    BY <1>15 DEF DamageEntry, OwnBookInv, Sheltered, ExclusiveDirs
  <2>3. ASSUME NEW x \in Callers PROVE OwnEntryInv(x)'
    BY <1>15 DEF DamageEntry, OwnEntryInv
  <2>4. QED
    BY <2>1, <2>2, <2>3
<1>16. CASE UNCHANGED vars
  BY <1>16 DEF vars, CacheSound, OwnBookInv, OwnEntryInv
<1>17. QED
  BY <1>0, <1>1, <1>2, <1>3, <1>4, <1>5, <1>6, <1>7, <1>8, <1>9, <1>10, <1>11, <1>12,
     <1>13, <1>14, <1>15, <1>16 DEF Next, Advance

\* In every behaviour of a sheltered engine the invariant holds.
THEOREM Invariance == ASSUME Sheltered PROVE Spec => []IInv
<1>1. Init => IInv
  <2> SUFFICES ASSUME Init PROVE IInv
    OBVIOUS
  <2>1. TypeOK
    BY DEF Init, TypeOK, PC
  <2>2. CacheSound
    BY ShapeAssumption, NullAssumption DEF Init, CacheSound, Cacheable
  <2>3. \A c \in Callers : OwnBookInv(c) /\ OwnEntryInv(c)
    BY DEF Init, OwnBookInv, OwnEntryInv
  <2>4. QED
    BY <2>1, <2>2, <2>3 DEF IInv
<1>2. IInv /\ TypeOK' /\ [Next]_vars => IInv'
  BY InductiveStep
<1>3. QED
  BY <1>1, <1>2, TypeCorrect, PTL DEF Spec

\* A compute that returns, returns its own request's answer; what is cached
\* for a request is its answer; an exit without output is an error.
THEOREM Sound ==
  ASSUME Sheltered
  PROVE  Spec => [](AnswersAreOwn /\ CacheSound /\ SilentExitRaises)
<1>1. IInv => AnswersAreOwn /\ CacheSound /\ SilentExitRaises
  BY DEF IInv, OwnBookInv, AnswersAreOwn, SilentExitRaises
<1>2. QED
  BY <1>1, Invariance, PTL

\* What is cached for a request is that request's answer, whoever stored it
\* and whatever died, raced or was damaged in between (oracle/engine.py).
THEOREM CacheIsSound == ASSUME Sheltered PROVE Spec => []CacheSound
<1>1. IInv => CacheSound
  BY DEF IInv
<1>2. QED
  BY <1>1, Invariance, PTL

\* The status a caller is seen in, at each point of compute().
LEMMA StatusValues ==
  /\ \A point \in Busy : StatusOf(point) = "busy"
  /\ StatusOf("returned") = "answered"
  /\ StatusOf("raised") = "failed"
  /\ StatusOf("idle") = "idle"
BY DEF StatusOf, Busy

\* What AnswerService sees of a step: nothing, an answer of c, or a failure of c.
SeenNothing == UNCHANGED <<SeenStatus, req, SeenAnswer>>

SeenReturn(c) ==
  /\ SeenStatus[c] = "busy"
  /\ SeenStatus' = [SeenStatus EXCEPT ![c] = "answered"]
  /\ SeenAnswer' = [SeenAnswer EXCEPT ![c] = Own(req[c])]
  /\ req[c] \in Requests
  /\ req' = req

SeenRaise(c) ==
  /\ SeenStatus[c] = "busy"
  /\ SeenStatus' = [SeenStatus EXCEPT ![c] = "failed"]
  /\ UNCHANGED <<req, SeenAnswer>>

\* A step within a compute, or one that changes no caller, is not seen.
LEMMA WorkUnseen ==
  ASSUME TypeOK, NEW c \in Callers, NEW to \in Busy, pc[c] \in Busy,
         Goto(c, to), req' = req,
         \A x \in Callers : x # c => held'[x] = held[x]
  PROVE  SeenNothing
<1>1. \A x \in Callers : pc'[x] = pc[x] \/ (x = c /\ pc'[x] \in Busy)
  BY DEF TypeOK, Goto
<1>2. SeenStatus' = SeenStatus
  BY <1>1, StatusValues DEF SeenStatus
<1>3. SeenAnswer' = SeenAnswer
  BY <1>1 DEF SeenAnswer, Busy
<1>4. QED
  BY <1>2, <1>3 DEF SeenNothing

\* A step by which c's compute ends with its own answer is an Answer.
LEMMA ReturnSeen ==
  ASSUME TypeOK, NEW c \in Callers, pc[c] \in Busy, Goto(c, "returned"),
         Hold(c, Own(req[c])), req' = req
  PROVE  SeenReturn(c)
<1>1. SeenStatus' = [SeenStatus EXCEPT ![c] = "answered"]
  BY StatusValues DEF SeenStatus, TypeOK, Goto
<1>2. SeenAnswer' = [SeenAnswer EXCEPT ![c] = Own(req[c])]
  BY DEF SeenAnswer, TypeOK, Goto, Hold
<1>3. SeenStatus[c] = "busy" /\ req[c] \in Requests
  BY StatusValues DEF SeenStatus, Busy, TypeOK
<1>4. QED
  BY <1>1, <1>2, <1>3 DEF SeenReturn

\* A step by which c's compute raises is a Fail.
LEMMA RaiseSeen ==
  ASSUME TypeOK, NEW c \in Callers, pc[c] \in Busy, Raise(c), req' = req
  PROVE  SeenRaise(c)
<1>1. SeenStatus' = [SeenStatus EXCEPT ![c] = "failed"]
  BY StatusValues DEF SeenStatus, TypeOK, Raise, Goto
<1>2. SeenAnswer' = SeenAnswer
  BY DEF SeenAnswer, Busy, TypeOK, Raise, Goto, Hold
<1>3. SeenStatus[c] = "busy"
  BY StatusValues DEF SeenStatus
<1>4. QED
  BY <1>1, <1>2, <1>3 DEF SeenRaise

\* Every step of a sheltered engine is a step of AnswerService or none.
LEMMA ServiceStep ==
  ASSUME IInv, [Next]_vars
  PROVE  [Service!Next]_Service!vars
<1> USE DEF IInv
<1>1. ASSUME NEW c \in Callers, NEW r \in Requests, Begin(c, r)
     PROVE  Service!Next
  <2>1. /\ pc' = [pc EXCEPT ![c] = IF Bypasses(r) THEN "prepare" ELSE "probe"]
        /\ req' = [req EXCEPT ![c] = r]
        /\ held' = [held EXCEPT ![c] = Absent]
        /\ pc[c] \notin Busy
    BY <1>1 DEF Begin, Goto, Hold
  <2>2. SeenStatus' = [SeenStatus EXCEPT ![c] = "busy"]
    BY <2>1, StatusValues DEF SeenStatus, Busy, TypeOK
  <2>3. SeenAnswer' = [SeenAnswer EXCEPT ![c] = Absent]
    BY <2>1 DEF SeenAnswer, TypeOK
  <2>4. SeenStatus[c] # "busy"
    BY <2>1, StatusValues DEF SeenStatus, TypeOK, PC
  <2>5. Service!Ask(c, r)
    BY <2>1, <2>2, <2>3, <2>4 DEF Service!Ask
  <2>6. QED
    BY <2>5 DEF Service!Next
<1>2. ASSUME NEW c \in Callers, Advance(c)
     PROVE  [Service!Next]_Service!vars
  <2>1. SeenReturn(c) => Service!Next
    BY DEF SeenReturn, Service!Next, Service!Answer
  <2>2. SeenRaise(c) => Service!Next
    BY DEF SeenRaise, Service!Next, Service!Fail
  <2>3. SeenNothing => UNCHANGED Service!vars
    BY DEF SeenNothing, Service!vars
  <2> SUFFICES SeenReturn(c) \/ SeenRaise(c) \/ SeenNothing
    BY <2>1, <2>2, <2>3
  <2>0. CASE MissVersion(c)
    BY <2>0, WorkUnseen DEF MissVersion, Busy
  <2>4. CASE ProbeVersion(c)
    BY <2>4, WorkUnseen DEF ProbeVersion, Busy
  <2>5. CASE NoCacheEntry(c)
    BY <2>5, WorkUnseen DEF NoCacheEntry, Busy
  <2>6. CASE LookUp(c)
    <3>1. CASE cache[KeyOf[req[c]]] \in Books
      <4>1. cache[KeyOf[req[c]]] = Own(req[c])
        BY <2>6, <3>1 DEF LookUp, CacheSound, OwnEntryInv
      <4>2. QED
        BY <2>6, <3>1, <4>1, ReturnSeen DEF LookUp, Busy
    <3>2. CASE cache[KeyOf[req[c]]] \notin Books
      BY <2>6, <3>2, WorkUnseen DEF LookUp, Busy
    <3>3. QED
      BY <3>1, <3>2
  <2>7. CASE CopyTemplate(c)
    BY <2>7, WorkUnseen DEF CopyTemplate, Busy
  <2>8. CASE LoadWorkbook(c)
    BY <2>8, WorkUnseen, RaiseSeen DEF LoadWorkbook, Busy, Hold, TypeOK
  <2>9. CASE SaveInputs(c)
    BY <2>9, WorkUnseen DEF SaveInputs, Busy
  <2>10. CASE LaunchSoffice(c)
    BY <2>10, WorkUnseen DEF LaunchSoffice, Busy, Hold, TypeOK
  <2>11. CASE SofficeExitsZero(c)
    BY <2>11, WorkUnseen DEF SofficeExitsZero, Busy
  <2>12. CASE SofficeFails(c)
    BY <2>12, RaiseSeen DEF SofficeFails, Busy
  <2>13. CASE CheckOutput(c)
    BY <2>13, WorkUnseen, RaiseSeen DEF CheckOutput, Busy
  <2>14. CASE ReadOutputs(c)
    <3>1. CASE recalculated[DirOf[c]] \notin Books
      BY <2>14, <3>1, RaiseSeen DEF ReadOutputs, Busy
    <3>2. CASE recalculated[DirOf[c]] \in Books /\ entry[c] = NoEntry
      <4>1. recalculated[DirOf[c]] = Own(req[c])
        BY <2>14, <3>2, NullAssumption DEF ReadOutputs, OwnBookInv
      <4>2. QED
        BY <2>14, <3>2, <4>1, ReturnSeen DEF ReadOutputs, Busy
    <3>3. CASE recalculated[DirOf[c]] \in Books /\ entry[c] # NoEntry
      BY <2>14, <3>3, WorkUnseen DEF ReadOutputs, Busy, Hold, TypeOK
    <3>4. QED
      BY <3>1, <3>2, <3>3
  <2>15. CASE StoreAnswer(c)
    <3>1. held[c] = Own(req[c])
      BY <2>15 DEF StoreAnswer, OwnBookInv
    <3>2. Hold(c, Own(req[c]))
      BY <2>15, <3>1 DEF StoreAnswer, Hold, TypeOK
    <3>3. QED
      BY <2>15, <3>2, ReturnSeen DEF StoreAnswer, Busy
  <2>16. QED
    BY <1>2, <2>0, <2>4, <2>5, <2>6, <2>7, <2>8, <2>9, <2>10, <2>11, <2>12, <2>13,
       <2>14, <2>15 DEF Advance
<1>3. ASSUME NEW p \in Processes, Crash(p)
     PROVE  Service!Next
  <2> DEFINE Dead == {c \in Callers : ProcessOf[c] = p}
  <2>1. /\ pc' = [c \in Callers |-> IF c \in Dead THEN "idle" ELSE pc[c]]
        /\ held' = [c \in Callers |-> IF c \in Dead THEN Absent ELSE held[c]]
        /\ req' = req
    BY <1>3 DEF Crash
  <2>2. SeenStatus' = [c \in Callers |-> IF c \in Dead THEN "idle" ELSE SeenStatus[c]]
    BY <2>1, StatusValues DEF SeenStatus
  <2>3. SeenAnswer' = [c \in Callers |-> IF c \in Dead THEN Absent ELSE SeenAnswer[c]]
    BY <2>1 DEF SeenAnswer
  <2>4. Dead \in SUBSET Callers
    OBVIOUS
  <2>5. Service!Die(Dead)
    BY <2>1, <2>2, <2>3 DEF Service!Die
  <2>6. QED
    BY <2>4, <2>5 DEF Service!Next
<1>4. ASSUME NEW k \in Keys, DamageEntry(k)
     PROVE  UNCHANGED Service!vars
  BY <1>4 DEF DamageEntry, SeenStatus, SeenAnswer, Service!vars
<1>5. CASE UNCHANGED vars
  BY <1>5 DEF vars, SeenStatus, SeenAnswer, Service!vars
<1>6. QED
  BY <1>1, <1>2, <1>3, <1>4, <1>5 DEF Next

\* The engine implements AnswerService: from outside, a compute only ever
\* answers for its own request, raises, or dies with its process.
THEOREM ImplementsService == ASSUME Sheltered PROVE Spec => ServiceSpec
<1>1. Init => Service!Init
  BY StatusValues DEF Init, Service!Init, SeenStatus, SeenAnswer
<1>2. IInv /\ [Next]_vars => [Service!Next]_Service!vars
  BY ServiceStep
<1>3. QED
  BY <1>1, <1>2, Invariance, PTL DEF Spec, ServiceSpec, Service!Spec

=============================================================================
