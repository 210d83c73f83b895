--------------------------- MODULE ReloadIPC_proofs ---------------------------
(* Proofs about ReloadIPC, for every set of clients and every bound, and about
   ShmLock, the lock below it, for every set of processes and of values. *)
EXTENDS ReloadIPC, ShmLock, TLAPS

LEMMA ServersFact == Vuurmuur \in Servers /\ Log \in Servers /\ Vuurmuur # Log
BY DEF Servers, Vuurmuur, Log

(* Moving on to the next daemon or the next round keeps the client in place. *)
LEMMA AdvanceType ==
    ASSUME cpc \in [Clients -> ClientPCs], cur \in [Clients -> Servers],
           NEW c \in Clients, NEW pc \in {"post", "poll"}, NEW r, Advance(c, pc, r)
    PROVE  cpc' \in [Clients -> ClientPCs] /\ cur' \in [Clients -> Servers]
BY ServersFact DEF Advance, ClientPCs

(* The initial states are well typed. *)
LEMMA InitTypeOK == Init => TypeOK
<1> SUFFICES ASSUME Init PROVE TypeOK
  OBVIOUS
<1> USE ReloadAssumption, ServersFact DEF Init
<1>1. /\ sem \in [Servers -> {"free", "held", "gone"}]
      /\ spc \in [Servers -> ServerPCs]
  BY DEF ServerPCs
<1>2. /\ result \in [Servers -> Results]
      /\ progress \in [Servers -> Progress]
  BY DEF Results, Progress
<1>3. /\ changed \in [Servers -> BOOLEAN]
      /\ reloadShm \in [Servers -> BOOLEAN]
      /\ hup \in [Servers -> BOOLEAN]
      /\ reloadDyn \in BOOLEAN
      /\ ok \in [Servers -> BOOLEAN]
      /\ hupOwed \in [Servers -> BOOLEAN]
  OBVIOUS
<1>4. /\ seen \in [Servers -> Versions]
      /\ applied \in [Servers -> Versions]
      /\ posted \in [Servers -> Versions]
      /\ backend \in Versions
      /\ events \in 0..MaxEvents
      /\ want \in [Clients -> Versions]
  BY DEF Versions
<1>5. /\ cpc \in [Clients -> ClientPCs]
      /\ cur \in [Clients -> Servers]
      /\ att \in [Clients -> SUBSET Servers]
      /\ bad \in [Clients -> SUBSET Servers]
  BY DEF ClientPCs
<1>6. /\ cres \in [Clients -> [Servers -> Results]]
      /\ cprog \in [Clients -> [Servers -> Progress]]
  BY DEF Results, Progress
<1> QED
  BY <1>1, <1>2, <1>3, <1>4, <1>5, <1>6 DEF TypeOK

(* Every step keeps the types. *)
LEMMA StepTypeOK == TypeOK /\ [Next]_vars => TypeOK'
<1> SUFFICES ASSUME TypeOK, [Next]_vars PROVE TypeOK'
  OBVIOUS
<1> USE ReloadAssumption, ServersFact
    DEF TypeOK, Versions, shm, local, history, client, Goto
<1>1. ASSUME NEW s \in Servers, Main(s) PROVE TypeOK'
  BY <1>1 DEF Main, Take, CheckDynamic, MustReload, CanLock, ServerPCs, Results, Ready, Succes, Error, Progress, Partway
<1>2. ASSUME NEW s \in Servers, Begin(s) PROVE TypeOK'
  BY <1>2 DEF Begin, CanLock, ServerPCs, Results, Ready, Succes, Error, Progress, Partway
<1>3. ASSUME NEW s \in Servers, Load(s) PROVE TypeOK'
  BY <1>3 DEF Load, CanLock, ServerPCs, Results, Ready, Succes, Error, Progress, Partway
<1>4. ASSUME NEW s \in Servers, PostResult(s) PROVE TypeOK'
  BY <1>4 DEF PostResult, CanLock, ServerPCs, Results, Ready, Succes, Error, Progress, Partway
<1>5. ASSUME NEW s \in Servers, GotAck(s) PROVE TypeOK'
  BY <1>5 DEF GotAck, ClearResult, CanLock, ServerPCs, Results, Ready, Succes, Error, Progress, Partway
<1>6. ASSUME NEW s \in Servers, GiveUp(s) PROVE TypeOK'
  BY <1>6 DEF GiveUp, ClearResult, CanLock, ServerPCs, Results, Ready, Succes, Error, Progress, Partway
<1>7. ASSUME NEW s \in Servers, Reset(s) PROVE TypeOK'
  BY <1>7 DEF Reset, HupAfterReset, SendsHup, Alive, ServerPCs, Results, Ready, Succes, Error, Progress, Partway
<1>8. ASSUME NEW s \in Servers, Stop(s) PROVE TypeOK'
  BY <1>8 DEF Stop, ForgetServer, ServerPCs, Results, Ready, Succes, Error, Progress, Partway
<1>9. ASSUME NEW s \in Servers, Die(s) PROVE TypeOK'
  BY <1>9 DEF Die, ForgetServer, Alive, ServerPCs, Results, Ready, Succes, Error, Progress, Partway
<1>10. ASSUME NEW s \in Servers, Hup(s) PROVE TypeOK'
  BY <1>10 DEF Hup, ServerPCs, Results, Ready, Succes, Error, Progress, Partway
<1>11. ASSUME NEW c \in Clients, PostChange(c) PROVE TypeOK'
  <2>1. /\ changed' \in [Servers -> BOOLEAN]
        /\ posted' \in [Servers -> Versions]
    BY <1>11 DEF PostChange
  <2>2. cpc' \in [Clients -> ClientPCs] /\ cur' \in [Clients -> Servers]
    BY <1>11, AdvanceType DEF PostChange
  <2> QED
    BY <1>11, <2>1, <2>2 DEF PostChange
<1>12. ASSUME NEW c \in Clients, PostNowhere(c) PROVE TypeOK'
  <2>1. /\ cres' \in [Clients -> [Servers -> Results]]
        /\ cprog' \in [Clients -> [Servers -> Progress]]
    BY <1>12 DEF PostNowhere, Results, Progress
  <2>2. cpc' \in [Clients -> ClientPCs] /\ cur' \in [Clients -> Servers]
    BY <1>12, AdvanceType DEF PostNowhere
  <2> QED
    BY <1>12, <2>1, <2>2 DEF PostNowhere
<1>13. ASSUME NEW c \in Clients, PollRead(c) PROVE TypeOK'
  <2>1. /\ cprog' \in [Clients -> [Servers -> Progress]]
        /\ bad' \in [Clients -> SUBSET Servers]
    BY <1>13 DEF PollRead
  <2>2. cres' \in [Clients -> [Servers -> Results]]
    BY <1>13 DEF PollRead, Results
  <2>3. cpc' \in [Clients -> ClientPCs] /\ cur' \in [Clients -> Servers]
    BY <1>13, AdvanceType DEF PollRead
  <2> QED
    BY <1>13, <2>1, <2>2, <2>3 DEF PollRead
<1>14. ASSUME NEW c \in Clients, PollLockFails(c) PROVE TypeOK'
  <2>1. /\ cres' \in [Clients -> [Servers -> Results]]
        /\ bad' \in [Clients -> SUBSET Servers]
    <3>1. CASE ScriptDropsLog(c, cprog[c][cur[c]])
      <4>1. cres' = [cres EXCEPT ![c][cur[c]] = Ready]
        BY <1>14, <3>1 DEF PollLockFails
      <4>2. bad' = [bad EXCEPT ![c] = @ \cup {cur[c]}]
        BY <1>14, <3>1 DEF PollLockFails
      <4> QED
        BY <4>1, <4>2 DEF Results
    <3>2. CASE ~ScriptDropsLog(c, cprog[c][cur[c]])
      BY <1>14, <3>2 DEF PollLockFails
    <3> QED
      BY <3>1, <3>2
  <2>2. cpc' \in [Clients -> ClientPCs] /\ cur' \in [Clients -> Servers]
    BY <1>14, AdvanceType DEF PollLockFails
  <2> QED
    BY <1>14, <2>1, <2>2 DEF PollLockFails
<1>15. ASSUME NEW c \in Clients, PollAck(c) PROVE TypeOK'
  <2>1. /\ result' \in [Servers -> Results]
        /\ bad' \in [Clients -> SUBSET Servers]
    BY <1>15 DEF PollAck, Results
  <2>2. cres' \in [Clients -> [Servers -> Results]]
    BY <1>15 DEF PollAck, Results
  <2>3. cpc' \in [Clients -> ClientPCs] /\ cur' \in [Clients -> Servers]
    BY <1>15, AdvanceType DEF PollAck
  <2> QED
    BY <1>15, <2>1, <2>2, <2>3 DEF PollAck
<1>16. ASSUME NEW c \in Clients, PollNowhere(c) PROVE TypeOK'
  <2>1. bad' \in [Clients -> SUBSET Servers]
    BY <1>16 DEF PollNowhere
  <2>2. cpc' \in [Clients -> ClientPCs] /\ cur' \in [Clients -> Servers]
    BY <1>16, AdvanceType DEF PollNowhere
  <2> QED
    BY <1>16, <2>1, <2>2 DEF PollNowhere
<1>17. ASSUME NEW c \in Clients, Finish(c) PROVE TypeOK'
  BY <1>17 DEF Finish, ClientPCs, Results, NoResultYet, Ready, Ack, Progress
<1>18. ASSUME NEW c \in Clients, Return(c) PROVE TypeOK'
  BY <1>18 DEF Return, ForgetClient, ClientPCs, Results, NoResultYet, Ready, Ack, Progress
<1>19. ASSUME NEW c \in Clients, Apply(c) PROVE TypeOK'
  BY <1>19 DEF Apply, Attachable, ClientPCs, Results, NoResultYet, Ready, Ack, Progress
<1>20. ASSUME NEW c \in Clients, Refuse(c) PROVE TypeOK'
  BY <1>20 DEF Refuse, ClientPCs, Results, NoResultYet, Ready, Ack, Progress
<1>21. ASSUME NEW c \in Clients, TimeOut(c) PROVE TypeOK'
  BY <1>21 DEF TimeOut, ClientPCs, Results, NoResultYet, Ready, Ack, Progress
<1>22. ASSUME NEW c \in Clients, Killed(c) PROVE TypeOK'
  BY <1>22 DEF Killed, ForgetClient, ClientPCs, Results, NoResultYet, Ready, Ack, Progress
<1>23. CASE UNCHANGED vars
  BY <1>23 DEF vars
<1> QED
  BY <1>1, <1>2, <1>3, <1>4, <1>5, <1>6, <1>7, <1>8, <1>9, <1>10, <1>11,
     <1>12, <1>13, <1>14, <1>15, <1>16, <1>17, <1>18, <1>19, <1>20, <1>21,
     <1>22, <1>23 DEF Next, Server, Client
(* Requests, reloads and successes follow the edits. *)
LEMMA StepVersions == TypeOK /\ VersionsInOrder /\ [Next]_vars => VersionsInOrder'
<1> SUFFICES ASSUME TypeOK /\ VersionsInOrder, [Next]_vars PROVE VersionsInOrder'
  OBVIOUS
<1> USE ServersFact DEF TypeOK, VersionsInOrder, Versions, shm, local, history, client
<1>1. ASSUME NEW s \in Servers, Main(s) PROVE VersionsInOrder'
  BY <1>1 DEF Main
<1>2. ASSUME NEW s \in Servers, Begin(s) PROVE VersionsInOrder'
  BY <1>2 DEF Begin
<1>3. ASSUME NEW s \in Servers, Load(s) PROVE VersionsInOrder'
  BY <1>3 DEF Load
<1>4. ASSUME NEW s \in Servers, PostResult(s) PROVE VersionsInOrder'
  BY <1>4 DEF PostResult
<1>5. ASSUME NEW s \in Servers, GotAck(s) PROVE VersionsInOrder'
  BY <1>5 DEF GotAck
<1>6. ASSUME NEW s \in Servers, GiveUp(s) PROVE VersionsInOrder'
  BY <1>6 DEF GiveUp
<1>7. ASSUME NEW s \in Servers, Reset(s) PROVE VersionsInOrder'
  BY <1>7 DEF Reset
<1>8. ASSUME NEW s \in Servers, Stop(s) PROVE VersionsInOrder'
  BY <1>8 DEF Stop
<1>9. ASSUME NEW s \in Servers, Die(s) PROVE VersionsInOrder'
  BY <1>9 DEF Die
<1>10. ASSUME NEW s \in Servers, Hup(s) PROVE VersionsInOrder'
  BY <1>10 DEF Hup
<1>11. ASSUME NEW c \in Clients, PostChange(c) PROVE VersionsInOrder'
  BY <1>11 DEF PostChange
<1>12. ASSUME NEW c \in Clients, PostNowhere(c) PROVE VersionsInOrder'
  BY <1>12 DEF PostNowhere
<1>13. ASSUME NEW c \in Clients, PollRead(c) PROVE VersionsInOrder'
  BY <1>13 DEF PollRead
<1>14. ASSUME NEW c \in Clients, PollLockFails(c) PROVE VersionsInOrder'
  BY <1>14 DEF PollLockFails
<1>15. ASSUME NEW c \in Clients, PollAck(c) PROVE VersionsInOrder'
  BY <1>15 DEF PollAck
<1>16. ASSUME NEW c \in Clients, PollNowhere(c) PROVE VersionsInOrder'
  BY <1>16 DEF PollNowhere
<1>17. ASSUME NEW c \in Clients, Finish(c) PROVE VersionsInOrder'
  BY <1>17 DEF Finish
<1>18. ASSUME NEW c \in Clients, Return(c) PROVE VersionsInOrder'
  BY <1>18 DEF Return, ForgetClient
<1>19. ASSUME NEW c \in Clients, Apply(c) PROVE VersionsInOrder'
  BY <1>19 DEF Apply
<1>20. ASSUME NEW c \in Clients, Refuse(c) PROVE VersionsInOrder'
  BY <1>20 DEF Refuse
<1>21. ASSUME NEW c \in Clients, TimeOut(c) PROVE VersionsInOrder'
  BY <1>21 DEF TimeOut
<1>22. ASSUME NEW c \in Clients, Killed(c) PROVE VersionsInOrder'
  BY <1>22 DEF Killed, ForgetClient
<1>23. CASE UNCHANGED vars
  BY <1>23 DEF vars
<1> QED
  BY <1>1, <1>2, <1>3, <1>4, <1>5, <1>6, <1>7, <1>8, <1>9, <1>10, <1>11,
     <1>12, <1>13, <1>14, <1>15, <1>16, <1>17, <1>18, <1>19, <1>20, <1>21,
     <1>22, <1>23 DEF Next, Server, Client

(* A request is only dropped by a reload that starts after it. *)
LEMMA StepNoLostRequest == TypeOK /\ VersionsInOrder /\ NoLostRequest /\ [Next]_vars => NoLostRequest'
<1> SUFFICES ASSUME TypeOK /\ VersionsInOrder /\ NoLostRequest, [Next]_vars PROVE NoLostRequest'
  OBVIOUS
<1> USE ServersFact DEF TypeOK, VersionsInOrder, NoLostRequest, Versions, Alive, Goto,
        shm, local, history, client
<1>1. ASSUME NEW s \in Servers, Main(s) PROVE NoLostRequest'
  BY <1>1 DEF Main, Take, MustReload, CheckDynamic
<1>2. ASSUME NEW s \in Servers, Begin(s) PROVE NoLostRequest'
  BY <1>2 DEF Begin
<1>3. ASSUME NEW s \in Servers, Load(s) PROVE NoLostRequest'
  BY <1>3 DEF Load
<1>4. ASSUME NEW s \in Servers, PostResult(s) PROVE NoLostRequest'
  BY <1>4 DEF PostResult
<1>5. ASSUME NEW s \in Servers, GotAck(s) PROVE NoLostRequest'
  BY <1>5 DEF GotAck
<1>6. ASSUME NEW s \in Servers, GiveUp(s) PROVE NoLostRequest'
  BY <1>6 DEF GiveUp
<1>7. ASSUME NEW s \in Servers, Reset(s) PROVE NoLostRequest'
  BY <1>7 DEF Reset
<1>8. ASSUME NEW s \in Servers, Stop(s) PROVE NoLostRequest'
  BY <1>8 DEF Stop, ForgetServer
<1>9. ASSUME NEW s \in Servers, Die(s) PROVE NoLostRequest'
  BY <1>9 DEF Die, ForgetServer
<1>10. ASSUME NEW s \in Servers, Hup(s) PROVE NoLostRequest'
  BY <1>10 DEF Hup
<1>11. ASSUME NEW c \in Clients, PostChange(c) PROVE NoLostRequest'
  BY <1>11 DEF PostChange
<1>12. ASSUME NEW c \in Clients, PostNowhere(c) PROVE NoLostRequest'
  BY <1>12 DEF PostNowhere
<1>13. ASSUME NEW c \in Clients, PollRead(c) PROVE NoLostRequest'
  BY <1>13 DEF PollRead
<1>14. ASSUME NEW c \in Clients, PollLockFails(c) PROVE NoLostRequest'
  BY <1>14 DEF PollLockFails
<1>15. ASSUME NEW c \in Clients, PollAck(c) PROVE NoLostRequest'
  BY <1>15 DEF PollAck
<1>16. ASSUME NEW c \in Clients, PollNowhere(c) PROVE NoLostRequest'
  BY <1>16 DEF PollNowhere
<1>17. ASSUME NEW c \in Clients, Finish(c) PROVE NoLostRequest'
  BY <1>17 DEF Finish
<1>18. ASSUME NEW c \in Clients, Return(c) PROVE NoLostRequest'
  BY <1>18 DEF Return
<1>19. ASSUME NEW c \in Clients, Apply(c) PROVE NoLostRequest'
  BY <1>19 DEF Apply
<1>20. ASSUME NEW c \in Clients, Refuse(c) PROVE NoLostRequest'
  BY <1>20 DEF Refuse
<1>21. ASSUME NEW c \in Clients, TimeOut(c) PROVE NoLostRequest'
  BY <1>21 DEF TimeOut
<1>22. ASSUME NEW c \in Clients, Killed(c) PROVE NoLostRequest'
  BY <1>22 DEF Killed
<1>23. CASE UNCHANGED vars
  BY <1>23 DEF vars
<1> QED
  BY <1>1, <1>2, <1>3, <1>4, <1>5, <1>6, <1>7, <1>8, <1>9, <1>10, <1>11,
     <1>12, <1>13, <1>14, <1>15, <1>16, <1>17, <1>18, <1>19, <1>20, <1>21,
     <1>22, <1>23 DEF Next, Server, Client

(* Result and 100% are published and withdrawn together. *)
LEMMA StepResult == TypeOK /\ ResultOnlyWhileWaiting /\ [Next]_vars => ResultOnlyWhileWaiting'
<1> SUFFICES ASSUME TypeOK /\ ResultOnlyWhileWaiting, [Next]_vars PROVE ResultOnlyWhileWaiting'
  OBVIOUS
<1> USE ServersFact DEF TypeOK, ResultOnlyWhileWaiting, Goto, Succes, Error, shm, local,
        history, client
<1>1. ASSUME NEW s \in Servers, Main(s) PROVE ResultOnlyWhileWaiting'
  BY <1>1 DEF Main, Take, CheckDynamic
<1>2. ASSUME NEW s \in Servers, Begin(s) PROVE ResultOnlyWhileWaiting'
  BY <1>2 DEF Begin, Partway
<1>3. ASSUME NEW s \in Servers, Load(s) PROVE ResultOnlyWhileWaiting'
  BY <1>3 DEF Load
<1>4. ASSUME NEW s \in Servers, PostResult(s) PROVE ResultOnlyWhileWaiting'
  BY <1>4 DEF PostResult
<1>5. ASSUME NEW s \in Servers, GotAck(s) PROVE ResultOnlyWhileWaiting'
  BY <1>5 DEF GotAck, ClearResult, Ready
<1>6. ASSUME NEW s \in Servers, GiveUp(s) PROVE ResultOnlyWhileWaiting'
  BY <1>6 DEF GiveUp, ClearResult, Ready
<1>7. ASSUME NEW s \in Servers, Reset(s) PROVE ResultOnlyWhileWaiting'
  BY <1>7 DEF Reset
<1>8. ASSUME NEW s \in Servers, Stop(s) PROVE ResultOnlyWhileWaiting'
  BY <1>8 DEF Stop, ForgetServer
<1>9. ASSUME NEW s \in Servers, Die(s) PROVE ResultOnlyWhileWaiting'
  BY <1>9 DEF Die, ForgetServer
<1>10. ASSUME NEW s \in Servers, Hup(s) PROVE ResultOnlyWhileWaiting'
  BY <1>10 DEF Hup
<1>11. ASSUME NEW c \in Clients, PostChange(c) PROVE ResultOnlyWhileWaiting'
  BY <1>11 DEF PostChange
<1>12. ASSUME NEW c \in Clients, PostNowhere(c) PROVE ResultOnlyWhileWaiting'
  BY <1>12 DEF PostNowhere
<1>13. ASSUME NEW c \in Clients, PollRead(c) PROVE ResultOnlyWhileWaiting'
  BY <1>13 DEF PollRead
<1>14. ASSUME NEW c \in Clients, PollLockFails(c) PROVE ResultOnlyWhileWaiting'
  BY <1>14 DEF PollLockFails
<1>15. ASSUME NEW c \in Clients, PollAck(c) PROVE ResultOnlyWhileWaiting'
  BY <1>15 DEF PollAck, Ack
<1>16. ASSUME NEW c \in Clients, PollNowhere(c) PROVE ResultOnlyWhileWaiting'
  BY <1>16 DEF PollNowhere
<1>17. ASSUME NEW c \in Clients, Finish(c) PROVE ResultOnlyWhileWaiting'
  BY <1>17 DEF Finish
<1>18. ASSUME NEW c \in Clients, Return(c) PROVE ResultOnlyWhileWaiting'
  BY <1>18 DEF Return
<1>19. ASSUME NEW c \in Clients, Apply(c) PROVE ResultOnlyWhileWaiting'
  BY <1>19 DEF Apply
<1>20. ASSUME NEW c \in Clients, Refuse(c) PROVE ResultOnlyWhileWaiting'
  BY <1>20 DEF Refuse
<1>21. ASSUME NEW c \in Clients, TimeOut(c) PROVE ResultOnlyWhileWaiting'
  BY <1>21 DEF TimeOut
<1>22. ASSUME NEW c \in Clients, Killed(c) PROVE ResultOnlyWhileWaiting'
  BY <1>22 DEF Killed
<1>23. CASE UNCHANGED vars
  BY <1>23 DEF vars
<1> QED
  BY <1>1, <1>2, <1>3, <1>4, <1>5, <1>6, <1>7, <1>8, <1>9, <1>10, <1>11,
     <1>12, <1>13, <1>14, <1>15, <1>16, <1>17, <1>18, <1>19, <1>20, <1>21,
     <1>22, <1>23 DEF Next, Server, Client

(* A client only keeps an outcome it read together with 100%. *)
LEMMA StepOutcome == TypeOK /\ ResultOnlyWhileWaiting /\ OutcomeIsComplete /\ [Next]_vars => OutcomeIsComplete'
<1> SUFFICES ASSUME TypeOK /\ ResultOnlyWhileWaiting /\ OutcomeIsComplete, [Next]_vars PROVE OutcomeIsComplete'
  OBVIOUS
<1> USE ServersFact DEF TypeOK, ResultOnlyWhileWaiting, OutcomeIsComplete, Succes,
        Error, Ready, NoResultYet, shm, local, history, client
<1>1. ASSUME NEW s \in Servers, Main(s) PROVE OutcomeIsComplete'
  BY <1>1 DEF Main, CheckDynamic
<1>2. ASSUME NEW s \in Servers, Begin(s) PROVE OutcomeIsComplete'
  BY <1>2 DEF Begin
<1>3. ASSUME NEW s \in Servers, Load(s) PROVE OutcomeIsComplete'
  BY <1>3 DEF Load
<1>4. ASSUME NEW s \in Servers, PostResult(s) PROVE OutcomeIsComplete'
  BY <1>4 DEF PostResult
<1>5. ASSUME NEW s \in Servers, GotAck(s) PROVE OutcomeIsComplete'
  BY <1>5 DEF GotAck
<1>6. ASSUME NEW s \in Servers, GiveUp(s) PROVE OutcomeIsComplete'
  BY <1>6 DEF GiveUp
<1>7. ASSUME NEW s \in Servers, Reset(s) PROVE OutcomeIsComplete'
  BY <1>7 DEF Reset
<1>8. ASSUME NEW s \in Servers, Stop(s) PROVE OutcomeIsComplete'
  BY <1>8 DEF Stop
<1>9. ASSUME NEW s \in Servers, Die(s) PROVE OutcomeIsComplete'
  BY <1>9 DEF Die
<1>10. ASSUME NEW s \in Servers, Hup(s) PROVE OutcomeIsComplete'
  BY <1>10 DEF Hup
<1>11. ASSUME NEW c \in Clients, PostChange(c) PROVE OutcomeIsComplete'
  BY <1>11 DEF PostChange
<1>12. ASSUME NEW c \in Clients, PostNowhere(c) PROVE OutcomeIsComplete'
  BY <1>12 DEF PostNowhere
<1>13. ASSUME NEW c \in Clients, PollRead(c) PROVE OutcomeIsComplete'
  BY <1>13 DEF PollRead
<1>14. ASSUME NEW c \in Clients, PollLockFails(c) PROVE OutcomeIsComplete'
  <2>1. UNCHANGED cprog
    BY <1>14 DEF PollLockFails
  <2>2. CASE ScriptDropsLog(c, cprog[c][cur[c]])
    <3>1. cres' = [cres EXCEPT ![c][cur[c]] = Ready]
      BY <1>14, <2>2 DEF PollLockFails
    <3> QED
      BY <2>1, <3>1
  <2>3. CASE ~ScriptDropsLog(c, cprog[c][cur[c]])
    BY <1>14, <2>1, <2>3 DEF PollLockFails
  <2> QED
    BY <2>2, <2>3
<1>15. ASSUME NEW c \in Clients, PollAck(c) PROVE OutcomeIsComplete'
  BY <1>15 DEF PollAck
<1>16. ASSUME NEW c \in Clients, PollNowhere(c) PROVE OutcomeIsComplete'
  BY <1>16 DEF PollNowhere
<1>17. ASSUME NEW c \in Clients, Finish(c) PROVE OutcomeIsComplete'
  BY <1>17 DEF Finish
<1>18. ASSUME NEW c \in Clients, Return(c) PROVE OutcomeIsComplete'
  BY <1>18 DEF Return, ForgetClient
<1>19. ASSUME NEW c \in Clients, Apply(c) PROVE OutcomeIsComplete'
  BY <1>19 DEF Apply
<1>20. ASSUME NEW c \in Clients, Refuse(c) PROVE OutcomeIsComplete'
  BY <1>20 DEF Refuse
<1>21. ASSUME NEW c \in Clients, TimeOut(c) PROVE OutcomeIsComplete'
  BY <1>21 DEF TimeOut
<1>22. ASSUME NEW c \in Clients, Killed(c) PROVE OutcomeIsComplete'
  BY <1>22 DEF Killed, ForgetClient
<1>23. CASE UNCHANGED vars
  BY <1>23 DEF vars
<1> QED
  BY <1>1, <1>2, <1>3, <1>4, <1>5, <1>6, <1>7, <1>8, <1>9, <1>10, <1>11,
     <1>12, <1>13, <1>14, <1>15, <1>16, <1>17, <1>18, <1>19, <1>20, <1>21,
     <1>22, <1>23 DEF Next, Server, Client

(* vuurmuur_log clears the signal only when a reload starts. *)
LEMMA StepLogHup == TypeOK /\ LogHearsHup /\ [Next]_vars => LogHearsHup'
<1> SUFFICES ASSUME TypeOK /\ LogHearsHup, [Next]_vars PROVE LogHearsHup'
  OBVIOUS
<1> USE ServersFact DEF TypeOK, LogHearsHup, NoLostHup, Alive, Goto, shm, local, history, client
<1>1. ASSUME NEW s \in Servers, Main(s) PROVE LogHearsHup'
  BY <1>1 DEF Main, CheckDynamic
<1>2. ASSUME NEW s \in Servers, Begin(s) PROVE LogHearsHup'
  BY <1>2 DEF Begin
<1>3. ASSUME NEW s \in Servers, Load(s) PROVE LogHearsHup'
  BY <1>3 DEF Load
<1>4. ASSUME NEW s \in Servers, PostResult(s) PROVE LogHearsHup'
  BY <1>4 DEF PostResult
<1>5. ASSUME NEW s \in Servers, GotAck(s) PROVE LogHearsHup'
  BY <1>5 DEF GotAck
<1>6. ASSUME NEW s \in Servers, GiveUp(s) PROVE LogHearsHup'
  BY <1>6 DEF GiveUp
<1>7. ASSUME NEW s \in Servers, Reset(s) PROVE LogHearsHup'
  BY <1>7 DEF Reset, HupAfterReset, SendsHup
<1>8. ASSUME NEW s \in Servers, Stop(s) PROVE LogHearsHup'
  BY <1>8 DEF Stop, ForgetServer
<1>9. ASSUME NEW s \in Servers, Die(s) PROVE LogHearsHup'
  BY <1>9 DEF Die, ForgetServer
<1>10. ASSUME NEW s \in Servers, Hup(s) PROVE LogHearsHup'
  BY <1>10 DEF Hup
<1>11. ASSUME NEW c \in Clients, PostChange(c) PROVE LogHearsHup'
  BY <1>11 DEF PostChange
<1>12. ASSUME NEW c \in Clients, PostNowhere(c) PROVE LogHearsHup'
  BY <1>12 DEF PostNowhere
<1>13. ASSUME NEW c \in Clients, PollRead(c) PROVE LogHearsHup'
  BY <1>13 DEF PollRead
<1>14. ASSUME NEW c \in Clients, PollLockFails(c) PROVE LogHearsHup'
  BY <1>14 DEF PollLockFails
<1>15. ASSUME NEW c \in Clients, PollAck(c) PROVE LogHearsHup'
  BY <1>15 DEF PollAck
<1>16. ASSUME NEW c \in Clients, PollNowhere(c) PROVE LogHearsHup'
  BY <1>16 DEF PollNowhere
<1>17. ASSUME NEW c \in Clients, Finish(c) PROVE LogHearsHup'
  BY <1>17 DEF Finish
<1>18. ASSUME NEW c \in Clients, Return(c) PROVE LogHearsHup'
  BY <1>18 DEF Return
<1>19. ASSUME NEW c \in Clients, Apply(c) PROVE LogHearsHup'
  BY <1>19 DEF Apply
<1>20. ASSUME NEW c \in Clients, Refuse(c) PROVE LogHearsHup'
  BY <1>20 DEF Refuse
<1>21. ASSUME NEW c \in Clients, TimeOut(c) PROVE LogHearsHup'
  BY <1>21 DEF TimeOut
<1>22. ASSUME NEW c \in Clients, Killed(c) PROVE LogHearsHup'
  BY <1>22 DEF Killed
<1>23. CASE UNCHANGED vars
  BY <1>23 DEF vars
<1> QED
  BY <1>1, <1>2, <1>3, <1>4, <1>5, <1>6, <1>7, <1>8, <1>9, <1>10, <1>11,
     <1>12, <1>13, <1>14, <1>15, <1>16, <1>17, <1>18, <1>19, <1>20, <1>21,
     <1>22, <1>23 DEF Next, Server, Client

(* The inductive invariant: the parts above hold together. *)
LEMMA InitIInv == Init => IInv
<1> SUFFICES ASSUME Init PROVE IInv
  OBVIOUS
<1> USE ServersFact, ReloadAssumption DEF Init
<1>1. TypeOK
  BY InitTypeOK
<1>2. VersionsInOrder
  BY DEF VersionsInOrder
<1>3. NoLostRequest
  BY DEF NoLostRequest
<1>4. ResultOnlyWhileWaiting /\ OutcomeIsComplete
  BY DEF ResultOnlyWhileWaiting, OutcomeIsComplete, Ready, NoResultYet, Succes, Error
<1>5. LogHearsHup
  BY DEF LogHearsHup, NoLostHup
<1> QED
  BY <1>1, <1>2, <1>3, <1>4, <1>5 DEF IInv

LEMMA StepIInv == IInv /\ [Next]_vars => IInv'
BY StepTypeOK, StepVersions, StepNoLostRequest, StepResult, StepOutcome, StepLogHup
   DEF IInv

LEMMA InvariantHolds == Spec => []IInv
BY InitIInv, StepIInv, PTL DEF Spec

(* Type correctness of the reload protocol. *)
THEOREM TypeTheorem == Spec => []TypeOK
<1>1. IInv => TypeOK
  BY DEF IInv
<1> QED
  BY <1>1, InvariantHolds, PTL

(* A change that was posted to a daemon is never forgotten while it is up. *)
THEOREM NoLostRequestTheorem == Spec => []NoLostRequest
<1>1. IInv => NoLostRequest
  BY DEF IInv
<1> QED
  BY <1>1, InvariantHolds, PTL

(* A result stands in the table only with 100%, and 100% only while the daemon
   waits for the acknowledgement or died waiting. *)
THEOREM ResultTheorem == Spec => []ResultOnlyWhileWaiting
<1>1. IInv => ResultOnlyWhileWaiting
  BY DEF IInv
<1> QED
  BY <1>1, InvariantHolds, PTL

(* No tool keeps the outcome of a reload that is still under way. *)
THEOREM OutcomeTheorem == Spec => []OutcomeIsComplete
<1>1. IInv => OutcomeIsComplete
  BY DEF IInv
<1> QED
  BY <1>1, InvariantHolds, PTL

(* vuurmuur_log answers every SIGHUP by a reload that starts after it. *)
THEOREM LogHupTheorem == Spec => []LogHearsHup
<1>1. IInv => LogHearsHup
  BY DEF IInv
<1> QED
  BY <1>1, InvariantHolds, PTL

(* What a step means for the service of one daemon. *)
ServiceStep(t) ==
    \/ /\ posted'[t] = posted[t] /\ seen'[t] = seen[t]
       /\ Alive(t)' => Alive(t)
    \/ /\ posted'[t] \in (posted[t] + 1)..MaxEdits
       /\ seen'[t] = seen[t] /\ spc'[t] = spc[t]
    \/ /\ Alive(t) /\ Alive(t)'
       /\ seen'[t] \in seen[t]..MaxEdits /\ seen'[t] >= posted[t]
       /\ posted'[t] = posted[t]

(* Every step of the protocol is one of the service, or none, for each daemon:
   PostChange is Ask, Begin is Serve, and Stop, Die and a failed Load of
   vuurmuur_log are GoAway. *)
LEMMA StepService ==
    ASSUME IInv, [Next]_vars, NEW t \in Servers
    PROVE  ServiceStep(t)
<1> USE ServersFact
    DEF IInv, TypeOK, VersionsInOrder, ServiceStep, Versions, Alive, Goto, shm,
        local, history, client
<1>1. ASSUME NEW s \in Servers, Main(s) PROVE ServiceStep(t)
  BY <1>1 DEF Main
<1>2. ASSUME NEW s \in Servers, Begin(s) PROVE ServiceStep(t)
  BY <1>2 DEF Begin
<1>3. ASSUME NEW s \in Servers, Load(s) PROVE ServiceStep(t)
  BY <1>3 DEF Load
<1>4. ASSUME NEW s \in Servers, PostResult(s) PROVE ServiceStep(t)
  BY <1>4 DEF PostResult
<1>5. ASSUME NEW s \in Servers, GotAck(s) PROVE ServiceStep(t)
  BY <1>5 DEF GotAck
<1>6. ASSUME NEW s \in Servers, GiveUp(s) PROVE ServiceStep(t)
  BY <1>6 DEF GiveUp
<1>7. ASSUME NEW s \in Servers, Reset(s) PROVE ServiceStep(t)
  BY <1>7 DEF Reset
<1>8. ASSUME NEW s \in Servers, Stop(s) PROVE ServiceStep(t)
  BY <1>8 DEF Stop, ForgetServer
<1>9. ASSUME NEW s \in Servers, Die(s) PROVE ServiceStep(t)
  BY <1>9 DEF Die, ForgetServer
<1>10. ASSUME NEW s \in Servers, Hup(s) PROVE ServiceStep(t)
  BY <1>10 DEF Hup
<1>11. ASSUME NEW c \in Clients, PostChange(c) PROVE ServiceStep(t)
  BY <1>11 DEF PostChange, Versions
<1>12. ASSUME NEW c \in Clients, PostNowhere(c) PROVE ServiceStep(t)
  BY <1>12 DEF PostNowhere
<1>13. ASSUME NEW c \in Clients, PollRead(c) PROVE ServiceStep(t)
  BY <1>13 DEF PollRead
<1>14. ASSUME NEW c \in Clients, PollLockFails(c) PROVE ServiceStep(t)
  BY <1>14 DEF PollLockFails
<1>15. ASSUME NEW c \in Clients, PollAck(c) PROVE ServiceStep(t)
  BY <1>15 DEF PollAck
<1>16. ASSUME NEW c \in Clients, PollNowhere(c) PROVE ServiceStep(t)
  BY <1>16 DEF PollNowhere
<1>17. ASSUME NEW c \in Clients, Finish(c) PROVE ServiceStep(t)
  BY <1>17 DEF Finish
<1>18. ASSUME NEW c \in Clients, Return(c) PROVE ServiceStep(t)
  BY <1>18 DEF Return
<1>19. ASSUME NEW c \in Clients, Apply(c) PROVE ServiceStep(t)
  BY <1>19 DEF Apply
<1>20. ASSUME NEW c \in Clients, Refuse(c) PROVE ServiceStep(t)
  BY <1>20 DEF Refuse
<1>21. ASSUME NEW c \in Clients, TimeOut(c) PROVE ServiceStep(t)
  BY <1>21 DEF TimeOut
<1>22. ASSUME NEW c \in Clients, Killed(c) PROVE ServiceStep(t)
  <2>1. posted' = posted /\ seen' = seen /\ spc' = spc
    BY <1>22 DEF Killed
  <2> QED
    BY <2>1
<1>23. CASE UNCHANGED vars
  BY <1>23 DEF vars
<1> QED
  BY <1>1, <1>2, <1>3, <1>4, <1>5, <1>6, <1>7, <1>8, <1>9, <1>10, <1>11,
     <1>12, <1>13, <1>14, <1>15, <1>16, <1>17, <1>18, <1>19, <1>20, <1>21,
     <1>22, <1>23 DEF Next, Server, Client

(* vuurmuur implements the safety part of the service: what was asked for is
   covered by the reloads, and nothing else happens to a request. *)
THEOREM VuurmuurServiceTheorem ==
    Spec => VuurmuurService!Init /\ [][VuurmuurService!Next]_(VuurmuurService!vars)
<1>1. Init => VuurmuurService!Init
  BY ServersFact DEF Init, VuurmuurService!Init, Alive
<1>2. IInv /\ [Next]_vars => [VuurmuurService!Next]_(VuurmuurService!vars)
  <2> SUFFICES ASSUME IInv, [Next]_vars PROVE [VuurmuurService!Next]_(VuurmuurService!vars)
    OBVIOUS
  <2>1. ServiceStep(Vuurmuur)
    BY StepService, ServersFact
  <2> QED
    BY <2>1 DEF ServiceStep, Alive, VuurmuurService!Next, VuurmuurService!Ask, VuurmuurService!Serve, VuurmuurService!GoAway,
       VuurmuurService!vars
<1> QED
  BY <1>1, <1>2, InvariantHolds, PTL DEF Spec

(* vuurmuur_log implements the safety part of the service: what was asked for is
   covered by the reloads, and nothing else happens to a request. *)
THEOREM LogServiceTheorem ==
    Spec => LogService!Init /\ [][LogService!Next]_(LogService!vars)
<1>1. Init => LogService!Init
  BY ServersFact DEF Init, LogService!Init, Alive
<1>2. IInv /\ [Next]_vars => [LogService!Next]_(LogService!vars)
  <2> SUFFICES ASSUME IInv, [Next]_vars PROVE [LogService!Next]_(LogService!vars)
    OBVIOUS
  <2>1. ServiceStep(Log)
    BY StepService, ServersFact
  <2> QED
    BY <2>1 DEF ServiceStep, Alive, LogService!Next, LogService!Ask, LogService!Serve, LogService!GoAway,
       LogService!vars
<1> QED
  BY <1>1, <1>2, InvariantHolds, PTL DEF Spec

-----------------------------------------------------------------------------
(* One tool alone, a vuurmuur_conf that waits as long as it takes: what it  *)
(* is told is the answer to what it asked for.  Two tools read each other's *)
(* answers, one that gives up reads the answer to its last request later,   *)
(* and vuurmuur_script mistakes a daemon that is not there for one that is. *)

Alone(c) == Clients = {c} /\ Patient = {c} /\ Scripts = {}

Delivered   == {Succes, Error}
Answered(s) == result[s] \in Delivered

(* A request is being served, and no result was published for it yet. *)
UnderWay(s) == reloadShm[s] /\ spc[s] \in {"begin", "load", "post"}
Idle(s)     == ~changed[s] /\ ~UnderWay(s)

(* Only a daemon that stopped has no semaphore, and only a reload that      *)
(* somebody asked for publishes its result.                                *)
PlaceInv ==
    \A s \in Servers : /\ sem[s] = "gone" <=> spc[s] = "down"
                       /\ spc[s] = "post" => reloadShm[s]

(* The tool waits for nothing from this daemon. *)
Unasked(c, s) ==
    \/ cpc[c] \in {"idle", "refused", "finish", "done"}
    \/ cpc[c] = "post" /\ ~(s = Vuurmuur /\ cur[c] = Log)
    \/ cpc[c] \in {"post", "poll"} /\ s \notin att[c]

(* Then the daemon has nothing left of it, and no answer that stands for a *)
(* next request to find.                                                   *)
RestInv(c) == \A s \in Servers : Unasked(c, s) => Idle(s) /\ ~Answered(s)

(* A request is answered once, by a reload that started after it. *)
CoverInv(c) ==
    cpc[c] \in {"post", "poll"} =>
        \A s \in Servers :
            /\ UnderWay(s) \/ Answered(s) => ~changed[s]
            /\ UnderWay(s) /\ spc[s] = "load" => seen[s] >= want[c]
            /\ UnderWay(s) /\ spc[s] = "post" /\ ok[s] => applied[s] >= want[c]
            /\ result[s] = Succes => applied[s] >= want[c]

(* An outcome that the tool keeps is that answer, and the tool does not go *)
(* on to the other daemon before it acknowledged it.                       *)
KeptInv(c) ==
    cpc[c] \in {"post", "poll", "finish", "done"} =>
        \A s \in Servers :
            /\ cpc[c] = "post" => cres[c][s] \in {NoResultYet, Ready}
            /\ cres[c][s] \in Delivered =>
                  Idle(s) /\ (Answered(s) => cpc[c] = "poll" /\ cur[c] = s)
            /\ cres[c][s] = Succes => applied[s] >= want[c]
            /\ cres[c][s] = Ready => s \notin att[c]

ToolInv(c) == PlaceInv /\ RestInv(c) /\ CoverInv(c) /\ KeptInv(c)

(* A semaphore is removed by the daemon that stops, and results are published on request. *)
LEMMA StepPlace ==
    ASSUME NEW c0, Alone(c0), TypeOK, PlaceInv, [Next]_vars
    PROVE  PlaceInv'
<1> USE ServersFact DEF TypeOK, Versions, Goto, shm, local, history, client, PlaceInv
<1>1. ASSUME NEW s \in Servers, Main(s) PROVE PlaceInv'
  BY <1>1 DEF Main, Take, CheckDynamic, MustReload
<1>2. ASSUME NEW s \in Servers, Begin(s) PROVE PlaceInv'
  BY <1>2 DEF Begin
<1>3. ASSUME NEW s \in Servers, Load(s) PROVE PlaceInv'
  BY <1>3 DEF Load
<1>4. ASSUME NEW s \in Servers, PostResult(s) PROVE PlaceInv'
  BY <1>4 DEF PostResult
<1>5. ASSUME NEW s \in Servers, GotAck(s) PROVE PlaceInv'
  BY <1>5 DEF GotAck, ClearResult
<1>6. ASSUME NEW s \in Servers, GiveUp(s) PROVE PlaceInv'
  BY <1>6 DEF GiveUp, ClearResult
<1>7. ASSUME NEW s \in Servers, Reset(s) PROVE PlaceInv'
  BY <1>7 DEF Reset, HupAfterReset
<1>8. ASSUME NEW s \in Servers, Stop(s) PROVE PlaceInv'
  BY <1>8 DEF Stop, ForgetServer
<1>9. ASSUME NEW s \in Servers, Die(s) PROVE PlaceInv'
  BY <1>9 DEF Die, ForgetServer, Alive
<1>10. ASSUME NEW s \in Servers, Hup(s) PROVE PlaceInv'
  BY <1>10 DEF Hup
<1>11. ASSUME NEW c \in Clients, PostChange(c) PROVE PlaceInv'
  BY <1>11 DEF PostChange, CanLock, LockFails, Advance
<1>12. ASSUME NEW c \in Clients, PostNowhere(c) PROVE PlaceInv'
  BY <1>12 DEF PostNowhere, Advance
<1>13. ASSUME NEW c \in Clients, PollRead(c) PROVE PlaceInv'
  BY <1>13 DEF PollRead, CanLock, Advance
<1>14. ASSUME NEW c \in Clients, PollLockFails(c) PROVE PlaceInv'
  BY <1>14 DEF PollLockFails, LockFails, ScriptDropsLog, Advance
<1>15. ASSUME NEW c \in Clients, PollAck(c) PROVE PlaceInv'
  BY <1>15 DEF PollAck, CanLock, Advance
<1>16. ASSUME NEW c \in Clients, PollNowhere(c) PROVE PlaceInv'
  BY <1>16 DEF PollNowhere, Advance
<1>17. ASSUME NEW c \in Clients, Finish(c) PROVE PlaceInv'
  BY <1>17 DEF Finish
<1>18. ASSUME NEW c \in Clients, Return(c) PROVE PlaceInv'
  BY <1>18 DEF Return, ForgetClient
<1>19. ASSUME NEW c \in Clients, Apply(c) PROVE PlaceInv'
  BY <1>19 DEF Apply, Attachable, CanLock
<1>20. ASSUME NEW c \in Clients, Refuse(c) PROVE PlaceInv'
  BY <1>20 DEF Refuse
<1>21. ASSUME NEW c \in Clients, Killed(c) PROVE PlaceInv'
  BY <1>21 DEF Killed, ForgetClient, CanLock
<1>22. ASSUME NEW c \in Clients, TimeOut(c) PROVE PlaceInv'
  BY <1>22 DEF TimeOut, Alone
<1>23. CASE UNCHANGED vars
  BY <1>23 DEF vars
<1> QED
  BY <1>1, <1>2, <1>3, <1>4, <1>5, <1>6, <1>7, <1>8, <1>9, <1>10, <1>11,
     <1>12, <1>13, <1>14, <1>15, <1>16, <1>17, <1>18, <1>19, <1>20, <1>21,
     <1>22, <1>23
     DEF Next, Server, Client

(* Nothing of a request is left when the tool has its answers. *)
LEMMA StepRest ==
    ASSUME NEW c0, Alone(c0), IInv, ToolInv(c0), [Next]_vars
    PROVE  RestInv(c0)'
<1> USE ServersFact DEF TypeOK, Versions, Goto, shm, local, history, client, Alone,
        Unasked, Pending, Delivered, Answered, UnderWay, Idle, Results, Servers,
        NoResultYet, Ready, Succes, Error, Ack, IInv, ResultOnlyWhileWaiting,
        OutcomeIsComplete, ToolInv, PlaceInv, RestInv, KeptInv
<1>1. ASSUME NEW s \in Servers, Main(s) PROVE RestInv(c0)'
  BY <1>1 DEF Main, Take, CheckDynamic, MustReload
<1>2. ASSUME NEW s \in Servers, Begin(s) PROVE RestInv(c0)'
  BY <1>2 DEF Begin
<1>3. ASSUME NEW s \in Servers, Load(s) PROVE RestInv(c0)'
  BY <1>3 DEF Load
<1>4. ASSUME NEW s \in Servers, PostResult(s) PROVE RestInv(c0)'
  BY <1>4 DEF PostResult
<1>5. ASSUME NEW s \in Servers, GotAck(s) PROVE RestInv(c0)'
  BY <1>5 DEF GotAck, ClearResult
<1>6. ASSUME NEW s \in Servers, GiveUp(s) PROVE RestInv(c0)'
  BY <1>6 DEF GiveUp, ClearResult
<1>7. ASSUME NEW s \in Servers, Reset(s) PROVE RestInv(c0)'
  BY <1>7 DEF Reset, HupAfterReset
<1>8. ASSUME NEW s \in Servers, Stop(s) PROVE RestInv(c0)'
  BY <1>8 DEF Stop, ForgetServer
<1>9. ASSUME NEW s \in Servers, Die(s) PROVE RestInv(c0)'
  BY <1>9 DEF Die, ForgetServer, Alive
<1>10. ASSUME NEW s \in Servers, Hup(s) PROVE RestInv(c0)'
  BY <1>10 DEF Hup
<1>11. ASSUME NEW c \in Clients, PostChange(c) PROVE RestInv(c0)'
  BY <1>11 DEF PostChange, CanLock, LockFails, Advance
<1>12. ASSUME NEW c \in Clients, PostNowhere(c) PROVE RestInv(c0)'
  BY <1>12 DEF PostNowhere, Advance
<1>13. ASSUME NEW c \in Clients, PollRead(c) PROVE RestInv(c0)'
  <2> DEFINE t == cur[c]
             r == IF result[t] # Ready THEN result[t] ELSE cres[c][t]
  <2>1. /\ c = c0 /\ t \in Servers /\ t \in att[c] /\ cpc[c] = "poll" /\ cprog[c][t] < 100
        /\ cres' = [cres EXCEPT ![c][t] = r]
        /\ progress[t] # 100 => Advance(c, "poll", cres'[c])
        /\ progress[t] = 100 => UNCHANGED <<cpc, cur>>
        /\ UNCHANGED <<sem, changed, result, progress, spc, reloadShm, applied, att, want>>
    BY <1>13 DEF PollRead, ScriptDropsLog
  <2>2. cres[c][t] \notin Delivered /\ (Answered(t) => progress[t] = 100)
    BY <2>1
  <2>3. cres'[c] = [cres[c] EXCEPT ![t] = r] /\ r # Ready
    BY <2>1
  <2>4. CASE progress[t] = 100
    BY <2>1, <2>2, <2>3, <2>4
  <2>5. CASE progress[t] # 100
    BY <2>1, <2>2, <2>3, <2>5 DEF Advance
  <2> QED
    BY <2>4, <2>5
<1>14. ASSUME NEW c \in Clients, PollLockFails(c) PROVE RestInv(c0)'
  BY <1>14 DEF PollLockFails, LockFails, ScriptDropsLog, Advance
<1>15. ASSUME NEW c \in Clients, PollAck(c) PROVE RestInv(c0)'
  BY <1>15 DEF PollAck, CanLock, Advance
<1>16. ASSUME NEW c \in Clients, PollNowhere(c) PROVE RestInv(c0)'
  BY <1>16 DEF PollNowhere, Advance
<1>17. ASSUME NEW c \in Clients, Finish(c) PROVE RestInv(c0)'
  BY <1>17 DEF Finish
<1>18. ASSUME NEW c \in Clients, Return(c) PROVE RestInv(c0)'
  BY <1>18 DEF Return, ForgetClient
<1>19. ASSUME NEW c \in Clients, Apply(c) PROVE RestInv(c0)'
  BY <1>19 DEF Apply, Attachable, CanLock
<1>20. ASSUME NEW c \in Clients, Refuse(c) PROVE RestInv(c0)'
  BY <1>20 DEF Refuse
<1>21. ASSUME NEW c \in Clients, Killed(c) PROVE RestInv(c0)'
  BY <1>21 DEF Killed, ForgetClient, CanLock
<1>22. ASSUME NEW c \in Clients, TimeOut(c) PROVE RestInv(c0)'
  BY <1>22 DEF TimeOut, Alone
<1>23. CASE UNCHANGED vars
  BY <1>23 DEF vars
<1> QED
  BY <1>1, <1>2, <1>3, <1>4, <1>5, <1>6, <1>7, <1>8, <1>9, <1>10, <1>11,
     <1>12, <1>13, <1>14, <1>15, <1>16, <1>17, <1>18, <1>19, <1>20, <1>21,
     <1>22, <1>23
     DEF Next, Server, Client

(* The answer comes from a reload that started after the request. *)
LEMMA StepCover ==
    ASSUME NEW c0, Alone(c0), IInv, ToolInv(c0), [Next]_vars
    PROVE  CoverInv(c0)'
<1> USE ServersFact DEF TypeOK, Versions, Goto, shm, local, history, client, Alone,
        Unasked, Delivered, Answered, UnderWay, Idle, Results, Servers, NoResultYet,
        Ready, Succes, Error, Ack, IInv, ResultOnlyWhileWaiting, VersionsInOrder,
        ToolInv, PlaceInv, RestInv, CoverInv
<1>1. ASSUME NEW s \in Servers, Main(s) PROVE CoverInv(c0)'
  BY <1>1 DEF Main, Take, CheckDynamic, MustReload
<1>2. ASSUME NEW s \in Servers, Begin(s) PROVE CoverInv(c0)'
  BY <1>2 DEF Begin
<1>3. ASSUME NEW s \in Servers, Load(s) PROVE CoverInv(c0)'
  BY <1>3 DEF Load
<1>4. ASSUME NEW s \in Servers, PostResult(s) PROVE CoverInv(c0)'
  BY <1>4 DEF PostResult
<1>5. ASSUME NEW s \in Servers, GotAck(s) PROVE CoverInv(c0)'
  BY <1>5 DEF GotAck, ClearResult
<1>6. ASSUME NEW s \in Servers, GiveUp(s) PROVE CoverInv(c0)'
  BY <1>6 DEF GiveUp, ClearResult
<1>7. ASSUME NEW s \in Servers, Reset(s) PROVE CoverInv(c0)'
  BY <1>7 DEF Reset, HupAfterReset
<1>8. ASSUME NEW s \in Servers, Stop(s) PROVE CoverInv(c0)'
  BY <1>8 DEF Stop, ForgetServer
<1>9. ASSUME NEW s \in Servers, Die(s) PROVE CoverInv(c0)'
  BY <1>9 DEF Die, ForgetServer, Alive
<1>10. ASSUME NEW s \in Servers, Hup(s) PROVE CoverInv(c0)'
  BY <1>10 DEF Hup
<1>11. ASSUME NEW c \in Clients, PostChange(c) PROVE CoverInv(c0)'
  BY <1>11 DEF PostChange, CanLock, LockFails, Advance
<1>12. ASSUME NEW c \in Clients, PostNowhere(c) PROVE CoverInv(c0)'
  BY <1>12 DEF PostNowhere, Advance
<1>13. ASSUME NEW c \in Clients, PollRead(c) PROVE CoverInv(c0)'
  BY <1>13 DEF PollRead, CanLock, Advance
<1>14. ASSUME NEW c \in Clients, PollLockFails(c) PROVE CoverInv(c0)'
  BY <1>14 DEF PollLockFails, LockFails, ScriptDropsLog, Advance
<1>15. ASSUME NEW c \in Clients, PollAck(c) PROVE CoverInv(c0)'
  BY <1>15 DEF PollAck, CanLock, Advance
<1>16. ASSUME NEW c \in Clients, PollNowhere(c) PROVE CoverInv(c0)'
  BY <1>16 DEF PollNowhere, Advance
<1>17. ASSUME NEW c \in Clients, Finish(c) PROVE CoverInv(c0)'
  BY <1>17 DEF Finish
<1>18. ASSUME NEW c \in Clients, Return(c) PROVE CoverInv(c0)'
  BY <1>18 DEF Return, ForgetClient
<1>19. ASSUME NEW c \in Clients, Apply(c) PROVE CoverInv(c0)'
  BY <1>19 DEF Apply, Attachable, CanLock
<1>20. ASSUME NEW c \in Clients, Refuse(c) PROVE CoverInv(c0)'
  BY <1>20 DEF Refuse
<1>21. ASSUME NEW c \in Clients, Killed(c) PROVE CoverInv(c0)'
  BY <1>21 DEF Killed, ForgetClient, CanLock
<1>22. ASSUME NEW c \in Clients, TimeOut(c) PROVE CoverInv(c0)'
  BY <1>22 DEF TimeOut, Alone
<1>23. CASE UNCHANGED vars
  BY <1>23 DEF vars
<1> QED
  BY <1>1, <1>2, <1>3, <1>4, <1>5, <1>6, <1>7, <1>8, <1>9, <1>10, <1>11,
     <1>12, <1>13, <1>14, <1>15, <1>16, <1>17, <1>18, <1>19, <1>20, <1>21,
     <1>22, <1>23
     DEF Next, Server, Client

(* What the tool keeps is the answer it acknowledges. *)
LEMMA StepKept ==
    ASSUME NEW c0, Alone(c0), IInv, ToolInv(c0), [Next]_vars
    PROVE  KeptInv(c0)'
<1> USE ServersFact DEF TypeOK, Versions, Goto, shm, local, history, client, Alone,
        Unasked, Delivered, Answered, UnderWay, Idle, Results, Servers, NoResultYet,
        Ready, Succes, Error, Ack, IInv, ResultOnlyWhileWaiting, VersionsInOrder,
        OutcomeIsComplete, ToolInv, PlaceInv, RestInv, CoverInv, KeptInv
<1>1. ASSUME NEW s \in Servers, Main(s) PROVE KeptInv(c0)'
  BY <1>1 DEF Main, Take, CheckDynamic, MustReload
<1>2. ASSUME NEW s \in Servers, Begin(s) PROVE KeptInv(c0)'
  BY <1>2 DEF Begin
<1>3. ASSUME NEW s \in Servers, Load(s) PROVE KeptInv(c0)'
  BY <1>3 DEF Load
<1>4. ASSUME NEW s \in Servers, PostResult(s) PROVE KeptInv(c0)'
  BY <1>4 DEF PostResult
<1>5. ASSUME NEW s \in Servers, GotAck(s) PROVE KeptInv(c0)'
  BY <1>5 DEF GotAck, ClearResult
<1>6. ASSUME NEW s \in Servers, GiveUp(s) PROVE KeptInv(c0)'
  BY <1>6 DEF GiveUp, ClearResult
<1>7. ASSUME NEW s \in Servers, Reset(s) PROVE KeptInv(c0)'
  BY <1>7 DEF Reset, HupAfterReset
<1>8. ASSUME NEW s \in Servers, Stop(s) PROVE KeptInv(c0)'
  BY <1>8 DEF Stop, ForgetServer
<1>9. ASSUME NEW s \in Servers, Die(s) PROVE KeptInv(c0)'
  BY <1>9 DEF Die, ForgetServer, Alive
<1>10. ASSUME NEW s \in Servers, Hup(s) PROVE KeptInv(c0)'
  BY <1>10 DEF Hup
<1>11. ASSUME NEW c \in Clients, PostChange(c) PROVE KeptInv(c0)'
  BY <1>11 DEF PostChange, CanLock, LockFails, Advance
<1>12. ASSUME NEW c \in Clients, PostNowhere(c) PROVE KeptInv(c0)'
  BY <1>12 DEF PostNowhere, Advance
<1>13. ASSUME NEW c \in Clients, PollRead(c) PROVE KeptInv(c0)'
  <2> DEFINE t == cur[c]
             r == IF result[t] # Ready THEN result[t] ELSE cres[c][t]
  <2>1. /\ c = c0 /\ t \in Servers /\ t \in att[c] /\ cpc[c] = "poll" /\ cprog[c][t] < 100
        /\ cres' = [cres EXCEPT ![c][t] = r]
        /\ progress[t] # 100 => Advance(c, "poll", cres'[c])
        /\ progress[t] = 100 => UNCHANGED <<cpc, cur>>
        /\ UNCHANGED <<sem, changed, result, progress, spc, reloadShm, applied, att, want>>
    BY <1>13 DEF PollRead, ScriptDropsLog
  <2>2. cres[c][t] \notin Delivered /\ (Answered(t) => progress[t] = 100)
    BY <2>1
  <2>3. cres'[c] = [cres[c] EXCEPT ![t] = r] /\ r # Ready
    BY <2>1
  <2>4. CASE progress[t] = 100
    BY <2>1, <2>2, <2>3, <2>4
  <2>5. CASE progress[t] # 100
    BY <2>1, <2>2, <2>3, <2>5 DEF Advance
  <2> QED
    BY <2>4, <2>5
<1>14. ASSUME NEW c \in Clients, PollLockFails(c) PROVE KeptInv(c0)'
  BY <1>14 DEF PollLockFails, LockFails, ScriptDropsLog, Advance
<1>15. ASSUME NEW c \in Clients, PollAck(c) PROVE KeptInv(c0)'
  BY <1>15 DEF PollAck, CanLock, Advance
<1>16. ASSUME NEW c \in Clients, PollNowhere(c) PROVE KeptInv(c0)'
  BY <1>16 DEF PollNowhere, Advance
<1>17. ASSUME NEW c \in Clients, Finish(c) PROVE KeptInv(c0)'
  BY <1>17 DEF Finish
<1>18. ASSUME NEW c \in Clients, Return(c) PROVE KeptInv(c0)'
  BY <1>18 DEF Return, ForgetClient
<1>19. ASSUME NEW c \in Clients, Apply(c) PROVE KeptInv(c0)'
  BY <1>19 DEF Apply, Attachable, CanLock
<1>20. ASSUME NEW c \in Clients, Refuse(c) PROVE KeptInv(c0)'
  BY <1>20 DEF Refuse
<1>21. ASSUME NEW c \in Clients, Killed(c) PROVE KeptInv(c0)'
  BY <1>21 DEF Killed, ForgetClient, CanLock
<1>22. ASSUME NEW c \in Clients, TimeOut(c) PROVE KeptInv(c0)'
  BY <1>22 DEF TimeOut, Alone
<1>23. CASE UNCHANGED vars
  BY <1>23 DEF vars
<1> QED
  BY <1>1, <1>2, <1>3, <1>4, <1>5, <1>6, <1>7, <1>8, <1>9, <1>10, <1>11,
     <1>12, <1>13, <1>14, <1>15, <1>16, <1>17, <1>18, <1>19, <1>20, <1>21,
     <1>22, <1>23
     DEF Next, Server, Client

LEMMA InitTool ==
    ASSUME NEW c0, Alone(c0), Init
    PROVE  ToolInv(c0)
BY ServersFact DEF Init, ToolInv, PlaceInv, RestInv, CoverInv, KeptInv, Alone, Idle, UnderWay, Answered,
   Delivered, Ready, Succes, Error

(* A vuurmuur_conf that is alone and never gives up is told of a success    *)
(* only if the daemon started a reload after the edit and it succeeded,     *)
(* whatever signals, changed addresses, deaths and time-outs of a daemon    *)
(* come in between, and for any number of edits: no answer to an earlier    *)
(* request is left in the table for it to find.                             *)
THEOREM SuccessTheorem ==
    ASSUME NEW CONSTANT c0, Alone(c0)
    PROVE  Spec => []SuccessMeansLoaded
<1>1. Init => ToolInv(c0)
  BY InitTool
<1>2. IInv /\ ToolInv(c0) /\ [Next]_vars => ToolInv(c0)'
  <2> SUFFICES ASSUME IInv, ToolInv(c0), [Next]_vars PROVE ToolInv(c0)'
    OBVIOUS
  <2>1. PlaceInv'
    BY StepPlace DEF IInv, ToolInv
  <2>2. RestInv(c0)' /\ CoverInv(c0)' /\ KeptInv(c0)'
    BY StepRest, StepCover, StepKept
  <2> QED
    BY <2>1, <2>2 DEF ToolInv
<1>3. ToolInv(c0) => SuccessMeansLoaded
  BY DEF Alone, ToolInv, KeptInv, SuccessMeansLoaded
<1> QED
  BY <1>1, <1>2, <1>3, InvariantHolds, PTL DEF Spec

-----------------------------------------------------------------------------
(***************************************************************************)
(* The lock below the protocol: why ReloadIPC may take a critical section  *)
(* for one step.  The names of ShmLock are its own: both fit here.         *)
(***************************************************************************)
(* The invariant holds when the semaphore was just set to 1. *)
LEMMA LockInitial == LockInit => LockInv
<1> SUFFICES ASSUME LockInit PROVE LockInv
  OBVIOUS
<1>1. \A p \in Procs : place[p] = "out" /\ place[p] \notin Inside
  BY DEF LockInit, Inside
<1>2. LockTypeOK
  BY DEF LockInit, LockTypeOK, Places
<1>3. Whole
  BY DEF LockInit, Whole
<1>4. HolderView /\ NoTornRead /\ MutualExclusion
  BY <1>1 DEF HolderView, NoTornRead, MutualExclusion
<1> QED
  BY <1>1, <1>2, <1>3, <1>4 DEF LockInv, LockInit

(* Every step keeps it.  Only Lock and Unlock change who is inside; First and
   Second change the table, and only for the one process that is. *)
LEMMA LockStep == LockInv /\ [LockNext]_lockVars => LockInv'
<1> SUFFICES ASSUME LockInv, [LockNext]_lockVars PROVE LockInv'
  OBVIOUS
<1> USE DEF LockInv, LockTypeOK, MutualExclusion, Whole, HolderView, NoTornRead,
            Inside, Places, Moves
<1>1. CASE Remove
  BY <1>1 DEF Remove
<1>2. ASSUME NEW p \in Procs, Lock(p) PROVE LockInv'
  <2>1. semaphore = 1 /\ semaphore' = 0
    BY <1>2 DEF Lock
  <2>2. \A q \in Procs : place[q] \notin Inside
    BY <2>1
  <2>3. PICK w \in BOOLEAN, v \in Values :
            /\ writes' = [writes EXCEPT ![p] = w]
            /\ value' = [value EXCEPT ![p] = v]
    BY <1>2 DEF Lock
  <2>4. place' = [place EXCEPT ![p] = "first"]
    BY <1>2 DEF Lock
  <2>5. UNCHANGED <<removed, copy, reload_progress, reload_result>>
    BY <1>2 DEF Lock
  <2>6. LockTypeOK'
    BY <2>1, <2>3, <2>4, <2>5
  <2>7. MutualExclusion' /\ HolderView' /\ NoTornRead'
    BY <2>2, <2>3, <2>4, <2>5
  <2>8. \E q \in Procs : place'[q] \in Inside
    BY <2>4
  <2> QED
    BY <2>1, <2>6, <2>7, <2>8
<1>3. ASSUME NEW p \in Procs, First(p) PROVE LockInv'
  <2>1. LockTypeOK'
    BY <1>3 DEF First
  <2>2. \A q \in Procs : place'[q] \in Inside <=> place[q] \in Inside
    BY <1>3 DEF First
  <2>3. HolderView' /\ NoTornRead'
    BY <1>3 DEF First
  <2> QED
    BY <1>3, <2>1, <2>2, <2>3 DEF First
<1>4. ASSUME NEW p \in Procs, Second(p) PROVE LockInv'
  <2>1. LockTypeOK'
    BY <1>4 DEF Second
  <2>2. \A q \in Procs : place'[q] \in Inside <=> place[q] \in Inside
    BY <1>4 DEF Second
  <2>3. HolderView' /\ NoTornRead'
    BY <1>4 DEF Second
  <2> QED
    BY <1>4, <2>1, <2>2, <2>3 DEF Second
<1>5. ASSUME NEW p \in Procs, Unlock(p) PROVE LockInv'
  <2>1. \A q \in Procs : place'[q] \notin Inside
    BY <1>5 DEF Unlock
  <2>2. ~removed => semaphore = 0
    BY <1>5 DEF Unlock
  <2>3. LockTypeOK'
    BY <1>5, <2>2 DEF Unlock
  <2>4. Whole'
    BY <1>5 DEF Unlock
  <2> QED
    BY <1>5, <2>1, <2>2, <2>3, <2>4 DEF Unlock
<1>6. ASSUME NEW p \in Procs, Death(p) PROVE LockInv'
  <2>1. LockTypeOK'
    BY <1>6 DEF Death
  <2>2. \A q \in Procs : place'[q] \in Inside <=> place[q] \in Inside
    BY <1>6 DEF Death
  <2> QED
    BY <1>6, <2>1, <2>2 DEF Death
<1>7. CASE UNCHANGED lockVars
  BY <1>7 DEF lockVars
<1> QED
  BY <1>1, <1>2, <1>3, <1>4, <1>5, <1>6, <1>7 DEF LockNext

(* At most one process is inside a critical section of the table. *)
THEOREM MutexTheorem == LockSpec => []MutualExclusion
<1>1. LockInv => MutualExclusion
  BY DEF LockInv
<1> QED
  BY <1>1, LockInitial, LockStep, PTL DEF LockSpec

(* Progress and result are always read as they were published together. *)
THEOREM NoTornReadTheorem == LockSpec => []NoTornRead
<1>1. LockInv => NoTornRead
  BY DEF LockInv
<1> QED
  BY <1>1, LockInitial, LockStep, PTL DEF LockSpec
=============================================================================
