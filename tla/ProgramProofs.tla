--------------------------- MODULE ProgramProofs ----------------------------
(***************************************************************************)
(* ProgramRun, MobileCheck and ClientRun, for all their constants: which   *)
(* validated configurations make a ticker panic, what a generation of      *)
(* rooms that ended has made, that calls of Check and Ping do not meet,    *)
(* what the client leaves open when it is over, and the types of all the   *)
(* parts that MCParts puts together.                                       *)
(***************************************************************************)
EXTENDS MCParts, VideoProofs, FiniteSetTheorems, TLAPS

-----------------------------------------------------------------------------
(* The program.                                                            *)

(* What the goroutine has done so far, for the configuration it runs with: *)
(* a generation that ended knows why, and main only ends with the answer   *)
(* of the goroutine, unless a signal came.                                 *)
Generation ==
  pgCfg.mode = "gen" =>
    /\ pgSession \notin {"open", "serves", "crash"}
    /\ pgSession = "gen" =>
         ValidateGen(pgCfg) /\ pgMade <= pgCfg.amount /\ (pgCfg.carrier # "jazz" => pgMade = 0)
    /\ pgSession = "ok" => pgPrinted = pgCfg.amount /\ pgMade = pgCfg.amount
    /\ pgSession = "error" => pgQuit \/ pgTries = PgAttempts \/ pgCfg.carrier # "jazz"

Ending ==
  /\ pgStage \in {"args", "parsed"} => pgSession = "off" /\ pgMade = 0
  /\ pgStage = "stop" => pgQuit
  /\ pgStage = "exit" /\ ~pgQuit /\ pgCfg.mode = "gen" /\ ValidateGen(pgCfg) =>
       pgSession \in {"ok", "error"} /\ pgExit = pgSession

Crash ==
  /\ pgSession = "open" => Validate(pgCfg)
  /\ pgSession = "crash" => Validate(pgCfg) /\ Crashes(pgCfg)

PgInv == PgTypeOK /\ Generation /\ Ending /\ Crash

-----------------------------------------------------------------------------
(* The clock.                                                              *)

(* A quotient that is not positive had too small a dividend.               *)
LEMMA SmallDividend ==
  ASSUME NEW a \in Nat, NEW b \in Nat, b > 0, a \div b <= 0
  PROVE  a < b
<1>1. a = b * (a \div b) + (a % b) /\ a % b < b /\ a \div b \in Nat
  BY Division
<1>2. a \div b = 0
  BY <1>1
<1> QED
  BY <1>1, <1>2

(* The constants of ProgramRun are integers, and each set has its zero.    *)
LEMMA Bounds ==
  /\ PgSecond \in Nat /\ PgSecond > 0 /\ PgGaps \in Nat
  /\ PgRates \subseteq Int /\ PgBatches \subseteq Int /\ PgAmounts \subseteq Int
  /\ 0 \in PgRates /\ 0 \in PgBatches /\ 0 \in PgAmounts
BY PgAssumption

(* A configuration that Validate lets through has a ticker unless its rate *)
(* is negative or a frame gets less than one unit of the clock.            *)
LEMMA ValidRate ==
  ASSUME NEW cfg \in Config, Validate(cfg), Crashes(cfg)
  PROVE  cfg.fps < 0 \/ (cfg.fps > 0 /\ cfg.fps * (IF cfg.batch > 1 THEN cfg.batch ELSE 1) > PgSecond)
<1> DEFINE many == IF cfg.batch > 1 THEN cfg.batch ELSE 1
<1>1. cfg.fps \in Int /\ cfg.batch \in Int /\ PgSecond \in Nat /\ PgSecond > 0
  BY Bounds DEF Config
<1>2. cfg.transport \in {"videochannel", "vp8channel"} /\ Interval(cfg) <= 0
  BY DEF Crashes
<1>3. cfg.fps # 0
  BY <1>2 DEF Validate, TransportFits
<1>4. CASE cfg.fps < 0
  BY <1>4
<1>5. CASE cfg.fps > 0
  <2>1. Quotient(PgSecond, cfg.fps) = PgSecond \div cfg.fps /\ PgSecond \div cfg.fps \in Nat
    BY <1>1, <1>5 DEF Quotient
  <2>2. CASE cfg.transport = "vp8channel" /\ cfg.batch > 1
    <3>1. Interval(cfg) = Quotient(Quotient(PgSecond, cfg.fps), cfg.batch)
      BY <1>3, <2>2 DEF Interval
    <3>2. (PgSecond \div cfg.fps) \div cfg.batch <= 0
      BY <1>1, <1>2, <2>1, <2>2, <3>1 DEF Quotient
    <3> DEFINE each == PgSecond \div cfg.fps
    <3>3. each < cfg.batch
      BY <1>1, <2>1, <2>2, <3>2, SmallDividend
    <3>4. PgSecond < cfg.fps * (each + 1)
      <4>0. cfg.fps \in Nat
        BY <1>1, <1>5
      <4>1. PgSecond = cfg.fps * each + (PgSecond % cfg.fps) /\ PgSecond % cfg.fps < cfg.fps
            /\ PgSecond % cfg.fps \in Nat
        BY <1>1, <1>5, <4>0, Division
      <4>2. cfg.fps * (each + 1) = cfg.fps * each + cfg.fps
        BY <1>1, <2>1
      <4> QED
        BY <1>1, <1>5, <2>1, <4>1, <4>2
    <3> HIDE DEF each
    <3>5. each + 1 <= cfg.batch /\ each \in Nat
      BY <1>1, <2>1, <3>3 DEF each
    <3>6. cfg.fps * (each + 1) <= cfg.fps * cfg.batch
      BY <1>1, <1>5, <3>5
    <3>7. cfg.fps * (each + 1) \in Int /\ cfg.fps * cfg.batch \in Int
      BY <1>1, <3>5
    <3> QED
      BY <1>1, <1>5, <2>2, <3>4, <3>6, <3>7
  <2>3. CASE ~(cfg.transport = "vp8channel" /\ cfg.batch > 1)
    <3>1. Interval(cfg) = Quotient(PgSecond, cfg.fps)
      BY <1>3, <2>3 DEF Interval
    <3>2. PgSecond < cfg.fps
      BY <1>1, <1>2, <1>5, <2>1, <3>1, SmallDividend
    <3>3. many \in Nat /\ many >= 1
      BY <1>1
    <3> HIDE DEF many
    <3>4. cfg.fps <= cfg.fps * many
      BY <1>1, <1>5, <3>3
    <3>5. cfg.fps * many \in Int
      BY <1>1, <3>3
    <3>6. cfg.fps * many > PgSecond
      BY <1>1, <3>2, <3>4, <3>5
    <3> QED
      BY <1>5, <3>6 DEF many
  <2> QED
    BY <2>2, <2>3
<1> QED
  BY <1>1, <1>3, <1>4, <1>5

-----------------------------------------------------------------------------
(* The program.                                                            *)

(* Before anything runs PgInv holds.                                       *)
LEMMA PgStarts == PgInit => PgInv
<1> SUFFICES ASSUME PgInit PROVE PgInv
  OBVIOUS
<1>1. Defaults \in Config
  <2>1. 0 \in PgRates /\ 0 \in PgBatches /\ 0 \in PgAmounts /\ PgGaps \in Nat
    BY Bounds
  <2>2. Cardinality({}) = 0
    BY FS_EmptySet
  <2> QED
    BY <2>1, <2>2 DEF Defaults, Config, Carriers, VideoTransports
<1>2. pgCfg.mode = ""
  BY DEF PgInit, Defaults
<1>3. PgTypeOK
  <2>1. pgCfg \in Config
    BY <1>1 DEF PgInit
  <2>2. pgPrinted \in 0..pgMade /\ pgTries \in 0..5 /\ pgMade \in Nat
    BY DEF PgInit
  <2> QED
    BY <2>1, <2>2 DEF PgInit, PgTypeOK, PgAttempts
<1>4. Generation
  BY <1>2 DEF Generation
<1>5. Ending /\ Crash
  BY DEF PgInit, Ending, Crash
<1> QED
  BY <1>3, <1>4, <1>5 DEF PgInv

(* Each step of the program keeps PgInv.                                   *)
LEMMA PgSteps == PgInv /\ [PgNext]_pgVars => PgInv'
<1> SUFFICES ASSUME PgInv, [PgNext]_pgVars PROVE PgInv'
  OBVIOUS
<1> USE DEF PgInv, PgTypeOK, Generation, Ending, Crash, PgAttempts
<1>1. pgCfg \in Config => pgCfg.amount \in Int
  BY Bounds DEF Config
<1>2. CASE PgParse
  BY <1>2 DEF PgParse
<1>3. CASE PgRefused
  BY <1>3 DEF PgRefused, PgExits
<1>4. CASE PgRuns
  <2>1. CASE pgCfg.mode = "gen"
    <3>1. ValidateGen(pgCfg) /\ pgSession' = "gen" /\ pgStage' = "wait"
      BY <1>4, <2>1 DEF PgRuns
    <3>2. pgMade <= pgCfg.amount
      <4>1. pgMade = 0
        BY <1>4 DEF PgRuns
      <4>2. pgCfg.amount >= 1 /\ pgCfg.amount \in Int
        BY <1>1, <3>1 DEF ValidateGen
      <4> QED
        BY <4>1, <4>2
    <3> QED
      BY <1>4, <3>1, <3>2 DEF PgRuns
  <2>2. CASE pgCfg.mode # "gen"
    BY <1>4, <2>2 DEF PgRuns
  <2> QED
    BY <2>1, <2>2
<1>5. CASE PgSignal
  BY <1>5 DEF PgSignal
<1>6. CASE PgAnswer
  BY <1>6 DEF PgAnswer, PgExits
<1>7. CASE PgForced
  BY <1>7 DEF PgForced, PgExits
<1>8. CASE PgOpens
  BY <1>8 DEF PgOpens
<1>9. CASE PgServeEnds
  BY <1>9 DEF PgServeEnds
<1>10. CASE PgGenRefused
  BY <1>10 DEF PgGenRefused, PgGenRuns
<1>11. CASE PgRoomMade
  BY <1>1, <1>11 DEF PgRoomMade, PgGenRuns
<1>12. CASE PgRoomPrinted
  BY <1>12 DEF PgRoomPrinted, PgGenRuns
<1>13. CASE PgRoomFails
  BY <1>13 DEF PgRoomFails, PgGenRuns, AfterFailure
<1>14. CASE PgGenDone
  BY <1>1, <1>14 DEF PgGenDone, PgGenRuns
<1>15. CASE UNCHANGED pgVars
  BY <1>15 DEF pgVars
<1> QED
  BY <1>2, <1>3, <1>4, <1>5, <1>6, <1>7, <1>8, <1>9, <1>10, <1>11, <1>12, <1>13, <1>14, <1>15 DEF PgNext

(* PgInv holds throughout.                                                 *)
LEMMA PgAlways == PgSpec => []PgInv
BY PgStarts, PgSteps, PTL DEF PgSpec

(* Every reachable state of main and of its goroutine has its type.        *)
THEOREM ProgramTypes == PgSpec => []PgTypeOK
<1>1. PgInv => PgTypeOK
  BY DEF PgInv
<1> QED
  BY <1>1, PgAlways, PTL

(* A validated configuration only crashes the writer of its transport if   *)
(* its rate is negative, or higher than the clock can tell apart.          *)
THEOREM RateIsSafe == PgSpec => []PgRateIsSafe
<1>1. PgInv => PgRateIsSafe
  BY ValidRate DEF PgInv, PgTypeOK, Crash, PgRateIsSafe
<1> QED
  BY <1>1, PgAlways, PTL

(* A generation of rooms that nobody interrupted tells the truth about how *)
(* it ended, for any number of rooms.                                      *)
THEOREM GenerationIsComplete == PgSpec => []PgGenComplete
<1>1. PgInv => PgGenComplete
  BY DEF PgInv, Generation, Ending, PgGenComplete
<1> QED
  BY <1>1, PgAlways, PTL

-----------------------------------------------------------------------------
(* Check and Ping.                                                         *)

(* A call that is over was cancelled, and left its client ended unless it  *)
(* gave it up; the call under way is the last one, and the best result so  *)
(* far is the least of those that took a millisecond.                      *)
Calls ==
  \A c \in 1..mkCall :
    c # mkCall \/ mkAt = "idle" => c \in mkCancelled /\ (mkClient[c] # "ended" => c \in mkGaveUp)

Best ==
  /\ \A ms \in mkTaken : ms > 0 => mkBest > 0 /\ mkBest <= ms
  /\ mkBest > 0 => mkBest \in mkTaken
  /\ mkAnswer = "ok" /\ mkKind = "ping" => mkBest > 0

Doing ==
  /\ mkAt # "idle" => mkCall \in 1..MkCalls
  /\ mkAt = "wait" => mkCall \in mkCancelled
  /\ mkAt \in {"select", "warm", "sample"} => mkAnswer = "none"
  /\ mkAt \in {"warm", "sample"} => mkKind = "ping"

MkInv == MkTypeOK /\ Calls /\ Best /\ Doing

(* No call has begun: MkInv holds.                                         *)
LEMMA MkStarts == MkInit => MkInv
BY MkAssumption DEF MkInit, MkInv, MkTypeOK, Calls, Best, Doing

(* Each step of Check and of Ping keeps MkInv.                             *)
LEMMA MkSteps == MkInv /\ [MkNext]_mkVars => MkInv'
<1> SUFFICES ASSUME MkInv, [MkNext]_mkVars PROVE MkInv'
  OBVIOUS
<1> USE MkAssumption DEF MkInv, MkTypeOK, Calls, Best, Doing, mkPing, mkClients
<1>1. CASE MkStart
  BY <1>1 DEF MkStart
<1>2. CASE MkReadySeen
  <2>1. CASE mkKind = "check"
    <3>1. mkAt' = "wait" /\ mkAnswer' = "ok" /\ mkCancelled' = mkCancelled \cup {mkCall}
      BY <1>2, <2>1 DEF MkReadySeen, MkEnds, Then
    <3>2. UNCHANGED <<mkCall, mkKind, mkLeft, mkBest, mkTaken, mkClient, mkGaveUp>> /\ mkAt = "select"
      BY <1>2 DEF MkReadySeen
    <3>3. MkTypeOK'
      BY <3>1, <3>2
    <3>4. Best'
      BY <2>1, <3>1, <3>2
    <3>5. Calls' /\ Doing'
      BY <2>1, <3>1, <3>2
    <3> QED
      BY <3>3, <3>4, <3>5
  <2>2. CASE mkKind = "ping"
    BY <1>2, <2>2 DEF MkReadySeen
  <2> QED
    BY <2>1, <2>2
<1>3. CASE MkEndSeen
  BY <1>3 DEF MkEndSeen
<1>4. CASE MkTimeout
  BY <1>4 DEF MkTimeout, MkEnds, Then
<1>5. CASE MkClientSeen
  BY <1>5 DEF MkClientSeen
<1>6. CASE MkTwoSeconds
  BY <1>6 DEF MkTwoSeconds
<1>7. CASE MkWarm
  <2>1. CASE mkAt' = "sample" /\ UNCHANGED <<mkAnswer, mkCancelled>>
    BY <1>7, <2>1 DEF MkWarm
  <2>2. CASE MkEnds("error")
    BY <1>7, <2>2 DEF MkWarm, MkEnds, Then
  <2> QED
    BY <1>7, <2>1, <2>2 DEF MkWarm
<1>8. CASE MkSample
  BY <1>8 DEF MkSample, BestLatency
<1>9. CASE MkSampled
  BY <1>9 DEF MkSampled, MkEnds, Then
<1>10. CASE MkPingTime
  BY <1>10 DEF MkPingTime
<1>11. CASE \E c \in 1..MkCalls : MkClientReady(c) \/ MkClientEnds(c)
  <2>1. PICK c \in 1..MkCalls :
          \/ MkClientGoes(c, {"starts"}, "ready")
          \/ MkClientGoes(c, {"starts", "ready"}, "ended")
    BY <1>11 DEF MkClientReady, MkClientEnds
  <2>2. mkClient[c] # "ended" /\ mkClient' \in [1..MkCalls -> {"off", "starts", "ready", "ended"}]
    BY <2>1 DEF MkClientGoes
  <2>3. \A d \in 1..MkCalls : d # c => mkClient'[d] = mkClient[d]
    BY <2>1 DEF MkClientGoes
  <2>4. UNCHANGED <<mkCall, mkKind, mkAt, mkLeft, mkBest, mkTaken, mkAnswer, mkCancelled, mkGaveUp>>
    BY <2>1 DEF MkClientGoes
  <2>5. Calls'
    BY <2>2, <2>3, <2>4
  <2>6. MkTypeOK' /\ Best' /\ Doing'
    BY <2>2, <2>4
  <2> QED
    BY <2>5, <2>6
<1>12. CASE UNCHANGED mkVars
  BY <1>12 DEF mkVars
<1> QED
  BY <1>1, <1>2, <1>3, <1>4, <1>5, <1>6, <1>7, <1>8, <1>9, <1>10, <1>11, <1>12 DEF MkNext

(* Calls made one after the other do not meet in the port, unless one gave *)
(* its client up, and Ping returns the best of its samples: for any number *)
(* of calls and of samples.                                                *)
THEOREM CallsStayApart == MkSpec => []MkCallsApart
<1>1. MkInv => MkCallsApart
  BY DEF MkInv, MkTypeOK, Calls, Best, Doing, MkCallsApart
<1> QED
  BY <1>1, MkStarts, MkSteps, PTL DEF MkSpec

-----------------------------------------------------------------------------
(* The connections and sessions a maker has made are two at most, and the  *)
(* run makes one pair: all of them have numbers among Ids.                 *)
HasConn == {p \in Makers : cnMaker[p].at \in {"conn", "session", "done"}}
HasSession == {p \in Makers : cnMaker[p].at \in {"session", "done"}}

Counted ==
  /\ cnRun \in {"new", "link", "pair", "serve", "shut", "close", "returned", "failed", "panic"}
  /\ {cnOver, cnListens} \subseteq BOOLEAN /\ cnCrossings \in Nat /\ cnLink \in {"none", "open", "closed"}
  /\ cnMade \in Nat /\ {cnConn, cnSession} \subseteq 0..cnMade /\ cnOpen \subseteq 1..cnMade
  /\ cnMaker \in [Makers -> [at : {"idle", "begun", "conn", "session", "done"}, made : 0..cnMade]]
  /\ cnApp \in [CnApps -> [at : {"out", "greets", "asks", "tunnel", "over"}, session : 0..cnMade]]
  /\ cnRun \in {"new", "link"} => cnMaker["run"].at = "idle"
  /\ cnMade <= Cardinality(HasConn) + Cardinality(HasSession)

(* The makers, and those of them that have come so far, can be counted.    *)
LEMMA MakersAreFinite ==
  /\ IsFiniteSet(Makers) /\ Cardinality(Makers) \in Nat
  /\ \A S \in SUBSET Makers :
       IsFiniteSet(S) /\ Cardinality(S) \in Nat /\ Cardinality(S) <= Cardinality(Makers)
<1>1. IsFiniteSet(Makers)
  BY FS_AddElement, CnAssumption DEF Makers
<1>2. ASSUME NEW S \in SUBSET Makers
      PROVE  IsFiniteSet(S) /\ Cardinality(S) <= Cardinality(Makers)
  BY <1>1, FS_Subset
<1>3. ASSUME NEW S \in SUBSET Makers
      PROVE  Cardinality(S) \in Nat
  BY <1>2, FS_CardinalityType
<1> QED
  BY <1>1, <1>2, <1>3, FS_CardinalityType

(* Nothing is made at first.                                               *)
LEMMA CountedStarts == CnInit => Counted
<1> SUFFICES ASSUME CnInit PROVE Counted
  OBVIOUS
<1>1. cnMade = 0 /\ cnMade <= Cardinality(HasConn) + Cardinality(HasSession)
  <2>1. Cardinality(HasConn) \in Nat /\ Cardinality(HasSession) \in Nat
    BY MakersAreFinite DEF HasConn, HasSession
  <2> QED
    BY <2>1 DEF CnInit
<1>2. {cnOver, cnListens} \subseteq BOOLEAN /\ cnCrossings \in Nat
  BY DEF CnInit
<1>3. /\ cnMaker \in [Makers -> [at : {"idle", "begun", "conn", "session", "done"}, made : 0..0]]
      /\ cnApp \in [CnApps -> [at : {"out", "greets", "asks", "tunnel", "over"}, session : 0..0]]
      /\ cnMaker["run"].at = "idle"
  BY DEF CnInit, Makers
<1> QED
  BY <1>1, <1>2, <1>3 DEF CnInit, Counted

(* Numbers that were given remain numbers that were given.                 *)
LEMMA NumbersLast ==
  ASSUME NEW m \in Nat, NEW n \in Nat, m <= n
  PROVE  /\ 0..m \subseteq 0..n /\ 1..m \subseteq 1..n
         /\ \A f : f \in [Makers -> [at : {"idle", "begun", "conn", "session", "done"}, made : 0..m]]
              => f \in [Makers -> [at : {"idle", "begun", "conn", "session", "done"}, made : 0..n]]
         /\ \A f : f \in [CnApps -> [at : {"out", "greets", "asks", "tunnel", "over"}, session : 0..m]]
              => f \in [CnApps -> [at : {"out", "greets", "asks", "tunnel", "over"}, session : 0..n]]
<1>1. 0..m \subseteq 0..n /\ 1..m \subseteq 1..n
  OBVIOUS
<1> DEFINE Old == 0..m
           New == 0..n
<1>2. Old \subseteq New
  BY <1>1
<1> HIDE DEF Old, New
<1>3. \A f : f \in [Makers -> [at : {"idle", "begun", "conn", "session", "done"}, made : Old]]
        => f \in [Makers -> [at : {"idle", "begun", "conn", "session", "done"}, made : New]]
  BY <1>2
<1>4. \A f : f \in [CnApps -> [at : {"out", "greets", "asks", "tunnel", "over"}, session : Old]]
        => f \in [CnApps -> [at : {"out", "greets", "asks", "tunnel", "over"}, session : New]]
  BY <1>2
<1> QED
  BY <1>1, <1>3, <1>4 DEF Old, New

(* A maker takes the numbers of its pair once.                             *)
LEMMA MakerCounts ==
  ASSUME Counted, NEW p \in Makers,
         CnMakesConn(p) \/ CnMakesSession(p) \/ CnInstalls(p) \/ CnReconnects(p)
  PROVE  Counted'
<1> USE DEF cnSocks
<1>1. /\ cnMaker \in [Makers -> [at : {"idle", "begun", "conn", "session", "done"}, made : 0..cnMade]]
      /\ cnMade \in Nat
  BY DEF Counted
<1>2. /\ IsFiniteSet(HasConn) /\ Cardinality(HasConn) \in Nat
      /\ IsFiniteSet(HasSession) /\ Cardinality(HasSession) \in Nat
  BY MakersAreFinite DEF HasConn, HasSession
<1>3. "run" \in Makers
  BY DEF Makers
<1>4. CASE CnMakesConn(p)
  <2>1. /\ cnMaker[p].at = "begun" /\ cnMaker' = [cnMaker EXCEPT ![p].at = "conn"]
        /\ cnMade' = cnMade + 1 /\ cnConn' = cnMade' /\ cnOpen' = cnOpen \cup {cnMade'}
        /\ UNCHANGED <<cnRun, cnOver, cnLink, cnSession, cnListens, cnApp, cnCrossings>>
    BY <1>4 DEF CnMakesConn, CnMakerGoes
  <2>2. HasConn' = HasConn \cup {p} /\ p \notin HasConn /\ HasSession' = HasSession
    BY <1>1, <2>1 DEF HasConn, HasSession
  <2>3. Cardinality(HasConn') = Cardinality(HasConn) + 1
    BY <1>2, <2>2, FS_AddElement
  <2>4. cnMade' <= Cardinality(HasConn') + Cardinality(HasSession')
    BY <1>1, <1>2, <2>1, <2>2, <2>3 DEF Counted
  <2>5. cnMaker' \in [Makers -> [at : {"idle", "begun", "conn", "session", "done"}, made : 0..cnMade]]
    BY <1>1, <2>1
  <2>6. /\ cnMaker' \in [Makers -> [at : {"idle", "begun", "conn", "session", "done"}, made : 0..cnMade']]
        /\ cnApp' \in [CnApps -> [at : {"out", "greets", "asks", "tunnel", "over"}, session : 0..cnMade']]
    BY <1>1, <2>1, <2>5, NumbersLast DEF Counted
  <2>7. cnMade' \in Nat /\ {cnConn, cnSession}' \subseteq 0..cnMade' /\ cnOpen' \subseteq 1..cnMade'
    BY <1>1, <2>1 DEF Counted
  <2>8. cnRun' \in {"new", "link"} => cnMaker'["run"].at = "idle"
    BY <1>1, <1>3, <2>1 DEF Counted
  <2> QED
    BY <2>1, <2>4, <2>6, <2>7, <2>8 DEF Counted
<1>5. CASE CnMakesSession(p)
  <2>1. CASE cnConn = 0
    <3>1. cnRun' = "panic"
          /\ UNCHANGED <<cnMade, cnOpen, cnMaker, cnOver, cnLink, cnConn, cnSession, cnListens,
                         cnApp, cnCrossings>>
      BY <1>5, <2>1 DEF CnMakesSession
    <3> QED
      BY <3>1 DEF Counted, HasConn, HasSession
  <2>2. CASE cnConn # 0
    <3>1. /\ cnMaker[p].at = "conn" /\ cnMade' = cnMade + 1 /\ cnOpen' = cnOpen \cup {cnMade'}
          /\ cnMaker' = [cnMaker EXCEPT ![p] = [at |-> "session", made |-> cnMade']]
          /\ UNCHANGED <<cnRun, cnOver, cnLink, cnConn, cnSession, cnListens, cnApp, cnCrossings>>
      BY <1>5, <2>2 DEF CnMakesSession
    <3>2. HasSession' = HasSession \cup {p} /\ p \notin HasSession /\ HasConn' = HasConn
      BY <1>1, <3>1 DEF HasConn, HasSession
    <3>3. Cardinality(HasSession') = Cardinality(HasSession) + 1
      BY <1>2, <3>2, FS_AddElement
    <3>4. cnMade' <= Cardinality(HasConn') + Cardinality(HasSession')
      BY <1>1, <1>2, <3>1, <3>2, <3>3 DEF Counted
    <3>5. /\ cnMaker \in [Makers -> [at : {"idle", "begun", "conn", "session", "done"}, made : 0..cnMade']]
          /\ cnApp' \in [CnApps -> [at : {"out", "greets", "asks", "tunnel", "over"}, session : 0..cnMade']]
      BY <1>1, <3>1, NumbersLast DEF Counted
    <3>6. cnMaker' \in [Makers -> [at : {"idle", "begun", "conn", "session", "done"}, made : 0..cnMade']]
      BY <1>1, <3>1, <3>5
    <3>7. cnMade' \in Nat /\ {cnConn, cnSession}' \subseteq 0..cnMade' /\ cnOpen' \subseteq 1..cnMade'
      BY <1>1, <3>1 DEF Counted
    <3>8. cnRun' \in {"new", "link"} => cnMaker'["run"].at = "idle"
      BY <1>1, <1>3, <3>1 DEF Counted
    <3> QED
      BY <3>1, <3>4, <3>5, <3>6, <3>7, <3>8 DEF Counted
  <2> QED
    BY <2>1, <2>2
<1>6. CASE CnInstalls(p)
  <2>1. /\ cnMaker[p].at = "session" /\ cnMaker' = [cnMaker EXCEPT ![p].at = "done"]
        /\ cnSession' = cnMaker[p].made /\ cnMade' = cnMade
        /\ UNCHANGED <<cnRun, cnOver, cnLink, cnConn, cnOpen, cnListens, cnApp, cnCrossings>>
    BY <1>6 DEF CnInstalls, CnMakerGoes
  <2>2. HasConn' = HasConn /\ HasSession' = HasSession
    BY <1>1, <2>1 DEF HasConn, HasSession
  <2>3. /\ cnMaker' \in [Makers -> [at : {"idle", "begun", "conn", "session", "done"}, made : 0..cnMade]]
        /\ cnSession' \in 0..cnMade
    BY <1>1, <2>1
  <2>4. cnRun' \in {"new", "link"} => cnMaker'["run"].at = "idle"
    BY <1>1, <1>3, <2>1 DEF Counted
  <2> QED
    BY <2>1, <2>2, <2>3, <2>4 DEF Counted
<1>7. CASE CnReconnects(p)
  <2>1. /\ p # "run" /\ cnMaker[p].at = "idle" /\ cnMaker' = [cnMaker EXCEPT ![p].at = "begun"]
        /\ cnOpen' \subseteq cnOpen /\ cnConn' = 0 /\ cnSession' = 0 /\ cnMade' = cnMade
        /\ UNCHANGED <<cnRun, cnOver, cnLink, cnListens, cnApp>> /\ cnCrossings' \in Nat
    BY <1>7 DEF CnReconnects, CnMakerGoes, Kept, Counted, Counts
  <2>2. HasConn' = HasConn /\ HasSession' = HasSession
    BY <1>1, <2>1 DEF HasConn, HasSession
  <2>3. cnMaker' \in [Makers -> [at : {"idle", "begun", "conn", "session", "done"}, made : 0..cnMade]]
    BY <1>1, <2>1
  <2>4. cnRun' \in {"new", "link"} => cnMaker'["run"].at = "idle"
    BY <1>1, <1>3, <2>1 DEF Counted
  <2>5. {cnOver, cnListens}' \subseteq BOOLEAN /\ cnCrossings' \in Nat /\ {cnConn, cnSession}' \subseteq 0..cnMade'
    BY <1>1, <2>1 DEF Counted
  <2> QED
    BY <2>1, <2>2, <2>3, <2>4, <2>5 DEF Counted
<1> QED
  BY <1>4, <1>5, <1>6, <1>7

(* What a step makes is counted at the maker that takes it.                *)
LEMMA CountedSteps == Counted /\ [CnNext]_cnVars => Counted'
<1> SUFFICES ASSUME Counted, [CnNext]_cnVars PROVE Counted'
  OBVIOUS
<1> USE DEF cnPair, cnSocks, CnRunGoes
<1>0. UNCHANGED cnMaker => HasConn' = HasConn /\ HasSession' = HasSession
  BY DEF HasConn, HasSession
<1>1. CASE CnMakesLink \/ CnListen \/ CnCancel \/ CnStopsListening \/ CnReturns
  BY <1>0, <1>1 DEF CnMakesLink, CnListen, CnCancel, CnStopsListening, CnReturns, Counted
<1>2. CASE CnConnects
  <2>1. /\ cnRun = "link" /\ cnRun' \in {"failed", "pair"} /\ cnOver' \in BOOLEAN
        /\ UNCHANGED <<cnLink, cnConn, cnSession, cnMade, cnOpen, cnListens, cnApp, cnCrossings>>
        /\ UNCHANGED cnMaker \/ cnMaker' = [cnMaker EXCEPT !["run"].at = "begun"]
    BY <1>2 DEF CnConnects, Counted
  <2>2. cnMaker["run"].at = "idle" /\ "run" \in Makers
    BY <2>1 DEF Counted, Makers
  <2>3. cnMaker' \in [Makers -> [at : {"idle", "begun", "conn", "session", "done"}, made : 0..cnMade]]
    BY <2>1, <2>2 DEF Counted
  <2>4. HasConn' = HasConn /\ HasSession' = HasSession
    <3>1. CASE UNCHANGED cnMaker
      BY <3>1 DEF HasConn, HasSession
    <3>2. CASE cnMaker' = [cnMaker EXCEPT !["run"].at = "begun"]
      BY <2>2, <3>2 DEF HasConn, HasSession, Counted
    <3> QED
      BY <2>1, <3>1, <3>2
  <2>5. {cnOver, cnListens}' \subseteq BOOLEAN
    BY <2>1 DEF Counted
  <2> QED
    BY <2>1, <2>3, <2>4, <2>5 DEF Counted
<1>3. CASE CnShutsDown
  <2>1. /\ cnRun' = "close" /\ cnOpen' \subseteq cnOpen /\ cnCrossings' \in Nat
        /\ UNCHANGED <<cnOver, cnLink, cnConn, cnSession, cnMade, cnMaker, cnListens, cnApp>>
    BY <1>3 DEF CnShutsDown, Kept, Counted, Counts
  <2>2. {cnOver, cnListens}' \subseteq BOOLEAN /\ cnCrossings' \in Nat
    BY <2>1 DEF Counted
  <2> QED
    BY <1>0, <2>1, <2>2 DEF Counted
<1>4. ASSUME NEW p \in Makers, CnMakesConn(p) \/ CnMakesSession(p) \/ CnInstalls(p) \/ CnReconnects(p)
      PROVE  Counted'
  BY <1>4, MakerCounts
<1>5. ASSUME NEW a \in CnApps,
             CnAccepts(a) \/ CnHandshake(a) \/ CnBadRequest(a) \/ CnRequest(a) \/ CnTunnelEnds(a)
      PROVE  Counted'
  <2>1. cnApp' \in [CnApps -> [at : {"out", "greets", "asks", "tunnel", "over"}, session : 0..cnMade]]
    BY <1>5 DEF CnAccepts, CnHandshake, CnBadRequest, CnRequest, CnTunnelEnds, CnAppGoes, Counted
  <2>2. UNCHANGED <<cnRun, cnOver, cnLink, cnConn, cnSession, cnMade, cnOpen, cnMaker, cnListens, cnCrossings>>
    BY <1>5 DEF CnAccepts, CnHandshake, CnBadRequest, CnRequest, CnTunnelEnds, cnRest
  <2> QED
    BY <1>0, <2>1, <2>2 DEF Counted
<1>6. CASE UNCHANGED cnVars
  BY <1>0, <1>6 DEF cnVars, Counted
<1> QED
  BY <1>1, <1>2, <1>3, <1>4, <1>5, <1>6 DEF CnNext

(* What is counted has numbers among Ids.                                  *)
LEMMA CountedTyped == Counted => CnTypeOK
<1> SUFFICES ASSUME Counted PROVE CnTypeOK
  OBVIOUS
<1>1. cnMade \in Nat /\ cnMade <= 2 * Cardinality(Makers) /\ Cardinality(Makers) \in Nat
  <2>1. /\ Cardinality(HasConn) <= Cardinality(Makers) /\ Cardinality(HasConn) \in Nat
        /\ Cardinality(HasSession) <= Cardinality(Makers) /\ Cardinality(HasSession) \in Nat
        /\ Cardinality(Makers) \in Nat
    BY MakersAreFinite DEF HasConn, HasSession
  <2> QED
    BY <2>1 DEF Counted
<1>2. 2 * Cardinality(Makers) \in Nat /\ cnMade \in Ids /\ {cnConn, cnSession} \subseteq Ids
  BY <1>1 DEF Ids, Counted
<1>3. /\ cnMaker \in [Makers -> [at : {"idle", "begun", "conn", "session", "done"}, made : Ids]]
      /\ cnApp \in [CnApps -> [at : {"out", "greets", "asks", "tunnel", "over"}, session : Ids]]
  BY <1>1, <1>2, NumbersLast DEF Ids, Counted
<1> QED
  BY <1>2, <1>3 DEF CnTypeOK, Counted

-----------------------------------------------------------------------------
(* The client leaves no more open than its callbacks crossed.  The         *)
(* argument: the weight of a state is what is open and what the makers     *)
(* that are midway are still going to make.  Making moves weight, it does  *)
(* not add any; a callback adds a pair and takes away the pair of the      *)
(* fields; only where it cannot, because another maker is midway or        *)
(* because the fields were emptied or never filled, does it count as a     *)
(* crossing.                                                               *)

CnBegun == {p \in Makers : cnMaker[p].at = "begun"}
CnWithConn == {p \in Makers : cnMaker[p].at = "conn"}
CnWeight == Cardinality(cnOpen) + 2 * Cardinality(CnBegun) + Cardinality(CnWithConn)

CnService == {"pair", "serve", "shut"}
CnOutside == {"new", "link", "failed", "close", "returned"}

(* What the place of the run says about the link and the port.             *)
CnPlaces ==
  /\ cnRun = "new" => cnLink = "none"
  /\ cnRun = "returned" => cnLink = "closed"
  /\ cnListens => cnRun \in {"serve", "panic"}

(* Until the shutdown, what the fields and the makers hold is open, and    *)
(* none of it is held twice.                                               *)
CnHeld ==
  cnRun \in CnService \cup {"new", "link"} =>
    /\ cnConn # 0 => cnConn \in cnOpen
    /\ cnSession # 0 => cnSession \in cnOpen /\ cnSession # cnConn
    /\ \A p \in Makers : cnMaker[p].at = "session" => cnMaker[p].made \in cnOpen \ {cnConn, cnSession}
    /\ \A p, q \in Makers :
         cnMaker[p].at = "session" /\ cnMaker[q].at = "session" /\ cnMaker[p].made = cnMaker[q].made => p = q

(* A field is empty because a maker has emptied it and not filled it yet.  *)
CnFilled ==
  /\ cnRun \in CnService => (cnConn = 0 => CnBegun # {}) /\ (cnSession = 0 => Midway)
  /\ CnWithConn # {} /\ cnConn = 0 => CnBegun # {}

CnBounded ==
  /\ cnRun \in CnService => CnWeight <= 2 * cnCrossings + 2
  /\ cnRun \in CnOutside => CnWeight <= 2 * cnCrossings
  /\ cnRun = "panic" => Midway /\ cnCrossings > 0

CnInv == Counted /\ CnPlaces /\ CnHeld /\ CnFilled /\ CnBounded

(* What the weight is made of can be counted.                              *)
LEMMA CnSizes ==
  ASSUME Counted
  PROVE  /\ IsFiniteSet(cnOpen) /\ Cardinality(cnOpen) \in Nat
         /\ IsFiniteSet(CnBegun) /\ Cardinality(CnBegun) \in Nat
         /\ IsFiniteSet(CnWithConn) /\ Cardinality(CnWithConn) \in Nat
         /\ CnWeight \in Nat
<1>1. IsFiniteSet(1..cnMade) /\ cnOpen \in SUBSET (1..cnMade)
  BY FS_Interval DEF Counted
<1>2. IsFiniteSet(cnOpen)
  BY <1>1, FS_Subset
<1>3. Cardinality(cnOpen) \in Nat
  BY <1>2, FS_CardinalityType
<1>4. CnBegun \in SUBSET Makers /\ CnWithConn \in SUBSET Makers
  BY DEF CnBegun, CnWithConn
<1> QED
  BY <1>2, <1>3, <1>4, MakersAreFinite DEF CnWeight

(* Two that are open and different, taken away.                            *)
LEMMA PairTaken ==
  ASSUME NEW S, IsFiniteSet(S), NEW x \in S, NEW y \in S, x # y
  PROVE  Cardinality(S \ {x, y}) = Cardinality(S) - 2
<1>1. IsFiniteSet(S \ {x}) /\ Cardinality(S \ {x}) = Cardinality(S) - 1
  BY FS_RemoveElement
<1>2. y \in S \ {x} /\ S \ {x, y} = (S \ {x}) \ {y}
  OBVIOUS
<1>3. Cardinality((S \ {x}) \ {y}) = Cardinality(S \ {x}) - 1
  BY <1>1, <1>2, FS_RemoveElement
<1>4. Cardinality(S) \in Nat
  BY FS_CardinalityType
<1> QED
  BY <1>1, <1>2, <1>3, <1>4

(* Without a maker midway all the weight is open, and in the service two   *)
(* of it are in the fields.                                                *)
LEMMA CnQuiet ==
  ASSUME CnInv, ~Midway
  PROVE  /\ CnBegun = {} /\ CnWithConn = {} /\ CnWeight = Cardinality(cnOpen)
         /\ cnRun # "panic"
         /\ cnRun \in CnService =>
              Cardinality(cnOpen \ {cnConn, cnSession}) = Cardinality(cnOpen) - 2
<1> USE DEF CnInv
<1>1. CnBegun = {} /\ CnWithConn = {}
  BY DEF CnBegun, CnWithConn, Midway
<1>2. CnWeight = Cardinality(cnOpen)
  BY <1>1, CnSizes, FS_EmptySet DEF CnWeight
<1>3. ASSUME cnRun \in CnService
      PROVE  Cardinality(cnOpen \ {cnConn, cnSession}) = Cardinality(cnOpen) - 2
  <2>1. cnConn # 0 /\ cnSession # 0
    BY <1>1, <1>3 DEF CnFilled
  <2>2. cnConn \in cnOpen /\ cnSession \in cnOpen /\ cnSession # cnConn
    BY <1>3, <2>1 DEF CnHeld
  <2> QED
    BY <2>2, CnSizes, PairTaken
<1> QED
  BY <1>1, <1>2, <1>3 DEF CnBounded

(* Before the run there is nothing.                                        *)
LEMMA CnStarts == CnInit => CnInv
<1> SUFFICES ASSUME CnInit PROVE CnInv
  OBVIOUS
<1>1. Counted
  BY CountedStarts
<1>2. \A p \in Makers : cnMaker[p].at = "idle"
  BY DEF CnInit
<1>3. CnBegun = {} /\ CnWithConn = {} /\ cnOpen = {}
  BY <1>2 DEF CnInit, CnBegun, CnWithConn
<1>4. CnWeight = 0
  BY <1>3, FS_EmptySet DEF CnWeight
<1>5. CnHeld /\ CnPlaces
  BY <1>2 DEF CnInit, CnHeld, CnPlaces
<1>6. CnFilled /\ CnBounded
  BY <1>3, <1>4 DEF CnInit, CnFilled, CnBounded, CnService
<1> QED
  BY <1>1, <1>5, <1>6 DEF CnInv

(* The step that makes a connection.                                       *)
LEMMA ConnKept ==
  ASSUME CnInv, NEW p \in Makers, CnMakesConn(p)
  PROVE  CnPlaces' /\ CnHeld' /\ CnFilled' /\ CnBounded'
<1> USE DEF CnInv
<1>1. /\ cnMaker[p].at = "begun" /\ cnMaker' = [cnMaker EXCEPT ![p].at = "conn"] /\ Alive
      /\ cnConn' = cnMade + 1 /\ cnOpen' = cnOpen \cup {cnConn'}
      /\ UNCHANGED <<cnRun, cnLink, cnSession, cnListens, cnCrossings>>
  BY DEF CnMakesConn, CnMakerGoes, cnSocks
<1>2. cnMade \in Nat /\ cnSession \in 0..cnMade /\ cnOpen \subseteq 1..cnMade
  BY DEF Counted
<1>3. \A q \in Makers : /\ cnMaker'[q].at = (IF q = p THEN "conn" ELSE cnMaker[q].at)
                        /\ cnMaker'[q].made = cnMaker[q].made /\ cnMaker[q].made \in 0..cnMade
  BY <1>1 DEF Counted
<1>4. cnConn' \notin cnOpen /\ cnConn' # 0 /\ cnConn' # cnSession
  BY <1>1, <1>2
<1>5. CnHeld'
  BY <1>1, <1>2, <1>3, <1>4 DEF CnHeld
<1>6. CnBegun' = CnBegun \ {p} /\ p \in CnBegun /\ CnWithConn' = CnWithConn \cup {p} /\ p \notin CnWithConn
  BY <1>1, <1>3 DEF CnBegun, CnWithConn
<1>7. CnWeight' = CnWeight
  <2>1. Cardinality(cnOpen') = Cardinality(cnOpen) + 1
    BY <1>1, <1>4, CnSizes, FS_AddElement
  <2>2. Cardinality(CnBegun') = Cardinality(CnBegun) - 1
    BY <1>6, CnSizes, FS_RemoveElement
  <2>3. Cardinality(CnWithConn') = Cardinality(CnWithConn) + 1
    BY <1>6, CnSizes, FS_AddElement
  <2> QED
    BY <2>1, <2>2, <2>3, CnSizes DEF CnWeight
<1>8. Midway'
  BY <1>3 DEF Midway
<1> QED
  BY <1>1, <1>4, <1>5, <1>7, <1>8 DEF CnPlaces, CnFilled, CnBounded, Alive

(* The step that makes a session, or panics on a nil connection: then      *)
(* another maker has emptied the field, and two midway weigh three.        *)
LEMMA SessionKept ==
  ASSUME CnInv, NEW p \in Makers, CnMakesSession(p)
  PROVE  CnPlaces' /\ CnHeld' /\ CnFilled' /\ CnBounded'
<1> USE DEF CnInv
<1>0. /\ cnMaker[p].at = "conn" /\ Alive /\ p \in CnWithConn
      /\ UNCHANGED <<cnLink, cnListens, cnCrossings, cnConn, cnSession>>
  BY DEF CnMakesSession, cnSocks, CnWithConn
<1>1. CASE cnConn = 0
  <2>1. cnRun' = "panic" /\ UNCHANGED <<cnOpen, cnMade, cnMaker>>
    BY <1>1 DEF CnMakesSession
  <2>2. CnBegun # {} /\ CnWithConn # {}
    BY <1>0, <1>1 DEF CnFilled
  <2>3. Cardinality(CnBegun) > 0 /\ Cardinality(CnWithConn) > 0
    BY <2>2, CnSizes, FS_EmptySet
  <2>4. CnWeight > 2
    BY <2>3, CnSizes DEF CnWeight
  <2>5. cnCrossings \in Nat /\ CnWeight <= 2 * cnCrossings + 2
    BY <1>0, CnSizes DEF CnBounded, Counted, CnService, CnOutside, Alive
  <2>6. cnCrossings > 0
    BY <2>4, <2>5, CnSizes
  <2>7. Midway /\ (Midway' <=> Midway)
    BY <1>0, <2>1 DEF Midway
  <2> QED
    BY <1>0, <1>1, <2>1, <2>2, <2>6, <2>7
       DEF CnPlaces, CnHeld, CnFilled, CnBounded, CnService, CnOutside, CnBegun
<1>2. CASE cnConn # 0
  <2>1. /\ cnMade' = cnMade + 1 /\ cnOpen' = cnOpen \cup {cnMade'} /\ cnRun' = cnRun
        /\ cnMaker' = [cnMaker EXCEPT ![p] = [at |-> "session", made |-> cnMade']]
    BY <1>2 DEF CnMakesSession
  <2>2. cnMade \in Nat /\ cnConn \in 0..cnMade /\ cnSession \in 0..cnMade /\ cnOpen \subseteq 1..cnMade
    BY DEF Counted
  <2>3. \A q \in Makers : /\ cnMaker'[q].at = (IF q = p THEN "session" ELSE cnMaker[q].at)
                          /\ cnMaker'[q].made = (IF q = p THEN cnMade' ELSE cnMaker[q].made)
                          /\ cnMaker[q].made \in 0..cnMade
    BY <2>1 DEF Counted
  <2>4. cnMade' \notin cnOpen /\ cnMade' # cnConn /\ cnMade' # cnSession
        /\ \A q \in Makers : cnMaker[q].made # cnMade'
    BY <2>1, <2>2, <2>3
  <2>5. CnHeld'
    BY <1>0, <2>1, <2>3, <2>4 DEF CnHeld
  <2>6. CnBegun' = CnBegun /\ CnWithConn' = CnWithConn \ {p}
    BY <1>0, <2>3 DEF CnBegun, CnWithConn
  <2>7. CnWeight' = CnWeight
    <3>1. Cardinality(cnOpen') = Cardinality(cnOpen) + 1
      BY <2>1, <2>4, CnSizes, FS_AddElement
    <3>2. Cardinality(CnWithConn') = Cardinality(CnWithConn) - 1
      BY <1>0, <2>6, CnSizes, FS_RemoveElement
    <3> QED
      BY <2>6, <3>1, <3>2, CnSizes DEF CnWeight
  <2>8. Midway'
    BY <2>3 DEF Midway
  <2> QED
    BY <1>0, <1>2, <2>1, <2>5, <2>7, <2>8 DEF CnPlaces, CnFilled, CnBounded, Alive
<1> QED
  BY <1>1, <1>2

(* The step that installs a session.                                       *)
LEMMA InstallKept ==
  ASSUME CnInv, NEW p \in Makers, CnInstalls(p)
  PROVE  CnPlaces' /\ CnHeld' /\ CnFilled' /\ CnBounded'
<1> USE DEF CnInv
<1>1. /\ cnMaker[p].at = "session" /\ cnMaker' = [cnMaker EXCEPT ![p].at = "done"] /\ Alive
      /\ cnSession' = cnMaker[p].made
      /\ UNCHANGED <<cnRun, cnLink, cnConn, cnOpen, cnListens, cnCrossings>>
  BY DEF CnInstalls, CnMakerGoes, cnSocks
<1>2. \A q \in Makers : /\ cnMaker'[q].at = (IF q = p THEN "done" ELSE cnMaker[q].at)
                        /\ cnMaker'[q].made = cnMaker[q].made
  BY <1>1 DEF Counted
<1>3. CnHeld'
  BY <1>1, <1>2 DEF CnHeld
<1>4. CnBegun' = CnBegun /\ CnWithConn' = CnWithConn
  BY <1>1, <1>2 DEF CnBegun, CnWithConn
<1>5. CnWeight' = CnWeight
  BY <1>1, <1>4 DEF CnWeight
<1>6. cnRun \in CnService => cnSession' # 0
  BY <1>1 DEF CnHeld, Counted
<1> QED
  BY <1>1, <1>3, <1>4, <1>5, <1>6 DEF CnPlaces, CnFilled, CnBounded, Alive

(* A callback that begins takes a pair away where it promises one, or      *)
(* counts.                                                                 *)
LEMMA ReconnectKept ==
  ASSUME CnInv, NEW p \in Makers, CnReconnects(p)
  PROVE  CnPlaces' /\ CnHeld' /\ CnFilled' /\ CnBounded'
<1> USE DEF CnInv
<1> DEFINE Crossing == Midway \/ cnRun \in {"link", "close", "returned", "failed"}
<1>1. /\ cnMaker[p].at = "idle" /\ cnMaker' = [cnMaker EXCEPT ![p].at = "begun"] /\ Alive /\ cnLink # "none"
      /\ cnOpen' = cnOpen \ {cnConn, cnSession} /\ cnConn' = 0 /\ cnSession' = 0
      /\ cnCrossings' = cnCrossings + Counts(Crossing)
      /\ UNCHANGED <<cnRun, cnLink, cnListens>>
  BY DEF CnReconnects, CnMakerGoes, cnSocks, Kept
<1>2. \A q \in Makers : /\ cnMaker'[q].at = (IF q = p THEN "begun" ELSE cnMaker[q].at)
                        /\ cnMaker'[q].made = cnMaker[q].made
  BY <1>1 DEF Counted
<1>3. CnHeld'
  <2>1. \A q \in Makers : cnMaker'[q].at = "session" => cnMaker[q].at = "session" /\ cnMaker'[q].made = cnMaker[q].made
    BY <1>2
  <2>2. cnOpen \subseteq 1..cnMade
    BY DEF Counted
  <2> QED
    BY <1>1, <2>1, <2>2 DEF CnHeld, Counted
<1>4. CnBegun' = CnBegun \cup {p} /\ p \notin CnBegun /\ CnWithConn' = CnWithConn
  BY <1>1, <1>2 DEF CnBegun, CnWithConn
<1>5. Cardinality(CnBegun') = Cardinality(CnBegun) + 1
  BY <1>4, CnSizes, FS_AddElement
<1>6. cnRun \in CnService \cup CnOutside /\ cnRun # "panic" /\ cnRun # "new"
  BY <1>1 DEF CnPlaces, Counted, Alive, CnService, CnOutside
<1>7. CASE Crossing
  <2>1. cnCrossings' = cnCrossings + 1 /\ cnCrossings \in Nat
    BY <1>1, <1>7 DEF Counts, Counted
  <2>2. Cardinality(cnOpen') <= Cardinality(cnOpen) /\ Cardinality(cnOpen') \in Nat
    <3>1. cnOpen' \in SUBSET cnOpen
      BY <1>1
    <3> QED
      BY <3>1, CnSizes, FS_Subset, FS_CardinalityType
  <2>3. CnWeight' <= CnWeight + 2
    BY <1>4, <1>5, <2>2, CnSizes DEF CnWeight
  <2>4. CnWeight' \in Int
    BY <1>4, <1>5, <2>2, CnSizes DEF CnWeight
  <2>5. CnBounded'
    BY <1>1, <1>6, <2>1, <2>3, <2>4, CnSizes DEF CnBounded
  <2> QED
    BY <1>1, <1>3, <1>4, <2>5, <1>6 DEF CnPlaces, CnFilled, Midway, CnBegun
<1>8. CASE ~Crossing
  <2>1. cnCrossings' = cnCrossings /\ ~Midway /\ cnRun \in CnService
    BY <1>1, <1>6, <1>8 DEF Counts, Counted, CnOutside
  <2>2. Cardinality(cnOpen') = Cardinality(cnOpen) - 2
    BY <1>1, <2>1, CnQuiet
  <2>3. CnWeight' = CnWeight
    BY <1>4, <1>5, <2>2, CnSizes DEF CnWeight
  <2>4. CnBounded'
    BY <1>1, <1>6, <2>1, <2>3 DEF CnBounded
  <2> QED
    BY <1>1, <1>3, <1>4, <2>4, <1>6 DEF CnPlaces, CnFilled, Midway, CnBegun
<1> QED
  BY <1>7, <1>8

(* The run begins its pair once the link is connected.                     *)
LEMMA ConnectKept ==
  ASSUME CnInv, CnConnects
  PROVE  CnPlaces' /\ CnHeld' /\ CnFilled' /\ CnBounded'
<1> USE DEF CnInv
<1>1. cnRun = "link" /\ UNCHANGED <<cnLink, cnConn, cnSession, cnOpen, cnListens, cnCrossings>>
  BY DEF CnConnects, CnRunGoes, cnSocks
<1>2. CASE cnRun' = "failed" /\ UNCHANGED cnMaker
  <2>1. CnWeight' = CnWeight /\ CnBegun' = CnBegun /\ CnWithConn' = CnWithConn
    BY <1>1, <1>2 DEF CnWeight, CnBegun, CnWithConn
  <2> QED
    BY <1>1, <1>2, <2>1 DEF CnPlaces, CnHeld, CnFilled, CnBounded, CnService, CnOutside
<1>3. CASE cnRun' = "pair" /\ cnMaker' = [cnMaker EXCEPT !["run"].at = "begun"]
  <2>1. cnMaker["run"].at = "idle" /\ "run" \in Makers
    BY <1>1 DEF Counted, Makers
  <2>2. \A q \in Makers : /\ cnMaker'[q].at = (IF q = "run" THEN "begun" ELSE cnMaker[q].at)
                          /\ cnMaker'[q].made = cnMaker[q].made
    BY <1>3 DEF Counted
  <2>3. CnBegun' = CnBegun \cup {"run"} /\ "run" \notin CnBegun /\ CnWithConn' = CnWithConn
    BY <2>1, <2>2 DEF CnBegun, CnWithConn
  <2>4. Cardinality(CnBegun') = Cardinality(CnBegun) + 1
    BY <2>3, CnSizes, FS_AddElement
  <2>5. CnWeight' = CnWeight + 2
    BY <1>1, <2>3, <2>4, CnSizes DEF CnWeight
  <2>6. CnBounded'
    BY <1>1, <1>3, <2>5, CnSizes DEF CnBounded, Counted, CnService, CnOutside
  <2>7. CnHeld'
    BY <1>1, <2>2 DEF CnHeld
  <2> QED
    BY <1>1, <1>3, <2>1, <2>2, <2>3, <2>6, <2>7 DEF CnPlaces, CnFilled, Midway
<1> QED
  BY <1>2, <1>3 DEF CnConnects, CnRunGoes

(* The shutdown closes the pair of the fields, or counts.                  *)
LEMMA ShutKept ==
  ASSUME CnInv, CnShutsDown
  PROVE  CnPlaces' /\ CnHeld' /\ CnFilled' /\ CnBounded'
<1> USE DEF CnInv
<1>1. /\ cnRun = "shut" /\ cnRun' = "close"
      /\ UNCHANGED <<cnLink, cnConn, cnSession, cnMaker, cnListens>>
      /\ cnOpen' = cnOpen \ {cnConn, cnSession} /\ cnCrossings' = cnCrossings + Counts(Midway)
  BY DEF CnShutsDown, CnRunGoes, cnSocks, Kept
<1>2. CnBegun' = CnBegun /\ CnWithConn' = CnWithConn
  BY <1>1 DEF CnBegun, CnWithConn
<1>3. CnWeight <= 2 * cnCrossings + 2 /\ cnCrossings \in Nat
  BY <1>1 DEF CnBounded, Counted, CnService
<1>4. CnWeight' <= 2 * cnCrossings'
  <2>1. CASE Midway
    <3>1. cnOpen' \in SUBSET cnOpen /\ cnCrossings' = cnCrossings + 1
      BY <1>1, <2>1 DEF Counts
    <3>2. Cardinality(cnOpen') <= Cardinality(cnOpen) /\ Cardinality(cnOpen') \in Nat
      BY <3>1, CnSizes, FS_Subset, FS_CardinalityType
    <3> QED
      BY <1>2, <1>3, <3>1, <3>2, CnSizes DEF CnWeight
  <2>2. CASE ~Midway
    <3>1. Cardinality(cnOpen') = Cardinality(cnOpen) - 2 /\ cnCrossings' = cnCrossings
      BY <1>1, <1>3, <2>2, CnQuiet DEF Counts, CnService
    <3> QED
      BY <1>2, <1>3, <3>1, CnSizes DEF CnWeight
  <2> QED
    BY <2>1, <2>2
<1> QED
  BY <1>1, <1>2, <1>4 DEF CnPlaces, CnHeld, CnFilled, CnBounded, CnService, CnOutside

(* Each step of the client keeps CnInv.                                    *)
LEMMA CnSteps == CnInv /\ [CnNext]_cnVars => CnInv'
<1> SUFFICES ASSUME CnInv, [CnNext]_cnVars PROVE CnPlaces' /\ CnHeld' /\ CnFilled' /\ CnBounded'
  BY CountedSteps DEF CnInv
<1> USE DEF cnPair, cnSocks, CnRunGoes
<1> DEFINE Rest == /\ UNCHANGED <<cnConn, cnSession, cnOpen, cnMaker, cnCrossings>>
                   /\ CnPlaces'
                   /\ \A places \in {CnService, CnOutside, {"panic"}, CnService \cup {"new", "link"}} :
                        cnRun' \in places => cnRun \in places
<1>0. ASSUME Rest PROVE CnPlaces' /\ CnHeld' /\ CnFilled' /\ CnBounded'
  <2>1. CnWeight' = CnWeight /\ CnBegun' = CnBegun /\ CnWithConn' = CnWithConn /\ Midway' = Midway
    BY <1>0 DEF CnWeight, CnBegun, CnWithConn, Midway
  <2> QED
    BY <1>0, <2>1 DEF CnInv, CnHeld, CnFilled, CnBounded
<1>1. CASE CnMakesLink
  BY <1>0, <1>1 DEF CnMakesLink, CnInv, CnPlaces, CnService, CnOutside
<1>2. CASE CnConnects
  BY <1>2, ConnectKept
<1>3. CASE CnListen
  BY <1>0, <1>3 DEF CnListen, CnInv, CnPlaces, CnService, CnOutside
<1>4. CASE CnCancel
  BY <1>0, <1>4 DEF CnCancel, CnInv, CnPlaces
<1>5. CASE CnStopsListening
  BY <1>0, <1>5 DEF CnStopsListening, CnInv, CnPlaces, CnService, CnOutside
<1>6. CASE CnShutsDown
  BY <1>6, ShutKept
<1>7. CASE CnReturns
  BY <1>0, <1>7 DEF CnReturns, CnInv, CnPlaces, CnService, CnOutside
<1>8. ASSUME NEW p \in Makers, CnMakesConn(p) \/ CnMakesSession(p) \/ CnInstalls(p) \/ CnReconnects(p)
      PROVE  CnPlaces' /\ CnHeld' /\ CnFilled' /\ CnBounded'
  BY <1>8, ConnKept, SessionKept, InstallKept, ReconnectKept
<1>9. ASSUME NEW a \in CnApps,
             CnAccepts(a) \/ CnHandshake(a) \/ CnBadRequest(a) \/ CnRequest(a) \/ CnTunnelEnds(a)
      PROVE  CnPlaces' /\ CnHeld' /\ CnFilled' /\ CnBounded'
  BY <1>0, <1>9
     DEF CnAccepts, CnHandshake, CnBadRequest, CnRequest, CnTunnelEnds, CnAppGoes, cnRest, CnInv, CnPlaces
<1>10. CASE UNCHANGED cnVars
  BY <1>0, <1>10 DEF cnVars, CnInv, CnPlaces
<1> QED
  BY <1>1, <1>2, <1>3, <1>4, <1>5, <1>6, <1>7, <1>8, <1>9, <1>10 DEF CnNext

(* The client closes the connections and sessions it made, for any number  *)
(* of callbacks: each that ran beside another maker, or before or after    *)
(* the service, leaves one pair at most, also when the run has failed; and *)
(* a run that has returned has closed the link and the port.               *)
THEOREM NothingIsLeft == CnSpec => []CnNothingLeft
<1>1. CnInv => CnNothingLeft
  <2> SUFFICES ASSUME CnInv PROVE CnNothingLeft
    OBVIOUS
  <2>1. cnRun \in CnService \cup CnOutside \cup {"panic"} /\ cnCrossings \in Nat
    BY DEF CnInv, Counted, CnService, CnOutside
  <2>2. cnRun \in CnOutside => Cardinality(cnOpen) <= 2 * cnCrossings
    BY <2>1, CnSizes DEF CnInv, CnBounded, CnWeight
  <2>3. ASSUME ~Midway
        PROVE  Cardinality(cnOpen \ {cnConn, cnSession}) <= 2 * cnCrossings
    <3>1. CASE cnRun \in CnService
      <4>1. Cardinality(cnOpen \ {cnConn, cnSession}) = CnWeight - 2 /\ CnWeight \in Nat
        BY <2>3, <3>1, CnQuiet, CnSizes DEF CnInv
      <4> QED
        BY <2>1, <3>1, <4>1 DEF CnInv, CnBounded
    <3>2. CASE cnRun \in CnOutside
      <4>1. cnOpen \ {cnConn, cnSession} \in SUBSET cnOpen
        OBVIOUS
      <4>2. /\ Cardinality(cnOpen \ {cnConn, cnSession}) <= Cardinality(cnOpen)
            /\ Cardinality(cnOpen \ {cnConn, cnSession}) \in Nat
        BY <4>1, CnSizes, FS_Subset, FS_CardinalityType DEF CnInv
      <4> QED
        BY <2>1, <2>2, <3>2, <4>2, CnSizes DEF CnInv
    <3> QED
      BY <2>1, <2>3, <3>1, <3>2, CnQuiet
  <2> QED
    BY <2>2, <2>3 DEF CnInv, CnPlaces, CnBounded, CnNothingLeft, CnOutside
<1> QED
  BY <1>1, CnStarts, CnSteps, PTL DEF CnSpec

-----------------------------------------------------------------------------
(* Whichever of the parts acts, its state is of the types the modules      *)
(* declare: the client numbers no more connections and sessions than two   *)
(* for every callback and two for its run.                                 *)
THEOREM PartsAreTyped == Spec => []PartsTypeOK
<1> DEFINE Inv == VpInv /\ RtInv /\ VdInv /\ Counted /\ MkInv /\ PgInv
<1>1. Init => Inv
  BY VpStarts, RtStarting, VdStarts, CountedStarts, MkStarts, PgStarts DEF Init
<1>2. Inv /\ [Next]_partVars => Inv'
  <2> SUFFICES ASSUME Inv, [Next]_partVars PROVE Inv'
    OBVIOUS
  <2>1. [VpNext]_vpVars /\ [RtNext]_rtVars /\ [VdNext]_vdVars /\ [CnNext]_cnVars /\ [MkNext]_mkVars
        /\ [PgNext]_pgVars
    BY DEF Next, partVars
  <2> QED
    BY <2>1, VpSteps, RtSteps, VdSteps, CountedSteps, MkSteps, PgSteps
<1>3. Inv => PartsTypeOK
  BY CountedTyped DEF VpInv, VpTyped, RtInv, VdInv, MkInv, PgInv, PartsTypeOK
<1> QED
  BY <1>1, <1>2, <1>3, PTL DEF Spec

=============================================================================
