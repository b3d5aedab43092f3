----------------------------- MODULE ProgramRun -----------------------------
(***************************************************************************)
(* The command cmd/olcrtc/main.go and internal/app/session: a              *)
(* configuration is validated, then a session or the generation of rooms   *)
(* runs on a goroutine of its own while main waits for it or for a signal. *)
(*                                                                         *)
(* A configuration keeps the fields the code branches on: the strings and  *)
(* numbers that only have to be there are the set gaps of those that are   *)
(* not.  Time is counted in units of which PgSecond make a second, so that *)
(* a rate can be too high for the clock as well as zero or negative.       *)
(***************************************************************************)
EXTENDS Integers, FiniteSets

CONSTANTS
  PgSecond,     \* units of the clock in a second
  PgRates,      \* bound: frame rates asked for
  PgBatches,    \* bound: frames per tick asked for
  PgAmounts,    \* bound: numbers of rooms asked for
  PgGaps        \* bound: fields missing in one configuration

PgAttempts == 5

ASSUME PgAssumption ==
  /\ PgSecond \in Nat \ {0} /\ PgGaps \in Nat
  /\ \A numbers \in {PgRates, PgBatches, PgAmounts} : numbers \subseteq Int /\ 0 \in numbers

VARIABLES
  pgCfg,        \* the configuration
  pgStage,      \* main: "args", "parsed", "wait" for a session or Gen, "stop" after a signal, "exit"
  pgExit,       \* how main ended: "none", "ok", "error"
  pgSession,    \* the goroutine: "off", "open", "serves", "gen", "ok", "error", "crash"
  pgMade, pgPrinted,  \* rooms that the carrier made, and that were printed
  pgTries,      \* failed attempts of the room at hand
  pgQuit        \* history: a signal came

pgVars == <<pgCfg, pgStage, pgExit, pgSession, pgMade, pgPrinted, pgTries, pgQuit>>

Carriers == {"telemost", "jazz", "wbstream"}
VideoTransports == {"videochannel", "vp8channel", "seichannel"}
Fields == {"link", "room", "client", "key", "dns", "socks", "picture", "acks", "data"}
Config == [mode : {"srv", "cnc", "gen", ""}, carrier : Carriers \cup {""},
           transport : VideoTransports \cup {"datachannel", ""}, fps : PgRates, batch : PgBatches,
           amount : PgAmounts, gaps : {g \in SUBSET Fields : Cardinality(g) <= PgGaps}]

(* The configuration before its flags are read; nobody looks at it.        *)
Defaults == [mode |-> "", carrier |-> "", transport |-> "", fps |-> 0, batch |-> 0, amount |-> 0,
             gaps |-> {}]

PgTypeOK ==
  /\ pgCfg \in Config
  /\ pgStage \in {"args", "parsed", "wait", "stop", "exit"} /\ pgExit \in {"none", "ok", "error"}
  /\ pgSession \in {"off", "open", "serves", "gen", "ok", "error", "crash"}
  /\ pgMade \in Nat /\ pgPrinted \in 0..pgMade /\ pgTries \in 0..PgAttempts /\ pgQuit \in BOOLEAN

Has(cfg, field) == field \notin cfg.gaps

(* A video transport wants a rate and, other than videochannel, a batch;   *)
(* videochannel a picture, seichannel fragments and a time for answers.    *)
(* Mutation: the rate may be anything.                                     *)
TransportFitsAnyRate(cfg) ==
  CASE cfg.transport = "" -> FALSE
    [] cfg.transport = "datachannel" -> TRUE
    [] cfg.transport = "vp8channel" -> cfg.batch # 0
    [] cfg.transport = "videochannel" -> Has(cfg, "picture")
    [] OTHER -> cfg.batch # 0 /\ Has(cfg, "acks")
TransportFits(cfg) ==
  CASE cfg.transport = "" -> FALSE
    [] cfg.transport = "datachannel" -> TRUE
    [] cfg.transport = "vp8channel" -> cfg.fps # 0 /\ cfg.batch # 0
    [] cfg.transport = "videochannel" -> cfg.fps # 0 /\ Has(cfg, "picture")
    [] OTHER -> cfg.fps # 0 /\ cfg.batch # 0 /\ Has(cfg, "acks")

Validate(cfg) ==
  /\ cfg.mode # "" /\ cfg.carrier # "" /\ Has(cfg, "link")
  /\ TransportFits(cfg)
  /\ Has(cfg, "room") \/ cfg.carrier = "jazz"
  /\ \A field \in {"client", "key", "dns"} : Has(cfg, field)
  /\ cfg.mode = "cnc" => Has(cfg, "socks")

ValidateGen(cfg) == cfg.carrier # "" /\ Has(cfg, "dns") /\ cfg.amount >= 1

(* Division of durations, which goes towards zero.                         *)
Quotient(a, b) == IF b < 0 THEN -(a \div (-b)) ELSE a \div b

(* The period of the ticker of the transport's writer, 0 for none that can *)
(* be made; seichannel replaces a rate it cannot use.                      *)
Interval(cfg) ==
  CASE cfg.fps = 0 -> 0
    [] cfg.transport = "vp8channel" /\ cfg.batch > 1 ->
         Quotient(Quotient(PgSecond, cfg.fps), cfg.batch)
    [] OTHER -> Quotient(PgSecond, cfg.fps)

Crashes(cfg) == cfg.transport \in {"videochannel", "vp8channel"} /\ Interval(cfg) <= 0

PgInit ==
  /\ pgCfg = Defaults
  /\ pgStage = "args" /\ pgExit = "none" /\ pgSession = "off"
  /\ pgMade = 0 /\ pgPrinted = 0 /\ pgTries = 0 /\ pgQuit = FALSE

-----------------------------------------------------------------------------
(* main.                                                                   *)

PgExits(how) == pgStage' = "exit" /\ pgExit' = how

PgParse ==
  /\ pgStage = "args" /\ pgStage' = "parsed" /\ pgCfg' \in Config
  /\ UNCHANGED <<pgExit, pgSession, pgMade, pgPrinted, pgTries, pgQuit>>

PgRefused ==
  /\ pgStage = "parsed"
  /\ IF pgCfg.mode = "gen" THEN ~ValidateGen(pgCfg) ELSE ~Validate(pgCfg) \/ ~Has(pgCfg, "data")
  /\ PgExits("error")
  /\ UNCHANGED <<pgCfg, pgSession, pgMade, pgPrinted, pgTries, pgQuit>>

PgRuns ==
  /\ pgStage = "parsed" /\ pgStage' = "wait"
  /\ \/ pgCfg.mode = "gen" /\ ValidateGen(pgCfg) /\ pgSession' = "gen"
     \/ pgCfg.mode # "gen" /\ Validate(pgCfg) /\ Has(pgCfg, "data") /\ pgSession' = "open"
  /\ UNCHANGED <<pgCfg, pgExit, pgMade, pgPrinted, pgTries, pgQuit>>

PgSignal ==
  /\ pgStage = "wait" /\ pgSession # "crash" /\ pgStage' = "stop" /\ pgQuit' = TRUE
  /\ UNCHANGED <<pgCfg, pgExit, pgSession, pgMade, pgPrinted, pgTries>>

(* The answer of the goroutine, before a signal or while waitForShutdown.  *)
PgAnswer ==
  /\ pgStage \in {"wait", "stop"} /\ pgSession \in {"ok", "error"} /\ PgExits(pgSession)
  /\ UNCHANGED <<pgCfg, pgSession, pgMade, pgPrinted, pgTries, pgQuit>>

(* Five seconds after the signal: the goroutine dies with the process.     *)
PgForced ==
  /\ pgStage = "stop" /\ pgSession # "crash" /\ PgExits("ok")
  /\ UNCHANGED <<pgCfg, pgSession, pgMade, pgPrinted, pgTries, pgQuit>>

-----------------------------------------------------------------------------
(* session.Run: the transport is made, the server or client serves.        *)

PgOpens ==
  /\ pgStage # "exit" /\ pgSession = "open"
  /\ \/ pgSession' = "error"
     \/ pgSession' = IF Crashes(pgCfg) THEN "crash" ELSE "serves"
  /\ UNCHANGED <<pgCfg, pgStage, pgExit, pgMade, pgPrinted, pgTries, pgQuit>>

PgServeEnds ==
  /\ pgStage # "exit" /\ pgSession = "serves" /\ pgSession' \in {"ok", "error"}
  /\ UNCHANGED <<pgCfg, pgStage, pgExit, pgMade, pgPrinted, pgTries, pgQuit>>

-----------------------------------------------------------------------------
(* session.Gen with genRetry, for the one carrier that can make rooms.     *)

PgGenRuns == pgStage # "exit" /\ pgSession = "gen"

PgGenRefused ==
  /\ PgGenRuns /\ pgCfg.carrier # "jazz" /\ pgSession' = "error"
  /\ UNCHANGED <<pgCfg, pgStage, pgExit, pgMade, pgPrinted, pgTries, pgQuit>>

PgRoomMade ==
  /\ PgGenRuns /\ pgCfg.carrier = "jazz" /\ pgMade = pgPrinted /\ pgMade < pgCfg.amount
  /\ pgMade' = pgMade + 1 /\ pgTries' = 0
  /\ UNCHANGED <<pgCfg, pgStage, pgExit, pgSession, pgPrinted, pgQuit>>

PgRoomPrinted ==
  /\ PgGenRuns /\ pgPrinted < pgMade /\ pgPrinted' = pgPrinted + 1
  /\ UNCHANGED <<pgCfg, pgStage, pgExit, pgSession, pgMade, pgTries, pgQuit>>

(* Mutation: the error of the last attempt is forgotten.                   *)
AfterFailureForgotten(tries, quit) == IF tries = PgAttempts THEN "ok" ELSE IF quit THEN "error" ELSE "gen"
AfterFailure(tries, quit) == IF tries = PgAttempts \/ quit THEN "error" ELSE "gen"

(* The attempt fails; the next one follows, unless the context is over.    *)
PgRoomFails ==
  /\ PgGenRuns /\ pgCfg.carrier = "jazz" /\ pgMade = pgPrinted /\ pgMade < pgCfg.amount
  /\ pgTries < PgAttempts /\ pgTries' = pgTries + 1
  /\ pgSession' = AfterFailure(pgTries', pgQuit)
  /\ UNCHANGED <<pgCfg, pgStage, pgExit, pgMade, pgPrinted, pgQuit>>

PgGenDone ==
  /\ PgGenRuns /\ pgCfg.carrier = "jazz" /\ pgPrinted = pgCfg.amount /\ pgSession' = "ok"
  /\ UNCHANGED <<pgCfg, pgStage, pgExit, pgMade, pgPrinted, pgTries, pgQuit>>

-----------------------------------------------------------------------------
PgNext ==
  \/ PgParse \/ PgRefused \/ PgRuns \/ PgSignal \/ PgAnswer \/ PgForced
  \/ PgOpens \/ PgServeEnds
  \/ PgGenRefused \/ PgRoomMade \/ PgRoomPrinted \/ PgRoomFails \/ PgGenDone

PgSpec == PgInit /\ [][PgNext]_pgVars

-----------------------------------------------------------------------------
(* Properties.                                                             *)

(* What Validate lets through never divides by zero nor asks a ticker for  *)
(* a period of zero, unless the rate is negative or there is less than one *)
(* unit of the clock for every frame.                                      *)
PgRateIsSafe ==
  pgSession = "crash" =>
    pgCfg.fps < 0 \/ (pgCfg.fps > 0 /\ pgCfg.fps * (IF pgCfg.batch > 1 THEN pgCfg.batch ELSE 1) > PgSecond)

(* A generation that nobody interrupted and that reports success printed   *)
(* every room it was asked for, and no room it printed was never made; one *)
(* that reports an error had the carrier refuse the same room five times   *)
(* or cannot make rooms.                                                   *)
PgGenComplete ==
  pgCfg.mode = "gen" /\ pgStage = "exit" /\ ~pgQuit /\ ValidateGen(pgCfg) =>
    IF pgExit = "ok" THEN pgPrinted = pgCfg.amount /\ pgMade = pgCfg.amount
    ELSE pgTries = PgAttempts \/ pgCfg.carrier # "jazz"

=============================================================================
