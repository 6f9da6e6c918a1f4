----------------------------- MODULE ModemStatus -----------------------------
(***************************************************************************)
(* What the status of the modem is composed of (src/src/modem.rs,          *)
(* status_internal, classify, enrich_messaging_status, enrich_sim_status). *)
(* One status takes up to six calls of mmcli, in JSON or, with an mmcli    *)
(* that does not know the option, as text; the level and the reasons are   *)
(* judged after the first and again after those that fill in a gap.        *)
(*                                                                         *)
(* Abstractions.  Of an output of mmcli only what the verdict depends on   *)
(* is kept: whether it names the configured path, the state of the modem,  *)
(* of the SIM, and whether storages for messages are listed.  Each call    *)
(* may give any output, the modem changes meanwhile.  A path in the list   *)
(* is the configured one or another.  push_reason adds no reason twice and *)
(* nothing here depends on their order: the reasons are a set.             *)
(***************************************************************************)
EXTENDS Naturals, Sequences, FiniteSets

VARIABLES
    tool,           \* capabilities: "unknown", "json" or "text"
    probe,          \* the next call: of which the status waits
    known,          \* what the calls have told, put together
    level,          \* HealthLevel
    reasons         \* HealthSummary::reasons

statusVars == <<tool, probe, known, level, reasons>>

Levels == {"unknown", "ok", "degraded", "error"}

\* "searching" stands for the other states that are not usable, "none" for
\* one that is not reported.
States == {"registered", "searching", "disabled", "failed", "none"}
SimStates == {"ready", "inactive", "none"}
Report == [present: BOOLEAN, state: States, sim: SimStates, storages: BOOLEAN]
NoReport == [present |-> FALSE, state |-> "none", sim |-> "none",
             storages |-> FALSE]

Reasons == {"mmcli_probe_failed", "mmcli_parse_failed", "mmcli_timeout",
            "modem_path_unresolved", "modem_path_drift_candidate",
            "text_fallback_limited", "modem_disabled", "sim_not_ready",
            "messaging_unavailable", "modem_state_unhealthy"}

StatusCalls == {"version", "modem", "list", "listed", "drift", "messaging",
                "sim", "done"}

\* Every state has these types.
ModemStatusTypeOK ==
    /\ tool \in {"unknown", "json", "text"}
    /\ probe \in StatusCalls
    /\ known \in Report
    /\ level \in Levels
    /\ reasons \subseteq Reasons

----------------------------------------------------------------------------
(***************************************************************************)
(* The verdict.                                                            *)
(***************************************************************************)
Enabled(r) == r.state \notin {"disabled", "failed"}

Usable(r) == r.state = "registered"

\* The reasons that classify finds.
Found(r) ==
    {reason \in Reasons :
       \/ reason = "modem_disabled" /\ r.state # "none" /\ ~Enabled(r)
       \/ reason = "sim_not_ready" /\ r.sim \notin {"none", "ready"}
       \/ reason = "messaging_unavailable" /\ ~r.storages
       \/ reason = "modem_state_unhealthy" /\ r.state = "failed"}

\* classify, of a status with the level l and the reasons held: the level
\* only falls, and is decided here if nothing was found.
Classify(r, l, held) ==
    IF ~r.present
    THEN [level |-> "error", reasons |-> held \cup {"modem_path_unresolved"}]
    ELSE IF Found(r) # {}
    THEN [level |-> "degraded", reasons |-> held \cup Found(r)]
    ELSE IF l # "unknown" THEN [level |-> l, reasons |-> held]
    ELSE IF Usable(r) THEN [level |-> "ok", reasons |-> held]
    ELSE [level |-> "degraded", reasons |-> held \cup {"modem_state_unhealthy"}]

\* parse_modem_json and parse_modem_text.
Parsed(r) ==
    Classify(r, "unknown",
             IF tool = "json" THEN {} ELSE {"text_fallback_limited"})

\* A mutant: the reason goes, and the level is left as it was.
CuredUnjudged(r, reason) ==
    [level |-> level, reasons |-> reasons \ {reason}]

\* A mutant: the reason that was cured is still shown.
CuredInSilence(r, reason) == Classify(r, "unknown", reasons)

\* The end of both enrich functions: the reason they cure is dropped, and
\* the status judged anew if it was the only one.
Cured(r, reason) ==
    LET rest == reasons \ {reason}
    IN  IF rest = {} THEN Classify(r, "unknown", rest)
        ELSE [level |-> level, reasons |-> rest]

Judge(v) == level' = v.level /\ reasons' = v.reasons

----------------------------------------------------------------------------
(***************************************************************************)
(* The calls.                                                              *)
(***************************************************************************)
StatusInit ==
    /\ tool = "unknown" /\ probe = "done" /\ known = NoReport
    /\ level = "unknown" /\ reasons = {}

FailTo(next, l, reason) ==
    /\ probe' = next
    /\ level' = l
    /\ reasons' = {reason}
    /\ known' = NoReport

Fail(l, reason) == FailTo("done", l, reason)

\* status, of a service that may already know its mmcli.
AskStatus ==
    /\ probe = "done"
    /\ probe' = IF tool = "unknown" THEN "version" ELSE "modem"
    /\ known' = NoReport /\ level' = "unknown" /\ reasons' = {}
    /\ tool' = tool

\* detect_capabilities: only what was found is remembered.
DetectTool ==
    /\ probe = "version"
    /\ \/ /\ tool' = "json" /\ probe' = "modem"
          /\ UNCHANGED <<known, level, reasons>>
       \/ tool' = tool /\ Fail("unknown", "mmcli_probe_failed")

\* What is asked after a status was parsed.
AfterReport(r) == IF ~r.storages THEN "messaging" ELSE "sim"

\* An mmcli --modem that succeeds, by the path or by the id found in the
\* list.
ReadModem ==
    /\ probe \in {"modem", "listed"}
    /\ tool' = tool
    /\ \/ \E r \in Report :
            /\ known' = r
            /\ Judge(Parsed(r))
            /\ probe' = AfterReport(r)
       \/ tool = "json" /\ Fail("error", "mmcli_parse_failed")

\* is_unknown_option: this mmcli gives text.
FallBackToText ==
    /\ probe = "modem"
    /\ tool = "json"
    /\ tool' = "text"
    /\ UNCHANGED <<probe, known, level, reasons>>

\* The call fails otherwise, or cannot be made.
ModemFails ==
    /\ probe \in {"modem", "listed"}
    /\ tool' = tool
    /\ \/ Fail("error", "mmcli_timeout") /\ probe = "modem"
       \/ Fail("error", "modem_path_unresolved") /\ probe = "listed"
       \/ /\ probe = "modem" /\ probe' = "list"
          /\ UNCHANGED <<known, level, reasons>>

Lists == {<<>>, <<"configured">>, <<"other">>, <<"configured", "other">>,
          <<"configured", "configured">>, <<"other", "other">>}
Occurrences(list, path) == Cardinality({i \in DOMAIN list : list[i] = path})

\* resolve_id, map_list_path_to_id: the path is there exactly once.
ResolveId ==
    /\ probe = "list"
    /\ tool' = tool
    /\ \/ \E list \in Lists :
            IF Occurrences(list, "configured") = 1
            THEN probe' = "listed" /\ UNCHANGED <<known, level, reasons>>
            ELSE FailTo("drift", "error", "modem_path_unresolved")
       \/ FailTo("drift", "error", "modem_path_unresolved")

\* path_drift_candidate: the one other modem, if there is just one.
FindDrift ==
    /\ probe = "drift"
    /\ tool' = tool
    /\ \/ \E list \in Lists :
            IF Occurrences(list, "other") = 1
            THEN Fail("degraded", "modem_path_drift_candidate")
            ELSE probe' = "done" /\ UNCHANGED <<known, level, reasons>>
       \/ probe' = "done" /\ UNCHANGED <<known, level, reasons>>

\* enrich_messaging_status: an answer that fails or lists no storages leaves
\* the status as it is.
EnrichMessaging ==
    /\ probe = "messaging"
    /\ tool' = tool
    /\ probe' = "sim"
    /\ \/ /\ known' = [known EXCEPT !.storages = TRUE]
          /\ Judge(Cured(known', "messaging_unavailable"))
       \/ UNCHANGED <<known, level, reasons>>

\* enrich_sim_status, which needs the SIM that the JSON of the modem named.
EnrichSim ==
    /\ probe = "sim"
    /\ tool' = tool
    /\ probe' = "done"
    /\ \/ /\ known.sim = "none"
          /\ tool = "json"
          /\ \E sim \in SimStates \ {"none"} :
                known' = [known EXCEPT !.sim = sim]
          /\ Judge(Cured(known', "sim_not_ready"))
       \/ UNCHANGED <<known, level, reasons>>

StatusNext ==
    \/ AskStatus \/ DetectTool \/ ReadModem \/ FallBackToText \/ ModemFails
    \/ ResolveId \/ FindDrift \/ EnrichMessaging \/ EnrichSim

StatusSpec == StatusInit /\ [][StatusNext]_statusVars

----------------------------------------------------------------------------
\* Whichever call told what: the level is ok only if everything that the
\* calls told, put together, is well.
OkIsEarned ==
    probe = "done" /\ level = "ok" =>
      /\ known.present /\ known.storages /\ Usable(known)
      /\ known.sim \in {"none", "ready"}

\* With JSON the level is the one that a single report of all that is known
\* would get: a gap that a later call fills leaves no trace.
LevelOfTheWhole ==
    probe = "done" /\ tool = "json" /\ known # NoReport =>
      level = Classify(known, "unknown", {}).level

\* A level other than ok has a reason to show, and no reason is shown that
\* what is known contradicts.
ReasonsHold ==
    probe = "done" /\ level \in {"degraded", "error"} =>
      /\ reasons # {}
      /\ known # NoReport =>
           reasons \cap {"sim_not_ready", "messaging_unavailable"}
             \subseteq Found(known)

\* A status put together from several calls is judged as a whole
\* (status_internal, enrich_messaging_status, enrich_sim_status).
StatusIsEarned ==
    /\ OkIsEarned
    /\ LevelOfTheWhole
    /\ ReasonsHold
=============================================================================
