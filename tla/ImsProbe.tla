------------------------------ MODULE ImsProbe ------------------------------
(***************************************************************************)
(* Whether the modem sends SMS over IMS (src/src/modem/ims.rs): a probe    *)
(* asks the modem over QMI in up to five queries under one deadline, and   *)
(* classifies what it got.  A query that fails leaves its part unknown.    *)
(*                                                                         *)
(* Abstractions.  A QMI value is what it stands for; one that is missing   *)
(* or not recognized is "unknown".  The queries themselves are the matter  *)
(* of module QmiClient.  The three settings are one, known if all three    *)
(* are.  Evidence is left out, and so are the voice support of NAS and the *)
(* technology of messages, which the judgement does not use: the code says *)
(* nothing of an answer that lacks one of them.                            *)
(***************************************************************************)
EXTENDS Naturals

VARIABLES
    imsCall,        \* the next query
    ims,            \* SmsOverIms: what is known and what came of it
    blockers,       \* failures that keep the status from being known
    spent           \* the deadline has passed

imsVars == <<imsCall, ims, blockers, spent>>

Registrations == {"registered", "registering", "limited", "not_registered",
                  "unknown"}
Services == {"available", "limited", "unavailable", "unknown"}
Technologies == {"wwan", "wlan", "unknown"}
Settings == {"known", "unknown"}
ImsStatuses == {"available", "registering", "limited", "not_registered",
                "unavailable", "unknown"}
VoiceStatuses == (ImsStatuses \ {"available"}) \cup {"volte", "vowifi"}
ImsCalls == {"select", "versions", "nas", "services", "registration",
             "settings", "classify", "done"}

\* Where a failure is shown, by the query it happened in.
Complaints == {"not_attempted", "disabled", "port", "versions", "nas",
               "sms", "voice", "services", "registration", "settings"}

NoIms == [status |-> "unknown", voice |-> "unknown",
          registration |-> "unknown", smsService |-> "unknown",
          voiceService |-> "unknown", technology |-> "unknown",
          settings |-> "unknown", imsa |-> FALSE, reasons |-> {"not_attempted"}, warnings |-> {}]

\* Every state has these types.
ImsProbeTypeOK ==
    /\ imsCall \in ImsCalls
    /\ ims.status \in ImsStatuses /\ ims.voice \in VoiceStatuses
    /\ ims.registration \in Registrations
    /\ {ims.smsService, ims.voiceService} \subseteq Services
    /\ ims.technology \in Technologies /\ ims.imsa \in BOOLEAN
    /\ ims.settings \in Settings
    /\ ims.reasons \cup ims.warnings \cup blockers \subseteq Complaints
    /\ spent \in BOOLEAN

----------------------------------------------------------------------------
(***************************************************************************)
(* SmsOverIms::classify, which judges messages and voice by one scheme.    *)
(***************************************************************************)
ServiceStatus(registration, service, good) ==
    IF registration = "registered" /\ service = "available" THEN good
    ELSE IF "limited" \in {registration, service} THEN "limited"
    ELSE IF registration \in {"registering", "not_registered"}
         THEN registration
    ELSE IF registration = "registered" /\ service = "unavailable"
         THEN "unavailable"
    ELSE "unknown"

VoiceOf(technology) ==
    CASE technology = "wwan" -> "volte"
      [] technology = "wlan" -> "vowifi"
      [] technology = "unknown" -> "unknown"

\* A mutant: the blockers are dropped if something is known.
ConcludedForgets(r) ==
    [r EXCEPT !.status = ServiceStatus(r.registration, r.smsService,
                                       "available"),
              !.reasons = IF @ = {} /\ r.registration = "unknown" THEN blockers
                          ELSE @]

\* The end of probe_inner: the blockers are the reasons if nothing is known,
\* and warnings if something is.
Concluded(r) ==
    LET status == ServiceStatus(r.registration, r.smsService, "available")
        voice == ServiceStatus(r.registration, r.voiceService,
                               VoiceOf(r.technology))
        judged == [r EXCEPT !.status = status, !.voice = voice]
    IN  IF status = "unknown" /\ voice = "unknown"
        THEN [judged EXCEPT !.reasons = blockers]
        ELSE [judged EXCEPT !.warnings = @ \cup blockers]

----------------------------------------------------------------------------
ImsInit == imsCall = "done" /\ ims = NoIms /\ blockers = {} /\ spent = FALSE

AskIms ==
    /\ imsCall = "done"
    /\ imsCall' = "select"
    /\ ims' = NoIms /\ blockers' = {} /\ spent' = FALSE

\* A disabled modem, or one without just one QMI port, is not asked.
SelectPort ==
    /\ imsCall = "select"
    /\ \/ \E reason \in {"disabled", "port"} :
            imsCall' = "done" /\ ims' = [ims EXCEPT !.reasons = {reason}]
       \/ imsCall' = "versions" /\ ims' = [ims EXCEPT !.reasons = {}]
    /\ UNCHANGED <<blockers, spent>>

\* request_response: no query is answered once the deadline has passed.
Answered == ~spent /\ spent' \in BOOLEAN
Failed == spent' \in {spent, TRUE}

Warn(w) == ims' = [ims EXCEPT !.warnings = @ \cup w]

AskVersions ==
    /\ imsCall = "versions"
    /\ blockers' = blockers
    /\ \/ /\ Answered
          /\ imsCall' = "nas"
          /\ \E there \in BOOLEAN : ims' = [ims EXCEPT !.imsa = there]
       \/ /\ Failed
          /\ imsCall' = "done"
          /\ ims' = [ims EXCEPT !.reasons = {"versions"}]

\* A service that the modem does not have is not asked.
AskNas ==
    /\ imsCall = "nas"
    /\ imsCall' = IF ims.imsa THEN "services" ELSE "settings"
    /\ blockers' = IF ims.imsa THEN blockers ELSE {"services", "registration"}
    /\ \/ Answered /\ ims' = ims
       \/ Failed /\ Warn({"nas"})
       \/ spent' = spent /\ Warn({"nas"})

\* A mutant: a value that is not recognized is no failure.
UnrecognizedIsFine(value, what) == {}

Unrecognized(value, what) == IF value = "unknown" THEN {what} ELSE {}

AskServices ==
    /\ imsCall = "services"
    /\ imsCall' = "registration"
    /\ \/ /\ Answered
          /\ \E sms, voice \in Services, t \in Technologies :
               /\ ims' = [ims EXCEPT !.smsService = sms,
                                     !.voiceService = voice,
                                     !.technology = t]
               /\ blockers' = blockers \cup Unrecognized(sms, "sms")
                                       \cup Unrecognized(voice, "voice")
       \/ Failed /\ blockers' = blockers \cup {"services"} /\ ims' = ims

AskRegistration ==
    /\ imsCall = "registration"
    /\ imsCall' = "settings"
    /\ \/ /\ Answered
          /\ \E registration \in Registrations :
               /\ ims' = [ims EXCEPT !.registration = registration]
               /\ blockers' = blockers
                                \cup Unrecognized(registration, "registration")
       \/ Failed /\ blockers' = blockers \cup {"registration"} /\ ims' = ims

AskSettings ==
    /\ imsCall = "settings"
    /\ imsCall' = "classify"
    /\ blockers' = blockers
    /\ \/ Answered /\ ims' = [ims EXCEPT !.settings = "known"]
       \/ Answered /\ Warn({"settings"})
       \/ Failed /\ Warn({"settings"})
       \/ spent' = spent /\ Warn({"settings"})

ConcludeIms ==
    /\ imsCall = "classify"
    /\ imsCall' = "done"
    /\ ims' = Concluded(ims)
    /\ UNCHANGED <<blockers, spent>>

ImsNext ==
    \/ AskIms \/ SelectPort \/ AskVersions \/ AskNas \/ AskServices
    \/ AskRegistration \/ AskSettings \/ ConcludeIms

ImsSpec == ImsInit /\ [][ImsNext]_imsVars

----------------------------------------------------------------------------
Told == ims.reasons \cup ims.warnings

\* The probe got as far as asking for the services.
AskedServices ==
    /\ imsCall = "done"
    /\ ims.reasons \cap {"not_attempted", "disabled", "port", "versions"} = {}

\* Every part of the answer that stayed unknown is named by the query that
\* did not give it.
GapsAreNamed ==
    AskedServices =>
      /\ ims.registration = "unknown" => "registration" \in Told
      /\ ims.smsService = "unknown" => Told \cap {"sms", "services"} # {}
      /\ ims.voiceService = "unknown" => Told \cap {"voice", "services"} # {}
      /\ ims.settings = "unknown" => "settings" \in Told

\* The one gap in the judgement of which the code says nothing: voice is
\* available over a technology that it does not recognize.
UnnamedTechnology ==
    /\ ims.registration = "registered" /\ ims.voiceService = "available"
    /\ ims.technology = "unknown"

\* A status that stayed unknown is explained by a part that it rests on, and
\* one of voice is, but for that gap; the explanation is a reason and no
\* mere warning if there is no status at all.
UnknownIsExplained ==
    AskedServices =>
      /\ ims.status = "unknown" =>
           Told \cap {"registration", "sms", "services"} # {}
      /\ ims.voice = "unknown" /\ ~UnnamedTechnology =>
           Told \cap {"registration", "voice", "services"} # {}
      /\ ims.status = "unknown" /\ ims.voice = "unknown" => ims.reasons # {}

\* No combination of answers and failures leaves registration, a service, the
\* settings or the status of messages unknown without a word, nor the status
\* of voice unless its technology is what was not recognized (probe_inner,
\* classify).
GapsAreTold ==
    /\ GapsAreNamed
    /\ UnknownIsExplained
=============================================================================
