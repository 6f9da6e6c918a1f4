-------------------------- MODULE ForwardAttempt --------------------------
(***************************************************************************)
(* One attempt of the delivery worker to hand a message to a channel:      *)
(* ProductionDispatcher (src/src/delivery/dispatcher.rs) picks the         *)
(* profile, the adapters of forward/ make one request, WeCom two, and      *)
(* every answer is a success, a failure to retry or one to give up on.     *)
(*                                                                         *)
(* The provider is external.  "taken" is what it really did with the       *)
(* message, which the adapter sees only through its answer.                *)
(***************************************************************************)
EXTENDS Naturals, FiniteSets

VARIABLES
    profile,          \* the profile of the delivery, as configured
    step,             \* where the attempt is
    taken,            \* the provider accepted the message
    tries,            \* requests made so far
    verdict           \* the ForwardOutcome, and what it is based on

attemptVars == <<profile, step, taken, tries, verdict>>

Kinds == {"bark", "telegram", "wecom", "dingtalk", "lark", "webhook"}

\* What is wrong with a profile or message before anything is sent.
Flaws == {"none", "agent_id", "too_large", "bad_url"}
FlawsOf(kind) ==
    CASE kind = "wecom"   -> {"none", "agent_id"}
      [] kind = "lark"    -> {"none", "too_large"}
      [] kind = "webhook" -> {"none", "too_large", "bad_url"}
      [] OTHER            -> {"none"}

\* Classes of an HTTP status.
Statuses == {"2xx", "3xx", "4xx", "408", "425", "429", "5xx"}

\* The body of a 2xx answer: the provider's success code, a code of the
\* adapter's list of lasting errors or any other one, and whether the word
\* or token that goes with success is there.
Bodies == [code : {"good", "lasting", "other"}, word : BOOLEAN]
Verdicts == {"none", "missing", "success", "transient", "permanent"}
Grounds == Statuses \cup {"none", "flaw", "transport", "body"}

\* Every state has these types.
ForwardAttemptTypeOK ==
    /\ profile \in [kind : Kinds, flaw : Flaws, enabled : BOOLEAN]
    /\ step \in {"dispatch", "token", "post", "done"}
    /\ taken \in BOOLEAN
    /\ tries \in 0..2
    /\ verdict \in [is : Verdicts, on : Grounds]

Undecided == [is |-> "none", on |-> "none"]
ForwardAttemptInit ==
    /\ profile \in [kind : Kinds, flaw : Flaws, enabled : BOOLEAN]
    /\ profile.flaw \in FlawsOf(profile.kind)
    /\ step = "dispatch"
    /\ taken = FALSE
    /\ tries = 0
    /\ verdict = Undecided

Conclude(is, on) == verdict' = [is |-> is, on |-> on] /\ step' = "done"

---------------------------------------------------------------------------
(* Classification. *)

TransportFailure == "transient"

\* A mutant: a redirect, which the client of the adapters follows, is final.
ClassifyRedirectAsFinal(status) ==
    IF status \in {"408", "429", "5xx"} THEN "transient" ELSE "permanent"

\* classify_http_status
ClassifyHttpStatus(status) ==
    IF status \in {"408", "429", "5xx", "3xx"} THEN "transient"
    ELSE "permanent"

\* The webhook client follows no redirect and treats one as final.
ClassifyWebhookStatus(status) ==
    IF status \in {"408", "425", "429", "5xx"} THEN "transient"
    ELSE "permanent"

\* A rejection the adapter does not know is retried.
ClassifyProviderRejection(body) ==
    IF body.code = "lasting" THEN "permanent" ELSE "transient"

ClassifyLarkRejection(body) ==
    IF body.code = "lasting" THEN "permanent" ELSE "transient"

---------------------------------------------------------------------------
(* External: what a provider may have done with a request that carries the *)
(* message.  A refusal refuses; an error of the network or of a gateway    *)
(* and a redirect leave it open.                                           *)
TakenOn(status) ==
    CASE status = "2xx" -> {TRUE}
      [] status \in {"3xx", "5xx", "transport"} -> BOOLEAN
      [] OTHER -> {FALSE}

TakenOnBody(kind, body) ==
    IF body.code # "good" THEN {FALSE}
    ELSE IF kind \in {"wecom", "dingtalk"} /\ ~body.word THEN BOOLEAN
    ELSE {TRUE}

---------------------------------------------------------------------------
(* The attempt. *)

Dispatch ==
    /\ step = "dispatch"
    /\ IF ~profile.enabled THEN Conclude("missing", "none")
       ELSE IF profile.flaw # "none" THEN Conclude("permanent", "flaw")
       ELSE /\ step' = (IF profile.kind = "wecom" THEN "token" ELSE "post")
            /\ UNCHANGED verdict
    /\ UNCHANGED <<profile, taken, tries>>

\* WeCom asks for a token first; nothing of the message is sent with it.
FetchToken ==
    /\ step = "token"
    /\ tries' = tries + 1
    /\ \/ Conclude(TransportFailure, "transport")
       \/ \E status \in Statuses \ {"2xx"} :
             Conclude(ClassifyHttpStatus(status), status)
       \/ \E body \in Bodies :
             IF body.code # "good"
             THEN Conclude(ClassifyProviderRejection(body), "body")
             ELSE IF ~body.word THEN Conclude("transient", "body")
             ELSE step' = "post" /\ UNCHANGED verdict
    /\ UNCHANGED <<profile, taken>>

\* The request with the message: an error of the network, a body that is no
\* JSON among them, a status, or a body the adapter judges.
Post(kind, judged) ==
    /\ step = "post"
    /\ profile.kind = kind
    /\ tries' = tries + 1
    /\ \/ /\ taken' \in TakenOn("transport")
          /\ Conclude(TransportFailure, "transport")
       \/ \E status \in Statuses \ {"2xx"} :
             /\ taken' \in TakenOn(status)
             /\ Conclude(ClassifyHttpStatus(status), status)
       \/ \E body \in Bodies :
             /\ taken' \in TakenOnBody(kind, body)
             /\ Conclude(judged[body], "body")
    /\ UNCHANGED profile

CodeIsGood(body) == body.code = "good"
CodeAndWordAreGood(body) == body.code = "good" /\ body.word

ByCode ==
    [body \in Bodies |->
       IF CodeIsGood(body) THEN "success" ELSE ClassifyProviderRejection(body)]
ByCodeAndWord ==
    [body \in Bodies |->
       IF CodeAndWordAreGood(body) THEN "success"
       ELSE ClassifyProviderRejection(body)]
ByLarkCode ==
    [body \in Bodies |->
       IF CodeIsGood(body) THEN "success" ELSE ClassifyLarkRejection(body)]

\* A mutant: a 2xx answer is taken for success whatever its body says.
SendLarkUnread == Post("lark", [body \in Bodies |-> "success"])

SendBark == Post("bark", ByCode)
SendTelegram == Post("telegram", ByCode)
SendWeCom == Post("wecom", ByCodeAndWord)
SendDingTalk == Post("dingtalk", ByCodeAndWord)
SendLark == Post("lark", ByLarkCode)

\* A webhook is judged by its status alone.
SendWebhook ==
    /\ step = "post"
    /\ profile.kind = "webhook"
    /\ tries' = tries + 1
    /\ \/ /\ taken' \in TakenOn("transport")
          /\ Conclude(TransportFailure, "transport")
       \/ \E status \in Statuses :
             /\ taken' \in TakenOn(status)
             /\ Conclude(IF status = "2xx" THEN "success"
                         ELSE ClassifyWebhookStatus(status), status)
    /\ UNCHANGED profile

ForwardAttemptNext ==
    \/ Dispatch \/ FetchToken
    \/ SendBark \/ SendTelegram \/ SendWeCom \/ SendDingTalk \/ SendLark
    \/ SendWebhook
ForwardAttemptSpec == ForwardAttemptInit /\ [][ForwardAttemptNext]_attemptVars

---------------------------------------------------------------------------
(* What the queue relies on. *)

\* A delivery is only settled as succeeded when the provider really took the
\* message: not on a 2xx answer that carries a refusal, is unreadable or lacks
\* what comes with success.
SuccessWasTaken == verdict.is = "success" => taken

\* The queue gives up on a message only when the channel does not have it:
\* after a lost answer, a failing gateway or an unreadable body it tries
\* again.  The one exception is a webhook that answers with a redirect, which
\* the client does not follow.
GivesUpWhenRefused ==
    verdict.is = "permanent" =>
        ~taken \/ (profile.kind = "webhook" /\ verdict.on = "3xx")

\* A final verdict on a delivery agrees with what the provider did: success
\* means it has the message, giving up means it has not (the adapters of
\* forward/).
VerdictsAgree ==
    /\ SuccessWasTaken
    /\ GivesUpWhenRefused
===========================================================================
