----------------------------- MODULE Reporting -----------------------------
(***************************************************************************)
(* The throttle of the failure reports (src/src/monitoring.rs,             *)
(* capture_failure and should_report): one report of a code per interval,  *)
(* from whichever thread it comes.  The time is read before the mutex is   *)
(* taken, so that the threads may look at LAST_REPORTS in another order    *)
(* than their times have.                                                  *)
(*                                                                         *)
(* Abstractions.  A report is its code and its time; what scrub_event      *)
(* leaves of it is not modelled.  A poisoned mutex does not occur: nothing *)
(* panics while it is held.                                                *)
(***************************************************************************)
EXTENDS Integers

CONSTANTS
    Reporters,      \* threads that meet failures
    Codes,          \* the error codes of the program
    ReportEvery,    \* REPORT_INTERVAL
    ReportEnd       \* bound on the clock

ASSUME ReportingAssumption ==
    /\ ReportEvery \in Nat \ {0} /\ ReportEnd \in Nat

VARIABLES
    reportClock,
    lastReport,     \* LAST_REPORTS
    failure,        \* failure[r]: the failure that r is reporting
    reported,       \* the reports that went out
    silenced        \* the failures that were not reported

reportVars == <<reportClock, lastReport, failure, reported, silenced>>

NotYet == 0 - 1
Failures == [code: Codes, at: 0..ReportEnd]
NoFailure == [code |-> NotYet]

\* Every state has these types.
ReportingTypeOK ==
    /\ reportClock \in 0..ReportEnd
    /\ lastReport \in [Codes -> NotYet..ReportEnd]
    /\ failure \in [Reporters -> Failures \cup {NoFailure}]
    /\ reported \subseteq Failures /\ silenced \subseteq Failures

---------------------------------------------------------------------------
ReportingInit ==
    /\ reportClock = 0
    /\ lastReport = [c \in Codes |-> NotYet]
    /\ failure = [r \in Reporters |-> NoFailure]
    /\ reported = {} /\ silenced = {}

\* capture_failure, up to the mutex.
Capture(r, c) ==
    /\ failure[r] = NoFailure
    /\ failure' = [failure EXCEPT ![r] = [code |-> c, at |-> reportClock]]
    /\ UNCHANGED <<reportClock, lastReport, reported, silenced>>

\* A mutant: a time before the last report is no reason to be silent.
ThrottledInOrder(f) ==
    /\ lastReport[f.code] # NotYet
    /\ f.at - lastReport[f.code] \in 0..(ReportEvery - 1)

\* A mutant: the throttle does not tell the codes apart.
ThrottledByAny(f) ==
    \E c \in Codes :
        lastReport[c] # NotYet /\ f.at - lastReport[c] < ReportEvery

\* duration_since is zero for a time that is earlier.
Throttled(f) ==
    lastReport[f.code] # NotYet /\ f.at - lastReport[f.code] < ReportEvery

\* should_report under the mutex, and the report.
SendReport(r) ==
    /\ failure[r] # NoFailure
    /\ failure' = [failure EXCEPT ![r] = NoFailure]
    /\ LET f == failure[r] IN
       IF Throttled(f)
       THEN /\ silenced' = silenced \cup {f}
            /\ UNCHANGED <<lastReport, reported>>
       ELSE /\ lastReport' = [lastReport EXCEPT ![f.code] = f.at]
            /\ reported' = reported \cup {f}
            /\ UNCHANGED silenced
    /\ UNCHANGED reportClock

ReportTick ==
    /\ reportClock < ReportEnd
    /\ reportClock' = reportClock + 1
    /\ UNCHANGED <<lastReport, failure, reported, silenced>>

ReportingNext ==
    \/ \E r \in Reporters : SendReport(r) \/ \E c \in Codes : Capture(r, c)
    \/ ReportTick

ReportingSpec == ReportingInit /\ [][ReportingNext]_reportVars

---------------------------------------------------------------------------
\* Two reports of one code are an interval apart, however late a thread
\* takes the mutex after it read its time.
ReportsSpaced ==
    \A f, g \in reported :
        f # g /\ f.code = g.code /\ f.at <= g.at => g.at - f.at >= ReportEvery

\* A failure is kept silent only beside a report of its own code, less than
\* an interval before it or after it.
SilencedForCause ==
    \A f \in silenced : \E g \in reported :
        g.code = f.code /\ f.at - g.at < ReportEvery

\* One report of a code per interval, and one at least for every failure kept
\* silent (should_report).
ReportsThrottled ==
    /\ ReportsSpaced
    /\ SilencedForCause
===========================================================================
