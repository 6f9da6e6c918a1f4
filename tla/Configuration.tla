--------------------------- MODULE Configuration ---------------------------
(***************************************************************************)
(* Which configurations the program accepts, and what becomes of a start   *)
(* from one: the setup wizard (src/src/wizard.rs) and `config check`       *)
(* (main.rs) judge the file by AppConfig::validate (config.rs); `run`      *)
(* judges it once more, opens the database, builds the forwarding workers  *)
(* (runtime.rs) and opens the listeners of the API (api/mod.rs).           *)
(*                                                                         *)
(* Abstractions.  The file is a record of the facts that the code looks    *)
(* at; forward.enabled names at most one profile.  A bind address is the   *)
(* kind of address it names: one that this host cannot bind, because it    *)
(* does not resolve, is not local or is taken, is a kind of its own, and   *)
(* the IPv6 namesake of a free address is free.  Equally, the path of the  *)
(* database is one that can be opened, one that cannot, or blank.          *)
(***************************************************************************)
EXTENDS Naturals

CONSTANT MaxRewrites      \* bound on rewrites of the file

ASSUME ConfigurationAssumption == MaxRewrites \in Nat

VARIABLES
    configFile,       \* config.toml, Unreadable if it is missing or no TOML
    accepted,         \* validate passed on this content when last asked
    service,          \* what became of the last start
    rewrites

configVars == <<configFile, accepted, service, rewrites>>

\* What api.bind may name.
Ipv4Binds == {"any4", "loopback4", "specific4"}
Binds == Ipv4Binds \cup {"blank", "localhost", "ipv6", "hostname", "unusable"}

\* What api.database_path may name.
Databases == {"usable", "blank", "unusable"}

\* What forward.enabled may hold: nothing, a profile that exists, whole or
\* with a blank field, one that does not, or no reference at all.
ProfileRefs == {"nothing", "whole", "blank", "unknown", "malformed", "shell"}

Configs ==
    [modemPath: BOOLEAN, enabled: ProfileRefs, concurrency: {0, 2, 17},
     api: BOOLEAN, password: BOOLEAN, bind: Binds, ipv6: BOOLEAN,
     port: BOOLEAN,         \* api.port is not zero
     database: Databases,
     webhooks: BOOLEAN,     \* every webhook profile passes validate_profile
     legacyShell: BOOLEAN, connect: {0, 10, 60}, request: {0, 30},
     retention: {"off", "bounded", "unbounded"}]

Unreadable == [unreadable |-> TRUE]

\* AppConfig::default
DefaultConfig ==
    [modemPath |-> TRUE, enabled |-> "nothing", concurrency |-> 2,
     api |-> FALSE, password |-> FALSE, bind |-> "any4", ipv6 |-> FALSE,
     port |-> TRUE, database |-> "usable", webhooks |-> TRUE, legacyShell |-> FALSE,
     connect |-> 10, request |-> 30, retention |-> "off"]

\* A start, and the address families that its API listens on.
StartOutcomes ==
    [outcome: {"down", "refused", "no workers", "no listener", "runs"},
     families: SUBSET {4, 6}]
Ended(outcome) == [outcome |-> outcome, families |-> {}]
Listens(families) == [outcome |-> "runs", families |-> families]

\* Every state has these types.
ConfigurationTypeOK ==
    /\ configFile \in Configs \cup {Unreadable}
    /\ accepted \in BOOLEAN
    /\ service \in StartOutcomes
    /\ rewrites \in 0..MaxRewrites

---------------------------------------------------------------------------
\* ProfileRef::parse; profile_for_ref finds the profile and its fields.
Parses(c) == c.enabled \notin {"malformed", "shell"}
ProfileForRef(c) == c.enabled \notin {"unknown", "blank"}
EnabledProfiles(c) == Parses(c) /\ ProfileForRef(c)

\* A mutant: references are parsed, their profiles are not looked up.
ValidateReferences(c) ==
    /\ c.modemPath /\ Parses(c) /\ c.concurrency \in 1..16
    /\ c.api => /\ c.password /\ c.bind # "blank" /\ c.port
                /\ c.database # "blank"
    /\ ~c.legacyShell /\ c.webhooks
    /\ c.connect # 0 /\ c.request # 0 /\ c.connect <= c.request
    /\ c.retention # "unbounded"

PassesValidate(c) ==
    /\ c.modemPath
    /\ EnabledProfiles(c)
    /\ c.concurrency \in 1..16
    /\ c.api => /\ c.password /\ c.bind # "blank" /\ c.port
                /\ c.database # "blank"
    /\ ~c.legacyShell
    /\ c.webhooks
    /\ c.connect # 0 /\ c.request # 0 /\ c.connect <= c.request
    /\ c.retention # "unbounded"

ValidConfig(c) == c # Unreadable /\ PassesValidate(c)

\* A mutant: the address is bound as it stands, also when IPv6 is on.
FamiliesOfBind(c) ==
    IF c.bind \in {"localhost", "hostname"} THEN {{4}, {6}}
    ELSE IF c.bind = "ipv6" THEN {{6}} ELSE {{4}}

\* primary_listener_address: localhost is the IPv4 one if IPv6 is on, where
\* its companion takes the IPv6 one, and else either.
PrimaryFamilies(c) ==
    IF c.bind = "ipv6" THEN {{6}}
    ELSE IF c.bind = "hostname" \/ (c.bind = "localhost" /\ ~c.ipv6)
         THEN {{4}, {6}}
         ELSE {{4}}

\* A mutant: only the literal addresses have one.
HasNamesakeLiteral(bind) == bind \in {"any4", "loopback4"}

\* ipv6_companion_address: an IPv6 address of its own where none is bound,
\* for the addresses that have a namesake.
HasNamesake(bind) == bind \in {"any4", "loopback4", "localhost"}
WantsCompanion(c) == c.ipv6 /\ c.bind # "ipv6"
CompanionFamilies(c) ==
    IF WantsCompanion(c) /\ HasNamesake(c.bind) THEN {6} ELSE {}

\* serve: the listeners, or the error that ends run_forwarding.
ServeApi(c) ==
    IF c.bind = "unusable" \/ (WantsCompanion(c) /\ ~HasNamesake(c.bind))
    THEN {Ended("no listener")}
    ELSE {Listens(f \cup CompanionFamilies(c)) : f \in PrimaryFamilies(c)}

---------------------------------------------------------------------------
ConfigurationInit ==
    /\ configFile \in {DefaultConfig, Unreadable}
    /\ accepted = FALSE /\ service = Ended("down") /\ rewrites = 0

Rewrite(c) ==
    /\ rewrites' = rewrites + 1
    /\ configFile' = c

\* Somebody edits the file by hand, one fact at a time.
Edited(c) ==
    {[c EXCEPT ![f] = v] : v \in BOOLEAN,
        f \in {"modemPath", "webhooks", "legacyShell", "ipv6", "api",
               "password"}}
    \cup {[c EXCEPT !.enabled = r] : r \in ProfileRefs}
    \cup {[c EXCEPT !.bind = b] : b \in Binds}
    \cup {[c EXCEPT !.database = d] : d \in Databases}
    \cup {[c EXCEPT !.concurrency = n] : n \in {0, 17}}
    \cup {[c EXCEPT !.connect = n] : n \in {0, 60}}
    \cup {[c EXCEPT !.request = 0], [c EXCEPT !.port = FALSE],
          [c EXCEPT !.retention = "unbounded"],
          [c EXCEPT !.retention = "bounded"], Unreadable}

EditFile ==
    /\ rewrites < MaxRewrites
    /\ configFile # Unreadable
    /\ \E c \in Edited(configFile) : Rewrite(c)
    /\ accepted' = FALSE
    /\ UNCHANGED service

\* run_setup_wizard: what it asks for, on top of the file or of the defaults.
\* A channel is enabled under the name that was typed, which may be the name
\* of one that is missing or has a blank field.
WizardInput ==
    [modem: BOOLEAN, api: BOOLEAN, password: BOOLEAN, bind: Binds,
     ipv6: BOOLEAN, port: BOOLEAN, database: Databases,
     channel: {"none", "whole", "blank"}]

WithAnswers(base, a) ==
    [base EXCEPT !.modemPath = a.modem, !.api = a.api,
                 !.password = IF a.api THEN a.password ELSE @,
                 !.bind = IF a.api THEN a.bind ELSE @,
                 !.ipv6 = IF a.api THEN a.ipv6 ELSE @,
                 !.port = IF a.api THEN a.port ELSE @,
                 !.database = IF a.api THEN a.database ELSE @,
                 !.enabled = IF Parses(base) /\ a.channel # "none"
                             THEN a.channel ELSE @]

\* The wizard keeps a file, edits it or replaces it; one that it cannot read
\* it takes for none.  write_setup_config validates before it writes.
RunWizard ==
    /\ rewrites < MaxRewrites
    /\ \E base \in {configFile, DefaultConfig} \ {Unreadable},
          a \in WizardInput :
         /\ PassesValidate(WithAnswers(base, a))
         /\ Rewrite(WithAnswers(base, a))
    /\ accepted' = TRUE
    /\ UNCHANGED service

\* `config check` and `config show`
CheckConfig ==
    /\ accepted' = ValidConfig(configFile)
    /\ UNCHANGED <<configFile, service, rewrites>>

\* run_forwarding, as far as the configuration decides about it; the database
\* is opened also without the API.
RunForwarding ==
    /\ service' \in
         IF ~ValidConfig(configFile) \/ configFile.database # "usable"
         THEN {Ended("refused")}
         ELSE IF ~EnabledProfiles(configFile) THEN {Ended("no workers")}
         ELSE IF ~configFile.api THEN {Listens({})}
         ELSE ServeApi(configFile)
    /\ UNCHANGED <<configFile, accepted, rewrites>>

ConfigurationNext == EditFile \/ RunWizard \/ CheckConfig \/ RunForwarding

ConfigurationSpec == ConfigurationInit /\ [][ConfigurationNext]_configVars

---------------------------------------------------------------------------
Starts == service' # service

\* What no address of the host fits: one that it cannot bind, or one without
\* a namesake where IPv6 is asked for.
AddressFails(c) ==
    /\ c.api
    /\ \/ c.bind = "unusable"
       \/ c.ipv6 /\ c.bind \in {"specific4", "hostname"}

\* Content that the wizard wrote or `config check` called ok starts and runs,
\* with workers for the profiles it names, but for the two things that
\* validation does not look at: a database that cannot be opened refuses the
\* start (a blank path too, which passes while the API is off), and an address
\* that fails ends forwarding with the API.
AcceptedStarts ==
    accepted /\ Starts =>
        service'.outcome = IF configFile.database # "usable" THEN "refused"
                           ELSE IF AddressFails(configFile) THEN "no listener"
                                ELSE "runs"

\* With IPv6 asked for, an API that listens listens on it, and beside the
\* IPv4 address unless the bind names an IPv6 one: never on one instead of
\* the other.
Ipv6IsServed ==
    Starts /\ service'.families # {} /\ configFile.ipv6 =>
        service'.families = IF configFile.bind = "ipv6" THEN {6} ELSE {4, 6}

\* Accepted content runs, and runs as it asks, but for an unusable database or
\* address (validate, Store::open, primary_listener_address and
\* ipv6_companion_address, build of the workers).
AcceptedRuns == [][AcceptedStarts /\ Ipv6IsServed]_configVars
=============================================================================
