------------------------------ MODULE Update ------------------------------
(***************************************************************************)
(* The self-update command (src/src/update.rs): find the installed binary, *)
(* ask for the latest release, download its asset beside the binary, check *)
(* it, rename it over the binary and restart the service.  Nothing locks   *)
(* the command, so several may run at once, each may be killed between     *)
(* any two steps, and a release may be published meanwhile.  A restart is  *)
(* a job of the service manager: it stops the service before it starts the *)
(* binary, may fail in between, and goes on when the command that asked    *)
(* for it has given up or is killed.                                       *)
(*                                                                         *)
(* A file's content is the build it holds, or Torn for bytes that are not  *)
(* any build.  Build 0 was installed by hand; build r is release r's.      *)
(***************************************************************************)
EXTENDS Naturals, FiniteSets

CONSTANTS
    Updaters,         \* runs of the command
    MaxRelease,       \* bound: releases published in a behaviour
    ReleaseKinds      \* the shapes of a release, a subset of AllReleaseKinds

VARIABLES
    catalog,          \* the releases published so far, the last is the latest
    installed,        \* the file at each place a binary may be found
    running,          \* the build the service runs
    updates,          \* the state of each run of the command
    jobs,             \* the runs whose restart the service manager works on
    owing             \* the runs that replaced a binary and have not been told
                      \* that the service was restarted

updateVars == <<catalog, installed, running, updates, jobs, owing>>

Builds == 0..MaxRelease
Torn == MaxRelease + 1           \* bytes that are no build
Missing == MaxRelease + 2        \* no file
Down == MaxRelease + 3           \* the service does not run
Places == {"registered", "onpath"}
Managers == {"openwrt", "systemd", "none"}

\* How a release names the commit of its build: a full commit as its target,
\* a commit as its tag, or neither (a branch and a word).
AllReleaseKinds ==
    [names : {"target", "tag", "neither"}, binaries : 0..2, sums : 0..2,
     honest : BOOLEAN]

ASSUME UpdateAssumption ==
    /\ MaxRelease \in Nat
    /\ ReleaseKinds \subseteq AllReleaseKinds

UpdateStages == {"idle", "located", "chosen", "summed", "open", "written",
                 "verified", "replaced", "asked", "launched", "restarted",
                 "unmanaged", "current", "failed", "killed"}
Fresh == [stage |-> "idle", manager |-> "none", target |-> "registered",
          release |-> 0, temp |-> Missing]

\* Every state has these types.
UpdateTypeOK ==
    /\ catalog \in [1..Cardinality(DOMAIN catalog) -> AllReleaseKinds]
    /\ Cardinality(DOMAIN catalog) \in 0..MaxRelease
    /\ installed \in [Places -> Builds \cup {Missing, Torn}]
    /\ running \in Builds \cup {Down}
    /\ updates \in [Updaters ->
           [stage : UpdateStages, manager : Managers, target : Places,
            release : Builds, temp : Builds \cup {Missing, Torn}]]
    /\ jobs \subseteq Updaters
    /\ owing \subseteq Updaters

UpdateInit ==
    /\ catalog = [r \in {} |-> 0]
    /\ installed \in {[p \in Places |-> 0],
                      [[p \in Places |-> Missing] EXCEPT !["registered"] = 0]}
    /\ running = 0
    /\ updates = [u \in Updaters |-> Fresh]
    /\ jobs = {}
    /\ owing = {}

Latest == Cardinality(DOMAIN catalog)
Becomes(u, stage) == updates' = [updates EXCEPT ![u].stage = stage]

\* External: the project publishes a release.
Publish ==
    /\ Latest < MaxRelease
    /\ \E kind \in ReleaseKinds :
          catalog' = [r \in 1..(Latest + 1) |->
                         IF r = Latest + 1 THEN kind ELSE catalog[r]]
    /\ UNCHANGED <<installed, running, updates, jobs, owing>>

---------------------------------------------------------------------------
(* Finding the binary and the release. *)

\* The first candidate that is a file: the path the service registered, if it
\* could be read, then the search path.
SelectUpdateTarget(known, p) ==
    \/ known /\ installed["registered"] # Missing /\ p = "registered"
    \/ /\ ~(known /\ installed["registered"] # Missing)
       /\ p = (IF installed["onpath"] # Missing THEN "onpath"
               ELSE "registered")

\* What the service managers answer: an init script or a loaded unit, whose
\* command may not be readable; no manager at all, which a failing systemctl
\* counts as.  A systemctl that times out ends the command.
DetectService(manager, known) ==
    \/ manager \in {"openwrt", "systemd"} /\ known \in BOOLEAN
    \/ manager = "none" /\ ~known

Locate(u) ==
    /\ updates[u].stage = "idle"
    /\ \/ \E manager \in Managers, known \in BOOLEAN, p \in Places :
             /\ DetectService(manager, known)
             /\ SelectUpdateTarget(known, p)
             /\ updates' = [updates EXCEPT ![u].stage = "located",
                               ![u].manager = manager, ![u].target = p]
       \/ Becomes(u, "failed")
    /\ UNCHANGED <<catalog, installed, running, jobs, owing>>

FetchRelease(u) ==
    /\ updates[u].stage = "located"
    /\ updates[u].release = 0
    /\ \/ /\ Latest > 0
          /\ updates' = [updates EXCEPT ![u].release = Latest]
       \/ Becomes(u, "failed")
    /\ UNCHANGED <<catalog, installed, running, jobs, owing>>

\* A release that names no commit matches no build, its own included.
ReleaseMatches(r, build) == catalog[r].names # "neither" /\ build = r

\* Exactly one asset and exactly one checksum carry the expected name.
SelectReleaseAsset(r) == catalog[r].binaries = 1
SelectChecksumAsset(r) == catalog[r].sums = 1

\* The installed binary is asked for its version before anything is fetched.
InspectInstalled(u) ==
    LET r == updates[u].release
        build == installed[updates[u].target]
    IN  /\ updates[u].stage = "located"
        /\ r # 0
        /\ \/ /\ build # Torn
              /\ \/ ReleaseMatches(r, build) /\ Becomes(u, "current")
                 \/ /\ ~ReleaseMatches(r, build)
                    /\ Becomes(u,
                         IF SelectReleaseAsset(r) /\ SelectChecksumAsset(r)
                         THEN "chosen" ELSE "failed")
           \/ Becomes(u, "failed")      \* it does not run, or takes too long
        /\ UNCHANGED <<catalog, installed, running, jobs, owing>>

---------------------------------------------------------------------------
(* Downloading beside the target. *)

\* Each error path tries to remove the temporary file before the command
\* ends; that it could not is ignored.
Abandon(u) ==
    \/ updates' = [updates EXCEPT ![u].stage = "failed", ![u].temp = Missing]
    \/ Becomes(u, "failed")

FetchPublishedChecksum(u) ==
    /\ updates[u].stage = "chosen"
    /\ Becomes(u, "summed") \/ Abandon(u)
    /\ UNCHANGED <<catalog, installed, running, jobs, owing>>

\* The file is created under a name no other run uses.
OpenTemporary(u) ==
    /\ updates[u].stage = "summed"
    /\ \/ updates' = [updates EXCEPT ![u].stage = "open", ![u].temp = Torn]
       \/ Abandon(u)
    /\ UNCHANGED <<catalog, installed, running, jobs, owing>>

\* A release that is not honest ships another build under its own checksum;
\* the transfer may also damage the bytes.
BuildShipped(r) == IF catalog[r].honest THEN r ELSE 0

Download(u) ==
    /\ updates[u].stage = "open"
    /\ \/ \E bytes \in {BuildShipped(updates[u].release), Torn} :
             updates' = [updates EXCEPT ![u].stage = "written",
                                        ![u].temp = bytes]
       \/ Abandon(u)
    /\ UNCHANGED <<catalog, installed, running, jobs, owing>>

\* The digest of what was written must be the published one, and the new
\* binary must say it is the release's commit.
ChecksumAgrees(u) == updates[u].temp = BuildShipped(updates[u].release)
VersionAgrees(u) == ReleaseMatches(updates[u].release, updates[u].temp)

\* A mutant: the digest is not compared, and a binary that does not run has
\* no version to differ.
ValidateRunsOnly(u) ==
    /\ updates[u].stage = "written"
    /\ \/ /\ VersionAgrees(u) \/ updates[u].temp = Torn
          /\ Becomes(u, "verified")
       \/ Abandon(u)
    /\ UNCHANGED <<catalog, installed, running, jobs, owing>>

\* validate_temporary: both hold, and it runs in time.
Validate(u) ==
    /\ updates[u].stage = "written"
    /\ \/ ChecksumAgrees(u) /\ VersionAgrees(u) /\ Becomes(u, "verified")
       \/ Abandon(u)
    /\ UNCHANGED <<catalog, installed, running, jobs, owing>>

Replace(u) ==
    /\ updates[u].stage = "verified"
    /\ \/ /\ installed' = [installed EXCEPT ![updates[u].target] =
                              updates[u].temp]
          /\ updates' = [updates EXCEPT ![u].stage = "replaced",
                                        ![u].temp = Missing]
          /\ owing' = owing \cup {u}
       \/ Abandon(u) /\ UNCHANGED <<installed, owing>>
    /\ UNCHANGED <<catalog, running, jobs>>

---------------------------------------------------------------------------
(* Restarting the service. *)

\* The manager is asked, if there is one and its command can be run.
RestartAfterUpdate(u) ==
    /\ updates[u].stage = "replaced"
    /\ IF updates[u].manager = "none"
       THEN Becomes(u, "unmanaged") /\ UNCHANGED jobs
       ELSE \/ Becomes(u, "asked") /\ jobs' = jobs \cup {u}
            \/ Becomes(u, "failed") /\ UNCHANGED jobs
    /\ UNCHANGED <<catalog, installed, running, owing>>

\* External: the manager stops the service,
StopService(u) ==
    /\ u \in jobs
    /\ running' = Down
    /\ UNCHANGED <<catalog, installed, updates, jobs, owing>>

\* starts the registered binary (a manager that reports success has),
StartService(u) ==
    /\ u \in jobs
    /\ installed["registered"] \in Builds
    /\ running' = installed["registered"]
    /\ jobs' = jobs \ {u}
    /\ IF updates[u].stage = "asked" THEN Becomes(u, "launched")
       ELSE UNCHANGED updates
    /\ UNCHANGED <<catalog, installed, owing>>

\* or fails, before or after it stopped the service.
RestartFails(u) ==
    /\ u \in jobs
    /\ jobs' = jobs \ {u}
    /\ IF updates[u].stage = "asked" THEN Becomes(u, "failed")
       ELSE UNCHANGED updates
    /\ UNCHANGED <<catalog, installed, running, owing>>

\* A mutant: the manager's command is started and not waited for.
RestartAnsweredEarly(u) ==
    /\ updates[u].stage \in {"asked", "launched"}
    /\ \/ Becomes(u, "restarted") /\ owing' = owing \ {u}
       \/ Becomes(u, "failed") /\ UNCHANGED owing
    /\ UNCHANGED <<catalog, installed, running, jobs>>

\* The command waits for the manager's answer, for a limited time, and only
\* reports a failure: the next run finds the binary current and does not
\* restart.
RestartAnswered(u) ==
    /\ updates[u].stage \in {"asked", "launched"}
    /\ \/ /\ updates[u].stage = "launched"
          /\ Becomes(u, "restarted")
          /\ owing' = owing \ {u}
       \/ Becomes(u, "failed") /\ UNCHANGED owing
    /\ UNCHANGED <<catalog, installed, running, jobs>>

\* A killed run leaves its temporary file behind, and nothing collects it.
Kill(u) ==
    /\ updates[u].stage \notin
           {"restarted", "unmanaged", "current", "failed", "killed"}
    /\ Becomes(u, "killed")
    /\ UNCHANGED <<catalog, installed, running, jobs, owing>>

---------------------------------------------------------------------------
UpdateNext ==
    \/ Publish
    \/ \E u \in Updaters :
          \/ Locate(u) \/ FetchRelease(u) \/ InspectInstalled(u)
          \/ FetchPublishedChecksum(u) \/ OpenTemporary(u) \/ Download(u)
          \/ Validate(u) \/ Replace(u) \/ RestartAfterUpdate(u)
          \/ StopService(u) \/ StartService(u) \/ RestartFails(u)
          \/ RestartAnswered(u) \/ Kill(u)

UpdateSpec == UpdateInit /\ [][UpdateNext]_updateVars

---------------------------------------------------------------------------
(* What the command promises. *)

\* Whatever is killed, damaged in transfer or published wrongly, a binary that
\* is found is always a whole build, and one the release it came from really
\* describes.
InstalledIsWhole ==
    \A p \in Places :
        \/ installed[p] \in {Missing, 0}
        \/ /\ installed[p] \in DOMAIN catalog
           /\ catalog[installed[p]].honest
           /\ catalog[installed[p]].names # "neither"

\* Once every run that replaced a binary has been told of a restart, the
\* service runs the binary that is installed where its manager looks, also
\* when runs replace between another's start and its answer, or a manager's
\* job outlives the run that asked for it.  A run that failed, was killed or
\* found no manager may leave the old build running, or nothing.
RestartsReachTheService == owing = {} => running = installed["registered"]

\* Killed at any step, run twice at once, fed a damaged release: an update
\* leaves whole binaries, and reports a restart only of a service that runs
\* what is installed (update.rs, run).
UpdateIsWhole ==
    /\ InstalledIsWhole
    /\ RestartsReachTheService
===========================================================================
