------------------------------ MODULE QueuedScan ------------------------------
(***************************************************************************)
(* The janitor's queued-job scan (measureQueuedJobAge, janitor.ts) and the *)
(* calls to GitHub it makes through the client, while jobs are queued,     *)
(* start and finish.  Runs are listed newest first, a page at a time, by   *)
(* status; what is counted is the set of jobs seen queued.                 *)
(***************************************************************************)
EXTENDS GithubClient, FiniteSetsExt, SequencesExt

CONSTANTS
  Orgs,         \* the organizations of the scope, in order
  Repos,        \* the repositories, in the order they are listed
  OwnerOf,      \* the owner of each repository, as the scope spells it
  ReposOf,      \* what the installation of an organization lists, in order
  RunsOf,       \* the workflow runs of a repository, newest first
  JobsOf,       \* the jobs of a run
  Waiting,      \* the jobs that are queued at the start
  Matched,      \* the jobs some class serves (matchSizeClassLabel)
  PageSize,     \* QUEUED_SCAN_PAGE_SIZE
  RunCap,       \* QUEUED_RUN_LISTING_CAP
  JobCap,       \* QUEUED_JOB_LISTING_CAP
  MaxSweeps,    \* bound: the sweeps
  MaxChanges    \* bound: jobs that are queued, start or finish

ASSUME ScopeAssumption ==
  /\ Orgs \in Seq(Owners) /\ Orgs # <<>> /\ OwnerOf \in [Range(Repos) -> Owners]
  /\ Repos \in Seq(Range(Repos)) /\ ReposOf \in [Owners -> Seq(Range(Repos))]
\* A run is of one repository.
ASSUME RunsAssumption ==
  /\ \A repo \in Range(Repos) : RunsOf[repo] \in Seq(Range(RunsOf[repo]))
  /\ \A repo \in Range(Repos) : \A run \in Range(RunsOf[repo]) :
       /\ JobsOf[run] \in Seq(Range(JobsOf[run]))
       /\ \A other \in Range(Repos) : run \in Range(RunsOf[other]) => other = repo
ASSUME CapsAssumption ==
  /\ PageSize \in Nat \ {0} /\ RunCap \in Nat /\ JobCap \in Nat
  /\ MaxSweeps \in Nat /\ MaxChanges \in Nat

VARIABLES
  config,     \* [metrics: EMIT_METRICS, kind: the scope's kind]
  job,        \* GitHub: the state of each job
  changes,
  scan,       \* the sweep under way
  waiting,    \* history: the jobs that have waited since the scan began
  disturbed   \* history: the repositories one of whose listings has lost a run since

githubVars == <<job, changes, waiting, disturbed>>
vars == <<clientVars, config, githubVars, scan>>

Runs == UNION {Range(RunsOf[repo]) : repo \in Range(Repos)}
Jobs == UNION {Range(JobsOf[run]) : run \in Runs}
RepoOf(run) == CHOOSE repo \in Range(Repos) : run \in Range(RunsOf[repo])
Statuses == <<"queued", "in_progress">>

NoSweep == [pc |-> "idle", sweep |-> 0, orgs |-> <<>>, repos |-> <<>>, status |-> 1, page |-> 1,
            runs |-> {}, more |-> FALSE, jobPage |-> 1, runListings |-> 0, jobListings |-> 0,
            calls |-> 0, truncated |-> FALSE, errors |-> 0, counted |-> {}]

-----------------------------------------------------------------------------
(* GitHub.                                                                 *)

\* A run is queued until one of its jobs starts, and completed with the last.
RunStatus(state, run) ==
  LET states == {state[j] : j \in Range(JobsOf[run])} IN
  CASE states \subseteq {"queued"} -> "queued"
    [] states \cap {"queued", "running"} # {} -> "in_progress"
    [] OTHER -> "none"

\* What the listing of a status has, by position among the repository's runs, and
\* the place of a position in it.
Listed(repo, status) == {i \in DOMAIN RunsOf[repo] : RunStatus(job, RunsOf[repo][i]) = status}
Place(i, listed) == Cardinality({h \in listed : h <= i})

\* A page has the places after Before(page); a full one is taken to have a next.
Before(page) == (page - 1) * PageSize
OnPage(place, page) == Before(page) < place /\ place <= Before(page + 1)
IsFull(page, count) == Before(page + 1) <= count

\* A job's step, with what it does to the listings.
Change(state) ==
  /\ changes < MaxChanges /\ changes' = changes + 1
  /\ job' = state
  /\ waiting' = {j \in waiting : state[j] = "queued"}
  /\ disturbed' = disturbed \cup {RepoOf(run) : run \in
       {r \in Runs : RunStatus(job, r) # "none" /\ RunStatus(state, r) # RunStatus(job, r)}}
  /\ UNCHANGED <<clientVars, config, scan>>

QueueRun(run) ==
  /\ \A j \in Range(JobsOf[run]) : job[j] = "none"
  /\ Change([j \in Jobs |-> IF j \in Range(JobsOf[run]) THEN "queued" ELSE job[j]])

StartJob(j) == job[j] = "queued" /\ Change([job EXCEPT ![j] = "running"])

FinishJob(j) == job[j] \in {"queued", "running"} /\ Change([job EXCEPT ![j] = "done"])

-----------------------------------------------------------------------------
Init ==
  /\ ClientInit
  /\ config \in [metrics : BOOLEAN, kind : {"org", "orgs", "repos"}]
  /\ job = [j \in Jobs |-> IF j \in Waiting THEN "queued" ELSE "none"]
  /\ changes = 0 /\ waiting = {} /\ disturbed = {}
  /\ scan = NoSweep

\* The organizations whose installation is asked for its repositories.
OrgsToScan ==
  CASE config.kind = "org" -> SubSeq(Orgs, 1, 1)
    [] config.kind = "orgs" -> Orgs
    [] OTHER -> <<>>

\* A repository the sweep looks for: of the scope, and shown to the App.
InScope(repo) ==
  config.kind = "repos" \/ \E org \in Range(OrgsToScan) : repo \in Range(ReposOf[org])

\* The earlier phases of the sweep call GitHub too: a stuck runner is deleted.
StartSweep ==
  /\ scan.pc = "idle" /\ scan.sweep < MaxSweeps
  /\ scan' = [NoSweep EXCEPT !.pc = "reap", !.sweep = scan.sweep + 1]
  /\ Request(Orgs[1], "DELETE")
  /\ UNCHANGED <<config, githubVars>>

Reaped ==
  /\ scan.pc = "reap" /\ (Answer \/ Failure)
  /\ scan' = [scan EXCEPT !.pc = "gate"]
  /\ UNCHANGED <<config, githubVars>>

\* Nothing is measured, nor published, without metrics, or with a personal
\* access token where repositories have to be enumerated.
SkipScan == ~config.metrics \/ (auth = "pat" /\ config.kind \in {"org", "orgs"})

StartScan ==
  /\ scan.pc = "gate"
  /\ IF SkipScan THEN scan' = [scan EXCEPT !.pc = "idle"] /\ UNCHANGED <<waiting, disturbed>>
     ELSE /\ scan' = [scan EXCEPT !.pc = "orgs", !.orgs = OrgsToScan,
                                  !.repos = IF config.kind = "repos" THEN Repos ELSE <<>>]
          /\ waiting' = {j \in Jobs : job[j] = "queued"} /\ disturbed' = {}
  /\ UNCHANGED <<clientVars, config, job, changes>>

-----------------------------------------------------------------------------
(* reposToScan.                                                            *)

ListRepos ==
  /\ scan.pc = "orgs" /\ scan.orgs # <<>> /\ Request(Head(scan.orgs), "GET")
  /\ UNCHANGED <<config, githubVars, scan>>

ReposListed ==
  /\ scan.pc = "orgs" /\ scan.orgs # <<>> /\ Answer
  /\ scan' = [scan EXCEPT !.orgs = Tail(@),
                          !.repos = @ \o ReposOf[Head(scan.orgs)]]
  /\ UNCHANGED <<config, githubVars>>

\* An organization that cannot be read is counted and passed over.
ReposFailed ==
  /\ scan.pc = "orgs" /\ scan.orgs # <<>> /\ Failure
  /\ scan' = [scan EXCEPT !.orgs = Tail(@), !.errors = @ + 1]
  /\ UNCHANGED <<config, githubVars>>

Enumerated ==
  /\ scan.pc = "orgs" /\ scan.orgs = <<>> /\ scan' = [scan EXCEPT !.pc = "repos"]
  /\ UNCHANGED <<clientVars, config, githubVars>>

-----------------------------------------------------------------------------
(* scanRepoQueuedJobs.  The budget is looked at before a page is read.     *)

RunBudgetSpent == scan.runListings >= RunCap
JobBudgetSpent == scan.jobListings >= JobCap

StopAtBudget == [scan EXCEPT !.pc = "emit", !.truncated = TRUE]

NextRepo ==
  /\ scan.pc = "repos"
  /\ scan' = IF scan.repos = <<>> THEN [scan EXCEPT !.pc = "emit"]
             ELSE IF RunBudgetSpent \/ JobBudgetSpent THEN StopAtBudget
             ELSE [scan EXCEPT !.pc = "runs", !.status = 1, !.page = 1]
  /\ UNCHANGED <<clientVars, config, githubVars>>

Repo == Head(scan.repos)

ListRuns ==
  /\ scan.pc = "runs"
  /\ IF RunBudgetSpent THEN scan' = StopAtBudget /\ UNCHANGED clientVars
     ELSE Request(OwnerOf[Repo], "GET") /\ scan' = [scan EXCEPT !.calls = @ + 1]
  /\ call.pc = "none" /\ UNCHANGED <<config, githubVars>>

RunsListed ==
  LET listed == Listed(Repo, Statuses[scan.status]) IN
  /\ scan.pc = "runs" /\ Answer
  /\ scan' = [scan EXCEPT !.pc = "jobs", !.runListings = @ + 1, !.jobPage = 1,
                          !.runs = {i \in listed : OnPage(Place(i, listed), scan.page)},
                          !.more = IsFull(scan.page, Cardinality(listed))]
  /\ UNCHANGED <<config, githubVars>>

\* Mutant: the first page of each status is taken for all of them.
PageReadOnce ==
  /\ scan.pc = "jobs" /\ scan.runs = {}
  /\ scan' = IF scan.status < Len(Statuses)
             THEN [scan EXCEPT !.pc = "runs", !.status = @ + 1, !.page = 1]
             ELSE [scan EXCEPT !.pc = "repos", !.repos = Tail(@)]
  /\ UNCHANGED <<clientVars, config, githubVars>>

\* Every run of the page is read: on to the next page, status or repository.
PageRead ==
  /\ scan.pc = "jobs" /\ scan.runs = {}
  /\ scan' = CASE scan.more -> [scan EXCEPT !.pc = "runs", !.page = @ + 1]
               [] ~scan.more /\ scan.status < Len(Statuses)
                    -> [scan EXCEPT !.pc = "runs", !.status = @ + 1, !.page = 1]
               [] OTHER -> [scan EXCEPT !.pc = "repos", !.repos = Tail(@)]
  /\ UNCHANGED <<clientVars, config, githubVars>>

ListJobs ==
  /\ scan.pc = "jobs" /\ scan.runs # {}
  /\ IF JobBudgetSpent THEN scan' = StopAtBudget /\ UNCHANGED clientVars
     ELSE Request(OwnerOf[Repo], "GET") /\ UNCHANGED scan
  /\ call.pc = "none" /\ UNCHANGED <<config, githubVars>>

\* Mutant: jobs of other runners count.
CountedAny(jobs) == {j \in jobs : job[j] = "queued"}

Counted(jobs) == {j \in jobs \cap Matched : job[j] = "queued"}

JobsListed ==
  LET jobs == JobsOf[RunsOf[Repo][Min(scan.runs)]]
      onPage == {jobs[k] : k \in {k \in DOMAIN jobs : OnPage(k, scan.jobPage)}}
      more == IsFull(scan.jobPage, Len(jobs)) IN
  /\ scan.pc = "jobs" /\ scan.runs # {} /\ Answer
  /\ scan' = [scan EXCEPT
       !.jobListings = @ + 1,
       !.counted = @ \cup Counted(onPage),
       !.runs = IF more THEN @ ELSE @ \ {Min(@)},
       !.jobPage = IF more THEN @ + 1 ELSE 1]
  /\ UNCHANGED <<config, githubVars>>

\* A repository that cannot be read is counted and passed over.
ScanFailed ==
  /\ scan.pc \in {"runs", "jobs"} /\ Failure
  /\ scan' = [scan EXCEPT !.pc = "repos", !.repos = Tail(@), !.errors = @ + 1]
  /\ UNCHANGED <<config, githubVars>>

\* emitQueuedJobMetrics, and the sweep's own counters.
Emit ==
  /\ scan.pc = "emit" /\ scan' = [NoSweep EXCEPT !.sweep = scan.sweep]
  /\ waiting' = {} /\ disturbed' = {}
  /\ UNCHANGED <<clientVars, config, job, changes>>

-----------------------------------------------------------------------------
SweepStep ==
  \/ StartSweep \/ Reaped \/ StartScan
  \/ ListRepos \/ ReposListed \/ ReposFailed \/ Enumerated
  \/ NextRepo \/ ListRuns \/ RunsListed \/ PageRead \/ ListJobs \/ JobsListed \/ ScanFailed \/ Emit

Idle == UNCHANGED <<config, githubVars, scan>>

Next ==
  \/ SweepStep
  \/ (ClientStep /\ Idle) \/ (PassTime /\ Idle) \/ (\E o \in Owners : Uninstall(o) /\ Idle)
  \/ \E run \in Runs : QueueRun(run)
  \/ \E j \in Jobs : StartJob(j) \/ FinishJob(j)

Spec == Init /\ [][Next]_vars

-----------------------------------------------------------------------------
(* Properties.                                                             *)

TypeOK ==
  /\ ClientTypeOK
  /\ config \in [metrics : BOOLEAN, kind : {"org", "orgs", "repos"}]
  /\ job \in [Jobs -> {"none", "queued", "running", "done"}] /\ changes \in 0..MaxChanges
  /\ waiting \subseteq Jobs /\ disturbed \subseteq Range(Repos)
  /\ scan \in
       [pc : {"idle", "reap", "gate", "orgs", "repos", "runs", "jobs", "emit"},
        sweep : 0..MaxSweeps, orgs : Seq(Owners), repos : Seq(Range(Repos)),
        status : DOMAIN Statuses, page : Nat \ {0}, runs : SUBSET Nat, more : BOOLEAN,
        jobPage : Nat \ {0}, runListings : 0..RunCap, jobListings : 0..JobCap, calls : Nat,
        truncated : BOOLEAN, errors : Nat, counted : SUBSET Matched]

Reported(j) == j \in scan.counted \/ scan.errors > 0 \/ scan.truncated

InScopeJob(j) == \E run \in Runs : j \in Range(JobsOf[run]) /\ InScope(RepoOf(run))

\* A job that has waited through the whole scan is counted, unless the scan
\* says that it failed or was cut short, or a run left a listing it was reading.
NothingMissedSilently ==
  scan.pc = "emit" =>
    \A j \in waiting \cap Matched :
      InScopeJob(j) /\ (\A run \in Runs : j \in Range(JobsOf[run]) => RepoOf(run) \notin disturbed)
        => Reported(j)

\* "A completed scan never under-reports without saying so" (github-client.ts):
\* a run that leaves the listing shifts the next one onto a page already read.
CompletedScanReports ==
  scan.pc = "emit" => \A j \in waiting \cap Matched : InScopeJob(j) => Reported(j)

\* "Per-sweep cap on GitHub run listings (listWorkflowRuns calls)" (janitor.ts):
\* a call that fails is not counted.
ListingsAreCapped == scan.calls <= RunCap

=============================================================================
