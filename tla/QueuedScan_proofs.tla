--------------------------- MODULE QueuedScan_proofs ---------------------------
(***************************************************************************)
(* The janitor's scan and the GitHub client under it, for any scope, runs, *)
(* jobs, page size, budgets, clock and number of faults: each request has  *)
(* a live token of its owner, nothing that changes GitHub is sent twice,   *)
(* and no job that waits through a scan is missed without a word.          *)
(***************************************************************************)
EXTENDS QueuedScan, FiniteSetTheorems, SequenceTheorems, WellFoundedInduction, TLAPS

Methods == {"GET", "POST", "DELETE"}
CallPcs == {"none", "auth", "install", "mint", "send", "failed"}
Calls == [pc : CallPcs, owner : Owners \cup {None}, method : Methods,
          token : Tokens \cup {None}, attempt : Nat, acts : Nat, began : Nat]

-----------------------------------------------------------------------------
(* The client.                                                             *)

\* A cached token is of the owner it is cached for.
CachedIsOwn == \A o \in Owners : tokens[o] # None => tokens[o].account = Login[o]

\* A call belongs to an owner, and has not taken longer than a call may.
CallIsTimely ==
  call.pc # "none" => call.owner \in Owners /\ call.began <= now /\ now <= call.began + CallTime

\* A token that was fresh when it was chosen outlives the call.
TokenOutlivesCall ==
  call.pc = "send" /\ auth = "app" =>
    /\ call.token \in Tokens
    /\ call.token.account = Login[call.owner] /\ call.token.expires > call.began + CallTime

\* Only an attempt that was the last can have taken effect.
EffectIsLast ==
  /\ call.attempt >= 1
  /\ call.acts = 0 \/ (call.acts = 1 /\ call.pc = "failed")

ClientInv ==
  ClientTypeOK /\ CachedIsOwn /\ CallIsTimely /\ TokenOutlivesCall /\ EffectIsLast

LEMMA ClientConstants ==
  /\ None \notin Owners /\ Login \in [Owners -> Owners]
  /\ TokenLife \in Nat /\ Skew \in Nat /\ CallTime \in Nat /\ MaxAttempts \in Nat /\ MaxAttempts > 0
  /\ CallTime <= Skew /\ Skew < TokenLife /\ MaxNow \in Nat /\ MaxFaults \in Nat
  BY OwnersAssumption, TimesAssumption

LEMMA ClientTypes ==
  ASSUME ClientTypeOK
  PROVE  /\ call \in Calls /\ now \in Nat
         /\ tokens \in [Owners -> Tokens \cup {None}] /\ faults \in 0..MaxFaults
  BY ClientConstants DEF ClientTypeOK, Calls, Methods, CallPcs

LEMMA NoCallType == NoCall \in Calls
  BY DEF NoCall, Calls, Methods, CallPcs

LEMMA InitClientInv == ClientInit => ClientInv
<1> SUFFICES ASSUME ClientInit PROVE ClientInv
  OBVIOUS
<1>1. ClientTypeOK
  BY ClientConstants DEF ClientInit, ClientTypeOK, NoCall
<1>2. CachedIsOwn /\ CallIsTimely /\ TokenOutlivesCall /\ EffectIsLast
  BY DEF ClientInit, CachedIsOwn, CallIsTimely, TokenOutlivesCall, EffectIsLast, NoCall
<1> QED
  BY <1>1, <1>2 DEF ClientInv

LEMMA RequestTypes ==
  ASSUME NEW o \in Owners, NEW m \in Methods, now \in Nat, Request(o, m)
  PROVE  /\ call' \in Calls /\ call'.pc = "auth" /\ call'.owner = o /\ call'.began = now
         /\ call'.attempt = 1 /\ call'.acts = 0
  BY DEF Request, NoCall, Calls, Methods, CallPcs

\* A caller's step.
LEMMA CallerKeepsInv ==
  ASSUME ClientInv,
         \/ \E o \in Owners, m \in Methods : Request(o, m)
         \/ Answer \/ Failure
         \/ UNCHANGED clientVars
  PROVE  ClientInv'
<1> USE DEF ClientInv
<1>1. ASSUME NEW o \in Owners, NEW m \in Methods, Request(o, m) PROVE ClientInv'
  <2>1. now \in Nat /\ UNCHANGED <<now, auth, installed, ids, tokens, faults>>
    BY <1>1, ClientTypes DEF Request
  <2>2. call' \in Calls /\ call'.pc = "auth" /\ call'.owner = o /\ call'.began = now
        /\ call'.attempt = 1 /\ call'.acts = 0
    BY <1>1, <2>1, RequestTypes
  <2>3. ClientTypeOK'
    BY <2>1, <2>2 DEF ClientTypeOK, Calls, Methods, CallPcs
  <2>4. CachedIsOwn' /\ TokenOutlivesCall' /\ EffectIsLast'
    <3>1. CachedIsOwn'
      BY <2>1 DEF CachedIsOwn
    <3>2. TokenOutlivesCall'
      BY <2>2 DEF TokenOutlivesCall
    <3>3. EffectIsLast'
      BY <2>2 DEF EffectIsLast
    <3> QED
      BY <3>1, <3>2, <3>3
  <2>5. CallIsTimely'
    BY <2>1, <2>2, ClientConstants DEF CallIsTimely
  <2> QED
    BY <2>3, <2>4, <2>5
<1>2. ASSUME Answer \/ Failure PROVE ClientInv'
  <2>1. call' = NoCall /\ UNCHANGED <<now, auth, installed, ids, tokens, faults>>
    BY <1>2 DEF Answer, Failure
  <2>2. ClientTypeOK'
    BY <2>1 DEF ClientTypeOK, NoCall
  <2>3. CachedIsOwn' /\ CallIsTimely' /\ TokenOutlivesCall' /\ EffectIsLast'
    BY <2>1 DEF CachedIsOwn, CallIsTimely, TokenOutlivesCall, EffectIsLast, NoCall
  <2> QED
    BY <2>2, <2>3
<1>3. CASE UNCHANGED clientVars
  BY <1>3 DEF clientVars, ClientTypeOK, CachedIsOwn, CallIsTimely, TokenOutlivesCall, EffectIsLast
<1> QED
  BY <1>1, <1>2, <1>3

\* An exchange that begins has not acted yet.
LEMMA GoToTypes ==
  ASSUME call \in Calls, NEW p \in CallPcs
  PROVE  /\ GoTo(p) \in Calls
         /\ GoTo(p).pc = p /\ GoTo(p).attempt = 1 /\ GoTo(p).acts = 0
         /\ GoTo(p).owner = call.owner /\ GoTo(p).began = call.began
         /\ GoTo(p).token = call.token
  BY DEF GoTo, Calls

LEMMA SendTypes ==
  ASSUME call \in Calls, NEW t \in Tokens
  PROVE  LET c == [GoTo("send") EXCEPT !.token = t] IN
         /\ c \in Calls /\ c.pc = "send" /\ c.attempt = 1 /\ c.acts = 0 /\ c.token = t
         /\ c.owner = call.owner /\ c.began = call.began
  BY DEF GoTo, Calls, CallPcs

\* The client's own steps, by what they do to the call.
LEMMA ExchangeKeepsInv ==
  ASSUME ClientInv, call.pc # "none", NEW p \in {"install", "mint", "failed"}, call' = GoTo(p),
         UNCHANGED <<now, auth, tokens>>, installed' \subseteq Owners, ids' \subseteq Owners,
         faults' \in 0..MaxFaults
  PROVE  ClientInv'
<1>1. call \in Calls
  BY ClientTypes DEF ClientInv
<1>2. call' \in Calls /\ call'.pc = p /\ call'.attempt = 1 /\ call'.acts = 0
      /\ call'.owner = call.owner /\ call'.began = call.began
  BY <1>1, GoToTypes DEF CallPcs
<1>3. ClientTypeOK'
  BY <1>2 DEF ClientInv, ClientTypeOK, Calls, Methods, CallPcs
<1>4. CachedIsOwn' /\ CallIsTimely' /\ TokenOutlivesCall' /\ EffectIsLast'
  BY <1>2 DEF ClientInv, CachedIsOwn, CallIsTimely, TokenOutlivesCall, EffectIsLast
<1> QED
  BY <1>3, <1>4 DEF ClientInv

LEMMA SendKeepsInv ==
  ASSUME ClientInv, call.pc # "none", NEW t \in Tokens,
         call' = [GoTo("send") EXCEPT !.token = t],
         auth = "app" => t.account = Login[call.owner] /\ t.expires > call.began + CallTime,
         UNCHANGED <<now, auth, installed, ids, faults>>,
         \/ tokens' = tokens
         \/ t.account = Login[call.owner] /\ tokens' = [tokens EXCEPT ![call.owner] = t]
  PROVE  ClientInv'
<1>1. call \in Calls /\ tokens \in [Owners -> Tokens \cup {None}] /\ call.owner \in Owners
  BY ClientTypes DEF ClientInv, CallIsTimely
<1>2. call' \in Calls /\ call'.pc = "send" /\ call'.attempt = 1 /\ call'.acts = 0
      /\ call'.token = t /\ call'.owner = call.owner /\ call'.began = call.began
  BY <1>1, SendTypes
<1>3. tokens' \in [Owners -> Tokens \cup {None}]
  BY <1>1
<1>4. ClientTypeOK'
  BY <1>2, <1>3 DEF ClientInv, ClientTypeOK, Calls, Methods, CallPcs
<1>5. CachedIsOwn'
  BY <1>1 DEF ClientInv, CachedIsOwn
<1>6. CallIsTimely' /\ TokenOutlivesCall' /\ EffectIsLast'
  BY <1>2 DEF ClientInv, CallIsTimely, TokenOutlivesCall, EffectIsLast
<1> QED
  BY <1>4, <1>5, <1>6 DEF ClientInv

LEMMA FaultKept ==
  ASSUME ClientTypeOK, NoFault \/ Fault
  PROVE  faults' \in 0..MaxFaults
  BY ClientConstants DEF ClientTypeOK, NoFault, Fault

LEMMA AttemptTypes ==
  ASSUME call \in Calls, NEW n \in Nat, NEW p \in CallPcs,
         call' = [call EXCEPT !.acts = n, !.attempt = call.attempt + 1, !.pc = p]
  PROVE  /\ call' \in Calls /\ call'.acts = n /\ call'.attempt = call.attempt + 1 /\ call'.pc = p
         /\ call'.owner = call.owner /\ call'.began = call.began /\ call'.token = call.token
<1>1. call.attempt + 1 \in Nat
  BY DEF Calls
<1>2. call' \in Calls
  BY <1>1 DEF Calls
<1>3. call'.acts = n /\ call'.attempt = call.attempt + 1 /\ call'.pc = p
  BY DEF Calls
<1>4. call'.owner = call.owner /\ call'.began = call.began /\ call'.token = call.token
  BY DEF Calls
<1> QED
  BY <1>2, <1>3, <1>4

LEMMA ClientKeepsInv ==
  ASSUME ClientInv, ClientStep
  PROVE  ClientInv'
<1>1. /\ call \in Calls /\ now \in Nat /\ tokens \in [Owners -> Tokens \cup {None}]
      /\ installed \subseteq Owners /\ ids \subseteq Owners /\ faults \in 0..MaxFaults
      /\ call.pc # "none" => call.owner \in Owners /\ call.began <= now /\ now <= call.began + CallTime
  BY ClientTypes DEF ClientInv, ClientTypeOK, CallIsTimely
<1>2. CASE UseToken
  <2>1. CASE auth = "pat" /\ call' = [GoTo("send") EXCEPT !.token = Pat]
    <3>1. Pat \in Tokens
      BY ClientConstants DEF Pat, Tokens
    <3> QED
      BY <1>2, <2>1, <3>1, SendKeepsInv DEF UseToken
  <2>2. CASE auth = "app" /\ Fresh(Cached(call.owner))
             /\ call' = [GoTo("send") EXCEPT !.token = Cached(call.owner)]
    <3> DEFINE t == tokens[call.owner]
    <3>1. call.owner \in Owners /\ call.pc = "auth"
      BY <1>1, <1>2 DEF UseToken
    <3>2. t \in Tokens /\ t.expires - Skew > now
      BY <1>1, <2>2, <3>1 DEF Cached, Fresh
    <3>3. t.expires \in Nat /\ call.began \in Nat
      BY <1>1, <3>2 DEF Tokens, Calls
    <3>4. t.expires > call.began + CallTime
      BY <1>1, <3>1, <3>2, <3>3, ClientConstants
    <3>5. t.account = Login[call.owner]
      BY <2>2, <3>1 DEF ClientInv, CachedIsOwn, Cached, Fresh
    <3> QED
      BY <1>2, <2>2, <3>1, <3>2, <3>4, <3>5, SendKeepsInv DEF UseToken, Cached
  <2> QED
    BY <1>2, <2>1, <2>2 DEF UseToken
<1>3. CASE SignJwt
  BY <1>1, <1>3, ExchangeKeepsInv DEF SignJwt
<1>4. CASE FindInstallation
  <2>1. call.pc # "none" /\ ids' \subseteq Owners
        /\ (call' = GoTo("mint") \/ call' = GoTo("failed"))
    BY <1>1, <1>4 DEF FindInstallation
  <2> QED
    BY <1>1, <1>4, <2>1, ExchangeKeepsInv DEF FindInstallation
<1>5. CASE MintToken
  <2> DEFINE t == [account |-> Login[call.owner], expires |-> now + TokenLife]
  <2>1. call.owner \in Owners /\ call.pc = "mint" /\ auth \in {"app", "pat"}
    BY <1>1, <1>5 DEF MintToken, ClientInv, ClientTypeOK
  <2>2. t \in Tokens
    BY <1>1, <2>1, ClientConstants DEF Tokens
  <2>3. t.expires > call.began + CallTime
    BY <1>1, <2>1, ClientConstants DEF Calls
  <2>4. CASE call' = GoTo("failed") /\ UNCHANGED tokens
    BY <1>1, <1>5, <2>1, <2>4, ExchangeKeepsInv DEF MintToken
  <2>5. CASE tokens' = [tokens EXCEPT ![call.owner] = t]
             /\ call' = [GoTo("send") EXCEPT !.token = t]
    BY <1>5, <2>1, <2>2, <2>3, <2>5, SendKeepsInv DEF MintToken
  <2> QED
    BY <1>5, <2>4, <2>5 DEF MintToken
<1>6. CASE TransportFault
  <2>1. PICK n \in call.acts..(call.acts + IF Method = "GET" THEN 0 ELSE 1) :
          call' = [call EXCEPT !.acts = n, !.attempt = @ + 1,
                     !.pc = IF call.attempt < ReplayBudgetFor(Method) THEN @ ELSE "failed"]
    BY <1>6 DEF TransportFault
  <2>2. call.pc \in {"install", "mint", "send"} /\ call.acts = 0 /\ call.attempt \in Nat
        /\ call.attempt >= 1
    BY <1>1, <1>6 DEF TransportFault, ClientInv, EffectIsLast, Calls
  <2>3. n \in {0, 1} /\ (n = 1 => Method # "GET")
    BY <2>1, <2>2
  <2>4. n = 1 => ~(call.attempt < ReplayBudgetFor(Method))
    BY <2>2, <2>3 DEF ReplayBudgetFor
  <2>5. call' \in Calls /\ call'.acts = n /\ call'.attempt = call.attempt + 1
        /\ call'.owner = call.owner /\ call'.began = call.began /\ call'.token = call.token
        /\ call'.pc \in {call.pc, "failed"} /\ (n = 1 => call'.pc = "failed")
    <3> DEFINE p == IF call.attempt < ReplayBudgetFor(Method) THEN call.pc ELSE "failed"
    <3>1. call' = [call EXCEPT !.acts = n, !.attempt = call.attempt + 1, !.pc = p]
      BY <2>1
    <3>2. p \in CallPcs /\ p \in {call.pc, "failed"} /\ (n = 1 => p = "failed")
      BY <2>2, <2>4 DEF CallPcs
    <3> HIDE DEF p
    <3>3. /\ call' \in Calls /\ call'.acts = n /\ call'.attempt = call.attempt + 1 /\ call'.pc = p
          /\ call'.owner = call.owner /\ call'.began = call.began /\ call'.token = call.token
      <4>1. n \in Nat
        BY <2>3
      <4> QED
        BY <1>1, <3>1, <3>2, <4>1, AttemptTypes
    <3> QED
      BY <3>2, <3>3
  <2>6. ClientTypeOK'
    BY <1>6, <2>5, FaultKept DEF TransportFault, ClientInv, ClientTypeOK, Calls, Methods, CallPcs
  <2>7. CachedIsOwn' /\ CallIsTimely' /\ TokenOutlivesCall'
    BY <1>6, <2>2, <2>5 DEF TransportFault, ClientInv, CachedIsOwn, CallIsTimely, TokenOutlivesCall
  <2>8. EffectIsLast'
    BY <2>2, <2>3, <2>5 DEF EffectIsLast
  <2> QED
    BY <2>6, <2>7, <2>8 DEF ClientInv
<1>7. CASE Refuse
  <2>1. faults' \in 0..MaxFaults
    BY <1>7, FaultKept DEF Refuse, ClientInv
  <2> QED
    BY <1>1, <1>7, <2>1, ExchangeKeepsInv DEF Refuse
<1>8. CASE Unauthorized
  BY <1>1, <1>8, ExchangeKeepsInv DEF Unauthorized
<1> QED
  BY <1>2, <1>3, <1>4, <1>5, <1>6, <1>7, <1>8 DEF ClientStep

\* The clock, and GitHub.
LEMMA WorldKeepsInv ==
  ASSUME ClientInv, PassTime \/ (\E o \in Owners : Uninstall(o))
  PROVE  ClientInv'
<1> USE DEF ClientInv
<1>1. CASE PassTime
  <2>1. ClientTypeOK'
    BY <1>1, ClientConstants DEF PassTime, ClientTypeOK
  <2>2. CachedIsOwn' /\ CallIsTimely' /\ TokenOutlivesCall' /\ EffectIsLast'
    BY <1>1, ClientTypes, ClientConstants
    DEF PassTime, CachedIsOwn, CallIsTimely, TokenOutlivesCall, EffectIsLast, Calls
  <2> QED
    BY <2>1, <2>2
<1>2. ASSUME NEW o \in Owners, Uninstall(o) PROVE ClientInv'
  BY <1>2, FaultKept
  DEF Uninstall, ClientTypeOK, CachedIsOwn, CallIsTimely, TokenOutlivesCall, EffectIsLast
<1> QED
  BY <1>1, <1>2

-----------------------------------------------------------------------------
(* The sweep: its types, whom it asks, and what its calls are for.         *)

Scans == [pc : {"idle", "reap", "gate", "orgs", "repos", "runs", "jobs", "emit"},
          sweep : 0..MaxSweeps, orgs : Seq(Owners), repos : Seq(Range(Repos)),
          status : DOMAIN Statuses, page : Nat \ {0}, runs : SUBSET Nat, more : BOOLEAN,
          jobPage : Nat \ {0}, runListings : 0..RunCap, jobListings : 0..JobCap, calls : Nat,
          truncated : BOOLEAN, errors : Nat, counted : SUBSET Matched]

\* The repository in hand, and the positions of its runs.
RepoInHand ==
  /\ scan.pc \in {"runs", "jobs"} => scan.repos # <<>>
  /\ scan.pc = "jobs" => scan.runs \subseteq DOMAIN RunsOf[Repo]

\* A listing is under way only while its budget lasts, so that it may still be counted.
CallsPlaced ==
  call.pc # "none" =>
    \/ scan.pc = "reap"
    \/ scan.pc = "orgs" /\ scan.orgs # <<>>
    \/ scan.pc = "runs" /\ scan.runListings < RunCap
    \/ scan.pc = "jobs" /\ scan.runs # {} /\ scan.jobListings < JobCap

ScanInv == ClientInv /\ TypeOK /\ RepoInHand /\ CallsPlaced

-----------------------------------------------------------------------------
(* What has been scanned, and what is still to come.                       *)

StatusOf(repo, i) == RunStatus(job, RunsOf[repo][i])
PlaceOf(repo, i) == Place(i, Listed(repo, StatusOf(repo, i)))
JobAt(repo, i, k) == JobsOf[RunsOf[repo][i]][k]

\* The sweep has still to list the repository's runs.
RepoToCome(repo) ==
  \/ scan.pc = "orgs" /\ \E org \in Range(scan.orgs) : repo \in Range(ReposOf[org])
  \/ scan.pc \in {"orgs", "repos"} /\ repo \in Range(scan.repos)
  \/ scan.pc \in {"runs", "jobs"} /\ repo \in Range(Tail(scan.repos))

\* It has still to list the run at position i, by a later status or on a later page.
RunToCome(i) ==
  \/ \E n \in DOMAIN Statuses : n > scan.status /\ Statuses[n] = StatusOf(Repo, i)
  \/ /\ Statuses[scan.status] = StatusOf(Repo, i)
     /\ \/ scan.pc = "runs" /\ Before(scan.page) < PlaceOf(Repo, i)
        \/ scan.pc = "jobs" /\ scan.more /\ Before(scan.page + 1) < PlaceOf(Repo, i)

\* It has listed the run, and has still to list its job at position k.
JobToCome(i, k) ==
  /\ scan.pc = "jobs" /\ i \in scan.runs
  /\ i = Min(scan.runs) => Before(scan.jobPage) < k

Scanning == scan.pc \notin {"idle", "reap", "gate"}

Waits(repo, i, k) ==
  JobAt(repo, i, k) \in waiting \cap Matched /\ InScope(repo) /\ repo \notin disturbed

Covered(repo, i, k) ==
  \/ Reported(JobAt(repo, i, k))
  \/ RepoToCome(repo)
  \/ scan.pc \in {"runs", "jobs"} /\ repo = Repo /\ (RunToCome(i) \/ JobToCome(i, k))

(***************************************************************************)
(* NothingMissedSilently speaks of the end of a scan.  Before it, a job    *)
(* that still waits in a repository no run has left is reported already,   *)
(* or the sweep has still to come to it: to its repository, to the place   *)
(* of its run in the listing, or to its page of the run's jobs.            *)
(***************************************************************************)
CoverInv ==
  /\ \A j \in waiting : job[j] = "queued"
  /\ ~Scanning => waiting = {}
  /\ \A repo \in Range(Repos) : \A i \in DOMAIN RunsOf[repo] :
       \A k \in DOMAIN JobsOf[RunsOf[repo][i]] :
         Waits(repo, i, k) => Covered(repo, i, k)

-----------------------------------------------------------------------------
(* What the constants are.                                                 *)

LEMMA ScopeTypes ==
  /\ Orgs \in Seq(Owners) /\ Orgs[1] \in Owners /\ OrgsToScan \in Seq(Owners)
  /\ Repos \in Seq(Range(Repos)) /\ OwnerOf \in [Range(Repos) -> Owners]
  /\ ReposOf \in [Owners -> Seq(Range(Repos))]
<1>1. Orgs \in Seq(Owners) /\ Orgs # <<>> /\ OwnerOf \in [Range(Repos) -> Owners]
      /\ Repos \in Seq(Range(Repos)) /\ ReposOf \in [Owners -> Seq(Range(Repos))]
  BY ScopeAssumption
<1>2. Orgs[1] \in Owners
  BY <1>1
<1>3. SubSeq(Orgs, 1, 1) \in Seq(Owners)
  BY <1>2, SubSeqProperties
<1> QED
  BY <1>1, <1>2, <1>3, EmptySeq DEF OrgsToScan

LEMMA Caps == /\ PageSize \in Nat /\ PageSize > 0 /\ RunCap \in Nat /\ JobCap \in Nat
              /\ MaxSweeps \in Nat /\ MaxChanges \in Nat /\ Statuses = <<"queued", "in_progress">>
              /\ DOMAIN Statuses = {1, 2} /\ Len(Statuses) = 2
              /\ Statuses[1] = "queued" /\ Statuses[2] = "in_progress"
  BY CapsAssumption DEF Statuses

LEMMA PageFacts ==
  /\ Before(1) = 0
  /\ \A p \in Nat \ {0} : Before(p) \in Nat /\ p + 1 \in Nat \ {0}
<1>1. \A p \in Nat \ {0} : p - 1 \in Nat /\ p + 1 \in Nat \ {0}
  OBVIOUS
<1>2. \A p \in Nat \ {0} : (p - 1) * PageSize \in Nat
  BY <1>1, Caps
<1> QED
  BY <1>1, <1>2, Caps DEF Before

LEMMA RunFacts ==
  ASSUME NEW repo \in Range(Repos)
  PROVE  /\ DOMAIN RunsOf[repo] \subseteq Nat /\ IsFiniteSet(DOMAIN RunsOf[repo])
         /\ \A i \in DOMAIN RunsOf[repo] :
              LET run == RunsOf[repo][i] IN
              /\ run \in Runs /\ RepoOf(run) = repo
              /\ Len(JobsOf[run]) \in Nat /\ DOMAIN JobsOf[run] = 1..Len(JobsOf[run])
              /\ \A k \in DOMAIN JobsOf[run] : JobAt(repo, i, k) \in Range(JobsOf[run]) \cap Jobs
<1>1. RunsOf[repo] \in Seq(Range(RunsOf[repo]))
  BY RunsAssumption
<1>2. Len(RunsOf[repo]) \in Nat /\ DOMAIN RunsOf[repo] = 1..Len(RunsOf[repo])
  BY <1>1
<1>3. DOMAIN RunsOf[repo] \subseteq Nat /\ IsFiniteSet(DOMAIN RunsOf[repo])
  BY <1>2, FS_Interval
<1> SUFFICES ASSUME NEW i \in DOMAIN RunsOf[repo]
    PROVE  LET run == RunsOf[repo][i] IN
           /\ run \in Runs /\ RepoOf(run) = repo
           /\ Len(JobsOf[run]) \in Nat /\ DOMAIN JobsOf[run] = 1..Len(JobsOf[run])
           /\ \A k \in DOMAIN JobsOf[run] : JobAt(repo, i, k) \in Range(JobsOf[run]) \cap Jobs
  BY <1>3
<1> DEFINE run == RunsOf[repo][i]
<1>4. run \in Range(RunsOf[repo]) /\ run \in Runs
  BY DEF Range, Runs
<1>5. RepoOf(run) = repo
  <2>1. \A other \in Range(Repos) : run \in Range(RunsOf[other]) => other = repo
    BY <1>4, RunsAssumption
  <2> QED
    BY <1>4, <2>1 DEF RepoOf
<1>6. JobsOf[run] \in Seq(Range(JobsOf[run]))
  BY <1>4, RunsAssumption
<1>7. Len(JobsOf[run]) \in Nat /\ DOMAIN JobsOf[run] = 1..Len(JobsOf[run])
  BY <1>6
<1>8. \A k \in DOMAIN JobsOf[run] : JobAt(repo, i, k) \in Range(JobsOf[run]) \cap Jobs
  BY <1>4 DEF Range, Jobs, JobAt
<1> QED
  BY <1>4, <1>5, <1>7, <1>8

\* A set of positions has a least one.
LEMMA MinIsMember ==
  ASSUME NEW S \in SUBSET Nat, S # {}
  PROVE  Min(S) \in S
<1>1. PICK i \in S : \A k \in S : <<k, i>> \notin OpToRel(<, Nat)
  BY NatLessThanWellFounded, WFMin
<1>2. \A k \in S : ~(k < i)
  BY <1>1 DEF OpToRel
<1>3. \A k \in S : i <= k
  BY <1>2
<1> QED
  BY <1>3 DEF Min

\* The places of a listing count from one to its length, and more runs move a run back.
LEMMA PlaceFacts ==
  ASSUME NEW repo \in Range(Repos), NEW at \in SUBSET DOMAIN RunsOf[repo], NEW i \in at
  PROVE  /\ Place(i, at) \in Nat /\ Cardinality(at) \in Nat
         /\ 1 <= Place(i, at) /\ Place(i, at) <= Cardinality(at)
         /\ \A bt \in SUBSET DOMAIN RunsOf[repo] :
              at \subseteq bt => Place(i, bt) \in Nat /\ Place(i, at) <= Place(i, bt)
<1> DEFINE Upto(S) == {h \in S : h <= i}
<1>1. IsFiniteSet(DOMAIN RunsOf[repo]) /\ DOMAIN RunsOf[repo] \subseteq Nat
  BY RunFacts
<1>2. \A S \in SUBSET DOMAIN RunsOf[repo] : IsFiniteSet(S) /\ Cardinality(S) \in Nat
  BY <1>1, FS_Subset, FS_CardinalityType
<1>3. \A S, T \in SUBSET DOMAIN RunsOf[repo] : S \subseteq T => Cardinality(S) <= Cardinality(T)
  BY <1>2, FS_Subset
<1>4. \A S \in SUBSET DOMAIN RunsOf[repo] : Upto(S) \in SUBSET DOMAIN RunsOf[repo] /\ Upto(S) \subseteq S
  OBVIOUS
<1>5. i \in Upto(at)
  BY <1>1
<1>6. Cardinality(Upto(at)) # 0
  BY <1>2, <1>4, <1>5, FS_EmptySet
<1>7. \A bt \in SUBSET DOMAIN RunsOf[repo] : at \subseteq bt => Upto(at) \subseteq Upto(bt)
  OBVIOUS
<1>8. \A S : Place(i, S) = Cardinality(Upto(S))
  BY DEF Place
<1> HIDE DEF Upto
<1>9. Place(i, at) \in Nat /\ Cardinality(at) \in Nat /\ Place(i, at) <= Cardinality(at)
  BY <1>2, <1>3, <1>4, <1>8
<1>10. 1 <= Place(i, at)
  BY <1>6, <1>8, <1>9
<1>11. \A bt \in SUBSET DOMAIN RunsOf[repo] :
         at \subseteq bt => Place(i, bt) \in Nat /\ Place(i, at) <= Place(i, bt)
  BY <1>2, <1>3, <1>4, <1>7, <1>8
<1> QED
  BY <1>9, <1>10, <1>11

-----------------------------------------------------------------------------
(* The sweep's own invariant.                                              *)

LEMMA ScanTyped ==
  ASSUME TypeOK
  PROVE  /\ scan \in Scans /\ job \in [Jobs -> {"none", "queued", "running", "done"}]
         /\ waiting \subseteq Jobs /\ disturbed \subseteq Range(Repos)
         /\ config \in [metrics : BOOLEAN, kind : {"org", "orgs", "repos"}]
         /\ changes \in 0..MaxChanges
  BY DEF TypeOK, Scans

LEMMA TypedScan ==
  ASSUME ClientTypeOK, scan \in Scans,
         config \in [metrics : BOOLEAN, kind : {"org", "orgs", "repos"}],
         job \in [Jobs -> {"none", "queued", "running", "done"}], changes \in 0..MaxChanges,
         waiting \subseteq Jobs, disturbed \subseteq Range(Repos)
  PROVE  TypeOK
  BY DEF TypeOK, Scans

LEMMA NoSweepTyped ==
  /\ NoSweep \in Scans
  /\ NoSweep.pc = "idle" /\ NoSweep.runs = {} /\ NoSweep.counted = {} /\ NoSweep.sweep = 0
<1>1. /\ 0 \in 0..MaxSweeps /\ 1 \in DOMAIN Statuses /\ {} \in SUBSET Nat /\ 0 \in 0..RunCap
      /\ 0 \in 0..JobCap /\ {} \in SUBSET Matched /\ FALSE \in BOOLEAN
      /\ <<>> \in Seq(Owners) /\ <<>> \in Seq(Range(Repos))
  BY Caps
<1> QED
  BY <1>1 DEF NoSweep, Scans

LEMMA InitScanInv == Init => ScanInv
<1> SUFFICES ASSUME Init PROVE ScanInv
  OBVIOUS
<1>1. ClientInv /\ ClientTypeOK /\ call.pc = "none"
  BY InitClientInv DEF Init, ClientInv, ClientInit, NoCall
<1>2. scan \in Scans /\ scan.pc = "idle"
  BY NoSweepTyped DEF Init
<1>3. TypeOK
  <2>1. job \in [Jobs -> {"none", "queued", "running", "done"}] /\ changes \in 0..MaxChanges
        /\ waiting \subseteq Jobs /\ disturbed \subseteq Range(Repos)
    BY Caps DEF Init
  <2> QED
    BY <1>1, <1>2, <2>1, TypedScan DEF Init
<1> QED
  BY <1>1, <1>2, <1>3 DEF ScanInv, RepoInHand, CallsPlaced

\* The owners that the sweep asks for.
LEMMA OwnersAsked ==
  ASSUME scan \in Scans
  PROVE  /\ scan.orgs # <<>> =>
              Head(scan.orgs) \in Owners /\ Tail(scan.orgs) \in Seq(Owners)
         /\ scan.repos # <<>> =>
              /\ Repo \in Range(Repos) /\ Tail(scan.repos) \in Seq(Range(Repos))
              /\ OwnerOf[Repo] \in Owners
<1>1. scan.orgs \in Seq(Owners) /\ scan.repos \in Seq(Range(Repos))
  BY DEF Scans
<1>2. scan.orgs # <<>> => Head(scan.orgs) \in Owners /\ Tail(scan.orgs) \in Seq(Owners)
  BY <1>1, HeadTailProperties
<1>3. scan.repos # <<>> =>
        Head(scan.repos) \in Range(Repos) /\ Tail(scan.repos) \in Seq(Range(Repos))
  BY <1>1, HeadTailProperties
<1> QED
  BY <1>2, <1>3, ScopeTypes DEF Repo

\* What the sweep's steps do to the client is a caller's step.
LEMMA SweepCalls ==
  ASSUME ScanInv, SweepStep
  PROVE  ClientInv'
<1> DEFINE Asks == \E o \in Owners, m \in Methods : Request(o, m)
<1>0. scan \in Scans /\ ClientInv
  BY ScanTyped DEF ScanInv
<1>1. CASE StartSweep
  <2>1. Asks
    BY <1>1, ScopeTypes DEF StartSweep, Methods
  <2> QED
    BY <1>0, <2>1, CallerKeepsInv
<1>2. CASE ListRepos
  <2>1. Asks
    BY <1>0, <1>2, OwnersAsked DEF ListRepos, Methods
  <2> QED
    BY <1>0, <2>1, CallerKeepsInv
<1>3. CASE ListRuns
  <2>1. Asks \/ UNCHANGED clientVars
    BY <1>0, <1>3, OwnersAsked DEF ScanInv, RepoInHand, ListRuns, Methods
  <2> QED
    BY <1>0, <2>1, CallerKeepsInv
<1>4. CASE ListJobs
  <2>1. Asks \/ UNCHANGED clientVars
    BY <1>0, <1>4, OwnersAsked DEF ScanInv, RepoInHand, ListJobs, Methods
  <2> QED
    BY <1>0, <2>1, CallerKeepsInv
<1>5. CASE Reaped \/ ReposListed \/ ReposFailed \/ RunsListed \/ JobsListed \/ ScanFailed
  <2>1. Answer \/ Failure
    BY <1>5 DEF Reaped, ReposListed, ReposFailed, RunsListed, JobsListed, ScanFailed
  <2> QED
    BY <1>0, <2>1, CallerKeepsInv
<1>6. CASE StartScan \/ Enumerated \/ NextRepo \/ PageRead \/ Emit
  <2>1. UNCHANGED clientVars
    BY <1>6 DEF StartScan, Enumerated, NextRepo, PageRead, Emit
  <2> QED
    BY <1>0, <2>1, CallerKeepsInv
<1> QED
  BY <1>1, <1>2, <1>3, <1>4, <1>5, <1>6 DEF SweepStep

LEMMA CallEffects ==
  /\ \A o, m : Request(o, m) => call.pc = "none"
  /\ Answer \/ Failure => call'.pc = "none" /\ call.pc # "none"
<1>1. \A o, m : Request(o, m) => call.pc = "none"
  BY DEF Request
<1>2. NoCall.pc = "none"
  BY DEF NoCall
<1> QED
  BY <1>1, <1>2 DEF Answer, Failure

\* Between repositories nothing is in hand.
LEMMA NothingInHand ==
  ASSUME scan' \in Scans, scan'.pc \notin {"runs", "jobs"},
         call'.pc = "none" \/ scan'.pc = "reap" \/ (scan'.pc = "orgs" /\ scan'.orgs # <<>>)
  PROVE  RepoInHand' /\ CallsPlaced'
  BY DEF RepoInHand, CallsPlaced

LEMMA EnumerationKeepsTypes ==
  ASSUME ScanInv,
         \/ StartSweep \/ Reaped \/ StartScan
         \/ ListRepos \/ ReposListed \/ ReposFailed \/ Enumerated \/ Emit
  PROVE  scan' \in Scans /\ RepoInHand' /\ CallsPlaced'
<1>1. scan \in Scans
  BY ScanTyped DEF ScanInv
<1>2. call.pc # "none" => \/ scan.pc \in {"reap", "runs", "jobs"}
                          \/ scan.pc = "orgs" /\ scan.orgs # <<>>
  BY DEF ScanInv, CallsPlaced
<1>3. CASE StartSweep
  <2>1. scan' = [NoSweep EXCEPT !.pc = "reap", !.sweep = scan.sweep + 1]
        /\ scan.sweep + 1 \in 0..MaxSweeps
    BY <1>1, <1>3, Caps DEF StartSweep, Scans
  <2>2. scan' \in Scans /\ scan'.pc = "reap"
    BY <2>1, NoSweepTyped DEF Scans
  <2> QED
    BY <2>2, NothingInHand
<1>4. CASE Emit
  <2>1. scan' = [NoSweep EXCEPT !.sweep = scan.sweep] /\ scan.sweep \in 0..MaxSweeps
        /\ scan.pc = "emit" /\ UNCHANGED clientVars
    BY <1>1, <1>4 DEF Emit, Scans
  <2>2. scan' \in Scans /\ scan'.pc = "idle"
    BY <2>1, NoSweepTyped DEF Scans
  <2>3. call' = call
    BY <2>1 DEF clientVars
  <2> QED
    BY <1>2, <2>1, <2>2, <2>3, NothingInHand
<1>5. CASE Reaped
  <2>1. scan' \in Scans /\ scan'.pc = "gate"
    BY <1>1, <1>5 DEF Reaped, Scans
  <2> QED
    BY <1>5, <2>1, CallEffects, NothingInHand DEF Reaped
<1>6. CASE StartScan
  <2>1. call' = call /\ call.pc = "none"
    BY <1>2, <1>6 DEF StartScan, clientVars
  <2>2. CASE SkipScan
    <3>1. scan' \in Scans /\ scan'.pc = "idle"
      BY <1>1, <1>6, <2>2 DEF StartScan, Scans
    <3> QED
      BY <2>1, <3>1, NothingInHand
  <2>3. CASE ~SkipScan
    <3> DEFINE repos == IF config.kind = "repos" THEN Repos ELSE <<>>
    <3>1. repos \in Seq(Range(Repos)) /\ OrgsToScan \in Seq(Owners)
      BY ScopeTypes
    <3>2. scan' = [scan EXCEPT !.pc = "orgs", !.orgs = OrgsToScan, !.repos = repos]
      BY <1>6, <2>3 DEF StartScan
    <3> HIDE DEF repos
    <3>3. scan' \in Scans /\ scan'.pc = "orgs"
      BY <1>1, <3>1, <3>2 DEF Scans
    <3> QED
      BY <2>1, <3>3, NothingInHand
  <2> QED
    BY <2>2, <2>3
<1>7. CASE ListRepos
  BY <1>1, <1>7, NothingInHand DEF ListRepos
<1>8. CASE ReposListed
  <2>1. scan.repos \o ReposOf[Head(scan.orgs)] \in Seq(Range(Repos))
        /\ Tail(scan.orgs) \in Seq(Owners)
    BY <1>1, <1>8, OwnersAsked, ScopeTypes, ConcatProperties DEF ReposListed, Scans
  <2>2. scan' \in Scans /\ scan'.pc = "orgs"
    BY <1>1, <1>8, <2>1 DEF ReposListed, Scans
  <2> QED
    BY <1>8, <2>2, CallEffects, NothingInHand DEF ReposListed
<1>9. CASE ReposFailed
  <2>1. Tail(scan.orgs) \in Seq(Owners) /\ scan.errors + 1 \in Nat
    BY <1>1, <1>9, OwnersAsked DEF ReposFailed, Scans
  <2>2. scan' \in Scans /\ scan'.pc = "orgs"
    BY <1>1, <1>9, <2>1 DEF ReposFailed, Scans
  <2> QED
    BY <1>9, <2>2, CallEffects, NothingInHand DEF ReposFailed
<1>10. CASE Enumerated
  <2>1. scan' \in Scans /\ scan'.pc = "repos" /\ call' = call /\ call.pc = "none"
    BY <1>1, <1>2, <1>10 DEF Enumerated, Scans, clientVars
  <2> QED
    BY <2>1, NothingInHand
<1> QED
  BY <1>3, <1>4, <1>5, <1>6, <1>7, <1>8, <1>9, <1>10

\* The runs of the page, by what the step stores.
LEMMA PageStored ==
  ASSUME scan \in Scans, RunsListed
  PROVE  LET listed == Listed(Repo, Statuses[scan.status])
             runs == {i \in listed : OnPage(Place(i, listed), scan.page)}
             more == IsFull(scan.page, Cardinality(listed)) IN
         /\ scan' = [scan EXCEPT !.pc = "jobs", !.runListings = scan.runListings + 1, !.jobPage = 1,
                                 !.runs = runs, !.more = more]
         /\ more \in BOOLEAN
         /\ runs \subseteq DOMAIN RunsOf[Repo]
<1> DEFINE listed == Listed(Repo, Statuses[scan.status])
           runs == {i \in listed : OnPage(Place(i, listed), scan.page)}
           more == IsFull(scan.page, Cardinality(listed))
<1>1. scan' = [scan EXCEPT !.pc = "jobs", !.runListings = scan.runListings + 1, !.jobPage = 1,
                           !.runs = runs, !.more = more]
  BY DEF RunsListed
<1>2. more \in BOOLEAN
  BY DEF IsFull
<1>3. runs \subseteq DOMAIN RunsOf[Repo]
  BY DEF Listed
<1> QED
  BY <1>1, <1>2, <1>3

\* The run in hand, and what a page of its jobs does.
Run == RunsOf[Repo][Min(scan.runs)]
LEMMA JobsStored ==
  ASSUME scan \in Scans, JobsListed
  PROVE  LET jobs == JobsOf[Run]
             onPage == {jobs[k] : k \in {k \in DOMAIN jobs : OnPage(k, scan.jobPage)}}
             more == IsFull(scan.jobPage, Len(jobs)) IN
         scan' = [scan EXCEPT !.jobListings = scan.jobListings + 1,
                              !.counted = scan.counted \cup Counted(onPage),
                              !.runs = IF more THEN scan.runs ELSE scan.runs \ {Min(scan.runs)},
                              !.jobPage = IF more THEN scan.jobPage + 1 ELSE 1]
  BY DEF JobsListed, Run

LEMMA ListingKeepsTypes ==
  ASSUME ScanInv,
         NextRepo \/ ListRuns \/ RunsListed \/ PageRead \/ ListJobs \/ JobsListed \/ ScanFailed
  PROVE  scan' \in Scans /\ RepoInHand' /\ CallsPlaced'
<1>1. scan \in Scans
  BY ScanTyped DEF ScanInv
<1>2. /\ call.pc # "none" => \/ scan.pc = "reap" \/ scan.pc = "orgs"
                             \/ scan.pc = "runs" /\ scan.runListings < RunCap
                             \/ scan.pc = "jobs" /\ scan.runs # {} /\ scan.jobListings < JobCap
      /\ scan.pc \in {"runs", "jobs"} => scan.repos # <<>>
      /\ scan.pc = "jobs" => scan.runs \subseteq DOMAIN RunsOf[Repo]
  BY DEF ScanInv, CallsPlaced, RepoInHand
<1>3. scan.runListings \in Nat /\ scan.jobListings \in Nat /\ scan.errors \in Nat /\ scan.calls \in Nat
      /\ scan.page \in Nat \ {0} /\ scan.jobPage \in Nat \ {0} /\ scan.status \in {1, 2}
  BY <1>1, Caps DEF Scans
<1>4. StopAtBudget \in Scans /\ StopAtBudget.pc = "emit"
  BY <1>1 DEF StopAtBudget, Scans
<1>5. CASE NextRepo
  <2>1. call' = call /\ call.pc = "none"
    BY <1>2, <1>5 DEF NextRepo, clientVars
  <2>2. CASE scan.repos = <<>>
    <3>1. scan' \in Scans /\ scan'.pc = "emit"
      BY <1>1, <1>5, <2>2 DEF NextRepo, Scans
    <3> QED
      BY <2>1, <3>1, NothingInHand
  <2>3. CASE scan' = StopAtBudget
    BY <1>4, <2>1, <2>3, NothingInHand
  <2>4. CASE scan.repos # <<>> /\ scan' = [scan EXCEPT !.pc = "runs", !.status = 1, !.page = 1]
    <3>1. scan' \in Scans
      BY <1>1, <2>4, Caps DEF Scans
    <3>2. scan'.pc = "runs" /\ scan'.repos = scan.repos
      BY <1>1, <2>4 DEF Scans
    <3> QED
      BY <2>1, <2>4, <3>1, <3>2 DEF RepoInHand, CallsPlaced
  <2> QED
    BY <1>5, <2>2, <2>3, <2>4 DEF NextRepo
<1>6. CASE ListRuns
  <2>1. CASE RunBudgetSpent
    <3>1. scan' = StopAtBudget /\ call'.pc = "none"
      BY <1>6, <2>1 DEF ListRuns, clientVars
    <3> QED
      BY <1>4, <3>1, NothingInHand
  <2>2. CASE ~RunBudgetSpent
    <3>1. scan' = [scan EXCEPT !.calls = scan.calls + 1] /\ scan.pc = "runs"
      BY <1>6, <2>2 DEF ListRuns
    <3>2. scan' \in Scans
      <4>1. scan.calls + 1 \in Nat
        BY <1>3
      <4> QED
        BY <1>1, <3>1, <4>1 DEF Scans
    <3>3. scan'.pc = "runs" /\ scan'.repos = scan.repos /\ scan'.runListings = scan.runListings
      BY <1>1, <3>1 DEF Scans
    <3>4. scan.runListings < RunCap
      BY <1>3, <2>2, Caps DEF RunBudgetSpent
    <3> QED
      BY <1>2, <3>1, <3>2, <3>3, <3>4 DEF RepoInHand, CallsPlaced
  <2> QED
    BY <2>1, <2>2
<1>7. CASE RunsListed
  <2> DEFINE listed == Listed(Repo, Statuses[scan.status])
             runs == {i \in listed : OnPage(Place(i, listed), scan.page)}
             more == IsFull(scan.page, Cardinality(listed))
  <2>1. scan' = [scan EXCEPT !.pc = "jobs", !.runListings = scan.runListings + 1, !.jobPage = 1,
                             !.runs = runs, !.more = more]
        /\ more \in BOOLEAN /\ runs \subseteq DOMAIN RunsOf[Repo]
    BY <1>1, <1>7, PageStored
  <2>2. scan.pc = "runs" /\ call.pc # "none" /\ call'.pc = "none"
    BY <1>7, CallEffects DEF RunsListed
  <2> HIDE DEF runs, more
  <2>3. scan.repos # <<>> /\ runs \subseteq Nat
    BY <1>1, <1>2, <2>1, <2>2, OwnersAsked, RunFacts
  <2>4. scan.runListings + 1 \in 0..RunCap
    BY <1>2, <1>3, <2>2, Caps
  <2>5. scan' \in Scans
    <3> DEFINE After(b) == [scan EXCEPT !.pc = "jobs", !.runListings = scan.runListings + 1,
                                        !.jobPage = 1, !.runs = runs, !.more = b]
    <3>1. After(TRUE) \in Scans /\ After(FALSE) \in Scans
      BY <1>1, <2>3, <2>4, Caps DEF Scans
    <3>2. more = TRUE \/ more = FALSE
      BY <2>1
    <3> QED
      BY <2>1, <3>1, <3>2, Zenon
  <2>6. scan'.runs = runs /\ scan'.repos = scan.repos
    BY <1>1, <2>1 DEF Scans
  <2> QED
    BY <2>1, <2>2, <2>3, <2>5, <2>6 DEF RepoInHand, CallsPlaced, Repo
<1>8. CASE PageRead
  <2>1. call' = call /\ call.pc = "none" /\ scan.pc = "jobs" /\ scan.repos # <<>>
    BY <1>2, <1>8 DEF PageRead, clientVars
  <2>2. CASE scan' = [scan EXCEPT !.pc = "runs", !.page = scan.page + 1]
    <3>1. scan' \in Scans
      <4>1. scan.page + 1 \in Nat \ {0}
        BY <1>3
      <4> QED
        BY <1>1, <2>2, <4>1 DEF Scans
    <3>2. scan'.pc = "runs" /\ scan'.repos = scan.repos
      BY <1>1, <2>2 DEF Scans
    <3> QED
      BY <2>1, <3>1, <3>2 DEF RepoInHand, CallsPlaced
  <2>3. CASE scan.status < Len(Statuses)
             /\ scan' = [scan EXCEPT !.pc = "runs", !.status = scan.status + 1, !.page = 1]
    <3>1. scan' \in Scans
      <4>1. scan.status + 1 \in DOMAIN Statuses
        BY <1>3, <2>3, Caps
      <4> QED
        BY <1>1, <2>3, <4>1, Caps DEF Scans
    <3>2. scan'.pc = "runs" /\ scan'.repos = scan.repos
      BY <1>1, <2>3 DEF Scans
    <3> QED
      BY <2>1, <3>1, <3>2 DEF RepoInHand, CallsPlaced
  <2>4. CASE scan' = [scan EXCEPT !.pc = "repos", !.repos = Tail(scan.repos)]
    <3>1. scan' \in Scans /\ scan'.pc = "repos"
      BY <1>1, <2>1, <2>4, OwnersAsked DEF Scans
    <3> QED
      BY <2>1, <3>1, NothingInHand
  <2> QED
    BY <1>8, <2>2, <2>3, <2>4 DEF PageRead
<1>9. CASE ListJobs
  <2>1. CASE JobBudgetSpent
    <3>1. scan' = StopAtBudget /\ call'.pc = "none"
      BY <1>9, <2>1 DEF ListJobs, clientVars
    <3> QED
      BY <1>4, <3>1, NothingInHand
  <2>2. CASE ~JobBudgetSpent
    <3>1. scan' = scan /\ scan.pc = "jobs" /\ scan.runs # {}
      BY <1>9, <2>2 DEF ListJobs
    <3>2. scan.jobListings < JobCap
      BY <1>3, <2>2, Caps DEF JobBudgetSpent
    <3> QED
      BY <1>1, <1>2, <3>1, <3>2 DEF RepoInHand, CallsPlaced, Repo
  <2> QED
    BY <2>1, <2>2
<1>10. CASE JobsListed
  <2> DEFINE jobs == JobsOf[Run]
             onPage == {jobs[k] : k \in {k \in DOMAIN jobs : OnPage(k, scan.jobPage)}}
             more == IsFull(scan.jobPage, Len(jobs))
             counted == scan.counted \cup Counted(onPage)
             runs == IF more THEN scan.runs ELSE scan.runs \ {Min(scan.runs)}
             page == IF more THEN scan.jobPage + 1 ELSE 1
  <2>1. scan' = [scan EXCEPT !.jobListings = scan.jobListings + 1, !.counted = counted,
                             !.runs = runs, !.jobPage = page]
    BY <1>1, <1>10, JobsStored
  <2>2. scan.pc = "jobs" /\ call.pc # "none" /\ call'.pc = "none"
    BY <1>10, CallEffects DEF JobsListed
  <2>3. counted \in SUBSET Matched /\ page \in Nat \ {0}
    BY <1>1, <1>3 DEF Scans, Counted
  <2>4. runs \subseteq scan.runs
    OBVIOUS
  <2> HIDE DEF runs, counted, page
  <2>5. scan.jobListings + 1 \in 0..JobCap
    BY <1>2, <1>3, <2>2, Caps
  <2>6. scan' \in Scans
    BY <1>1, <2>1, <2>3, <2>4, <2>5 DEF Scans
  <2>7. scan'.runs = runs /\ scan'.repos = scan.repos /\ scan'.pc = "jobs"
    BY <1>1, <2>1, <2>2 DEF Scans
  <2> QED
    BY <1>2, <2>2, <2>4, <2>6, <2>7 DEF RepoInHand, CallsPlaced, Repo
<1>11. CASE ScanFailed
  <2>1. scan.errors + 1 \in Nat /\ Tail(scan.repos) \in Seq(Range(Repos))
    BY <1>1, <1>2, <1>3, <1>11, OwnersAsked DEF ScanFailed
  <2>2. scan' \in Scans /\ scan'.pc = "repos"
    BY <1>1, <1>11, <2>1 DEF ScanFailed, Scans
  <2> QED
    BY <1>11, <2>2, CallEffects, NothingInHand DEF ScanFailed
<1> QED
  BY <1>5, <1>6, <1>7, <1>8, <1>9, <1>10, <1>11

\* A change of GitHub's jobs.
LEMMA ChangeEffects ==
  ASSUME TypeOK, (\E run \in Runs : QueueRun(run)) \/ (\E j \in Jobs : StartJob(j) \/ FinishJob(j))
  PROVE  /\ Change(job') /\ job' \in [Jobs -> {"none", "queued", "running", "done"}]
         /\ UNCHANGED <<clientVars, config, scan>>
<1>1. job \in [Jobs -> {"none", "queued", "running", "done"}]
  BY ScanTyped
<1>2. ASSUME NEW run \in Runs, QueueRun(run)
      PROVE  Change(job') /\ job' \in [Jobs -> {"none", "queued", "running", "done"}]
  <2> DEFINE state == [j \in Jobs |-> IF j \in Range(JobsOf[run]) THEN "queued" ELSE job[j]]
  <2>1. Change(state) /\ state \in [Jobs -> {"none", "queued", "running", "done"}]
    BY <1>1, <1>2 DEF QueueRun
  <2> HIDE DEF state
  <2>2. job' = state
    BY <2>1 DEF Change
  <2> QED
    BY <2>1, <2>2
<1>3. ASSUME NEW j \in Jobs, StartJob(j) \/ FinishJob(j)
      PROVE  Change(job') /\ job' \in [Jobs -> {"none", "queued", "running", "done"}]
  <2>1. PICK s \in {"running", "done"} : Change([job EXCEPT ![j] = s])
    BY <1>3 DEF StartJob, FinishJob
  <2> DEFINE state == [job EXCEPT ![j] = s]
  <2>2. state \in [Jobs -> {"none", "queued", "running", "done"}]
    BY <1>1
  <2>3. Change(state)
    BY <2>1
  <2> HIDE DEF state
  <2>4. job' = state
    BY <2>3 DEF Change
  <2> QED
    BY <2>2, <2>3, <2>4
<1>4. Change(job') /\ job' \in [Jobs -> {"none", "queued", "running", "done"}]
  BY <1>2, <1>3
<1> QED
  BY <1>4 DEF Change

LEMMA RunsHaveRepos ==
  ASSUME NEW run \in Runs
  PROVE  \E repo \in Range(Repos) : \E i \in DOMAIN RunsOf[repo] : run = RunsOf[repo][i] /\ RepoOf(run) = repo
<1>1. PICK repo \in Range(Repos) : run \in Range(RunsOf[repo])
  BY DEF Runs
<1>2. PICK i \in DOMAIN RunsOf[repo] : run = RunsOf[repo][i]
  BY <1>1 DEF Range
<1> QED
  BY <1>2, RunFacts

LEMMA ChangeKeepsInv ==
  ASSUME ScanInv, (\E run \in Runs : QueueRun(run)) \/ (\E j \in Jobs : StartJob(j) \/ FinishJob(j))
  PROVE  ScanInv'
<1>1. /\ Change(job') /\ job' \in [Jobs -> {"none", "queued", "running", "done"}]
      /\ UNCHANGED <<clientVars, config, scan>>
  BY ChangeEffects DEF ScanInv
<1>2. /\ scan \in Scans /\ waiting \subseteq Jobs /\ disturbed \subseteq Range(Repos)
      /\ config \in [metrics : BOOLEAN, kind : {"org", "orgs", "repos"}] /\ changes \in 0..MaxChanges
  BY ScanTyped DEF ScanInv
<1>3. ClientInv'
  BY <1>1, CallerKeepsInv DEF ScanInv
<1>4. changes' \in 0..MaxChanges /\ waiting' \subseteq Jobs
  BY <1>1, <1>2, Caps DEF Change
<1>5. disturbed' \subseteq Range(Repos)
  <2>1. \A run \in Runs : RepoOf(run) \in Range(Repos)
    BY RunsHaveRepos
  <2> QED
    BY <1>1, <1>2, <2>1 DEF Change
<1>6. ClientTypeOK' /\ scan' = scan /\ config' = config
  BY <1>1, <1>3 DEF ClientInv
<1>7. TypeOK'
  <2>1. scan' \in Scans
    BY <1>2, <1>6
  <2> QED
    BY <1>1, <1>2, <1>4, <1>5, <1>6, <2>1 DEF TypeOK, Scans
<1>8. RepoInHand' /\ CallsPlaced'
  BY <1>1 DEF ScanInv, RepoInHand, CallsPlaced, Repo, clientVars
<1> QED
  BY <1>3, <1>7, <1>8 DEF ScanInv

LEMMA ClientTurn ==
  ASSUME ScanInv, (ClientStep \/ PassTime \/ \E o \in Owners : Uninstall(o)) /\ Idle
  PROVE  ScanInv'
<1>1. ClientInv'
  BY ClientKeepsInv, WorldKeepsInv DEF ScanInv
<1>2. scan' = scan /\ config' = config /\ job' = job /\ changes' = changes
      /\ waiting' = waiting /\ disturbed' = disturbed
  BY DEF Idle, githubVars
<1>3. TypeOK'
  BY <1>1, <1>2 DEF ScanInv, TypeOK, ClientInv
<1>4. call.pc = "none" => call'.pc = "none"
  <2>1. CASE ClientStep
    BY <2>1 DEF ClientStep, UseToken, SignJwt, FindInstallation, MintToken, TransportFault, Refuse,
       Unauthorized
  <2>2. CASE PassTime \/ \E o \in Owners : Uninstall(o)
    BY <2>2 DEF PassTime, Uninstall
  <2> QED
    BY <2>1, <2>2
<1>5. RepoInHand' /\ CallsPlaced'
  BY <1>2, <1>4 DEF ScanInv, RepoInHand, CallsPlaced, Repo
<1> QED
  BY <1>1, <1>3, <1>5 DEF ScanInv

LEMMA SweepKeepsInv ==
  ASSUME ScanInv, SweepStep
  PROVE  ScanInv'
<1>1. ClientInv'
  BY SweepCalls
<1>2. scan' \in Scans /\ RepoInHand' /\ CallsPlaced'
  BY EnumerationKeepsTypes, ListingKeepsTypes DEF SweepStep
<1>3. /\ config' = config /\ job' = job /\ changes' = changes
      /\ \/ waiting' = waiting /\ disturbed' = disturbed
         \/ waiting' = {j \in Jobs : job[j] = "queued"} /\ disturbed' = {}
         \/ waiting' = {} /\ disturbed' = {}
  BY DEF SweepStep, StartSweep, Reaped, StartScan, ListRepos, ReposListed, ReposFailed, Enumerated,
     NextRepo, ListRuns, RunsListed, PageRead, ListJobs, JobsListed, ScanFailed, Emit, githubVars
<1>4. TypeOK'
  <2>1. /\ waiting \subseteq Jobs /\ disturbed \subseteq Range(Repos) /\ changes \in 0..MaxChanges
        /\ config \in [metrics : BOOLEAN, kind : {"org", "orgs", "repos"}]
        /\ job \in [Jobs -> {"none", "queued", "running", "done"}]
    BY ScanTyped DEF ScanInv
  <2>2. waiting' \subseteq Jobs /\ disturbed' \subseteq Range(Repos)
    BY <1>3, <2>1
  <2> QED
    BY <1>1, <1>2, <1>3, <2>1, <2>2 DEF ClientInv, TypeOK, Scans
<1> QED
  BY <1>1, <1>2, <1>4 DEF ScanInv

LEMMA ScanInvStep == ScanInv /\ [Next]_vars => ScanInv'
<1> SUFFICES ASSUME ScanInv, [Next]_vars PROVE ScanInv'
  OBVIOUS
<1>1. CASE UNCHANGED vars
  <2>1. ClientInv'
    BY <1>1, CallerKeepsInv DEF ScanInv, vars
  <2>2. scan' = scan /\ config' = config /\ job' = job /\ changes' = changes /\ call' = call
        /\ waiting' = waiting /\ disturbed' = disturbed
    BY <1>1 DEF vars, githubVars, clientVars
  <2>3. TypeOK'
    BY <2>1, <2>2 DEF ScanInv, TypeOK, ClientInv
  <2> QED
    BY <2>1, <2>2, <2>3 DEF ScanInv, RepoInHand, CallsPlaced, Repo
<1> QED
  BY <1>1, SweepKeepsInv, ClientTurn, ChangeKeepsInv DEF Next

THEOREM ScanInvariant == Spec => []ScanInv
  BY InitScanInv, ScanInvStep, PTL DEF Spec

\* The sweep and the client keep their shapes: no listing goes beyond its
\* budget, and nothing is counted that no class serves.
THEOREM TypeCorrect == Spec => []TypeOK
<1>1. ScanInv => TypeOK
  BY DEF ScanInv
<1> QED
  BY <1>1, ScanInvariant, PTL

-----------------------------------------------------------------------------
(* No waiting job is missed.                                               *)

LEMMA RangeFacts ==
  ASSUME NEW T, NEW s \in Seq(T)
  PROVE  /\ s # <<>> => Range(s) = {Head(s)} \cup Range(Tail(s))
         /\ s = <<>> => Range(s) = {}
         /\ \A t \in Seq(T) : Range(s \o t) = Range(s) \cup Range(t)
<1>1. ASSUME s # <<>> PROVE Range(s) = {Head(s)} \cup Range(Tail(s))
  <2>1. /\ Len(s) \in Nat /\ Len(s) >= 1 /\ DOMAIN s = 1..Len(s)
        /\ Len(Tail(s)) = Len(s) - 1 /\ DOMAIN Tail(s) = 1..(Len(s) - 1) /\ Head(s) = s[1]
        /\ \A n \in 1..(Len(s) - 1) : Tail(s)[n] = s[n + 1]
    BY <1>1
  <2>2. \A n \in DOMAIN s : n = 1 \/ (n - 1 \in DOMAIN Tail(s) /\ s[n] = Tail(s)[n - 1])
    BY <2>1
  <2>3. \A n \in DOMAIN Tail(s) : n + 1 \in DOMAIN s /\ s[n + 1] = Tail(s)[n]
    BY <2>1
  <2>4. Range(s) \subseteq {Head(s)} \cup Range(Tail(s))
    BY <2>1, <2>2 DEF Range
  <2>5. Range(Tail(s)) \subseteq Range(s) /\ Head(s) \in Range(s)
    BY <2>1, <2>3 DEF Range
  <2> QED
    BY <2>4, <2>5
<1>2. ASSUME s = <<>> PROVE Range(s) = {}
  BY <1>2 DEF Range
<1>3. ASSUME NEW t \in Seq(T) PROVE Range(s \o t) = Range(s) \cup Range(t)
  <2>1. /\ Len(s) \in Nat /\ Len(t) \in Nat /\ DOMAIN s = 1..Len(s) /\ DOMAIN t = 1..Len(t)
        /\ DOMAIN (s \o t) = 1..(Len(s) + Len(t))
        /\ \A n \in 1..(Len(s) + Len(t)) :
             (s \o t)[n] = IF n <= Len(s) THEN s[n] ELSE t[n - Len(s)]
    BY <1>3
  <2>2. \A n \in DOMAIN (s \o t) : \/ n \in DOMAIN s /\ (s \o t)[n] = s[n]
                                   \/ n - Len(s) \in DOMAIN t /\ (s \o t)[n] = t[n - Len(s)]
    BY <2>1
  <2>3. \A n \in DOMAIN s : n \in DOMAIN (s \o t) /\ (s \o t)[n] = s[n]
    BY <2>1
  <2>4. \A n \in DOMAIN t : n + Len(s) \in DOMAIN (s \o t) /\ (s \o t)[n + Len(s)] = t[n]
    BY <2>1
  <2>5. Range(s \o t) \subseteq Range(s) \cup Range(t)
    BY <2>2 DEF Range
  <2>6. Range(s) \subseteq Range(s \o t) /\ Range(t) \subseteq Range(s \o t)
    BY <2>3, <2>4 DEF Range
  <2> QED
    BY <2>5, <2>6
<1> QED
  BY <1>1, <1>2, <1>3

\* A run with a queued job is in one of the two listings, at a place from one on.
LEMMA WaitingRuns ==
  ASSUME ScanInv, CoverInv, NEW repo \in Range(Repos), NEW i \in DOMAIN RunsOf[repo],
         NEW k \in DOMAIN JobsOf[RunsOf[repo][i]], JobAt(repo, i, k) \in waiting
  PROVE  /\ StatusOf(repo, i) \in {"queued", "in_progress"}
         /\ \E n \in DOMAIN Statuses : Statuses[n] = StatusOf(repo, i)
         /\ i \in Listed(repo, StatusOf(repo, i))
         /\ Listed(repo, StatusOf(repo, i)) \subseteq DOMAIN RunsOf[repo]
         /\ PlaceOf(repo, i) \in Nat /\ PlaceOf(repo, i) >= 1
<1> DEFINE run == RunsOf[repo][i]
<1>1. job[JobAt(repo, i, k)] = "queued" /\ JobAt(repo, i, k) \in Range(JobsOf[run])
  BY RunFacts DEF CoverInv
<1>2. "queued" \in {job[j] : j \in Range(JobsOf[run])}
  BY <1>1
<1>3. RunStatus(job, run) \in {"queued", "in_progress"}
  BY <1>2 DEF RunStatus
<1>4. i \in Listed(repo, StatusOf(repo, i)) /\ Listed(repo, StatusOf(repo, i)) \subseteq DOMAIN RunsOf[repo]
  BY DEF Listed, StatusOf
<1>5. PlaceOf(repo, i) \in Nat /\ PlaceOf(repo, i) >= 1
  BY <1>4, PlaceFacts DEF PlaceOf
<1> QED
  BY <1>3, <1>4, <1>5, Caps DEF StatusOf

\* GitHub moves on: in a repository that no run has left, places only grow.
LEMMA ChangeKeepsCover ==
  ASSUME ScanInv, CoverInv,
         (\E run \in Runs : QueueRun(run)) \/ (\E j \in Jobs : StartJob(j) \/ FinishJob(j))
  PROVE  CoverInv'
<1>1. Change(job') /\ config' = config /\ scan' = scan
  BY ChangeEffects DEF ScanInv
<1>2. /\ waiting' = {j \in waiting : job'[j] = "queued"}
      /\ disturbed' = disturbed \cup {RepoOf(run) : run \in
           {r \in Runs : RunStatus(job, r) # "none" /\ RunStatus(job', r) # RunStatus(job, r)}}
  BY <1>1 DEF Change
<1>3. (\A j \in waiting : job[j] = "queued")' /\ (~Scanning => waiting = {})'
  BY <1>1, <1>2 DEF CoverInv, Scanning
<1>4. ASSUME NEW repo \in Range(Repos), NEW i \in DOMAIN RunsOf[repo],
             NEW k \in DOMAIN JobsOf[RunsOf[repo][i]], Waits(repo, i, k)'
      PROVE  Covered(repo, i, k)'
  <2>1. Waits(repo, i, k) /\ repo \notin disturbed'
    BY <1>1, <1>2, <1>4 DEF Waits, InScope, OrgsToScan
  <2>2. Covered(repo, i, k)
    BY <2>1 DEF CoverInv
  <2>3. /\ StatusOf(repo, i) \in {"queued", "in_progress"}
        /\ i \in Listed(repo, StatusOf(repo, i))
        /\ Listed(repo, StatusOf(repo, i)) \subseteq DOMAIN RunsOf[repo]
        /\ PlaceOf(repo, i) \in Nat
    BY <2>1, WaitingRuns DEF Waits
  <2>4. \A h \in DOMAIN RunsOf[repo] :
          StatusOf(repo, h) # "none" => StatusOf(repo, h)' = StatusOf(repo, h)
    <3> SUFFICES ASSUME NEW h \in DOMAIN RunsOf[repo], StatusOf(repo, h) # "none",
                        StatusOf(repo, h)' # StatusOf(repo, h)
                 PROVE  repo \in disturbed'
      BY <2>1
    <3> DEFINE run == RunsOf[repo][h]
    <3>1. run \in Runs /\ RepoOf(run) = repo
      BY RunFacts
    <3>2. RunStatus(job, run) # "none" /\ RunStatus(job', run) # RunStatus(job, run)
      BY DEF StatusOf
    <3> QED
      BY <1>2, <3>1, <3>2
  <2>5. StatusOf(repo, i)' = StatusOf(repo, i)
    BY <2>3, <2>4
  <2>6. Listed(repo, StatusOf(repo, i)) \subseteq Listed(repo, StatusOf(repo, i))'
    BY <2>3, <2>4, <2>5 DEF Listed, StatusOf
  <2>7. PlaceOf(repo, i)' \in Nat /\ PlaceOf(repo, i) <= PlaceOf(repo, i)'
    <3> DEFINE at == Listed(repo, StatusOf(repo, i))
               bt == Listed(repo, StatusOf(repo, i))'
    <3>1. bt \in SUBSET DOMAIN RunsOf[repo] /\ at \in SUBSET DOMAIN RunsOf[repo] /\ i \in at
      BY <2>3 DEF Listed
    <3>2. PlaceOf(repo, i) = Place(i, at) /\ PlaceOf(repo, i)' = Place(i, bt)
      BY <2>5 DEF PlaceOf, Place
    <3> HIDE DEF at, bt
    <3> QED
      BY <2>6, <3>1, <3>2, PlaceFacts DEF at, bt
  <2>8. scan.page \in Nat \ {0} /\ Before(scan.page) \in Nat /\ Before(scan.page + 1) \in Nat
    BY ScanTyped, PageFacts DEF ScanInv, Scans
  <2>9. Reported(JobAt(repo, i, k)) => Reported(JobAt(repo, i, k))'
    BY <1>1 DEF Reported, JobAt
  <2>10. RepoToCome(repo) => RepoToCome(repo)'
    BY <1>1 DEF RepoToCome
  <2>11. repo = Repo /\ RunToCome(i) => RunToCome(i)'
    <3>1. Repo' = Repo
      BY <1>1 DEF Repo
    <3> SUFFICES ASSUME repo = Repo, RunToCome(i) PROVE RunToCome(i)'
      OBVIOUS
    <3>2. StatusOf(Repo, i)' = StatusOf(Repo, i)
      BY <2>5, <3>1
    <3>3. PlaceOf(Repo, i)' \in Nat /\ PlaceOf(Repo, i) <= PlaceOf(Repo, i)' /\ PlaceOf(Repo, i) \in Nat
      BY <2>3, <2>7, <3>1
    <3>4. Before(scan.page)' = Before(scan.page) /\ Before(scan.page + 1)' = Before(scan.page + 1)
      BY <1>1 DEF Before
    <3> QED
      BY <1>1, <2>8, <3>2, <3>3, <3>4 DEF RunToCome
  <2>12. JobToCome(i, k) => JobToCome(i, k)'
    BY <1>1 DEF JobToCome, Before
  <2> QED
    BY <1>1, <2>2, <2>9, <2>10, <2>11, <2>12 DEF Covered, Repo
<1> QED
  BY <1>3, <1>4 DEF CoverInv

\* A step of the scan keeps the cover if each waiting job stays covered.
LEMMA CoverStep ==
  ASSUME CoverInv, UNCHANGED <<config, githubVars>>, Scanning',
         \A repo \in Range(Repos) : \A i \in DOMAIN RunsOf[repo] :
           \A k \in DOMAIN JobsOf[RunsOf[repo][i]] :
             Waits(repo, i, k) /\ Covered(repo, i, k) => Covered(repo, i, k)'
  PROVE  CoverInv'
<1>1. config' = config /\ job' = job /\ waiting' = waiting /\ disturbed' = disturbed
  BY DEF githubVars
<1>2. (\A j \in waiting : job[j] = "queued")' /\ (~Scanning => waiting = {})'
  BY <1>1 DEF CoverInv
<1>3. ASSUME NEW repo \in Range(Repos), NEW i \in DOMAIN RunsOf[repo],
             NEW k \in DOMAIN JobsOf[RunsOf[repo][i]], Waits(repo, i, k)'
      PROVE  Covered(repo, i, k)'
  <2>1. Waits(repo, i, k)
    BY <1>1, <1>3 DEF Waits, InScope, OrgsToScan
  <2> QED
    BY <2>1 DEF CoverInv
<1> QED
  BY <1>2, <1>3 DEF CoverInv

\* Nor does the scan move a run.
LEMMA Standing ==
  ASSUME UNCHANGED githubVars
  PROVE  \A repo, i : StatusOf(repo, i)' = StatusOf(repo, i) /\ PlaceOf(repo, i)' = PlaceOf(repo, i)
<1>1. job' = job
  BY DEF githubVars
<1> QED
  BY <1>1 DEF StatusOf, PlaceOf, Place, Listed, RunStatus

\* What has been reported stays so, and an error or a cut reports every job.
LEMMA ReportsStand ==
  ASSUME scan \in Scans, scan' \in Scans
  PROVE  /\ scan'.errors > 0 => \A j : Reported(j)'
         /\ scan'.truncated = TRUE => \A j : Reported(j)'
         /\ scan'.counted = scan.counted /\ scan'.errors = scan.errors /\ scan'.truncated = scan.truncated
              => \A j : Reported(j) => Reported(j)'
  BY DEF Reported

\* The beginning and the end of a scan.
LEMMA BoundsKeepCover ==
  ASSUME ScanInv, CoverInv, StartSweep \/ Reaped \/ StartScan \/ Emit
  PROVE  CoverInv'
<1>1. scan \in Scans
  BY ScanTyped DEF ScanInv
<1>2. CASE StartSweep \/ Reaped \/ (StartScan /\ SkipScan)
  <2>1. waiting = {} /\ waiting' = {}
    BY <1>2 DEF CoverInv, Scanning, StartSweep, Reaped, StartScan, githubVars
  <2> QED
    BY <2>1 DEF CoverInv, Waits
<1>3. CASE Emit
  <2>1. waiting' = {}
    BY <1>3 DEF Emit
  <2> QED
    BY <2>1 DEF CoverInv, Waits
<1>4. CASE StartScan /\ ~SkipScan
  <2> DEFINE repos == IF config.kind = "repos" THEN Repos ELSE <<>>
  <2>1. /\ scan' = [scan EXCEPT !.pc = "orgs", !.orgs = OrgsToScan, !.repos = repos]
        /\ waiting' = {j \in Jobs : job[j] = "queued"} /\ job' = job /\ config' = config
    BY <1>4 DEF StartScan
  <2>2. config.kind = "repos" => repos = Repos
    OBVIOUS
  <2> HIDE DEF repos
  <2>3. scan'.pc = "orgs" /\ scan'.orgs = OrgsToScan /\ scan'.repos = repos
    BY <1>1, <2>1 DEF Scans
  <2>4. ASSUME NEW repo \in Range(Repos), InScope(repo)'
        PROVE  RepoToCome(repo)'
    <3>1. InScope(repo)
      BY <2>1, <2>4 DEF InScope, OrgsToScan
    <3> QED
      BY <2>2, <2>3, <2>4, <3>1 DEF InScope, RepoToCome
  <2>5. (\A j \in waiting : job[j] = "queued")' /\ Scanning'
    BY <2>1, <2>3 DEF Scanning
  <2> QED
    BY <2>4, <2>5 DEF CoverInv, Waits, Covered
<1> QED
  BY <1>2, <1>3, <1>4

\* The repositories are enumerated.
LEMMA EnumerationKeepsCover ==
  ASSUME ScanInv, CoverInv, ListRepos \/ ReposListed \/ ReposFailed \/ Enumerated
  PROVE  CoverInv'
<1>1. scan \in Scans /\ scan' \in Scans
  BY ScanTyped, EnumerationKeepsTypes DEF ScanInv
<1>2. UNCHANGED <<config, githubVars>> /\ scan.pc = "orgs"
  BY DEF ListRepos, ReposListed, ReposFailed, Enumerated
<1>3. scan.orgs \in Seq(Owners) /\ scan.repos \in Seq(Range(Repos)) /\ scan.errors \in Nat
  BY <1>1 DEF Scans
<1>4. CASE ListRepos
  <2>1. scan' = scan
    BY <1>4 DEF ListRepos
  <2>2. Scanning'
    BY <1>2, <2>1 DEF Scanning
  <2>3. \A repo, i, k : Covered(repo, i, k) => Covered(repo, i, k)'
    BY <1>2, <2>1 DEF Covered, Reported, RepoToCome, JobAt
  <2> QED
    BY <1>2, <2>2, <2>3, CoverStep
<1>5. CASE ReposListed
  <2>1. /\ scan.orgs # <<>>
        /\ scan' = [scan EXCEPT !.orgs = Tail(scan.orgs), !.repos = scan.repos \o ReposOf[Head(scan.orgs)]]
    BY <1>5 DEF ReposListed
  <2>2. /\ scan'.pc = "orgs" /\ scan'.orgs = Tail(scan.orgs)
        /\ scan'.repos = scan.repos \o ReposOf[Head(scan.orgs)]
        /\ scan'.counted = scan.counted /\ scan'.errors = scan.errors /\ scan'.truncated = scan.truncated
    BY <1>1, <1>2, <2>1 DEF Scans
  <2>3. Range(scan.orgs) = {Head(scan.orgs)} \cup Range(scan'.orgs)
    BY <1>3, <2>1, <2>2, RangeFacts
  <2>4. Range(scan'.repos) = Range(scan.repos) \cup Range(ReposOf[Head(scan.orgs)])
    <3>1. ReposOf[Head(scan.orgs)] \in Seq(Range(Repos))
      BY <1>1, <2>1, OwnersAsked, ScopeTypes
    <3> QED
      BY <1>3, <2>2, <3>1, RangeFacts
  <2>5. \A repo : RepoToCome(repo) => RepoToCome(repo)'
    BY <1>2, <2>2, <2>3, <2>4 DEF RepoToCome
  <2>6. \A repo, i, k : Covered(repo, i, k) => Covered(repo, i, k)'
    BY <1>1, <1>2, <2>2, <2>5, ReportsStand DEF Covered, JobAt
  <2> QED
    BY <1>2, <2>2, <2>6, CoverStep DEF Scanning
<1>6. CASE ReposFailed
  <2>1. scan' = [scan EXCEPT !.orgs = Tail(scan.orgs), !.errors = scan.errors + 1]
    BY <1>6 DEF ReposFailed
  <2>2. scan'.pc = "orgs" /\ scan'.errors = scan.errors + 1
    BY <1>1, <1>2, <2>1 DEF Scans
  <2>3. \A j : Reported(j)'
    BY <1>1, <1>3, <2>2, ReportsStand
  <2> QED
    BY <1>2, <2>2, <2>3, CoverStep DEF Scanning, Covered, JobAt
<1>7. CASE Enumerated
  <2>1. scan.orgs = <<>> /\ scan' = [scan EXCEPT !.pc = "repos"]
    BY <1>7 DEF Enumerated
  <2>2. /\ scan'.pc = "repos" /\ scan'.repos = scan.repos
        /\ scan'.counted = scan.counted /\ scan'.errors = scan.errors /\ scan'.truncated = scan.truncated
    BY <1>1, <2>1 DEF Scans
  <2>3. \A repo : RepoToCome(repo) => RepoToCome(repo)'
    BY <1>2, <1>3, <2>1, <2>2, RangeFacts DEF RepoToCome
  <2>4. \A repo, i, k : Covered(repo, i, k) => Covered(repo, i, k)'
    BY <1>1, <1>2, <2>2, <2>3, ReportsStand DEF Covered, JobAt
  <2> QED
    BY <1>2, <2>2, <2>4, CoverStep DEF Scanning
<1> QED
  BY <1>4, <1>5, <1>6, <1>7

\* A sweep that stops at a budget, or passes over what it cannot read, says so.
LEMMA StopsAreReported ==
  ASSUME ScanInv, CoverInv, UNCHANGED <<config, githubVars>>, scan' \in Scans, Scanning',
         scan' = StopAtBudget \/ scan'.errors = scan.errors + 1
  PROVE  CoverInv'
<1>1. scan \in Scans /\ scan.errors \in Nat
  BY ScanTyped DEF ScanInv, Scans
<1>2. scan' = StopAtBudget => scan'.truncated = TRUE
  BY <1>1 DEF StopAtBudget, Scans
<1>3. \A j : Reported(j)'
  <2>1. CASE scan' = StopAtBudget
    BY <1>1, <1>2, <2>1, ReportsStand
  <2>2. CASE scan'.errors = scan.errors + 1
    <3>1. scan'.errors > 0
      BY <1>1, <2>2
    <3> QED
      BY <1>1, <3>1, ReportsStand
  <2> QED
    BY <2>1, <2>2
<1> QED
  BY <1>3, CoverStep DEF Covered, JobAt

\* On to a repository, whose listings begin with the first status and page.
LEMMA NextRepoKeepsCover ==
  ASSUME ScanInv, CoverInv, NextRepo
  PROVE  CoverInv'
<1>1. scan \in Scans /\ scan' \in Scans
  BY ScanTyped, ListingKeepsTypes DEF ScanInv
<1>2. UNCHANGED <<config, githubVars>> /\ scan.pc = "repos" /\ scan.repos \in Seq(Range(Repos))
  BY <1>1 DEF NextRepo, Scans
<1>3. CASE scan' = StopAtBudget
  <2>1. Scanning'
    BY <1>1, <1>3 DEF StopAtBudget, Scans, Scanning
  <2> QED
    BY <1>1, <1>2, <1>3, <2>1, StopsAreReported
<1>4. CASE scan.repos = <<>>
  <2>1. scan' = [scan EXCEPT !.pc = "emit"]
    BY <1>4 DEF NextRepo
  <2>2. /\ scan'.pc = "emit"
        /\ scan'.counted = scan.counted /\ scan'.errors = scan.errors /\ scan'.truncated = scan.truncated
    BY <1>1, <2>1 DEF Scans
  <2>3. \A repo : ~RepoToCome(repo)
    BY <1>2, <1>4, RangeFacts DEF RepoToCome
  <2>4. \A repo, i, k : Covered(repo, i, k) => Covered(repo, i, k)'
    BY <1>1, <1>2, <2>2, <2>3, ReportsStand DEF Covered, JobAt
  <2> QED
    BY <1>2, <2>2, <2>4, CoverStep DEF Scanning
<1>5. CASE scan.repos # <<>> /\ scan' = [scan EXCEPT !.pc = "runs", !.status = 1, !.page = 1]
  <2>1. /\ scan'.pc = "runs" /\ scan'.status = 1 /\ scan'.page = 1 /\ scan'.repos = scan.repos
        /\ scan'.counted = scan.counted /\ scan'.errors = scan.errors /\ scan'.truncated = scan.truncated
    BY <1>1, <1>5 DEF Scans
  <2>2. Range(scan.repos) = {Repo} \cup Range(Tail(scan'.repos)) /\ Repo' = Repo
    BY <1>2, <1>5, <2>1, RangeFacts DEF Repo
  <2>3. ASSUME NEW repo \in Range(Repos), NEW i \in DOMAIN RunsOf[repo],
               NEW k \in DOMAIN JobsOf[RunsOf[repo][i]], Waits(repo, i, k), Covered(repo, i, k)
        PROVE  Covered(repo, i, k)'
    <3>1. CASE Reported(JobAt(repo, i, k))
      BY <1>1, <2>1, <3>1, ReportsStand DEF Covered, JobAt
    <3>2. CASE repo \in Range(Tail(scan'.repos))
      BY <2>1, <3>2 DEF Covered, RepoToCome
    <3>3. CASE repo = Repo
      <4>1. /\ PlaceOf(repo, i) \in Nat /\ PlaceOf(repo, i) >= 1
            /\ \E n \in DOMAIN Statuses : Statuses[n] = StatusOf(repo, i)
        BY <2>3, WaitingRuns DEF Waits
      <4>2. PlaceOf(repo, i)' = PlaceOf(repo, i) /\ StatusOf(repo, i)' = StatusOf(repo, i)
        BY <1>2, Standing
      <4>3. Before(scan.page)' = 0
        BY <2>1, PageFacts DEF Before
      <4>4. RunToCome(i)'
        BY <2>1, <2>2, <3>3, <4>1, <4>2, <4>3, Caps DEF RunToCome
      <4> QED
        BY <2>1, <2>2, <3>3, <4>4 DEF Covered
    <3> QED
      BY <1>2, <2>2, <2>3, <3>1, <3>2, <3>3 DEF Covered, RepoToCome
  <2> QED
    BY <1>2, <2>1, <2>3, CoverStep DEF Scanning
<1> QED
  BY <1>3, <1>4, <1>5 DEF NextRepo

\* A page of runs: each run of it is in hand, and a later one has a later page.
LEMMA RunsListedKeepsCover ==
  ASSUME ScanInv, CoverInv, RunsListed
  PROVE  CoverInv'
<1> DEFINE listed == Listed(Repo, Statuses[scan.status])
           runs == {i \in listed : OnPage(Place(i, listed), scan.page)}
           more == IsFull(scan.page, Cardinality(listed))
<1>1. scan \in Scans /\ scan' \in Scans
  BY ScanTyped, ListingKeepsTypes DEF ScanInv
<1>2. UNCHANGED <<config, githubVars>> /\ scan.pc = "runs" /\ scan.repos # <<>>
  BY DEF RunsListed, ScanInv, RepoInHand
<1>3. scan' = [scan EXCEPT !.pc = "jobs", !.runListings = scan.runListings + 1, !.jobPage = 1,
                           !.runs = runs, !.more = more]
  BY <1>1, PageStored
<1>4. \A i : i \in runs <=> i \in listed /\ OnPage(Place(i, listed), scan.page)
  OBVIOUS
<1>5. more <=> IsFull(scan.page, Cardinality(listed))
  OBVIOUS
<1> HIDE DEF runs, more
<1>6. /\ scan'.pc = "jobs" /\ scan'.repos = scan.repos /\ scan'.status = scan.status
      /\ scan'.page = scan.page /\ scan'.jobPage = 1 /\ scan'.runs = runs /\ scan'.more = more
      /\ scan'.counted = scan.counted /\ scan'.errors = scan.errors /\ scan'.truncated = scan.truncated
  BY <1>1, <1>3 DEF Scans
<1>7. Repo' = Repo /\ Repo \in Range(Repos)
  BY <1>1, <1>2, <1>6, OwnersAsked DEF Repo
<1>8. /\ scan.page \in Nat \ {0} /\ scan.page + 1 \in Nat \ {0}
      /\ Before(scan.page) \in Nat /\ Before(scan.page + 1) \in Nat /\ Before(1) = 0
  BY <1>1, PageFacts DEF Scans
<1>9. ASSUME NEW repo \in Range(Repos), NEW i \in DOMAIN RunsOf[repo],
             NEW k \in DOMAIN JobsOf[RunsOf[repo][i]], Waits(repo, i, k), Covered(repo, i, k)
      PROVE  Covered(repo, i, k)'
  <2>1. CASE Reported(JobAt(repo, i, k))
    BY <1>1, <1>6, <2>1, ReportsStand DEF Covered, JobAt
  <2>2. CASE RepoToCome(repo)
    BY <1>2, <1>6, <2>2 DEF Covered, RepoToCome
  <2>3. CASE repo = Repo /\ RunToCome(i)
    <3>1. StatusOf(repo, i)' = StatusOf(repo, i) /\ PlaceOf(repo, i)' = PlaceOf(repo, i)
      BY <1>2, Standing
    <3>2. CASE \E n \in DOMAIN Statuses : n > scan.status /\ Statuses[n] = StatusOf(Repo, i)
      BY <1>6, <1>7, <2>3, <3>1, <3>2 DEF Covered, RunToCome
    <3>3. CASE Statuses[scan.status] = StatusOf(Repo, i) /\ Before(scan.page) < PlaceOf(Repo, i)
      <4>1. /\ i \in listed /\ listed \subseteq DOMAIN RunsOf[repo] /\ PlaceOf(repo, i) = Place(i, listed)
        BY <1>9, <2>3, <3>3, WaitingRuns DEF Waits, PlaceOf
      <4>2. /\ Place(i, listed) \in Nat /\ Place(i, listed) <= Cardinality(listed)
            /\ Cardinality(listed) \in Nat
        BY <4>1, PlaceFacts
      <4>3. CASE PlaceOf(repo, i) <= Before(scan.page + 1)
        <5>1. i \in runs
          BY <1>4, <2>3, <3>3, <4>1, <4>3 DEF OnPage
        <5>2. k \in Nat /\ k >= 1
          BY RunFacts
        <5>3. Before(scan.jobPage)' = 0
          BY <1>6, <1>8 DEF Before
        <5>4. JobToCome(i, k)'
          BY <1>6, <5>1, <5>2, <5>3 DEF JobToCome
        <5> QED
          BY <1>6, <1>7, <2>3, <5>4 DEF Covered
      <4>4. CASE Before(scan.page + 1) < PlaceOf(repo, i)
        <5>1. more
          BY <1>5, <1>8, <4>1, <4>2, <4>4 DEF IsFull
        <5>2. scan'.more
          BY <1>6, <5>1
        <5>3. Before(scan.page + 1)' = Before(scan.page + 1)
          BY <1>6 DEF Before
        <5>4. RunToCome(i)'
          BY <1>6, <1>7, <2>3, <3>1, <3>3, <4>4, <5>2, <5>3 DEF RunToCome
        <5> QED
          BY <1>6, <1>7, <2>3, <5>4 DEF Covered
      <4> QED
        BY <1>8, <4>1, <4>2, <4>3, <4>4
    <3> QED
      BY <1>2, <2>3, <3>2, <3>3 DEF RunToCome
  <2> QED
    BY <1>2, <1>9, <2>1, <2>2, <2>3 DEF Covered, JobToCome
<1> QED
  BY <1>2, <1>6, <1>9, CoverStep DEF Scanning

\* A page whose runs are all read: what it leaves is on a later page or of a later status.
LEMMA PageReadKeepsCover ==
  ASSUME ScanInv, CoverInv, PageRead
  PROVE  CoverInv'
<1>1. scan \in Scans /\ scan' \in Scans
  BY ScanTyped, ListingKeepsTypes DEF ScanInv
<1>2. UNCHANGED <<config, githubVars>> /\ scan.pc = "jobs" /\ scan.runs = {} /\ scan.repos # <<>>
  BY DEF PageRead, ScanInv, RepoInHand
<1>3. scan.page \in Nat \ {0} /\ scan.status \in {1, 2} /\ Before(1) = 0
  BY <1>1, Caps, PageFacts DEF Scans
<1>4. \A i, k : ~JobToCome(i, k)
  BY <1>2 DEF JobToCome
<1>5. CASE scan.more /\ scan' = [scan EXCEPT !.pc = "runs", !.page = scan.page + 1]
  <2>1. /\ scan'.pc = "runs" /\ scan'.repos = scan.repos /\ scan'.status = scan.status
        /\ scan'.page = scan.page + 1
        /\ scan'.counted = scan.counted /\ scan'.errors = scan.errors /\ scan'.truncated = scan.truncated
    BY <1>1, <1>5 DEF Scans
  <2>2. Repo' = Repo /\ Before(scan.page)' = Before(scan.page + 1)
    BY <2>1 DEF Repo, Before
  <2>3. \A i : RunToCome(i) => RunToCome(i)'
    BY <1>2, <2>1, <2>2, Standing DEF RunToCome
  <2>4. \A repo, i, k : Covered(repo, i, k) => Covered(repo, i, k)'
    BY <1>1, <1>2, <1>4, <2>1, <2>2, <2>3, ReportsStand DEF Covered, JobAt, RepoToCome
  <2> QED
    BY <1>2, <2>1, <2>4, CoverStep DEF Scanning
<1>6. CASE /\ ~scan.more /\ scan.status < Len(Statuses)
           /\ scan' = [scan EXCEPT !.pc = "runs", !.status = scan.status + 1, !.page = 1]
  <2>1. /\ scan'.pc = "runs" /\ scan'.repos = scan.repos /\ scan'.status = scan.status + 1
        /\ scan'.page = 1
        /\ scan'.counted = scan.counted /\ scan'.errors = scan.errors /\ scan'.truncated = scan.truncated
    BY <1>1, <1>6 DEF Scans
  <2>2. Repo' = Repo /\ Before(scan.page)' = 0 /\ scan.status = 1
    BY <1>3, <1>6, <2>1, Caps DEF Repo, Before
  <2>3. ASSUME NEW repo \in Range(Repos), NEW i \in DOMAIN RunsOf[repo],
               NEW k \in DOMAIN JobsOf[RunsOf[repo][i]], Waits(repo, i, k), Covered(repo, i, k)
        PROVE  Covered(repo, i, k)'
    <3>1. CASE repo = Repo /\ RunToCome(i)
      <4>1. PlaceOf(repo, i) \in Nat /\ PlaceOf(repo, i) >= 1
        BY <2>3, WaitingRuns DEF Waits
      <4>2. Statuses[2] = StatusOf(Repo, i)
        BY <1>2, <1>6, <2>2, <3>1, Caps DEF RunToCome
      <4>3. PlaceOf(repo, i)' = PlaceOf(repo, i) /\ StatusOf(repo, i)' = StatusOf(repo, i)
        BY <1>2, Standing
      <4>4. RunToCome(i)'
        BY <2>1, <2>2, <3>1, <4>1, <4>2, <4>3 DEF RunToCome
      <4> QED
        BY <2>1, <2>2, <3>1, <4>4 DEF Covered
    <3> QED
      BY <1>1, <1>2, <1>4, <2>1, <2>3, <3>1, ReportsStand DEF Covered, JobAt, RepoToCome
  <2> QED
    BY <1>2, <2>1, <2>3, CoverStep DEF Scanning
<1>7. CASE /\ ~scan.more /\ ~(scan.status < Len(Statuses))
           /\ scan' = [scan EXCEPT !.pc = "repos", !.repos = Tail(scan.repos)]
  <2>1. /\ scan'.pc = "repos" /\ scan'.repos = Tail(scan.repos)
        /\ scan'.counted = scan.counted /\ scan'.errors = scan.errors /\ scan'.truncated = scan.truncated
    BY <1>1, <1>7 DEF Scans
  <2>2. \A i : ~RunToCome(i)
    BY <1>2, <1>3, <1>7, Caps DEF RunToCome
  <2>3. \A repo, i, k : Covered(repo, i, k) => Covered(repo, i, k)'
    BY <1>1, <1>2, <1>4, <2>1, <2>2, ReportsStand DEF Covered, JobAt, RepoToCome
  <2> QED
    BY <1>2, <2>1, <2>3, CoverStep DEF Scanning
<1> QED
  BY <1>5, <1>6, <1>7 DEF PageRead

\* A page of jobs: each queued job of it is counted, and a later one has a later page.
LEMMA JobsListedKeepsCover ==
  ASSUME ScanInv, CoverInv, JobsListed
  PROVE  CoverInv'
<1> DEFINE jobs == JobsOf[Run]
           onPage == {jobs[k] : k \in {k \in DOMAIN jobs : OnPage(k, scan.jobPage)}}
           more == IsFull(scan.jobPage, Len(jobs))
           runs == IF more THEN scan.runs ELSE scan.runs \ {Min(scan.runs)}
           page == IF more THEN scan.jobPage + 1 ELSE 1
<1>1. scan \in Scans /\ scan' \in Scans
  BY ScanTyped, ListingKeepsTypes DEF ScanInv
<1>2. /\ UNCHANGED <<config, githubVars>> /\ scan.pc = "jobs" /\ scan.runs # {} /\ scan.repos # <<>>
      /\ scan.runs \subseteq DOMAIN RunsOf[Repo]
  BY DEF JobsListed, ScanInv, RepoInHand
<1>3. scan' = [scan EXCEPT !.jobListings = scan.jobListings + 1,
                           !.counted = scan.counted \cup Counted(onPage),
                           !.runs = runs, !.jobPage = page]
  BY <1>1, JobsStored
<1>4. /\ scan'.pc = "jobs" /\ scan'.repos = scan.repos /\ scan'.status = scan.status
      /\ scan'.page = scan.page /\ scan'.jobPage = page /\ scan'.runs = runs /\ scan'.more = scan.more
      /\ scan'.counted = scan.counted \cup Counted(onPage)
      /\ scan'.errors = scan.errors /\ scan'.truncated = scan.truncated
  <2> HIDE DEF runs, page, onPage
  <2> QED
    BY <1>1, <1>2, <1>3 DEF Scans
<1>5. Repo' = Repo /\ Repo \in Range(Repos)
  BY <1>1, <1>2, <1>4, OwnersAsked DEF Repo
<1>6. Min(scan.runs) \in scan.runs
  BY <1>1, <1>2, MinIsMember DEF Scans
<1>7. /\ scan.jobPage \in Nat \ {0} /\ Before(scan.jobPage) \in Nat
      /\ Before(scan.jobPage + 1) \in Nat /\ Before(1) = 0
  BY <1>1, PageFacts DEF Scans
<1>8. \A j : Reported(j) => Reported(j)'
  BY <1>4 DEF Reported
<1>9. ASSUME NEW repo \in Range(Repos), NEW i \in DOMAIN RunsOf[repo],
             NEW k \in DOMAIN JobsOf[RunsOf[repo][i]], Waits(repo, i, k), Covered(repo, i, k)
      PROVE  Covered(repo, i, k)'
  <2>1. CASE Reported(JobAt(repo, i, k))
    BY <1>8, <2>1 DEF Covered, JobAt
  <2>2. CASE RepoToCome(repo)
    BY <1>2, <1>4, <2>2 DEF Covered, RepoToCome
  <2>3. CASE repo = Repo /\ RunToCome(i)
    <3>1. StatusOf(repo, i)' = StatusOf(repo, i) /\ PlaceOf(repo, i)' = PlaceOf(repo, i)
      BY <1>2, Standing
    <3>2. Before(scan.page + 1)' = Before(scan.page + 1)
      BY <1>4 DEF Before
    <3>3. RunToCome(i)'
      BY <1>2, <1>4, <1>5, <2>3, <3>1, <3>2 DEF RunToCome
    <3> QED
      BY <1>4, <1>5, <2>3, <3>3 DEF Covered
  <2>4. CASE repo = Repo /\ JobToCome(i, k)
    <3>1. k \in Nat /\ k >= 1 /\ Len(JobsOf[RunsOf[repo][i]]) \in Nat
          /\ k <= Len(JobsOf[RunsOf[repo][i]])
      BY RunFacts
    <3>2. CASE i # Min(scan.runs)
      <4>1. i \in scan'.runs
        BY <1>4, <2>4, <3>2 DEF JobToCome
      <4>2. i = Min(scan'.runs) => ~more
        BY <1>4, <3>2
      <4>3. i = Min(scan'.runs) => Before(scan.jobPage)' < k
        BY <1>4, <1>7, <3>1, <4>2 DEF Before
      <4>4. JobToCome(i, k)'
        BY <1>4, <4>1, <4>3 DEF JobToCome
      <4> QED
        BY <1>4, <1>5, <2>4, <4>4 DEF Covered
    <3>3. CASE i = Min(scan.runs) /\ k <= Before(scan.jobPage + 1)
      <4>1. Before(scan.jobPage) < k /\ k \in DOMAIN jobs /\ JobAt(repo, i, k) = jobs[k]
        BY <2>4, <3>3 DEF JobToCome, JobAt, Run
      <4>2. JobAt(repo, i, k) \in onPage
        BY <3>3, <4>1 DEF OnPage
      <4>3. JobAt(repo, i, k) \in Matched /\ job[JobAt(repo, i, k)] = "queued"
        BY <1>9 DEF Waits, CoverInv
      <4>4. JobAt(repo, i, k) \in scan'.counted
        BY <1>4, <4>2, <4>3 DEF Counted
      <4> QED
        BY <4>4 DEF Covered, Reported, JobAt
    <3>4. CASE i = Min(scan.runs) /\ Before(scan.jobPage + 1) < k
      <4>1. more
        BY <1>7, <2>4, <3>1, <3>4 DEF IsFull, Run
      <4>2. scan'.runs = scan.runs /\ scan'.jobPage = scan.jobPage + 1
        BY <1>4, <4>1
      <4>3. Before(scan.jobPage)' = Before(scan.jobPage + 1)
        BY <4>2 DEF Before
      <4>4. JobToCome(i, k)'
        BY <1>4, <2>4, <3>4, <4>2, <4>3 DEF JobToCome
      <4> QED
        BY <1>4, <1>5, <2>4, <4>4 DEF Covered
    <3> QED
      BY <1>7, <3>1, <3>2, <3>3, <3>4
  <2> QED
    BY <1>9, <2>1, <2>2, <2>3, <2>4 DEF Covered
<1> QED
  BY <1>2, <1>4, <1>9, CoverStep DEF Scanning

\* A listing is asked for, or fails.
LEMMA AskingKeepsCover ==
  ASSUME ScanInv, CoverInv, ListRuns \/ ListJobs \/ ScanFailed
  PROVE  CoverInv'
<1>1. scan \in Scans /\ scan' \in Scans /\ UNCHANGED <<config, githubVars>>
      /\ scan.pc \in {"runs", "jobs"}
  BY ScanTyped, ListingKeepsTypes DEF ScanInv, ListRuns, ListJobs, ScanFailed
<1>2. CASE scan' = StopAtBudget
  <2>1. Scanning'
    BY <1>1, <1>2 DEF StopAtBudget, Scans, Scanning
  <2> QED
    BY <1>1, <1>2, <2>1, StopsAreReported
<1>3. CASE ScanFailed
  <2>1. scan'.pc = "repos" /\ scan'.errors = scan.errors + 1
    BY <1>1, <1>3 DEF ScanFailed, Scans
  <2> QED
    BY <1>1, <2>1, StopsAreReported DEF Scanning
<1>4. CASE scan' = scan \/ scan' = [scan EXCEPT !.calls = scan.calls + 1]
  <2>1. /\ scan'.pc = scan.pc /\ scan'.orgs = scan.orgs /\ scan'.repos = scan.repos
        /\ scan'.status = scan.status /\ scan'.page = scan.page /\ scan'.jobPage = scan.jobPage
        /\ scan'.runs = scan.runs /\ scan'.more = scan.more
        /\ scan'.counted = scan.counted /\ scan'.errors = scan.errors /\ scan'.truncated = scan.truncated
    BY <1>1, <1>4 DEF Scans
  <2>2. Repo' = Repo /\ Before(scan.page)' = Before(scan.page)
        /\ Before(scan.page + 1)' = Before(scan.page + 1) /\ Before(scan.jobPage)' = Before(scan.jobPage)
    BY <2>1 DEF Repo, Before
  <2>3. \A i, k : /\ RunToCome(i) => RunToCome(i)'
                  /\ JobToCome(i, k) => JobToCome(i, k)'
    BY <1>1, <2>1, <2>2, Standing DEF RunToCome, JobToCome
  <2>4. \A repo, i, k : Covered(repo, i, k) => Covered(repo, i, k)'
    BY <1>1, <2>1, <2>2, <2>3, ReportsStand DEF Covered, JobAt, RepoToCome
  <2> QED
    BY <1>1, <2>1, <2>4, CoverStep DEF Scanning
<1> QED
  BY <1>2, <1>3, <1>4 DEF ListRuns, ListJobs

LEMMA CoverInvStep == ScanInv /\ CoverInv /\ [Next]_vars => CoverInv'
<1> SUFFICES ASSUME ScanInv, CoverInv, [Next]_vars PROVE CoverInv'
  OBVIOUS
<1>1. CASE SweepStep
  BY <1>1, BoundsKeepCover, EnumerationKeepsCover, NextRepoKeepsCover, RunsListedKeepsCover,
     PageReadKeepsCover, JobsListedKeepsCover, AskingKeepsCover DEF SweepStep
<1>2. CASE (\E run \in Runs : QueueRun(run)) \/ (\E j \in Jobs : StartJob(j) \/ FinishJob(j))
  BY <1>2, ChangeKeepsCover
<1>3. CASE Idle \/ UNCHANGED vars
  <2>1. config' = config /\ scan' = scan /\ job' = job /\ waiting' = waiting /\ disturbed' = disturbed
    BY <1>3 DEF Idle, vars, githubVars
  <2>2. \A i, k : RunToCome(i)' = RunToCome(i) /\ JobToCome(i, k)' = JobToCome(i, k)
    BY <2>1 DEF RunToCome, JobToCome, Repo, StatusOf, PlaceOf, Place, Listed, RunStatus, Before
  <2>3. \A repo, i, k : Covered(repo, i, k) => Covered(repo, i, k)'
    BY <2>1, <2>2 DEF Covered, Reported, RepoToCome, Repo, JobAt
  <2>4. CASE Scanning
    <3>1. Scanning'
      BY <2>1, <2>4 DEF Scanning
    <3>2. UNCHANGED <<config, githubVars>>
      BY <1>3 DEF Idle, vars, githubVars
    <3> QED
      BY <2>3, <3>1, <3>2, CoverStep
  <2>5. CASE ~Scanning
    BY <2>1, <2>5 DEF CoverInv, Waits, Scanning
  <2> QED
    BY <2>4, <2>5
<1> QED
  BY <1>1, <1>2, <1>3 DEF Next

\* However listings, starts and ends of jobs, budgets and failures interleave: a
\* job that waits through a whole scan is counted, unless the scan says that it
\* failed or was cut short, or a run left a listing of its repository meanwhile.
THEOREM NoneMissedSilently == Spec => []NothingMissedSilently
<1>1. Init => CoverInv
  BY NoSweepTyped DEF Init, CoverInv, Waits, Scanning
<1>2. ScanInv /\ CoverInv => NothingMissedSilently
  <2> SUFFICES ASSUME ScanInv, CoverInv, scan.pc = "emit", NEW j \in waiting \cap Matched, InScopeJob(j),
                      \A run \in Runs : j \in Range(JobsOf[run]) => RepoOf(run) \notin disturbed
               PROVE  Reported(j)
    BY DEF NothingMissedSilently
  <2>1. PICK run \in Runs : j \in Range(JobsOf[run]) /\ InScope(RepoOf(run))
    BY DEF InScopeJob
  <2> DEFINE repo == RepoOf(run)
  <2>2. repo \in Range(Repos) /\ \E i \in DOMAIN RunsOf[repo] : run = RunsOf[repo][i]
    BY RunsHaveRepos
  <2>6. PICK i \in DOMAIN RunsOf[repo] : run = RunsOf[repo][i]
    BY <2>2
  <2>3. PICK k \in DOMAIN JobsOf[run] : j = JobsOf[run][k]
    BY <2>1 DEF Range
  <2>4. Waits(repo, i, k)
    BY <2>1, <2>2, <2>3, <2>6 DEF Waits, JobAt
  <2>5. Covered(repo, i, k)
    BY <2>2, <2>3, <2>4, <2>6 DEF CoverInv
  <2> QED
    BY <2>3, <2>5, <2>6 DEF Covered, RepoToCome, JobAt
<1> QED
  BY <1>1, <1>2, CoverInvStep, InitScanInv, ScanInvStep, PTL DEF Spec

-----------------------------------------------------------------------------
(* The promises.                                                           *)

\* Whichever owner's token was cached before, and however long ago, each
\* attempt of each request carries a token of its own owner that still lives.
THEOREM TokensServe == Spec => []TokenServesItsRequest
<1>1. ScanInv => TokenServesItsRequest
  <2> SUFFICES ASSUME ScanInv, call.pc = "send", auth = "app"
               PROVE  call.token.account = Login[call.owner] /\ now < call.token.expires
    BY DEF TokenServesItsRequest
  <2>1. call \in Calls /\ now \in Nat
    BY ClientTypes DEF ScanInv, ClientInv
  <2>2. /\ call.token.account = Login[call.owner]
        /\ call.token \in Tokens /\ call.token.expires > call.began + CallTime /\ now <= call.began + CallTime
    BY DEF ScanInv, ClientInv, TokenOutlivesCall, CallIsTimely
  <2>3. call.token.expires \in Int
    BY <2>2 DEF Tokens
  <2> QED
    BY <2>1, <2>2, <2>3, ClientConstants DEF Calls
<1> QED
  BY ScanInvariant, <1>1, PTL

\* Only reads are replayed: a registration, a deletion or the making of a
\* token takes effect at most once in a call, whatever the transport loses.
THEOREM CallsMutateOnce == Spec => []MutatesOnce
<1>1. ScanInv => MutatesOnce
  BY DEF ScanInv, ClientInv, EffectIsLast, MutatesOnce
<1> QED
  BY ScanInvariant, <1>1, PTL

=============================================================================
