------------------------------- MODULE RunnerSet -------------------------------
(***************************************************************************)
(* One configuration of a runner set, as the construct synthesizes it      *)
(* (src/github-microvm-runners.ts) and its functions read it               *)
(* (shared/runner-set-config.ts, shared/size-class-match.ts): which        *)
(* repositories it serves, which class serves a job, and the image each    *)
(* class is built as.  Operators only: Intake deploys the configurations.  *)
(***************************************************************************)
EXTENDS Integers, Sequences, Functions

CONSTANTS
  Labels,      \* runs-on labels
  Names,       \* owner and repository names, as they are spelled
  Fold,        \* a name's case-folded form
  Size,        \* the size of the VM a label's class declares
  Microvm,     \* the label whose class is the default one
  None

ASSUME LabelsAssumption == None \notin Labels /\ Microvm # None /\ Size \in [Labels -> Nat]
ASSUME NamesAssumption == None \notin Names /\ Fold \in [Names -> Names]

Repositories == [owner : Names, name : Names]
Scopes == [kind : {"org"}, org : Names] \cup [kind : {"orgs"}, orgs : Seq(Names)]
            \cup [kind : {"repos"}, repos : SUBSET Repositories]
\* What runners are registered with: an organization or a repository.
Targets == [org : Names] \cup [owner : Names, repo : Names]

ASSUME TargetsAssumption == None \notin Targets

-----------------------------------------------------------------------------
(* The registry of runner classes: a sequence of labels, smallest first.   *)

\* addRunnerClass refuses a label that is registered already.
AddRunnerClass(registry, label) ==
  IF label \in Range(registry) THEN registry ELSE Append(registry, label)

\* Synthesis refuses an empty registry.  A class's image is named after its index.
Config(scope, registry) == [scope |-> scope, classes |-> registry]
Synthesizes(registry) == registry # <<>>

\* IMAGE_ARN: the class labelled "microvm" if there is one, else the first.
DefaultImageArn(config) ==
  IF Microvm \in Range(config.classes)
  THEN CHOOSE i \in DOMAIN config.classes : config.classes[i] = Microvm
  ELSE 1

-----------------------------------------------------------------------------
(* Scope.                                                                  *)

EqFold(a, b) == Fold[a] = Fold[b]
SameRepo(a, b) == EqFold(a.owner, b.owner) /\ EqFold(a.name, b.name)

IsRepoInScope(scope, repo) ==
  \/ scope.kind = "org" /\ EqFold(repo.owner, scope.org)
  \/ scope.kind = "orgs" /\ \E i \in DOMAIN scope.orgs : EqFold(repo.owner, scope.orgs[i])
  \/ scope.kind = "repos" /\ \E allowed \in scope.repos : SameRepo(allowed, repo)

\* The target of a job's runner; None: resolveTarget throws.
OrgTarget(org) == [org |-> org]
RepoTarget(repo) == [owner |-> repo.owner, repo |-> repo.name]

\* Mutant: names compared as they are spelled.
ListingExact(orgs, owner) == {i \in DOMAIN orgs : orgs[i] = owner}

Listing(orgs, owner) == {i \in DOMAIN orgs : EqFold(orgs[i], owner)}

ResolveTarget(scope, repo) ==
  CASE scope.kind = "org" -> OrgTarget(scope.org)
    [] scope.kind = "orgs" ->
         IF Listing(scope.orgs, repo.owner) = {} THEN None
         ELSE OrgTarget(scope.orgs[CHOOSE i \in Listing(scope.orgs, repo.owner) :
                                     \A k \in Listing(scope.orgs, repo.owner) : i <= k])
    [] scope.kind = "repos" -> RepoTarget(repo)

\* GitHub: the runners registered with a target serve the repositories it covers.
Covers(target, repo) ==
  IF "org" \in DOMAIN target THEN EqFold(target.org, repo.owner)
  ELSE EqFold(target.owner, repo.owner) /\ EqFold(target.repo, repo.name)

-----------------------------------------------------------------------------
(* Classes.  The last of the declared labels that the job requests serves  *)
(* it, so that the largest one wins.                                       *)

Requested(classes, labels) == {i \in DOMAIN classes : classes[i] \in labels}

\* Mutant: the first class wins.
ServesFirst(classes, labels, i) ==
  i \in Requested(classes, labels) /\ \A k \in Requested(classes, labels) : k >= i

ServesAt(classes, labels, i) ==
  i \in Requested(classes, labels) /\ \A k \in Requested(classes, labels) : k <= i

\* 0 when no class matches.
MatchSizeClass(classes, labels) ==
  IF Requested(classes, labels) = {} THEN 0
  ELSE CHOOSE i \in Requested(classes, labels) : ServesAt(classes, labels, i)

Ascending(classes) == \A i, k \in DOMAIN classes : i <= k => Size[classes[i]] <= Size[classes[k]]

=============================================================================
