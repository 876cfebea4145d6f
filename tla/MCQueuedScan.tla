----------------------------- MODULE MCQueuedScan -----------------------------
(* Instances of QueuedScan for TLC. *)
EXTENDS QueuedScan

CONSTANTS acme, beta, api, web, r1, r2, r3, r4, j1, j2, j3, j4, j5

SameLogin == [o \in {acme, beta} |-> o]
BothOrgs == <<acme, beta>>
BothRepos == <<api, web>>
ReposOfOrg == [o \in {acme, beta} |-> IF o = acme THEN <<api>> ELSE <<web>>]
OwnerOfRepo == [repo \in {api, web} |-> IF repo = api THEN acme ELSE beta]

\* Two pages of runs in either repository, and two pages of jobs in one run.
RunsOfRepo == [repo \in {api, web} |-> IF repo = api THEN <<r2, r1>> ELSE <<r4, r3>>]
JobsOfRun == [run \in {r1, r2, r3, r4} |->
  CASE run = r1 -> <<j1, j2>> [] run = r2 -> <<j3>> [] run = r3 -> <<j4>> [] OTHER -> <<j5>>]

=============================================================================
