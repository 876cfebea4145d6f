----------------------------- MODULE GithubClient -----------------------------
(***************************************************************************)
(* The GitHub API client (shared/github-client.ts) of one execution        *)
(* environment: its caches of installation ids and access tokens, and one  *)
(* call at a time with its replays.  A caller begins a call with Request   *)
(* and goes on from Answer or Failure.                                     *)
(***************************************************************************)
EXTENDS Integers

CONSTANTS
  Owners,       \* organizations and repository owners, as a target spells them
  Login,        \* GitHub's spelling of an owner
  None,
  TokenLife,    \* how long an installation access token lives
  Skew,         \* TOKEN_REFRESH_SKEW_MS
  CallTime,     \* the longest a call takes
  MaxAttempts,  \* REPLAY_MAX_ATTEMPTS
  MaxNow,       \* bound: the time
  MaxFaults     \* bound: faults of the transport, refusals, removed installations

ASSUME OwnersAssumption == None \notin Owners /\ Login \in [Owners -> Owners]
ASSUME TimesAssumption ==
  /\ TokenLife \in Nat /\ Skew \in Nat /\ CallTime \in Nat /\ MaxAttempts \in Nat \ {0}
  /\ CallTime <= Skew /\ Skew < TokenLife
  /\ MaxNow \in Nat /\ MaxFaults \in Nat

VARIABLES
  now,
  auth,       \* GH_AUTH_KIND
  installed,  \* GitHub: the accounts the App is installed in
  ids,        \* cachedInstallationIds: owners whose installation is known
  tokens,     \* cachedInstallationTokens, by owner
  call,       \* the call under way
  faults

clientVars == <<now, auth, installed, ids, tokens, call, faults>>

\* A personal access token has no account and does not expire.
Pat == [account |-> None, expires |-> MaxNow + 1]
NoCall == [pc |-> "none", owner |-> None, method |-> "GET", token |-> None,
           attempt |-> 1, acts |-> 0, began |-> 0]

NoFault == UNCHANGED faults
Fault == faults < MaxFaults /\ faults' = faults + 1

ClientInit ==
  /\ now = 0 /\ auth \in {"app", "pat"}
  /\ installed = {Login[o] : o \in Owners}
  /\ ids = {} /\ tokens = [o \in Owners |-> None]
  /\ call = NoCall /\ faults = 0

-----------------------------------------------------------------------------
Request(owner, method) ==
  /\ call.pc = "none"
  /\ call' = [NoCall EXCEPT !.pc = "auth", !.owner = owner, !.method = method, !.began = now]
  /\ UNCHANGED <<now, auth, installed, ids, tokens, faults>>

\* Mutant: a token is used up to its last moment.
FreshToTheEnd(token) == token # None /\ token.expires > now

Fresh(token) == token # None /\ token.expires - Skew > now

\* Mutant: one cache entry for all owners.
CachedForAny(owner) ==
  IF \E o \in Owners : tokens[o] # None THEN tokens[CHOOSE o \in Owners : tokens[o] # None] ELSE None

Cached(owner) == tokens[owner]

\* An exchange of the call begins.
GoTo(pc) == [call EXCEPT !.pc = pc, !.attempt = 1, !.acts = 0]

UseToken ==
  /\ call.pc = "auth"
  /\ \/ auth = "pat" /\ call' = [GoTo("send") EXCEPT !.token = Pat]
     \/ /\ auth = "app" /\ Fresh(Cached(call.owner))
        /\ call' = [GoTo("send") EXCEPT !.token = Cached(call.owner)]
  /\ UNCHANGED <<now, auth, installed, ids, tokens, faults>>

\* Sign the App's JWT; the installation is looked up once.
SignJwt ==
  /\ call.pc = "auth" /\ auth = "app" /\ ~Fresh(Cached(call.owner))
  /\ call' = GoTo(IF call.owner \in ids THEN "mint" ELSE "install")
  /\ UNCHANGED <<now, auth, installed, ids, tokens, faults>>

FindInstallation ==
  /\ call.pc = "install"
  /\ IF Login[call.owner] \in installed
     THEN ids' = ids \cup {call.owner} /\ call' = GoTo("mint")
     ELSE call' = GoTo("failed") /\ UNCHANGED ids
  /\ UNCHANGED <<now, auth, installed, tokens, faults>>

MintToken ==
  LET token == [account |-> Login[call.owner], expires |-> now + TokenLife] IN
  /\ call.pc = "mint"
  /\ IF Login[call.owner] \in installed
     THEN /\ tokens' = [tokens EXCEPT ![call.owner] = token]
          /\ call' = [GoTo("send") EXCEPT !.token = token]
     ELSE call' = GoTo("failed") /\ UNCHANGED tokens
  /\ UNCHANGED <<now, auth, installed, ids, faults>>

\* Mutant: every request is replayed.
ReplayAlways(method) == MaxAttempts

ReplayBudgetFor(method) == IF method = "GET" THEN MaxAttempts ELSE 1

Method == CASE call.pc = "install" -> "GET" [] call.pc = "mint" -> "POST" [] OTHER -> call.method

\* fetch rejects: before the request arrived, or after GitHub has acted on it.
TransportFault ==
  /\ call.pc \in {"install", "mint", "send"}
  /\ \E acts \in call.acts..(call.acts + IF Method = "GET" THEN 0 ELSE 1) :
       call' = [call EXCEPT !.acts = acts,
                            !.attempt = @ + 1,
                            !.pc = IF call.attempt < ReplayBudgetFor(Method) THEN @ ELSE "failed"]
  /\ Fault /\ UNCHANGED <<now, auth, installed, ids, tokens>>

\* Rate limited, or an error of the server: never replayed.
Refuse ==
  /\ call.pc \in {"install", "mint", "send"}
  /\ call' = GoTo("failed")
  /\ Fault /\ UNCHANGED <<now, auth, installed, ids, tokens>>

Accepted(token) == token = Pat \/ (token.account \in installed /\ token.expires > now)

\* A token GitHub does not accept any more.
Unauthorized ==
  /\ call.pc = "send" /\ ~Accepted(call.token)
  /\ call' = GoTo("failed")
  /\ UNCHANGED <<now, auth, installed, ids, tokens, faults>>

\* The caller's: the answer is in, or the call has thrown.
Answer ==
  /\ call.pc = "send" /\ Accepted(call.token) /\ call' = NoCall
  /\ UNCHANGED <<now, auth, installed, ids, tokens, faults>>

Failure ==
  /\ call.pc = "failed" /\ call' = NoCall
  /\ UNCHANGED <<now, auth, installed, ids, tokens, faults>>

\* GitHub: an account removes the App.
Uninstall(account) ==
  /\ account \in installed /\ installed' = installed \ {account}
  /\ Fault /\ UNCHANGED <<now, auth, ids, tokens, call>>

\* A call runs within an invocation, and no longer than CallTime.
PassTime ==
  /\ now < MaxNow /\ (call.pc # "none" => now < call.began + CallTime)
  /\ now' = now + 1
  /\ UNCHANGED <<auth, installed, ids, tokens, call, faults>>

ClientStep ==
  \/ UseToken \/ SignJwt \/ FindInstallation \/ MintToken
  \/ TransportFault \/ Refuse \/ Unauthorized

-----------------------------------------------------------------------------
(* Properties.                                                             *)

Tokens == [account : Owners \cup {None}, expires : Nat]

ClientTypeOK ==
  /\ now \in 0..MaxNow /\ auth \in {"app", "pat"} /\ faults \in 0..MaxFaults
  /\ installed \subseteq Owners /\ ids \subseteq Owners
  /\ tokens \in [Owners -> Tokens \cup {None}]
  /\ call \in [pc : {"none", "auth", "install", "mint", "send", "failed"},
               owner : Owners \cup {None}, method : {"GET", "POST", "DELETE"},
               token : Tokens \cup {None}, attempt : Nat, acts : Nat, began : Nat]

\* A request carries a token of its own owner's installation, and one that does
\* not expire between the look at the cache and the last attempt.
TokenServesItsRequest ==
  call.pc = "send" /\ auth = "app" =>
    /\ call.token.account = Login[call.owner]
    /\ now < call.token.expires

\* A registration, a deletion or the making of a token happens at most once in
\* a call, whatever the transport loses: only reads are replayed.
MutatesOnce == call.acts = 0 \/ (call.acts = 1 /\ call.pc = "failed")

=============================================================================
