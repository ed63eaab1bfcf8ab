---------------------------- MODULE LoginSession ----------------------------
(***************************************************************************)
(* One login: the config entry, the session that authenticates its         *)
(* requests, setup, and the flow in which the user signs in.               *)
(*   api/auth.py, password_auth.py, oauth.py     requests and renewal      *)
(*   __init__.py                                 setup, unload, removal    *)
(*   config_flow.py, api/device_auth.py          signing in                *)
(*                                                                         *)
(* Three tasks send requests: the entry's own (setup, then the polls), the *)
(* commercial coordinator's polls, and the background worker.  All go      *)
(* through one client, whose gate lets one operation through at a time.    *)
(* What a request is for is left out, except during setup, where it        *)
(* decides what a failure means, and whether it is an optional one.        *)
(*                                                                         *)
(* A token is a number in order of issue.  An access token and the refresh *)
(* token it came with have the same number.  Home Assistant is external:   *)
(* it retries a setup that is not ready and opens the flow it is asked for.*)
(***************************************************************************)
EXTENDS Integers, FiniteSets

CONSTANTS MaxTokens,     \* bound: tokens the provider issues
          MaxSecrets,    \* bound: passwords the account has had
          MaxFaults,     \* bound: requests that fail for their own reasons
          Deadline,      \* of the device grant, in polling units
          Interval       \* between its polls

ASSUME LoginAssumption ==
    /\ MaxTokens \in Nat \ {0} /\ MaxSecrets \in Nat \ {0} /\ MaxFaults \in Nat
    /\ Deadline \in Nat /\ Interval \in Nat \ {0}

VARIABLES
    provider,   \* its password, the tokens it accepts, the ones it issued
    entry,      \* the config entry's data
    state,      \* what Home Assistant makes of the entry
    phase,      \* of the setup
    session,    \* method and password the loaded session was built with
    ops,        \* per task, its operation in the client
    worker,     \* the background worker runs
    reauth,     \* a reauthentication was asked for
    flow,       \* the user's flow
    reloading,  \* a reload was scheduled by the flow
    faults

vars == <<provider, entry, state, phase, session, ops, worker, reauth, flow, reloading, faults>>

-----------------------------------------------------------------------------
Tokens == 1 .. MaxTokens
Secrets == 1 .. MaxSecrets
\* OAUTH_AUTH_METHODS: the browser's and the device's leave the same data, are
\* renewed and revoked alike, and differ in their names.  One stands for both.
OAuthMethods == {"oauth"}
Methods == {"password"} \cup OAuthMethods
Tasks == {"loop", "commercial", "worker"}
Phases == {"header", "resources", "supply", "detect", "devices", "first"}
Faults == {"rate_limit", "transport", "refused", "graphql", "invalid"}

\* The entry's data: the keys of the password method, and OAuth's token.
NoEntry == [exists |-> FALSE, method |-> "password", password |-> 0, access |-> 0,
            refresh |-> 0, grant |-> 0]
PasswordEntry(password, token) ==
    [exists |-> TRUE, method |-> "password", password |-> password, access |-> token,
     refresh |-> token, grant |-> 0]
OAuthEntry(method, token) ==
    [NoEntry EXCEPT !.exists = TRUE, !.method = method, !.grant = token]

IdleOp == [step |-> "idle", used |-> 0, again |-> FALSE, optional |-> FALSE]
NoFlow == [step |-> "none", method |-> "password", password |-> 0, token |-> 0,
           waited |-> 0, interval |-> 0]

LoginTypeOK ==
    /\ provider.secret \in Secrets /\ provider.issued \in 0 .. MaxTokens
    /\ provider.alive \cup provider.renewable \cup provider.lapsed \subseteq Tokens
    /\ entry \in [exists : BOOLEAN, method : Methods, password : 0 .. MaxSecrets,
                  access : 0 .. MaxTokens, refresh : 0 .. MaxTokens, grant : 0 .. MaxTokens]
    /\ state \in {"absent", "setup", "not_ready", "auth_failed", "error", "loaded"}
    /\ phase \in Phases
    /\ \A t \in Tasks : ops[t].step \in {"idle", "sent", "refresh", "renew", "sign_in"}
    /\ flow.step \in {"none", "menu", "waiting", "identify"}
    /\ worker => state = "loaded"

Init ==
    /\ provider = [secret |-> 1, issued |-> 1, alive |-> {1}, renewable |-> {1}, lapsed |-> {}]
    /\ entry \in {PasswordEntry(1, 1), OAuthEntry("oauth", 1)}
    /\ state = "setup" /\ phase = "header"
    /\ session = [method |-> entry.method, password |-> entry.password]
    /\ ops = [t \in Tasks |-> IdleOp]
    /\ worker = FALSE /\ reauth = FALSE /\ flow = NoFlow /\ reloading = FALSE
    /\ faults = 0

-----------------------------------------------------------------------------
(* The provider, and time.  A token lives longer than one operation and    *)
(* than the rest of the flow it was issued to: one that ends during an     *)
(* operation may as well have ended before it.                             *)
GateIsFree == \A t \in Tasks : ops[t].step = "idle"
\* Only a token somebody still holds makes a difference: the entry, a flow that
\* has just been given it, or a request under way.
AccessHeld == {entry.access, entry.grant}
RefreshHeld == {entry.refresh, entry.grant}
InHand == {flow.token} \cup {ops[t].used : t \in Tasks}
AccessExpires ==
    /\ GateIsFree
    /\ \E t \in (provider.alive \cap AccessHeld) \ {flow.token} : provider' = [provider EXCEPT !.alive = @ \ {t}]
    /\ UNCHANGED <<entry, state, phase, session, ops, worker, reauth, flow, reloading,
                   faults>>

\* After its seven days, which a password's client knows, or revoked, which it
\* does not.
RefreshEnds ==
    /\ GateIsFree
    /\ \E t \in (provider.renewable \cap RefreshHeld) \ {flow.token} : \E known \in {FALSE, t = entry.refresh} :
        provider' = [provider EXCEPT !.renewable = @ \ {t},
                                     !.lapsed = IF known THEN @ \cup {t} ELSE @]
    /\ UNCHANGED <<entry, state, phase, session, ops, worker, reauth, flow, reloading,
                   faults>>

PasswordChanges ==
    /\ provider.secret < MaxSecrets
    /\ provider' = [provider EXCEPT !.secret = @ + 1]
    /\ UNCHANGED <<entry, state, phase, session, ops, worker, reauth, flow, reloading,
                   faults>>

CanIssue == provider.issued < MaxTokens
Issued == provider.issued + 1
\* The next issue drops the tokens nobody holds.
StillAlive == provider.alive \cap (AccessHeld \cup InHand)
StillRenewable == provider.renewable \cap (RefreshHeld \cup InHand)
Issues == provider' = [provider EXCEPT !.issued = Issued, !.alive = StillAlive \cup {Issued},
                                       !.renewable = StillRenewable \cup {Issued},
                                       !.lapsed = @ \cap RefreshHeld]
\* A renewal gives a new access token and leaves the refresh token as it is.
Renews == provider' = [provider EXCEPT !.issued = Issued, !.alive = StillAlive \cup {Issued}]

-----------------------------------------------------------------------------
(* What the end of an operation means to the task that waits for it.       *)
GoesOn == [state |-> state, phase |-> phase, reauth |-> reauth, worker |-> worker]

\* The device query is only sent when introspection found the field.
PhasesAfter(p) ==
    CASE p = "header" -> {"resources"} [] p = "resources" -> {"supply"}
      [] p = "supply" -> {"detect"}    [] p = "detect" -> {"devices", "first"}
      [] p = "devices" -> {"first"}    [] p = "first" -> {"first"}
NextPhases ==
    {[GoesOn EXCEPT !.phase = p, !.state = IF phase = "first" THEN "loaded" ELSE "setup",
                    !.worker = phase = "first"] : p \in PhasesAfter(phase)}

\* ConfigEntryAuthFailed, ConfigEntryNotReady, and an exception setup does not
\* name, after which Home Assistant does not retry.
Stops(as) == [GoesOn EXCEPT !.state = as, !.phase = "header"]
AuthFails == {[Stops("auth_failed") EXCEPT !.reauth = TRUE]}
NotReady == {Stops("not_ready")}
Escapes == {Stops("error")}

\* async_setup_entry up to its client: the header of the first request.
HeaderEnds(result) ==
    CASE result = "ok" -> NextPhases
      [] result \in {"sign_in_refused", "grant_refused"} -> AuthFails
      [] result \in {"rate_limit", "transport"} -> NotReady
      [] result = "no_token" -> Escapes
      [] OTHER -> IF session.method = "password" THEN Escapes ELSE NotReady

\* _async_discover_state, and how async_setup_entry maps what it raises.
DiscoveryEnds(result) ==
    CASE result = "ok" -> NextPhases
      [] result = "authentication" -> AuthFails
      [] result \in {"sign_in_refused", "no_token"} -> Escapes
      [] result = "grant_refused" -> Escapes \cup AuthFails
      [] phase \in {"supply", "detect"} ->
            {[GoesOn EXCEPT !.phase = IF phase = "supply" THEN "detect" ELSE "first"]}
      [] phase = "devices" /\ result \in {"refused", "graphql"} -> NextPhases
      [] OTHER -> NotReady

\* The first refresh: Home Assistant retries setup after any failure of it
\* that is not a refused sign-in.
FirstRefreshEnds(result) ==
    CASE result = "ok" -> NextPhases
      [] result \in {"authentication", "grant_refused"} -> AuthFails
      [] result \in {"sign_in_refused", "no_token"} -> NotReady
      [] OTHER -> NextPhases \cup NotReady

\* _async_update_data of either coordinator: what is neither an API error nor
\* a storage error is logged by Home Assistant, which polls again later.
PollEnds(result) ==
    CASE result \in {"authentication", "grant_refused"} -> {[GoesOn EXCEPT !.reauth = TRUE]}
      [] OTHER -> {GoesOn}

\* _async_background_worker: an exception its table does not list ends it.
WorkerEnds(result) ==
    CASE result = "authentication" -> {[GoesOn EXCEPT !.reauth = TRUE, !.worker = FALSE]}
      [] result \in {"sign_in_refused", "grant_refused", "no_token"} ->
            {[GoesOn EXCEPT !.worker = FALSE]}
      [] OTHER -> {GoesOn}

EndsOf(task, result) ==
    IF task = "worker" THEN WorkerEnds(result)
    ELSE IF task = "commercial" \/ state = "loaded" THEN PollEnds(result)
    ELSE IF phase = "header" THEN HeaderEnds(result)
    ELSE IF phase = "first" THEN FirstRefreshEnds(result)
    ELSE DiscoveryEnds(result)

Ends(task, result) ==
    /\ ops' = [ops EXCEPT ![task] = IdleOp]
    /\ \E after \in EndsOf(task, result) :
        /\ state' = after.state /\ phase' = after.phase /\ reauth' = after.reauth
        /\ worker' = (after.worker /\ state' = "loaded")

Moves(task, op) ==
    /\ ops' = [ops EXCEPT ![task] = op]
    /\ UNCHANGED <<state, phase, reauth, worker>>

\* A request that fails for a reason of its own.
Faulty(task) ==
    /\ faults < MaxFaults /\ faults' = faults + 1
    /\ \E fault \in Faults : Ends(task, fault)
    /\ UNCHANGED <<provider, entry>>

-----------------------------------------------------------------------------
(* One operation of the client.                                            *)
StoredToken == IF session.method = "password" THEN entry.access ELSE entry.grant

\* An OAuth session whose entry went over to a password: a KeyError.
TokenIsGone == session.method # "password" /\ entry.grant = 0

\* Which requests are optional: the commercial ones, two of a discovery, which
\* setup makes and a poll repeats every day, and none of the worker's.
MayBeOptional(task) ==
    CASE task = "commercial" -> {TRUE}
      [] task = "worker" -> {FALSE}
      [] task = "loop" -> IF state = "loaded" THEN BOOLEAN ELSE {phase \in {"supply", "detect"}}

\* An OAuth session refreshes a token it knows to have expired by itself.
SendsOrPrepares(task, op) ==
    IF TokenIsGone THEN Ends(task, "no_token")
    ELSE IF StoredToken = 0 THEN Moves(task, [op EXCEPT !.step = "sign_in"])
    ELSE \/ IF state = "setup" /\ phase = "header" THEN Ends(task, "ok")
            ELSE Moves(task, [op EXCEPT !.step = "sent", !.used = StoredToken])
         \/ /\ session.method # "password" /\ StoredToken \notin provider.alive
            /\ Moves(task, [op EXCEPT !.step = "renew", !.used = StoredToken])

\* Whose turn it may be.
Runs(task) ==
    CASE task = "worker" -> worker
      [] task = "commercial" -> state = "loaded"
      [] task = "loop" -> state \in {"setup", "loaded"}

\* AuthenticatedGraphQLClient.execute and execute_optional, through the gate.
Begins(task) ==
    /\ GateIsFree /\ Runs(task)
    /\ \E optional \in MayBeOptional(task) :
        SendsOrPrepares(task, [IdleOp EXCEPT !.optional = optional])
    /\ UNCHANGED <<provider, entry, session, flow, reloading, faults>>

\* Mutant: the operation is repeated without a refresh in between.
AfterRejection_SameToken(task) ==
    Moves(task, [ops[task] EXCEPT !.again = TRUE])
\* One refresh, then one more attempt.  An optional request returns what its
\* second attempt answers, for the caller to raise or not.
AfterRejection(task) ==
    IF ops[task].again
    THEN Ends(task, "authentication") \/ (ops[task].optional /\ Ends(task, "ok"))
    ELSE Moves(task, [ops[task] EXCEPT !.step = "refresh"])

\* A bare HTTP 401 is raised from inside an optional request, and not caught.
BareRefusal(task) == ops[task].optional /\ Ends(task, "authentication")

Answered(task) ==
    /\ ops[task].step = "sent"
    /\ \/ /\ ops[task].used \in provider.alive /\ Ends(task, "ok")
          /\ UNCHANGED <<provider, entry, faults>>
       \/ /\ ops[task].used \notin provider.alive
          /\ AfterRejection(task) \/ BareRefusal(task)
          /\ UNCHANGED <<provider, entry, faults>>
       \/ Faulty(task)
    /\ UNCHANGED <<session, flow, reloading>>

SignsIn(task) == [ops[task] EXCEPT !.step = "sign_in", !.used = 0]
Sends(task, token) == [ops[task] EXCEPT !.step = "sent", !.used = token, !.again = TRUE]

\* Mutant: who finds the token already replaced renews it all the same.
WasReplaced_Never(task) == FALSE
\* Another request, or the flow, has replaced the token this one was refused.
WasReplaced(task) == StoredToken # 0 /\ StoredToken # ops[task].used

UsableRefresh == entry.refresh # 0 /\ entry.refresh \notin provider.lapsed

RenewedWith == IF session.method = "password" THEN entry.refresh ELSE entry.grant

\* async_refresh, under its lock: what to do about a refused token.
Refreshes(task) ==
    /\ ops[task].step = "refresh"
    /\ IF TokenIsGone THEN Ends(task, "no_token")
       ELSE IF WasReplaced(task) THEN Moves(task, Sends(task, StoredToken))
       ELSE IF session.method # "password" \/ UsableRefresh
       THEN Moves(task, [ops[task] EXCEPT !.step = "renew", !.used = RenewedWith])
       ELSE Moves(task, SignsIn(task))
    /\ UNCHANGED <<provider, entry, session, flow, reloading, faults>>

\* After the token: the setup's header sends nothing, everyone else does.
Proceeds(task, token) ==
    IF state = "setup" /\ phase = "header" THEN Ends(task, "ok")
    ELSE Moves(task, Sends(task, token))

\* _async_store: the new token joins whatever the entry holds by then.
StoresPassword(access, refresh) ==
    entry' = [entry EXCEPT !.access = access, !.refresh = refresh]
StoresGrant(token) == entry' = [entry EXCEPT !.grant = token]

\* Mutant: a renewal that is refused is the end.
RenewalRefused_Ends(task) == Ends(task, "authentication")
RenewalRefused(task) ==
    IF session.method = "password"
    THEN Moves(task, SignsIn(task))
    ELSE Ends(task, "grant_refused")

\* The answer to a renewal, whatever the entry holds by then.
Renewed(task) ==
    /\ ops[task].step = "renew"
    /\ \/ /\ ops[task].used \in provider.renewable /\ CanIssue
          /\ IF session.method = "password"
             THEN /\ Renews
                  /\ \E refresh \in {ops[task].used, 0} : StoresPassword(Issued, refresh)
             ELSE Issues /\ StoresGrant(Issued)
          /\ Proceeds(task, Issued)
          /\ UNCHANGED faults
       \/ /\ ops[task].used \notin provider.renewable
          /\ RenewalRefused(task)
          /\ UNCHANGED <<provider, entry, faults>>
       \/ Faulty(task)
    /\ UNCHANGED <<session, flow, reloading>>

\* _async_sign_in
SignedIn(task) ==
    /\ ops[task].step = "sign_in"
    /\ \/ /\ session.password = provider.secret /\ CanIssue
          /\ Issues /\ StoresPassword(Issued, Issued)
          /\ Proceeds(task, Issued)
          /\ UNCHANGED faults
       \/ /\ session.password # provider.secret
          /\ Ends(task, "sign_in_refused")
          /\ UNCHANGED <<provider, entry, faults>>
       \/ Faulty(task)
    /\ UNCHANGED <<session, flow, reloading>>

-----------------------------------------------------------------------------
(* The entry: setup again, reload, restart, removal.                       *)
\* Mutant: an unload forgets the worker.
SetsUp_KeepsWorker ==
    /\ state' = "setup" /\ phase' = "header"
    /\ session' = [method |-> entry.method, password |-> entry.password]
    /\ ops' = [ops EXCEPT !["loop"] = IdleOp] /\ UNCHANGED worker

SetsUp ==
    /\ state' = "setup" /\ phase' = "header"
    /\ session' = [method |-> entry.method, password |-> entry.password]
    /\ ops' = [t \in Tasks |-> IdleOp] /\ worker' = FALSE

Retries ==
    /\ state = "not_ready" /\ SetsUp
    /\ UNCHANGED <<provider, entry, reauth, flow, reloading, faults>>

\* async_unload_entry waits for the poll and cancels the worker; Home
\* Assistant cancels the entry's other tasks.
Reloads ==
    /\ reloading /\ reloading' = FALSE
    /\ ops["loop"].step = "idle" /\ SetsUp
    /\ UNCHANGED <<provider, entry, reauth, flow, faults>>

\* Home Assistant restarts.  A flow does not survive it, a request for one
\* is made again by whoever needs it.
Restarts ==
    /\ state \notin {"absent", "setup"} /\ SetsUp
    /\ faults < MaxFaults /\ faults' = faults + 1
    /\ reauth' = FALSE /\ flow' = NoFlow /\ reloading' = FALSE
    /\ UNCHANGED <<provider, entry>>

\* async_remove_entry: only an OAuth grant can be revoked.
Removes ==
    /\ state # "absent" /\ ops["loop"].step = "idle" /\ flow = NoFlow
    /\ faults < MaxFaults /\ faults' = faults + 1
    /\ entry' = NoEntry /\ state' = "absent" /\ phase' = "header"
    /\ provider' = IF entry.method \in OAuthMethods
                   THEN [provider EXCEPT !.renewable = @ \ {entry.grant}] ELSE provider
    /\ ops' = [t \in Tasks |-> IdleOp]
    /\ worker' = FALSE /\ reauth' = FALSE /\ reloading' = FALSE
    /\ UNCHANGED <<session, flow>>

-----------------------------------------------------------------------------
(* The flow.                                                               *)
InFlow(next) ==
    /\ flow' = next
    /\ UNCHANGED <<entry, state, phase, session, ops, worker, reauth, reloading, faults>>

\* async_step_user, or async_step_reauth and its confirmation.  The reload a
\* flow schedules is over before its user opens another.
OpensFlow ==
    /\ flow.step = "none" /\ ~reloading /\ (reauth \/ state = "absent")
    /\ InFlow([NoFlow EXCEPT !.step = "menu"])
    /\ UNCHANGED provider

AbandonsFlow ==
    /\ flow.step # "none" /\ InFlow(NoFlow)
    /\ UNCHANGED provider

\* async_step_password: a refusal shows the form again.
TypesPassword ==
    /\ flow.step = "menu" /\ CanIssue
    /\ Issues
    /\ InFlow([flow EXCEPT !.step = "identify", !.method = "password",
                           !.password = provider.secret, !.token = Issued])

\* async_step_oauth, ending in Home Assistant's own token request.
SignsInByBrowser ==
    /\ flow.step = "menu" /\ CanIssue
    /\ Issues
    /\ InFlow([flow EXCEPT !.step = "identify", !.method = "oauth", !.token = Issued])

\* async_step_device
StartsDevice ==
    /\ flow.step = "menu"
    /\ InFlow([flow EXCEPT !.step = "waiting", !.method = "oauth", !.interval = Interval])
    /\ UNCHANGED provider

\* Mutant: the clock starts again when it reaches the deadline.
Slept_StartsAgain ==
    IF flow.waited + flow.interval >= Deadline THEN 0 ELSE flow.waited + flow.interval
Slept == flow.waited + flow.interval

\* async_wait_for_token: sleeps, then asks once.
DevicePolls ==
    /\ flow.step = "waiting"
    /\ LET waited == Slept
       IN  IF waited >= Deadline
           THEN InFlow(NoFlow) /\ UNCHANGED provider
           ELSE \/ /\ CanIssue /\ Issues
                   /\ InFlow([flow EXCEPT !.step = "identify", !.token = Issued,
                                          !.waited = 0, !.interval = 0])
                \/ \E slower \in {0, 1} :
                    /\ InFlow([flow EXCEPT !.waited = waited, !.interval = @ + slower])
                    /\ UNCHANGED provider
                \/ InFlow(NoFlow) /\ UNCHANGED provider

\* Mutant: the new data joins the old whatever the method.
Updated_Merges ==
    LET data == IF flow.method = "password" THEN PasswordEntry(flow.password, flow.token)
                ELSE OAuthEntry(flow.method, flow.token)
    IN  [data EXCEPT !.password = IF @ = 0 THEN entry.password ELSE @]

\* What _async_create_or_update leaves in the entry: with the same method the
\* new keys join the old ones, and they are the same keys; else they replace.
Updated == IF flow.method = "password" THEN PasswordEntry(flow.password, flow.token)
           ELSE OAuthEntry(flow.method, flow.token)

\* The principal is confirmed, and the entry created or updated; another
\* principal than the entry's is turned away.
Identifies ==
    /\ flow.step = "identify" /\ flow' = NoFlow
    /\ \/ /\ entry' = Updated
          /\ reauth' = FALSE
          /\ IF state = "absent"
             THEN /\ state' = "setup" /\ session' = [method |-> flow.method, password |-> flow.password]
                  /\ UNCHANGED reloading
             ELSE reloading' = TRUE /\ UNCHANGED <<state, session>>
       \/ UNCHANGED <<entry, reauth, state, session, reloading>>
    /\ UNCHANGED <<provider, phase, ops, worker, faults>>

-----------------------------------------------------------------------------
Operates(task) ==
    Begins(task) \/ Answered(task) \/ Refreshes(task) \/ Renewed(task) \/ SignedIn(task)
Environment == AccessExpires \/ RefreshEnds \/ PasswordChanges
User == OpensFlow \/ AbandonsFlow \/ TypesPassword \/ SignsInByBrowser \/ StartsDevice
        \/ Identifies \/ Removes

Next ==
    \/ \E task \in Tasks : Operates(task)
    \/ Retries \/ Reloads \/ Restarts \/ DevicePolls \/ Environment \/ User

\* Requests are answered, some coordinator polls on, Home Assistant retries and
\* reloads, and the device task polls.  Nobody else has to act.  A coordinator
\* that asked for a sign-in polls no more: nothing new has to begin after that.
TakesTurn(task) == Operates(task) /\ (GateIsFree => ~reauth)
Fairness ==
    /\ WF_vars(\E task \in Tasks : TakesTurn(task))
    /\ WF_vars(Retries) /\ WF_vars(Reloads) /\ WF_vars(DevicePolls)
Spec == Init /\ [][Next]_vars /\ Fairness

-----------------------------------------------------------------------------
(* Properties.                                                             *)

\* The user is asked to sign in only when the provider has refused what a
\* session signs in with: the password of a sign-in, or the grant of a renewal.
\* A strict request never asks because its token was stale, replaced by another
\* request, or missing.  An optional one may, on its first answer alone: a bare
\* HTTP 401 leaves execute_optional before anything is renewed.
PasswordRefused(t) == session.method = "password" /\ ops[t].step = "sign_in"
                      /\ session.password # provider.secret
GrantRefused(t) == session.method # "password" /\ ops[t].step = "renew"
                   /\ ops[t].used \notin provider.renewable
OptionalRefused(t) == ops[t].step = "sent" /\ ops[t].optional /\ ~ops[t].again
                      /\ ops[t].used \notin provider.alive
OnlyRefusedLoginsAsk ==
    [][reauth' /\ ~reauth =>
        \E t \in Tasks : PasswordRefused(t) \/ GrantRefused(t) \/ OptionalRefused(t)]_vars

\* A token is renewed for one request only: when another request, or the
\* user, has replaced it in the meantime, the replacement is used.
RenewsRefusedOnly ==
    [][\A t \in Tasks :
        ops[t].step = "refresh" /\ ops'[t].step \in {"renew", "sign_in"} =>
            StoredToken \in {0, ops[t].used}]_vars

\* An entry that changed its method keeps no password behind.
PasswordIsForgotten == entry.method # "password" => entry.password = 0

\* While the stored password is the account's, a loaded entry gets back to a
\* token that works by itself, whatever expired or was revoked meanwhile, or
\* has asked for a sign-in.
HoldsPassword == state = "loaded" /\ session.method = "password" /\ ~reauth
                 /\ session.password = provider.secret /\ provider.issued < MaxTokens
RecoversAlone ==
    (HoldsPassword /\ entry.access \notin provider.alive)
        ~> (~HoldsPassword \/ entry.access \in provider.alive)

\* The device grant does not keep the user waiting for ever.
DeviceGrantEnds == (flow.step = "waiting") ~> (flow.step # "waiting")
=============================================================================
