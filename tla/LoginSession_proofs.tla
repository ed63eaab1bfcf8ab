------------------------- MODULE LoginSession_proofs -------------------------
(***************************************************************************)
(* The login's invariants, its rule of renewal and what it asks the user   *)
(* for, for any number of tokens, passwords and faults.                    *)
(***************************************************************************)
EXTENDS LoginSession, TLAPS

-----------------------------------------------------------------------------
(* The inductive invariant: every variable's full type, and with it that   *)
(* an OAuth entry holds no password and that only a loaded entry has a     *)
(* worker.                                                                 *)
States == {"absent", "setup", "not_ready", "auth_failed", "error", "loaded"}
Providers ==
    [secret : Secrets, issued : 0 .. MaxTokens, alive : SUBSET Tokens,
     renewable : SUBSET Tokens, lapsed : SUBSET Tokens]
LoginEntries ==
    [exists : BOOLEAN, method : Methods, password : 0 .. MaxSecrets,
     access : 0 .. MaxTokens, refresh : 0 .. MaxTokens, grant : 0 .. MaxTokens]
Operations ==
    [step : {"idle", "sent", "refresh", "renew", "sign_in"}, used : 0 .. MaxTokens,
     again : BOOLEAN, optional : BOOLEAN]
Flows ==
    [step : {"none", "menu", "waiting", "identify"}, method : Methods,
     password : 0 .. MaxSecrets, token : 0 .. MaxTokens, waited : Nat, interval : Nat]
Afters == [state : States, phase : Phases, reauth : BOOLEAN, worker : BOOLEAN]

\* What the operations of the client and the setup change.
TaskInv ==
    /\ ops \in [Tasks -> Operations]
    /\ state \in States /\ phase \in Phases
    /\ reauth \in BOOLEAN /\ worker \in BOOLEAN
    /\ worker => state = "loaded"
AccountInv == provider \in Providers
EntryInv == entry \in LoginEntries /\ PasswordIsForgotten
SessionInv == session \in [method : Methods, password : 0 .. MaxSecrets]
FlowInv == flow \in Flows
LoginInv == TaskInv /\ AccountInv /\ EntryInv /\ SessionInv /\ FlowInv

\* The invariant is the type invariant, and more.
LEMMA InvIsTyped == LoginInv => LoginTypeOK
<1>1. SUFFICES ASSUME LoginInv PROVE LoginTypeOK
    OBVIOUS
<1>2. /\ provider.secret \in Secrets /\ provider.issued \in 0 .. MaxTokens
      /\ provider.alive \cup provider.renewable \cup provider.lapsed \subseteq Tokens
    BY <1>1 DEF LoginInv, AccountInv, Providers
<1>3. \A t \in Tasks : ops[t].step \in {"idle", "sent", "refresh", "renew", "sign_in"}
    BY <1>1 DEF LoginInv, TaskInv, Operations
<1>4. flow.step \in {"none", "menu", "waiting", "identify"}
    BY <1>1 DEF LoginInv, FlowInv, Flows
<1> QED
    BY <1>1, <1>2, <1>3, <1>4
    DEF LoginInv, TaskInv, EntryInv, LoginEntries, LoginTypeOK, States

LEMMA IdleIsAnOperation == IdleOp \in Operations
    BY LoginAssumption DEF IdleOp, Operations

-----------------------------------------------------------------------------
(* What tasks do.                                                          *)

\* Whatever a handler makes of a result leaves setup and tasks well formed.
LEMMA AftersAreTyped ==
    ASSUME TaskInv, NEW task, NEW result
    PROVE  EndsOf(task, result) \subseteq Afters
<1>1. GoesOn \in Afters
    BY DEF TaskInv, GoesOn, Afters
<1>2. NextPhases \subseteq Afters
  <2>1. PhasesAfter(phase) \subseteq Phases
      BY DEF TaskInv, Phases, PhasesAfter
  <2> QED
      BY <1>1, <2>1 DEF NextPhases, Afters, States
<1>3. AuthFails \subseteq Afters
    BY <1>1 DEF AuthFails, Stops, Afters, States, Phases
<1>4. NotReady \subseteq Afters
    BY <1>1 DEF NotReady, Stops, Afters, States, Phases
<1>5. Escapes \subseteq Afters
    BY <1>1 DEF Escapes, Stops, Afters, States, Phases
<1>6. \A p \in Phases : [GoesOn EXCEPT !.phase = p] \in Afters
    BY <1>1 DEF Afters
<1>7. HeaderEnds(result) \subseteq Afters
    BY <1>2, <1>3, <1>4, <1>5 DEF HeaderEnds
<1>8. DiscoveryEnds(result) \subseteq Afters
  <2>1. "detect" \in Phases /\ "first" \in Phases
      BY DEF Phases
  <2>2. {[GoesOn EXCEPT !.phase = IF phase = "supply" THEN "detect" ELSE "first"]} \subseteq Afters
      BY <1>6, <2>1
  <2>3. Escapes \cup AuthFails \subseteq Afters
      BY <1>3, <1>5
  <2> QED
      BY <1>2, <1>3, <1>4, <1>5, <2>2, <2>3 DEF DiscoveryEnds
<1>9. FirstRefreshEnds(result) \subseteq Afters
    BY <1>2, <1>3, <1>4 DEF FirstRefreshEnds
<1>10. PollEnds(result) \subseteq Afters
    BY <1>1 DEF PollEnds, Afters
<1>11. WorkerEnds(result) \subseteq Afters
    BY <1>1 DEF WorkerEnds, Afters
<1> QED
    BY <1>7, <1>8, <1>9, <1>10, <1>11 DEF EndsOf

LEMMA EndsKeepTasks ==
    ASSUME TaskInv, NEW task \in Tasks, NEW result, Ends(task, result)
    PROVE  TaskInv'
<1>1. ops' \in [Tasks -> Operations]
    BY IdleIsAnOperation DEF TaskInv, Ends
<1>2. PICK after \in EndsOf(task, result) :
        /\ state' = after.state /\ phase' = after.phase /\ reauth' = after.reauth
        /\ worker' = (after.worker /\ state' = "loaded")
    BY DEF Ends
<1>3. after \in Afters
    BY <1>2, AftersAreTyped
<1> QED
    BY <1>1, <1>2, <1>3 DEF TaskInv, Afters

LEMMA MovesKeepTasks ==
    ASSUME TaskInv, NEW task \in Tasks, NEW op \in Operations, Moves(task, op)
    PROVE  TaskInv'
    BY DEF TaskInv, Moves

LEMMA StoredIsAToken ==
    ASSUME EntryInv PROVE StoredToken \in 0 .. MaxTokens
    BY DEF EntryInv, LoginEntries, StoredToken

LEMMA SendsIsAnOperation ==
    ASSUME NEW task, ops[task] \in Operations, NEW token \in 0 .. MaxTokens
    PROVE  Sends(task, token) \in Operations
    BY DEF Sends, Operations

LEMMA SignsInIsAnOperation ==
    ASSUME NEW task, ops[task] \in Operations PROVE SignsIn(task) \in Operations
<1>1. 0 \in 0 .. MaxTokens
    BY LoginAssumption
<1> QED
    BY <1>1 DEF SignsIn, Operations

LEMMA OperationMayStep ==
    ASSUME NEW op \in Operations,
           NEW step \in {"idle", "sent", "refresh", "renew", "sign_in"}
    PROVE  [op EXCEPT !.step = step] \in Operations
    BY DEF Operations

\* Issuing stays within the bound.
LEMMA IssueKeepsAccount ==
    ASSUME AccountInv, CanIssue, Issues \/ Renews PROVE AccountInv' /\ Issued \in 0 .. MaxTokens
<1>1. provider.issued \in 0 .. MaxTokens /\ provider.issued < MaxTokens
    BY DEF AccountInv, Providers, CanIssue
<1>2. Issued \in 0 .. MaxTokens /\ Issued \in Tokens
    BY <1>1, LoginAssumption DEF Issued, Tokens
<1> DEFINE dropped == provider.lapsed \cap RefreshHeld
<1>3. StillAlive \subseteq Tokens /\ StillRenewable \subseteq Tokens /\ dropped \subseteq Tokens
    BY DEF AccountInv, Providers, StillAlive, StillRenewable
<1>4. CASE Issues
  <2>1. provider' = [provider EXCEPT !.issued = Issued, !.alive = StillAlive \cup {Issued},
                                     !.renewable = StillRenewable \cup {Issued},
                                     !.lapsed = dropped]
      BY <1>4 DEF Issues, AccountInv, Providers
  <2> HIDE DEF dropped
  <2> QED
      BY <1>2, <1>3, <2>1 DEF AccountInv, Providers
<1>5. CASE Renews
    BY <1>2, <1>3, <1>5 DEF AccountInv, Providers, Renews
<1> QED
    BY <1>2, <1>4, <1>5

LEMMA ProceedsKeepsTasks ==
    ASSUME TaskInv, NEW task \in Tasks, NEW token \in 0 .. MaxTokens, Proceeds(task, token)
    PROVE  TaskInv'
<1>1. ops[task] \in Operations
    BY DEF TaskInv
<1> QED
    BY <1>1, EndsKeepTasks, MovesKeepTasks, SendsIsAnOperation DEF Proceeds

LEMMA FaultyKeeps ==
    ASSUME TaskInv, AccountInv, EntryInv, NEW task \in Tasks, Faulty(task)
    PROVE  TaskInv' /\ AccountInv' /\ EntryInv'
<1>1. TaskInv'
    BY EndsKeepTasks DEF Faulty
<1> QED
    BY <1>1 DEF Faulty, AccountInv, EntryInv, PasswordIsForgotten

\* Storing a token changes neither the method nor the password.
LEMMA StoringKeepsEntry ==
    ASSUME EntryInv, NEW a \in 0 .. MaxTokens, NEW r \in 0 .. MaxTokens,
           StoresPassword(a, r) \/ StoresGrant(a)
    PROVE  EntryInv'
    BY DEF EntryInv, LoginEntries, PasswordIsForgotten, StoresPassword, StoresGrant

-----------------------------------------------------------------------------
(* One operation of the client.                                            *)
LEMMA OptionalIsBoolean ==
    ASSUME NEW task \in Tasks PROVE MayBeOptional(task) \subseteq BOOLEAN
    BY DEF MayBeOptional, Tasks

LEMMA BeginsKeeps ==
    ASSUME LoginInv, NEW task \in Tasks, Begins(task) PROVE LoginInv'
<1>1. StoredToken \in 0 .. MaxTokens
    BY StoredIsAToken DEF LoginInv
<1>2. ASSUME NEW op \in Operations
      PROVE  /\ [op EXCEPT !.step = "sign_in"] \in Operations
             /\ [op EXCEPT !.step = "renew", !.used = StoredToken] \in Operations
             /\ [op EXCEPT !.step = "sent", !.used = StoredToken] \in Operations
    BY <1>1 DEF Operations
<1>3. TaskInv'
  <2> PICK optional \in MayBeOptional(task) :
        SendsOrPrepares(task, [IdleOp EXCEPT !.optional = optional])
      BY DEF Begins
  <2> DEFINE first == [IdleOp EXCEPT !.optional = optional]
  <2>3. first \in Operations
      BY OptionalIsBoolean, IdleIsAnOperation DEF IdleOp, Operations
  <2>4. SendsOrPrepares(task, first)
      OBVIOUS
  <2> HIDE DEF first
  <2>1. CASE Ends(task, "ok") \/ Ends(task, "no_token")
      BY <2>1, EndsKeepTasks DEF LoginInv
  <2>2. CASE \E op \in Operations : Moves(task, op)
      BY <2>2, MovesKeepTasks DEF LoginInv
  <2> QED
      BY <1>2, <2>1, <2>2, <2>3, <2>4 DEF SendsOrPrepares
<1> QED
    BY <1>3 DEF Begins, LoginInv, AccountInv, EntryInv, PasswordIsForgotten, SessionInv, FlowInv

LEMMA AnsweredKeeps ==
    ASSUME LoginInv, NEW task \in Tasks, Answered(task) PROVE LoginInv'
<1>1. ops[task] \in Operations
    BY DEF LoginInv, TaskInv
<1>2. TaskInv' /\ AccountInv' /\ EntryInv'
  <2>1. CASE Faulty(task)
      BY <2>1, FaultyKeeps DEF LoginInv
  <2>2. CASE (Ends(task, "ok") \/ BareRefusal(task)) /\ UNCHANGED <<provider, entry>>
      BY <2>2, EndsKeepTasks
      DEF BareRefusal, LoginInv, AccountInv, EntryInv, PasswordIsForgotten
  <2>3. CASE AfterRejection(task) /\ UNCHANGED <<provider, entry>>
    <3>1. [ops[task] EXCEPT !.step = "refresh"] \in Operations
        BY <1>1, OperationMayStep
    <3>2. TaskInv'
        BY <2>3, <3>1, EndsKeepTasks, MovesKeepTasks DEF AfterRejection, LoginInv
    <3> QED
        BY <2>3, <3>2 DEF LoginInv, AccountInv, EntryInv, PasswordIsForgotten
  <2> QED
      BY <2>1, <2>2, <2>3 DEF Answered
<1> QED
    BY <1>2 DEF Answered, LoginInv, SessionInv, FlowInv

LEMMA RefreshesKeeps ==
    ASSUME LoginInv, NEW task \in Tasks, Refreshes(task) PROVE LoginInv'
<1>1. ops[task] \in Operations
    BY DEF LoginInv, TaskInv
<1>2. Sends(task, StoredToken) \in Operations
    BY <1>1, StoredIsAToken, SendsIsAnOperation DEF LoginInv
<1>3. /\ SignsIn(task) \in Operations
      /\ [ops[task] EXCEPT !.step = "renew", !.used = RenewedWith] \in Operations
  <2>1. RenewedWith \in 0 .. MaxTokens
      BY DEF RenewedWith, LoginInv, EntryInv, LoginEntries
  <2> QED
      BY <1>1, <2>1, SignsInIsAnOperation DEF Operations
<1>4. Ends(task, "no_token") \/ \E op \in Operations : Moves(task, op)
    BY <1>2, <1>3 DEF Refreshes
<1>5. TaskInv'
    BY <1>4, EndsKeepTasks, MovesKeepTasks DEF LoginInv
<1> QED
    BY <1>5 DEF Refreshes, LoginInv, AccountInv, EntryInv, PasswordIsForgotten, SessionInv, FlowInv

LEMMA RenewedKeeps ==
    ASSUME LoginInv, NEW task \in Tasks, Renewed(task) PROVE LoginInv'
<1>1. ops[task] \in Operations
    BY DEF LoginInv, TaskInv
<1>2. ops[task].used \in 0 .. MaxTokens /\ 0 \in 0 .. MaxTokens
    BY <1>1, LoginAssumption DEF Operations
<1>3. TaskInv' /\ AccountInv' /\ EntryInv'
  <2>1. CASE Faulty(task)
      BY <2>1, FaultyKeeps DEF LoginInv
  <2>2. CASE RenewalRefused(task) /\ UNCHANGED <<provider, entry>>
    <3>1. SignsIn(task) \in Operations
        BY <1>1, SignsInIsAnOperation
    <3>2. TaskInv'
        BY <2>2, <3>1, EndsKeepTasks, MovesKeepTasks DEF RenewalRefused, LoginInv
    <3> QED
        BY <2>2, <3>2 DEF LoginInv, AccountInv, EntryInv, PasswordIsForgotten
  <2>3. CASE /\ CanIssue /\ Proceeds(task, Issued)
             /\ \/ Renews /\ \E refresh \in {ops[task].used, 0} : StoresPassword(Issued, refresh)
                \/ Issues /\ StoresGrant(Issued)
    <3>1. AccountInv' /\ Issued \in 0 .. MaxTokens
        BY <2>3, IssueKeepsAccount DEF LoginInv
    <3>2. TaskInv'
        BY <2>3, <3>1, ProceedsKeepsTasks DEF LoginInv
    <3>3. EntryInv'
        BY <1>2, <2>3, <3>1, StoringKeepsEntry DEF LoginInv
    <3> QED
        BY <3>1, <3>2, <3>3
  <2> QED
      BY <2>1, <2>2, <2>3 DEF Renewed
<1> QED
    BY <1>3 DEF Renewed, LoginInv, SessionInv, FlowInv

LEMMA SignedInKeeps ==
    ASSUME LoginInv, NEW task \in Tasks, SignedIn(task) PROVE LoginInv'
<1>1. TaskInv' /\ AccountInv' /\ EntryInv'
  <2>1. CASE Faulty(task)
      BY <2>1, FaultyKeeps DEF LoginInv
  <2>2. CASE Ends(task, "sign_in_refused") /\ UNCHANGED <<provider, entry>>
      BY <2>2, EndsKeepTasks DEF LoginInv, AccountInv, EntryInv, PasswordIsForgotten
  <2>3. CASE CanIssue /\ Issues /\ StoresPassword(Issued, Issued) /\ Proceeds(task, Issued)
    <3>1. AccountInv' /\ Issued \in 0 .. MaxTokens
        BY <2>3, IssueKeepsAccount DEF LoginInv
    <3>2. TaskInv'
        BY <2>3, <3>1, ProceedsKeepsTasks DEF LoginInv
    <3>3. EntryInv'
        BY <2>3, <3>1, StoringKeepsEntry DEF LoginInv
    <3> QED
        BY <3>1, <3>2, <3>3
  <2> QED
      BY <2>1, <2>2, <2>3 DEF SignedIn
<1> QED
    BY <1>1 DEF SignedIn, LoginInv, SessionInv, FlowInv

-----------------------------------------------------------------------------
(* Everything else.                                                        *)
LEMMA SetsUpKeeps ==
    ASSUME LoginInv, SetsUp, reauth' \in BOOLEAN
    PROVE  TaskInv' /\ SessionInv'
    BY IdleIsAnOperation
    DEF LoginInv, SetsUp, TaskInv, SessionInv, EntryInv, LoginEntries, States, Phases

LEMMA EntryActionsKeep ==
    ASSUME LoginInv, Retries \/ Reloads \/ Restarts \/ Removes PROVE LoginInv'
<1>1. NoFlow \in Flows
    BY LoginAssumption DEF NoFlow, Flows, Methods
<1>2. CASE Retries \/ Reloads
  <2>1. TaskInv' /\ SessionInv'
      BY <1>2, SetsUpKeeps DEF Retries, Reloads, LoginInv, TaskInv
  <2> QED
      BY <1>2, <2>1
      DEF Retries, Reloads, LoginInv, AccountInv, EntryInv, PasswordIsForgotten, FlowInv
<1>3. CASE Restarts
  <2>1. TaskInv' /\ SessionInv'
      BY <1>3, SetsUpKeeps DEF Restarts
  <2> QED
      BY <1>1, <1>3, <2>1
      DEF Restarts, LoginInv, AccountInv, EntryInv, PasswordIsForgotten, FlowInv
<1>4. CASE Removes
  <2>1. TaskInv'
      BY <1>4, IdleIsAnOperation DEF Removes, TaskInv, States, Phases
  <2>2. EntryInv'
      BY <1>4, LoginAssumption
      DEF Removes, EntryInv, NoEntry, LoginEntries, Methods, PasswordIsForgotten
  <2>3. AccountInv'
      BY <1>4 DEF Removes, LoginInv, AccountInv, Providers
  <2> QED
      BY <1>4, <2>1, <2>2, <2>3 DEF Removes, LoginInv, SessionInv, FlowInv
<1> QED
    BY <1>2, <1>3, <1>4

LEMMA EnvironmentKeeps ==
    ASSUME LoginInv, Environment PROVE LoginInv'
<1>1. AccountInv'
  <2>1. CASE AccessExpires
      BY <2>1 DEF AccessExpires, LoginInv, AccountInv, Providers
  <2>2. CASE RefreshEnds
    <3>1. PICK t \in (provider.renewable \cap RefreshHeld) \ {flow.token} :
            \E known \in {FALSE, t = entry.refresh} :
                provider' = [provider EXCEPT !.renewable = @ \ {t},
                                             !.lapsed = IF known THEN @ \cup {t} ELSE @]
        BY <2>2 DEF RefreshEnds
    <3> PICK known \in {FALSE, t = entry.refresh} :
            provider' = [provider EXCEPT !.renewable = @ \ {t},
                                         !.lapsed = IF known THEN @ \cup {t} ELSE @]
        BY <3>1
    <3>2. t \in Tokens /\ provider \in Providers
        BY DEF LoginInv, AccountInv, Providers
    <3>3. (IF known THEN provider.lapsed \cup {t} ELSE provider.lapsed) \in SUBSET Tokens
        BY <3>2 DEF Providers
    <3> QED
        BY <3>2, <3>3 DEF AccountInv, Providers
  <2>3. CASE PasswordChanges
      BY <2>3, LoginAssumption DEF PasswordChanges, LoginInv, AccountInv, Providers, Secrets
  <2> QED
      BY <2>1, <2>2, <2>3 DEF Environment
<1>2. UNCHANGED <<entry, state, phase, session, ops, worker, reauth, flow>>
    BY DEF Environment, AccessExpires, RefreshEnds, PasswordChanges
<1> QED
    BY <1>1, <1>2 DEF LoginInv, TaskInv, EntryInv, PasswordIsForgotten, SessionInv, FlowInv

\* A step of the flow that is not its last.
LEMMA InFlowKeeps ==
    ASSUME LoginInv, NEW next \in Flows, InFlow(next), AccountInv' PROVE LoginInv'
    BY DEF InFlow, LoginInv, TaskInv, EntryInv, PasswordIsForgotten, SessionInv, FlowInv

LEMMA FlowOpensAndEnds ==
    ASSUME LoginInv, OpensFlow \/ AbandonsFlow \/ StartsDevice PROVE LoginInv'
<1>1. NoFlow \in Flows /\ [NoFlow EXCEPT !.step = "menu"] \in Flows
    BY LoginAssumption DEF NoFlow, Flows, Methods
<1>2. flow \in Flows
    BY DEF LoginInv, FlowInv
<1>3. [flow EXCEPT !.step = "waiting", !.method = "oauth", !.interval = Interval] \in Flows
    BY <1>2, LoginAssumption DEF Flows, Methods, OAuthMethods
<1>4. AccountInv'
    BY DEF OpensFlow, AbandonsFlow, StartsDevice, LoginInv, AccountInv
<1> QED
    BY <1>1, <1>3, <1>4, InFlowKeeps DEF OpensFlow, AbandonsFlow, StartsDevice

LEMMA FlowSignsIn ==
    ASSUME LoginInv, TypesPassword \/ SignsInByBrowser PROVE LoginInv'
<1>1. AccountInv' /\ Issued \in 0 .. MaxTokens
    BY IssueKeepsAccount DEF TypesPassword, SignsInByBrowser, LoginInv
<1>2. flow \in Flows /\ provider.secret \in 0 .. MaxSecrets
    BY LoginAssumption DEF LoginInv, FlowInv, AccountInv, Providers, Secrets
<1>3. /\ [flow EXCEPT !.step = "identify", !.method = "password",
                      !.password = provider.secret, !.token = Issued] \in Flows
      /\ [flow EXCEPT !.step = "identify", !.method = "oauth", !.token = Issued] \in Flows
    BY <1>1, <1>2 DEF Flows, Methods, OAuthMethods
<1> QED
    BY <1>1, <1>3, InFlowKeeps DEF TypesPassword, SignsInByBrowser

LEMMA DevicePollsKeeps ==
    ASSUME LoginInv, DevicePolls PROVE LoginInv'
<1>1. flow \in Flows
    BY DEF LoginInv, FlowInv
<1>2. NoFlow \in Flows
    BY LoginAssumption DEF NoFlow, Flows, Methods
<1>3. Slept \in Nat
    BY <1>1 DEF Slept, Flows
<1>4. ASSUME NEW slower \in {0, 1}
      PROVE  [flow EXCEPT !.waited = Slept, !.interval = @ + slower] \in Flows
  <2>1. flow.interval + slower \in Nat
      BY <1>1 DEF Flows
  <2> QED
      BY <1>1, <1>3, <2>1 DEF Flows
<1>5. CASE UNCHANGED provider /\ \E next \in Flows : InFlow(next)
    BY <1>5, InFlowKeeps DEF LoginInv, AccountInv
<1>6. CASE CanIssue /\ Issues /\ InFlow([flow EXCEPT !.step = "identify", !.token = Issued,
                                                     !.waited = 0, !.interval = 0])
  <2>1. AccountInv' /\ Issued \in 0 .. MaxTokens
      BY <1>6, IssueKeepsAccount DEF LoginInv
  <2>2. [flow EXCEPT !.step = "identify", !.token = Issued, !.waited = 0, !.interval = 0] \in Flows
      BY <1>1, <2>1 DEF Flows
  <2> QED
      BY <1>6, <2>1, <2>2, InFlowKeeps
<1> QED
    BY <1>2, <1>4, <1>5, <1>6 DEF DevicePolls

LEMMA IdentifiesKeeps ==
    ASSUME LoginInv, Identifies PROVE LoginInv'
<1>1. flow \in Flows
    BY DEF LoginInv, FlowInv
<1>2. flow' \in Flows
    BY LoginAssumption DEF Identifies, NoFlow, Flows, Methods
<1>3. /\ Updated \in LoginEntries
      /\ Updated.method # "password" => Updated.password = 0
  <2>1. CASE flow.method = "password"
      BY <1>1, <2>1, LoginAssumption DEF Updated, PasswordEntry, LoginEntries, Flows, Methods
  <2>2. CASE flow.method # "password"
    <3>1. /\ flow.method \in Methods /\ flow.token \in 0 .. MaxTokens
          /\ 0 \in 0 .. MaxSecrets /\ 0 \in 0 .. MaxTokens
        BY <1>1, LoginAssumption DEF Flows
    <3>2. NoEntry \in LoginEntries
        BY <3>1 DEF NoEntry, LoginEntries, Methods
    <3> QED
        BY <2>2, <3>1, <3>2 DEF Updated, OAuthEntry, NoEntry, LoginEntries
  <2> QED
      BY <2>1, <2>2
<1>4. EntryInv'
    BY <1>3 DEF Identifies, LoginInv, EntryInv, PasswordIsForgotten
<1>5. TaskInv'
    BY DEF Identifies, LoginInv, TaskInv, States
<1>6. SessionInv'
    BY <1>1 DEF Identifies, LoginInv, SessionInv, Flows
<1> QED
    BY <1>2, <1>4, <1>5, <1>6 DEF Identifies, LoginInv, AccountInv, FlowInv

LEMMA InitLogs == Init => LoginInv
<1>1. SUFFICES ASSUME Init PROVE LoginInv
    OBVIOUS
<1>2. 0 \in 0 .. MaxTokens /\ 1 \in Tokens /\ 1 \in 0 .. MaxTokens
      /\ 1 \in Secrets /\ 1 \in 0 .. MaxSecrets /\ 0 \in 0 .. MaxSecrets
    BY LoginAssumption DEF Tokens, Secrets
<1>3. AccountInv
    BY <1>1, <1>2 DEF Init, AccountInv, Providers
<1>4. EntryInv
  <2>1. /\ PasswordEntry(1, 1) \in LoginEntries
        /\ PasswordEntry(1, 1).method = "password"
      BY <1>2 DEF PasswordEntry, LoginEntries, Methods
  <2>2. NoEntry \in LoginEntries /\ NoEntry.password = 0
      BY <1>2, LoginAssumption DEF NoEntry, LoginEntries, Methods
  <2>3. /\ OAuthEntry("oauth", 1) \in LoginEntries
        /\ OAuthEntry("oauth", 1).password = 0
      BY <1>2, <2>2 DEF OAuthEntry, LoginEntries, Methods, OAuthMethods
  <2> QED
      BY <1>1, <2>1, <2>3 DEF Init, EntryInv, PasswordIsForgotten
<1>5. SessionInv
    BY <1>1, <1>4 DEF Init, EntryInv, LoginEntries, SessionInv
<1>6. FlowInv
    BY <1>1, <1>2 DEF Init, FlowInv, NoFlow, Flows, Methods
<1>7. TaskInv
    BY <1>1, IdleIsAnOperation DEF Init, TaskInv, States, Phases
<1> QED
    BY <1>3, <1>4, <1>5, <1>6, <1>7 DEF LoginInv

LEMMA StepLogs == LoginInv /\ [Next]_vars => LoginInv'
<1>1. SUFFICES ASSUME LoginInv, [Next]_vars PROVE LoginInv'
    OBVIOUS
<1>2. CASE \E task \in Tasks : Operates(task)
    BY <1>1, <1>2, BeginsKeeps, AnsweredKeeps, RefreshesKeeps, RenewedKeeps, SignedInKeeps
    DEF Operates
<1>3. CASE Retries \/ Reloads \/ Restarts \/ Removes
    BY <1>1, <1>3, EntryActionsKeep
<1>4. CASE DevicePolls
    BY <1>1, <1>4, DevicePollsKeeps
<1>5. CASE Environment
    BY <1>1, <1>5, EnvironmentKeeps
<1>6. CASE User /\ ~Removes
    BY <1>1, <1>6, FlowOpensAndEnds, FlowSignsIn, IdentifiesKeeps DEF User
<1>7. CASE UNCHANGED vars
    BY <1>1, <1>7
    DEF vars, LoginInv, TaskInv, AccountInv, EntryInv, PasswordIsForgotten, SessionInv, FlowInv
<1> QED
    BY <1>1, <1>2, <1>3, <1>4, <1>5, <1>6, <1>7 DEF Next, User

-----------------------------------------------------------------------------
(* Who is asked to sign in.  A token that was refused once is repeated only *)
(* with one the provider accepts: the one just issued, or the one another   *)
(* request or the user's flow has left in the entry meanwhile.              *)

\* On its way with the token the operation began with.
InFlight(t) == ops[t].step = "refresh" \/ (ops[t].step = "sent" /\ ~ops[t].again)
RequestHolds(t) ==
    /\ ops[t].step = "sent" /\ ops[t].again => ops[t].used \in provider.alive
    /\ InFlight(t) => StoredToken \in {0, ops[t].used} \cup provider.alive
    /\ ops[t].step = "sign_in" => session.method = "password"
    /\ state = "absent" => ops[t].step = "idle"
FlowHolds == flow.step = "identify" => flow.token \in provider.alive
RequestsInv == FlowHolds /\ \A t \in Tasks : RequestHolds(t)

\* Nothing is held for a task without an operation.
LEMMA IdleHolds ==
    ASSUME NEW t, ops'[t].step = "idle" PROVE RequestHolds(t)'
BY DEF RequestHolds, InFlight

\* Every token in use that the provider accepts, it goes on accepting.
StillAccepts == provider.alive \cap (AccessHeld \cup InHand) \subseteq provider'.alive

LEMMA StoredIsInUse == StoredToken \in AccessHeld
BY DEF StoredToken, AccessHeld

\* What another task, or the flow, may do to an operation in flight.
LEMMA RequestStays ==
    ASSUME NEW t \in Tasks, RequestHolds(t), ops'[t] = ops[t], session' = session,
           StillAccepts,
           StoredToken' \in {0, StoredToken} \cup provider'.alive,
           state' = "absent" => state = "absent"
    PROVE  RequestHolds(t)'
<1>1. ops'[t].step = "sent" /\ ops'[t].again => ops'[t].used \in provider'.alive
  BY DEF RequestHolds, StillAccepts, InHand
<1>2. InFlight(t)' => InFlight(t)
  BY DEF InFlight
<1>3. InFlight(t)' => StoredToken' \in {0, ops'[t].used} \cup provider'.alive
  <2> SUFFICES ASSUME InFlight(t)' PROVE StoredToken' \in {0, ops'[t].used} \cup provider'.alive
    OBVIOUS
  <2>1. StoredToken \in {0, ops[t].used} \cup provider.alive
    BY <1>2 DEF RequestHolds
  <2>2. StoredToken \in provider.alive => StoredToken \in provider'.alive
    BY StoredIsInUse DEF StillAccepts
  <2> QED BY <2>1, <2>2
<1>4. ops'[t].step = "sign_in" => session'.method = "password"
  BY DEF RequestHolds
<1>5. state' = "absent" => ops'[t].step = "idle"
  BY DEF RequestHolds
<1> QED BY <1>1, <1>3, <1>4, <1>5 DEF RequestHolds

\* No handler removes the entry.
LEMMA HandlersKeepEntry ==
    ASSUME NEW task, NEW result, NEW after \in EndsOf(task, result), after.state = "absent"
    PROVE  state = "absent"
<1>1. \A a \in NextPhases \cup AuthFails \cup NotReady \cup Escapes : a.state # "absent"
  BY DEF NextPhases, AuthFails, NotReady, Escapes, Stops, GoesOn
<1>2. /\ GoesOn.state = state /\ [GoesOn EXCEPT !.reauth = TRUE].state = state
      /\ [GoesOn EXCEPT !.reauth = TRUE, !.worker = FALSE].state = state
      /\ [GoesOn EXCEPT !.worker = FALSE].state = state
      /\ \A p : [GoesOn EXCEPT !.phase = p].state = state
  BY DEF GoesOn
<1>3. after \in HeaderEnds(result) => after \in NextPhases \cup AuthFails \cup NotReady \cup Escapes
  BY DEF HeaderEnds
<1>4. after \in FirstRefreshEnds(result) =>
        after \in NextPhases \cup AuthFails \cup NotReady \cup Escapes
  BY DEF FirstRefreshEnds
<1>5. after \in DiscoveryEnds(result) =>
        \/ after \in NextPhases \cup AuthFails \cup NotReady \cup Escapes
        \/ \E p : after = [GoesOn EXCEPT !.phase = p]
  BY DEF DiscoveryEnds
<1>6. after \in PollEnds(result) => after \in {GoesOn} \/ after = [GoesOn EXCEPT !.reauth = TRUE]
  BY DEF PollEnds
<1>7. after \in WorkerEnds(result) =>
        \/ after \in {GoesOn} \/ after = [GoesOn EXCEPT !.reauth = TRUE, !.worker = FALSE]
        \/ after = [GoesOn EXCEPT !.worker = FALSE]
  BY DEF WorkerEnds
<1> QED BY <1>1, <1>2, <1>3, <1>4, <1>5, <1>6, <1>7 DEF EndsOf

\* And they ask for a sign-in only when one was refused.
LEMMA HandlersAsk ==
    ASSUME NEW task, NEW result, NEW after \in EndsOf(task, result), after.reauth, ~reauth
    PROVE  result \in {"authentication", "sign_in_refused", "grant_refused"}
<1>1. \A a \in NextPhases \cup NotReady \cup Escapes : a.reauth = reauth
  BY DEF NextPhases, NotReady, Escapes, Stops, GoesOn
<1>2. GoesOn.reauth = reauth /\ [GoesOn EXCEPT !.worker = FALSE].reauth = reauth
      /\ \A p : [GoesOn EXCEPT !.phase = p].reauth = reauth
  BY DEF GoesOn
<1> SUFFICES ASSUME result \notin {"authentication", "sign_in_refused", "grant_refused"} PROVE FALSE
  OBVIOUS
<1>3. after \notin HeaderEnds(result)
  BY <1>1 DEF HeaderEnds
<1>4. after \notin FirstRefreshEnds(result)
  BY <1>1 DEF FirstRefreshEnds
<1>5. after \notin DiscoveryEnds(result)
  BY <1>1, <1>2 DEF DiscoveryEnds
<1>6. after \notin PollEnds(result)
  BY <1>2 DEF PollEnds
<1>7. after \notin WorkerEnds(result)
  BY <1>2 DEF WorkerEnds
<1> QED BY <1>3, <1>4, <1>5, <1>6, <1>7 DEF EndsOf

-----------------------------------------------------------------------------
\* What every operation leaves to the others: the session and the flow, every
\* accepted token in use, and a stored token that is the old or a new one.
Steady == /\ session' = session /\ flow' = flow /\ StillAccepts
          /\ StoredToken' \in {0, StoredToken} \cup provider'.alive

\* A step of one operation holds the requirements if it holds its own.
LEMMA OperationHolds ==
    ASSUME LoginInv, RequestsInv, Steady, NEW task \in Tasks, NEW op,
           ops' = [ops EXCEPT ![task] = op], state' = "absent" => state = "absent",
           RequestHolds(task)'
    PROVE  RequestsInv'
<1>1. FlowHolds'
  BY DEF RequestsInv, FlowHolds, Steady, StillAccepts, InHand
<1>2. ASSUME NEW t \in Tasks, t # task PROVE RequestHolds(t)'
  <2>1. ops'[t] = ops[t]
    BY <1>2 DEF LoginInv, TaskInv
  <2>2. RequestHolds(t)
    BY DEF RequestsInv
  <2> QED BY <2>1, <2>2, RequestStays DEF Steady
<1> QED BY <1>1, <1>2 DEF RequestsInv

\* One that ends.
LEMMA EndHolds ==
    ASSUME LoginInv, RequestsInv, Steady, NEW task \in Tasks, NEW result, Ends(task, result)
    PROVE  RequestsInv'
<1>1. ops' = [ops EXCEPT ![task] = IdleOp] /\ ops'[task].step = "idle"
  BY DEF Ends, IdleOp, LoginInv, TaskInv
<1>2. RequestHolds(task)'
  BY <1>1, IdleHolds
<1>3. state' = "absent" => state = "absent"
  BY HandlersKeepEntry DEF Ends
<1> QED BY <1>1, <1>2, <1>3, OperationHolds

\* One that goes on.
LEMMA MoveHolds ==
    ASSUME LoginInv, RequestsInv, Steady, NEW task \in Tasks, NEW op, Moves(task, op),
           state # "absent",
           op.step = "sent" /\ op.again => op.used \in provider'.alive,
           op.step = "refresh" \/ (op.step = "sent" /\ ~op.again) =>
             StoredToken' \in {0, op.used} \cup provider'.alive,
           op.step = "sign_in" => session.method = "password"
    PROVE  RequestsInv'
<1>1. ops' = [ops EXCEPT ![task] = op] /\ ops'[task] = op /\ state' = state
  BY DEF Moves, LoginInv, TaskInv
<1>2. RequestHolds(task)'
  BY <1>1 DEF RequestHolds, InFlight, Steady
<1> QED BY <1>1, <1>2, OperationHolds

\* A request in an entry that is there.
LEMMA RequestsHaveEntry ==
    ASSUME RequestsInv, NEW task \in Tasks, ops[task].step # "idle" PROVE state # "absent"
BY DEF RequestsInv, RequestHolds

LEMMA UnchangedIsSteady ==
    ASSUME UNCHANGED <<provider, entry, session, flow>> PROVE Steady
BY DEF Steady, StillAccepts, StoredToken

LEMMA FaultyHolds ==
    ASSUME LoginInv, RequestsInv, NEW task \in Tasks, Faulty(task), UNCHANGED <<session, flow>>
    PROVE  RequestsInv'
BY UnchangedIsSteady, EndHolds DEF Faulty

LEMMA BeginsHolds ==
    ASSUME LoginInv, RequestsInv, NEW task \in Tasks, Begins(task) PROVE RequestsInv'
<1>1. Steady /\ StoredToken' = StoredToken
  BY UnchangedIsSteady DEF Begins, StoredToken
<1>2. state # "absent"
  <2>1. worker => state = "loaded"
    BY DEF LoginInv, TaskInv
  <2> QED BY <2>1 DEF Begins, Runs, Tasks
<1> PICK optional \in MayBeOptional(task) :
      SendsOrPrepares(task, [IdleOp EXCEPT !.optional = optional])
  BY DEF Begins
<1> DEFINE first == [IdleOp EXCEPT !.optional = optional]
<1>3. first \in Operations /\ first.again = FALSE
  BY OptionalIsBoolean, IdleIsAnOperation DEF IdleOp, Operations
<1>4. SendsOrPrepares(task, first)
  OBVIOUS
<1> HIDE DEF first
<1>5. CASE Ends(task, "no_token") \/ Ends(task, "ok")
  BY <1>1, <1>5, EndHolds
<1>6. ASSUME NEW op, Moves(task, op), op.again = FALSE, op.step \in {"sent", "renew", "sign_in"},
             op.step = "sent" => op.used = StoredToken,
             op.step = "sign_in" => session.method = "password"
      PROVE  RequestsInv'
  BY <1>1, <1>2, <1>6, MoveHolds
<1>7. /\ [first EXCEPT !.step = "sign_in"].step = "sign_in"
      /\ [first EXCEPT !.step = "sign_in"].again = FALSE
      /\ [first EXCEPT !.step = "sent", !.used = StoredToken].step = "sent"
      /\ [first EXCEPT !.step = "sent", !.used = StoredToken].used = StoredToken
      /\ [first EXCEPT !.step = "sent", !.used = StoredToken].again = FALSE
      /\ [first EXCEPT !.step = "renew", !.used = StoredToken].step = "renew"
      /\ [first EXCEPT !.step = "renew", !.used = StoredToken].again = FALSE
  BY <1>3 DEF Operations
<1>8. CASE session.method = "password" /\ Moves(task, [first EXCEPT !.step = "sign_in"])
  BY <1>6, <1>7, <1>8
<1>9. CASE Moves(task, [first EXCEPT !.step = "sent", !.used = StoredToken])
  BY <1>6, <1>7, <1>9
<1>10. CASE Moves(task, [first EXCEPT !.step = "renew", !.used = StoredToken])
  BY <1>6, <1>7, <1>10
<1>11. ~TokenIsGone /\ StoredToken = 0 => session.method = "password"
  BY DEF TokenIsGone, StoredToken
<1> QED BY <1>4, <1>5, <1>8, <1>9, <1>10, <1>11 DEF SendsOrPrepares

LEMMA AnsweredHolds ==
    ASSUME LoginInv, RequestsInv, NEW task \in Tasks, Answered(task) PROVE RequestsInv'
<1>1. CASE Faulty(task)
  BY <1>1, FaultyHolds DEF Answered
<1>2. CASE UNCHANGED <<provider, entry>> /\ (Ends(task, "ok") \/ Ends(task, "authentication"))
  BY <1>2, UnchangedIsSteady, EndHolds DEF Answered
<1>3. CASE /\ UNCHANGED <<provider, entry>> /\ ~ops[task].again
           /\ Moves(task, [ops[task] EXCEPT !.step = "refresh"])
  <2> DEFINE op == [ops[task] EXCEPT !.step = "refresh"]
  <2>1. ops[task] \in Operations /\ ops[task].step = "sent" /\ Moves(task, op)
    BY <1>3 DEF Answered, LoginInv, TaskInv
  <2>2. op.step = "refresh" /\ op.used = ops[task].used
    BY <2>1 DEF Operations
  <2>3. StoredToken \in {0, ops[task].used} \cup provider.alive
    BY <1>3, <2>1 DEF RequestsInv, RequestHolds, InFlight
  <2>4. Steady /\ StoredToken' = StoredToken /\ provider' = provider
    BY <1>3, UnchangedIsSteady DEF Answered, StoredToken
  <2>5. state # "absent"
    BY <2>1, RequestsHaveEntry
  <2> HIDE DEF op
  <2> QED BY <2>1, <2>2, <2>3, <2>4, <2>5, MoveHolds
<1> QED BY <1>1, <1>2, <1>3 DEF Answered, AfterRejection, BareRefusal

LEMMA RefreshesHolds ==
    ASSUME LoginInv, RequestsInv, NEW task \in Tasks, Refreshes(task) PROVE RequestsInv'
<1>1. Steady /\ StoredToken' = StoredToken /\ provider' = provider
  BY UnchangedIsSteady DEF Refreshes, StoredToken
<1>2. state # "absent" /\ ops[task] \in Operations /\ ops[task].step = "refresh"
  BY RequestsHaveEntry DEF Refreshes, LoginInv, TaskInv
<1>3. CASE Ends(task, "no_token")
  BY <1>1, <1>3, EndHolds
<1>4. CASE WasReplaced(task) /\ Moves(task, Sends(task, StoredToken))
  <2>1. StoredToken \in provider.alive
    BY <1>2, <1>4 DEF RequestsInv, RequestHolds, InFlight, WasReplaced
  <2>2. Sends(task, StoredToken).step = "sent" /\ Sends(task, StoredToken).again
        /\ Sends(task, StoredToken).used = StoredToken
    BY <1>2 DEF Sends, Operations
  <2> QED BY <1>1, <1>2, <1>4, <2>1, <2>2, MoveHolds
<1>5. CASE Moves(task, [ops[task] EXCEPT !.step = "renew", !.used = RenewedWith])
  <2>1. [ops[task] EXCEPT !.step = "renew", !.used = RenewedWith].step = "renew"
    BY <1>2 DEF Operations
  <2> QED BY <1>1, <1>2, <1>5, <2>1, MoveHolds
<1>6. CASE session.method = "password" /\ Moves(task, SignsIn(task))
  <2>1. SignsIn(task).step = "sign_in"
    BY <1>2 DEF SignsIn, Operations
  <2> QED BY <1>1, <1>2, <1>6, <2>1, MoveHolds
<1> QED BY <1>3, <1>4, <1>5, <1>6 DEF Refreshes

\* The token just issued is the one that is sent.
LEMMA ProceedsHolds ==
    ASSUME LoginInv, RequestsInv, Steady, NEW task \in Tasks, NEW token \in provider'.alive,
           Proceeds(task, token), state # "absent"
    PROVE  RequestsInv'
<1>1. Sends(task, token).step = "sent" /\ Sends(task, token).again
      /\ Sends(task, token).used = token
  BY DEF Sends, LoginInv, TaskInv, Operations
<1> QED BY <1>1, EndHolds, MoveHolds DEF Proceeds

LEMMA IssueAccepts ==
    ASSUME LoginInv, Issues \/ Renews
    PROVE  StillAccepts /\ Issued \in provider'.alive
BY DEF LoginInv, AccountInv, Providers, Issues, Renews, StillAccepts, StillAlive

LEMMA RenewedHolds ==
    ASSUME LoginInv, RequestsInv, NEW task \in Tasks, Renewed(task) PROVE RequestsInv'
<1>1. state # "absent" /\ ops[task] \in Operations /\ UNCHANGED <<session, flow>>
  BY RequestsHaveEntry DEF Renewed, LoginInv, TaskInv
<1>2. CASE Faulty(task)
  BY <1>1, <1>2, FaultyHolds
<1>3. CASE RenewalRefused(task) /\ UNCHANGED <<provider, entry>>
  <2>1. SignsIn(task).step = "sign_in"
    BY <1>1 DEF SignsIn, Operations
  <2> QED BY <1>1, <1>3, <2>1, UnchangedIsSteady, EndHolds, MoveHolds DEF RenewalRefused
<1>4. CASE /\ Proceeds(task, Issued)
           /\ IF session.method = "password"
              THEN Renews /\ \E refresh \in {ops[task].used, 0} : StoresPassword(Issued, refresh)
              ELSE Issues /\ StoresGrant(Issued)
  <2>1. StillAccepts /\ Issued \in provider'.alive
    BY <1>4, IssueAccepts
  <2>2. StoredToken' = Issued
    BY <1>1, <1>4
    DEF LoginInv, EntryInv, LoginEntries, StoredToken, StoresPassword, StoresGrant
  <2> QED BY <1>1, <1>4, <2>1, <2>2, ProceedsHolds DEF Steady
<1> QED BY <1>2, <1>3, <1>4 DEF Renewed

LEMMA SignedInHolds ==
    ASSUME LoginInv, RequestsInv, NEW task \in Tasks, SignedIn(task) PROVE RequestsInv'
<1>1. state # "absent" /\ UNCHANGED <<session, flow>>
  BY RequestsHaveEntry DEF SignedIn
<1>2. CASE Faulty(task)
  BY <1>1, <1>2, FaultyHolds
<1>3. CASE Ends(task, "sign_in_refused") /\ UNCHANGED <<provider, entry>>
  BY <1>1, <1>3, UnchangedIsSteady, EndHolds
<1>4. CASE Issues /\ StoresPassword(Issued, Issued) /\ Proceeds(task, Issued)
  <2>1. StillAccepts /\ Issued \in provider'.alive
    BY <1>4, IssueAccepts
  <2>2. StoredToken' \in {Issued, StoredToken}
    BY <1>1, <1>4 DEF LoginInv, EntryInv, LoginEntries, StoredToken, StoresPassword
  <2> QED BY <1>1, <1>4, <2>1, <2>2, ProceedsHolds DEF Steady
<1> QED BY <1>2, <1>3, <1>4 DEF SignedIn

LEMMA EntryActionsHold ==
    ASSUME RequestsInv, Retries \/ Reloads \/ Restarts \/ Removes PROVE RequestsInv'
<1>1. ASSUME NEW t \in Tasks PROVE RequestHolds(t)'
  <2>1. ops' = [x \in Tasks |-> IdleOp]
    BY DEF Retries, Reloads, Restarts, Removes, SetsUp
  <2>2. ops'[t].step = "idle"
    BY <2>1 DEF IdleOp
  <2> QED BY <2>2, IdleHolds
<1>2. FlowHolds'
  <2>1. CASE Retries \/ Reloads
    BY <2>1 DEF Retries, Reloads, RequestsInv, FlowHolds
  <2>2. CASE Restarts \/ Removes
    BY <2>2 DEF Restarts, Removes, FlowHolds, NoFlow
  <2> QED BY <2>1, <2>2
<1> QED BY <1>1, <1>2 DEF RequestsInv

\* A token expires while no operation is under way, and not in a flow's hand.
LEMMA EnvironmentHolds ==
    ASSUME LoginInv, RequestsInv, Environment PROVE RequestsInv'
<1>1. UNCHANGED <<entry, state, session, ops, flow>> /\ StoredToken' = StoredToken
  BY DEF Environment, AccessExpires, RefreshEnds, PasswordChanges, StoredToken
<1>2. CASE AccessExpires
  <2>1. \A t \in Tasks : RequestHolds(t)'
    BY <1>1, <1>2, IdleHolds DEF AccessExpires, GateIsFree
  <2>2. FlowHolds'
    BY <1>1, <1>2 DEF AccessExpires, RequestsInv, FlowHolds, LoginInv, AccountInv, Providers
  <2> QED BY <2>1, <2>2 DEF RequestsInv
<1>3. CASE RefreshEnds \/ PasswordChanges
  <2>1. provider'.alive = provider.alive
    BY <1>3 DEF RefreshEnds, PasswordChanges, LoginInv, AccountInv, Providers
  <2>2. \A t \in Tasks : RequestHolds(t)'
    BY <1>1, <2>1, RequestStays DEF RequestsInv, StillAccepts
  <2> QED BY <1>1, <2>1, <2>2 DEF RequestsInv, FlowHolds
<1> QED BY <1>2, <1>3 DEF Environment

\* A step of the flow that is not its last.
LEMMA InFlowHolds ==
    ASSUME RequestsInv, NEW next, InFlow(next), StillAccepts,
           next.step = "identify" => next.token \in provider'.alive
    PROVE  RequestsInv'
<1>1. StoredToken' = StoredToken
  BY DEF InFlow, StoredToken
<1>2. \A t \in Tasks : RequestHolds(t)'
  BY <1>1, RequestStays DEF RequestsInv, InFlow
<1> QED BY <1>2 DEF RequestsInv, FlowHolds, InFlow

LEMMA FlowStepsHold ==
    ASSUME LoginInv, RequestsInv,
           OpensFlow \/ AbandonsFlow \/ StartsDevice \/ DevicePolls
             \/ TypesPassword \/ SignsInByBrowser
    PROVE  RequestsInv'
<1>1. flow \in Flows
  BY DEF LoginInv, FlowInv
<1>2. ASSUME NEW next, InFlow(next), UNCHANGED provider, next.step # "identify"
      PROVE  RequestsInv'
  BY <1>2, InFlowHolds DEF StillAccepts
<1>3. ASSUME NEW next, InFlow(next), Issues, next.token = Issued PROVE RequestsInv'
  BY <1>3, IssueAccepts, InFlowHolds
<1>4. NoFlow.step # "identify" /\ [NoFlow EXCEPT !.step = "menu"].step # "identify"
  BY DEF NoFlow
<1>5. [flow EXCEPT !.step = "waiting", !.method = "oauth", !.interval = Interval].step # "identify"
  BY <1>1 DEF Flows
<1>6. /\ [flow EXCEPT !.step = "identify", !.method = "password",
                      !.password = provider.secret, !.token = Issued].token = Issued
      /\ [flow EXCEPT !.step = "identify", !.method = "oauth", !.token = Issued].token = Issued
      /\ [flow EXCEPT !.step = "identify", !.token = Issued, !.waited = 0, !.interval = 0].token
           = Issued
  BY <1>1 DEF Flows
<1>7. CASE OpensFlow \/ AbandonsFlow \/ StartsDevice
  BY <1>2, <1>4, <1>5, <1>7 DEF OpensFlow, AbandonsFlow, StartsDevice
<1>8. CASE TypesPassword \/ SignsInByBrowser
  BY <1>3, <1>6, <1>8 DEF TypesPassword, SignsInByBrowser
<1>9. CASE DevicePolls
  <2>1. CASE InFlow(NoFlow) /\ UNCHANGED provider
    BY <1>2, <1>4, <2>1
  <2>2. CASE Issues /\ InFlow([flow EXCEPT !.step = "identify", !.token = Issued,
                                           !.waited = 0, !.interval = 0])
    BY <1>3, <1>6, <2>2
  <2>3. ASSUME NEW slower, InFlow([flow EXCEPT !.waited = Slept, !.interval = @ + slower]),
               UNCHANGED provider, flow.step = "waiting"
        PROVE  RequestsInv'
    <3>1. [flow EXCEPT !.waited = Slept, !.interval = @ + slower].step = flow.step
      BY <1>1 DEF Flows
    <3> QED BY <1>2, <2>3, <3>1
  <2> QED BY <1>9, <2>1, <2>2, <2>3 DEF DevicePolls
<1> QED BY <1>7, <1>8, <1>9

\* The flow leaves the entry a token the provider accepts.
LEMMA IdentifiesHolds ==
    ASSUME LoginInv, RequestsInv, Identifies PROVE RequestsInv'
<1>1. FlowHolds'
  BY DEF Identifies, FlowHolds, NoFlow
<1>2. CASE state = "absent"
  <2>1. \A t \in Tasks : ops'[t].step = "idle"
    BY <1>2 DEF Identifies, RequestsInv, RequestHolds
  <2> QED BY <1>1, <2>1, IdleHolds DEF RequestsInv
<1>3. CASE state # "absent"
  <2>1. UNCHANGED <<state, session, ops, provider>>
    BY <1>3 DEF Identifies
  <2>2. StoredToken' \in {0, StoredToken} \cup provider'.alive
    <3>1. Updated.access \in {0, flow.token} /\ Updated.grant \in {0, flow.token}
      BY DEF Updated, PasswordEntry, OAuthEntry, NoEntry
    <3>2. flow.token \in provider.alive
      BY DEF Identifies, RequestsInv, FlowHolds
    <3>3. CASE entry' = Updated
      BY <2>1, <3>1, <3>2, <3>3 DEF StoredToken
    <3>4. CASE entry' = entry
      BY <2>1, <3>4 DEF StoredToken
    <3> QED BY <3>3, <3>4 DEF Identifies
  <2>3. \A t \in Tasks : RequestHolds(t)'
    BY <2>1, <2>2, RequestStays DEF RequestsInv, StillAccepts
  <2> QED BY <1>1, <2>3 DEF RequestsInv
<1> QED BY <1>2, <1>3

LEMMA InitHolds == Init => RequestsInv
BY DEF Init, RequestsInv, FlowHolds, RequestHolds, InFlight, IdleOp, NoFlow

LEMMA StepHolds == LoginInv /\ RequestsInv /\ [Next]_vars => RequestsInv'
<1> SUFFICES ASSUME LoginInv, RequestsInv, [Next]_vars PROVE RequestsInv'
  OBVIOUS
<1>1. CASE \E task \in Tasks : Operates(task)
  BY <1>1, BeginsHolds, AnsweredHolds, RefreshesHolds, RenewedHolds, SignedInHolds DEF Operates
<1>2. CASE Retries \/ Reloads \/ Restarts \/ Removes
  BY <1>2, EntryActionsHold
<1>3. CASE Environment
  BY <1>3, EnvironmentHolds
<1>4. CASE DevicePolls \/ (User /\ ~Removes)
  BY <1>4, FlowStepsHold, IdentifiesHolds DEF User
<1>5. CASE UNCHANGED vars
  BY <1>5 DEF vars, RequestsInv, FlowHolds, RequestHolds, InFlight, StoredToken
<1> QED BY <1>1, <1>2, <1>3, <1>4, <1>5 DEF Next, User

\* A request ends in a demand for a sign-in only when one was refused.
LEMMA EndsAsk ==
    ASSUME NEW task, NEW result, Ends(task, result), reauth', ~reauth
    PROVE  result \in {"authentication", "sign_in_refused", "grant_refused"}
BY HandlersAsk DEF Ends

LEMMA FaultsNeverAsk ==
    ASSUME NEW task, Faulty(task), ~reauth PROVE ~reauth'
<1>1. SUFFICES ASSUME reauth' PROVE FALSE
  OBVIOUS
<1>2. PICK fault \in Faults : Ends(task, fault)
  BY DEF Faulty
<1> QED BY <1>1, <1>2, EndsAsk DEF Faults

\* Which operation asks, and why.
LEMMA OperationAsks ==
    ASSUME LoginInv, RequestsInv, NEW task \in Tasks, Operates(task), reauth', ~reauth
    PROVE  PasswordRefused(task) \/ GrantRefused(task) \/ OptionalRefused(task)
<1>1. ~Faulty(task)
  BY FaultsNeverAsk
<1>2. ~Ends(task, "ok") /\ ~Ends(task, "no_token")
  BY EndsAsk
<1>3. \A op : ~Moves(task, op)
  BY DEF Moves
<1>4. ~Begins(task)
  BY <1>2, <1>3 DEF Begins, SendsOrPrepares
<1>5. ~Refreshes(task)
  BY <1>2, <1>3 DEF Refreshes
<1>6. CASE Answered(task)
  <2>1. ops[task].step = "sent" /\ ops[task].used \notin provider.alive
    BY <1>1, <1>2, <1>6 DEF Answered
  <2>2. ~ops[task].again
    BY <2>1 DEF RequestsInv, RequestHolds
  <2>3. ~AfterRejection(task)
    BY <1>3, <2>2 DEF AfterRejection
  <2>4. ops[task].optional
    BY <1>1, <1>2, <1>6, <2>3 DEF Answered, BareRefusal
  <2> QED BY <2>1, <2>2, <2>4 DEF OptionalRefused
<1>7. \A token : ~Proceeds(task, token)
  BY <1>2, <1>3 DEF Proceeds
<1>8. CASE Renewed(task)
  BY <1>1, <1>3, <1>7, <1>8 DEF Renewed, RenewalRefused, GrantRefused
<1>9. CASE SignedIn(task)
  <2>1. session.password # provider.secret /\ ops[task].step = "sign_in"
    BY <1>1, <1>7, <1>9 DEF SignedIn
  <2>2. session.method = "password"
    BY <1>9 DEF SignedIn, RequestsInv, RequestHolds
  <2> QED BY <2>1, <2>2 DEF PasswordRefused
<1> QED BY <1>4, <1>5, <1>6, <1>8, <1>9 DEF Operates

-----------------------------------------------------------------------------
(* The theorems.                                                           *)

\* The inductive invariant of the login.
THEOREM LoginHolds == Spec => []LoginInv
    BY InitLogs, StepLogs, PTL DEF Spec

\* Every variable keeps its type, and only a loaded entry has a worker.
THEOREM LoginTypes == Spec => []LoginTypeOK
    BY LoginHolds, InvIsTyped, PTL

\* An entry of another method than the password's keeps no password, over
\* renewals, reloads, restarts, removal and every turn of the flow.
THEOREM PasswordGoes == Spec => []PasswordIsForgotten
<1>1. LoginInv => PasswordIsForgotten
    BY DEF LoginInv, EntryInv
<1> QED
    BY <1>1, LoginHolds, PTL

\* A token that was replaced meanwhile is used, and not renewed again.
THEOREM RenewalsAreSingle == Spec => RenewsRefusedOnly
<1> DEFINE Once == \A t \in Tasks :
        ops[t].step = "refresh" /\ ops'[t].step \in {"renew", "sign_in"} =>
            StoredToken \in {0, ops[t].used}
<1>1. ASSUME LoginInv, [Next]_vars, NEW t \in Tasks, ops[t].step = "refresh",
             ops'[t].step \in {"renew", "sign_in"}
      PROVE  StoredToken \in {0, ops[t].used}
  <2>1. ops \in [Tasks -> Operations]
      BY <1>1 DEF LoginInv, TaskInv
  <2>2. ops'[t] # ops[t]
      BY <1>1
  <2>3. ASSUME NEW task \in Tasks, NEW op, ops' = [ops EXCEPT ![task] = op] PROVE task = t
      BY <2>1, <2>2, <2>3
  <2>4. ASSUME NEW task \in Tasks, Faulty(task) PROVE task = t
      BY <2>3, <2>4 DEF Faulty, Ends
  <2>5. CASE \E task \in Tasks : Operates(task)
    <3>1. PICK task \in Tasks : Operates(task)
        BY <2>5
    <3>2. ~Begins(task)
        BY <1>1 DEF Begins, GateIsFree
    <3>3. task = t
        BY <2>3, <2>4, <3>1, <3>2
        DEF Operates, Answered, AfterRejection, BareRefusal, Refreshes, Renewed, RenewalRefused, Proceeds,
            SignedIn, Ends, Moves
    <3>4. Refreshes(t)
        BY <1>1, <3>1, <3>2, <3>3 DEF Operates, Answered, Renewed, SignedIn
    <3>5. ~WasReplaced(t)
      <4>1. SUFFICES ASSUME WasReplaced(t) PROVE FALSE
          OBVIOUS
      <4>2. ops'[t] = IdleOp \/ ops'[t] = Sends(t, StoredToken)
          BY <2>1, <3>4, <4>1 DEF Refreshes, Moves, Ends
      <4>3. Sends(t, StoredToken).step = "sent"
        <5>1. ops[t] \in Operations
            BY <1>1, <2>1
        <5> QED
            BY <5>1 DEF Sends, Operations
      <4> QED
          BY <1>1, <4>2, <4>3 DEF IdleOp
    <3> QED
        BY <3>5 DEF WasReplaced
  <2>6. CASE Retries \/ Reloads \/ Restarts \/ Removes
      BY <1>1, <2>6 DEF Retries, Reloads, Restarts, Removes, SetsUp, IdleOp
  <2>7. CASE DevicePolls \/ Environment \/ (User /\ ~Removes) \/ UNCHANGED vars
      BY <2>2, <2>7
      DEF DevicePolls, Environment, AccessExpires, RefreshEnds, PasswordChanges, User,
          OpensFlow, AbandonsFlow, TypesPassword, SignsInByBrowser, StartsDevice, Identifies,
          InFlow, vars
  <2> QED
      BY <1>1, <2>5, <2>6, <2>7 DEF Next, User
<1>2. LoginInv /\ [Next]_vars => [Once]_vars
    BY <1>1
<1> QED
    BY <1>2, LoginHolds, PTL DEF Spec, RenewsRefusedOnly

\* What requests and the flow rely on: a repeated request carries a token the
\* provider accepts, only a password's session signs in by itself, a flow holds
\* a good token, and an entry that is gone has no request.
THEOREM RequestsHold == Spec => []RequestsInv
    BY InitHolds, StepHolds, LoginHolds, PTL DEF Spec

\* The user is asked to sign in only when the provider refused the session's
\* password, or the grant a request tried to renew.  A strict request never asks
\* because its token went stale, was replaced by another request or the flow, or
\* is missing; an optional one only over the first answer to its token.
THEOREM OnlyRefusedAsk == Spec => OnlyRefusedLoginsAsk
<1> DEFINE Refused ==
        reauth' /\ ~reauth =>
          \E t \in Tasks : PasswordRefused(t) \/ GrantRefused(t) \/ OptionalRefused(t)
<1>1. LoginInv /\ RequestsInv /\ [Next]_vars => [Refused]_vars
  <2> SUFFICES ASSUME LoginInv, RequestsInv, [Next]_vars, reauth', ~reauth PROVE Refused
    OBVIOUS
  <2>1. CASE \E task \in Tasks : Operates(task)
    BY <2>1, OperationAsks
  <2>2. CASE Retries \/ Reloads \/ Restarts \/ Removes
    BY <2>2 DEF Retries, Reloads, Restarts, Removes
  <2>3. CASE DevicePolls \/ Environment \/ (User /\ ~Removes) \/ UNCHANGED vars
    BY <2>3
    DEF DevicePolls, Environment, AccessExpires, RefreshEnds, PasswordChanges, User,
        OpensFlow, AbandonsFlow, TypesPassword, SignsInByBrowser, StartsDevice, Identifies,
        InFlow, vars
  <2> QED BY <2>1, <2>2, <2>3 DEF Next, User
<1> QED
    BY <1>1, LoginHolds, RequestsHold, PTL DEF Spec, OnlyRefusedLoginsAsk
=============================================================================
