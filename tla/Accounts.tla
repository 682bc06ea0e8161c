------------------------------ MODULE Accounts ------------------------------
(***************************************************************************)
(* One social account and its stored credentials: the hourly refresh pass  *)
(* of the loop worker, the OAuth callbacks that connect, the route that    *)
(* disconnects, and the jobs that use the credentials and mark the account *)
(* when the platform refuses them.  Each await is a step.                  *)
(*                                                                         *)
(* Credentials are generations.  The platform knows which are valid; one   *)
(* that Rotates (TikTok) invalidates the generation it refreshes, the      *)
(* others (Meta's long-lived tokens) do not.                               *)
(***************************************************************************)
EXTENDS Naturals

CONSTANTS
  Generations,       \* tokens told apart; one nobody holds any more is reused
  NoToken,           \* no row of PlatformToken
  MaxAccountFaults   \* bound on crashes, refusals of valid credentials, lost
                     \* answers and revocations

ASSUME AccountsAssumption ==
  Generations # {} /\ NoToken \notin Generations /\ MaxAccountFaults \in Nat

VARIABLES
  rotates,        \* the platform invalidates what it refreshes
  status,         \* SocialAccount.status
  token,          \* the generation of the stored PlatformToken
  failures,       \* its refreshFailures, up to 3
  valid,          \* generations the platform accepts
  refresher,      \* the refresh pass:  [pc, gen]
  connector,      \* an OAuth callback: [pc, gen]
  disconnector,   \* pc of the disconnect route
  user,           \* a publishing or collecting job: [pc, gen]
  accountFaults,  \* faults so far
  quiet,          \* history: the last disconnect met no refresh and no callback
  crossed         \* history: it met one, or a callback died halfway since

accountVars ==
  <<rotates, status, token, failures, valid, refresher, connector, disconnector,
    user, accountFaults, quiet, crossed>>

AccountStatus == {"CONNECTED", "TOKEN_EXPIRED", "DISCONNECTED"}
Holder(pcs)   == [pc : pcs, gen : Generations \cup {NoToken}]
Resting       == [pc |-> "idle", gen |-> NoToken]

AccountsTypeOK ==
  /\ rotates \in BOOLEAN
  /\ status \in AccountStatus
  /\ token \in Generations \cup {NoToken}
  /\ failures \in 0..3
  /\ valid \subseteq Generations
  /\ refresher \in Holder({"idle", "read", "refresh", "store", "connected", "failed",
                           "expired"})
  /\ connector \in Holder({"idle", "upsert", "store"})
  /\ disconnector \in {"idle", "delete", "status"}
  /\ user \in Holder({"idle", "call", "mark"})
  /\ accountFaults \in 0..MaxAccountFaults
  /\ quiet \in BOOLEAN /\ crossed \in BOOLEAN

-----------------------------------------------------------------------------

InUse == {token, refresher.gen, connector.gen, user.gen} \ {NoToken}

\* The platform issues a generation nobody holds, in place of the one given.
Issue(gen, old) ==
  /\ gen \notin InUse
  /\ gen = CHOOSE g \in Generations \ InUse : TRUE
  /\ valid' = ((valid \cap InUse) \ (IF rotates THEN {old} ELSE {})) \cup {gen}

\* A generation nobody holds any more is of no concern.
Forget == valid' = valid \cap InUse'

AccountFault ==
  /\ accountFaults < MaxAccountFaults
  /\ accountFaults' = accountFaults + 1

-----------------------------------------------------------------------------
(* refreshExpiringTokens: one pass at a time, on the loop worker.          *)

\* findExpiring lists the account, if it has credentials.
FindExpiring ==
  /\ refresher.pc = "idle" /\ token # NoToken
  /\ refresher' = [pc |-> "read", gen |-> NoToken]
  /\ crossed' = (crossed \/ disconnector # "idle")
  /\ UNCHANGED <<rotates, status, token, failures, valid, connector, disconnector,
                 user, accountFaults, quiet>>

\* The credentials are read again; the pass skips an account that has none left.
ReadForRefresh ==
  /\ refresher.pc = "read"
  /\ refresher' = IF token = NoToken THEN Resting ELSE [pc |-> "refresh", gen |-> token]
  /\ UNCHANGED <<rotates, status, token, failures, valid, connector, disconnector,
                 user, accountFaults, quiet, crossed>>

\* adapter.refreshToken is granted.
RefreshGranted ==
  /\ refresher.pc = "refresh" /\ refresher.gen \in valid
  /\ \E gen \in Generations :
       /\ Issue(gen, refresher.gen)
       /\ refresher' = [pc |-> "store", gen |-> gen]
  /\ UNCHANGED <<rotates, status, token, failures, connector, disconnector, user,
                 accountFaults, quiet, crossed>>

\* It is refused, or (a fault) valid credentials are not refreshed, or (a fault)
\* they are but the answer is lost.
RefreshFails ==
  /\ refresher.pc = "refresh"
  /\ refresher' = [pc |-> "failed", gen |-> NoToken]
  /\ \/ refresher.gen \notin valid /\ UNCHANGED <<valid, accountFaults>>
     \/ refresher.gen \in valid /\ AccountFault /\ UNCHANGED valid
     \/ /\ refresher.gen \in valid /\ rotates /\ AccountFault
        /\ valid' = valid \ {refresher.gen}
  /\ UNCHANGED <<rotates, status, token, failures, connector, disconnector, user, quiet,
                 crossed>>

\* Fault seeded for the mutation check: what was refreshed is not stored.
StoreRefreshedNot ==
  /\ refresher.pc = "store"
  /\ failures' = 0
  /\ refresher' = [pc |-> "connected", gen |-> NoToken]
  /\ UNCHANGED <<rotates, status, token, valid, connector, disconnector, user,
                 accountFaults, quiet, crossed>>

\* TokenStore.store: an upsert, whether or not the row is still there.
StoreRefreshed ==
  /\ refresher.pc = "store"
  /\ token' = refresher.gen
  /\ failures' = 0
  /\ refresher' = [pc |-> "connected", gen |-> NoToken]
  /\ UNCHANGED <<rotates, status, connector, disconnector, user, accountFaults,
                 quiet, crossed>>
  /\ Forget

\* Fault seeded for the mutation check: a refresh leaves the status as it is.
MarkRefreshedNot ==
  /\ refresher.pc = "connected"
  /\ refresher' = Resting
  /\ UNCHANGED <<rotates, status, token, failures, valid, connector, disconnector,
                 user, accountFaults, quiet, crossed>>

MarkRefreshed ==
  /\ refresher.pc = "connected"
  /\ status' = "CONNECTED"
  /\ refresher' = Resting
  /\ UNCHANGED <<rotates, token, failures, valid, connector, disconnector, user,
                 accountFaults, quiet, crossed>>

\* recordRefreshFailure: the count goes up; without a row there is no count.
RecordRefreshFailure ==
  /\ refresher.pc = "failed"
  /\ LET count == IF token = NoToken THEN 0 ELSE IF failures < 3 THEN failures + 1 ELSE 3 IN
       /\ failures' = IF token = NoToken THEN failures ELSE count
       /\ refresher' = IF count >= 3 THEN [pc |-> "expired", gen |-> NoToken] ELSE Resting
  /\ UNCHANGED <<rotates, status, token, valid, connector, disconnector, user,
                 accountFaults, quiet, crossed>>

\* Fault seeded for the mutation check: repeated failures are not reported.
MarkExpiredNot ==
  /\ refresher.pc = "expired"
  /\ refresher' = Resting
  /\ UNCHANGED <<rotates, status, token, failures, valid, connector, disconnector,
                 user, accountFaults, quiet, crossed>>

\* The third failure in a row marks the account.
MarkExpired ==
  /\ refresher.pc = "expired"
  /\ status' = "TOKEN_EXPIRED"
  /\ refresher' = Resting
  /\ UNCHANGED <<rotates, token, failures, valid, connector, disconnector, user,
                 accountFaults, quiet, crossed>>

-----------------------------------------------------------------------------
(* The routes.                                                             *)

\* A callback exchanges its code, and reads the profile or the pages.
ExchangeCode ==
  /\ connector.pc = "idle"
  /\ \E gen \in Generations :
       /\ Issue(gen, NoToken)
       /\ connector' = [pc |-> "upsert", gen |-> gen]
  /\ quiet' = FALSE
  /\ crossed' = (crossed \/ disconnector # "idle")
  /\ UNCHANGED <<rotates, status, token, failures, refresher, disconnector, user,
                 accountFaults>>

\* upsertAccount
UpsertAccount ==
  /\ connector.pc = "upsert"
  /\ status' = "CONNECTED"
  /\ connector' = [connector EXCEPT !.pc = "store"]
  /\ UNCHANGED <<rotates, token, failures, valid, refresher, disconnector, user,
                 accountFaults, quiet, crossed>>

StoreConnected ==
  /\ connector.pc = "store"
  /\ token' = connector.gen
  /\ failures' = 0
  /\ connector' = Resting
  /\ UNCHANGED <<rotates, status, refresher, disconnector, user, accountFaults,
                 quiet, crossed>>
  /\ Forget

\* The disconnect route finds the account, whatever its status.
Disconnect ==
  /\ disconnector = "idle"
  /\ disconnector' = "delete"
  /\ crossed' = (refresher.pc # "idle" \/ connector.pc # "idle")
  /\ UNCHANGED <<rotates, status, token, failures, valid, refresher, connector, user,
                 accountFaults, quiet>>

\* Fault seeded for the mutation check: only the status is changed.
DeleteTokensNot ==
  /\ disconnector = "delete"
  /\ disconnector' = "status"
  /\ UNCHANGED <<rotates, status, token, failures, valid, refresher, connector, user,
                 accountFaults, quiet, crossed>>

DeleteTokens ==
  /\ disconnector = "delete"
  /\ token' = NoToken /\ failures' = 0
  /\ disconnector' = "status"
  /\ UNCHANGED <<rotates, status, refresher, connector, user, accountFaults, quiet,
                 crossed>>
  /\ Forget

\* Fault seeded for the mutation check: the credentials go, the status stays.
MarkDisconnectedNot ==
  /\ disconnector = "status"
  /\ disconnector' = "idle"
  /\ quiet' = ~crossed
  /\ UNCHANGED <<rotates, status, token, failures, valid, refresher, connector, user,
                 accountFaults, crossed>>

MarkDisconnected ==
  /\ disconnector = "status"
  /\ status' = "DISCONNECTED"
  /\ disconnector' = "idle"
  /\ quiet' = ~crossed
  /\ UNCHANGED <<rotates, token, failures, valid, refresher, connector, user,
                 accountFaults, crossed>>

-----------------------------------------------------------------------------
(* The jobs that use the credentials.                                      *)

\* A publishing job takes any account, and the collector those it found connected.
\* Without stored credentials the job throws the same error as a refused call.
ReadForUse ==
  /\ user.pc = "idle"
  /\ user' = [pc |-> IF token = NoToken THEN "mark" ELSE "call", gen |-> token]
  /\ UNCHANGED <<rotates, status, token, failures, valid, refresher, connector,
                 disconnector, accountFaults, quiet, crossed>>

UseAccepted ==
  /\ user.pc = "call" /\ user.gen \in valid
  /\ user' = Resting
  /\ UNCHANGED <<rotates, status, token, failures, refresher, connector,
                 disconnector, accountFaults, quiet, crossed>>
  /\ Forget

\* The platform refuses; for valid credentials that is a fault (Meta's rate
\* limit is one: it comes as an OAuthException).
UseRefused ==
  /\ user.pc = "call"
  /\ IF user.gen \in valid THEN AccountFault ELSE UNCHANGED accountFaults
  /\ user' = [pc |-> "mark", gen |-> NoToken]
  /\ UNCHANGED <<rotates, status, token, failures, refresher, connector,
                 disconnector, quiet, crossed>>
  /\ Forget

MarkRefused ==
  /\ user.pc = "mark"
  /\ status' = "TOKEN_EXPIRED"
  /\ user' = Resting
  /\ UNCHANGED <<rotates, token, failures, valid, refresher, connector, disconnector,
                 accountFaults, quiet, crossed>>

-----------------------------------------------------------------------------
(* Faults.                                                                 *)

\* The worker dies: the pass and the job are gone.
WorkerCrash ==
  /\ refresher.pc # "idle" \/ user.pc # "idle"
  /\ AccountFault
  /\ refresher' = Resting /\ user' = Resting
  /\ UNCHANGED <<rotates, status, token, failures, connector, disconnector,
                 quiet, crossed>>
  /\ Forget

\* The API server dies: its requests are gone, and one of them half done.
ServerCrash ==
  /\ connector.pc # "idle" \/ disconnector # "idle"
  /\ AccountFault
  /\ connector' = Resting /\ disconnector' = "idle"
  /\ crossed' = TRUE
  /\ UNCHANGED <<rotates, status, token, failures, refresher, user, quiet>>
  /\ Forget

\* The owner withdraws the permission at the platform.
Revoke ==
  /\ AccountFault
  /\ valid # {} /\ valid' = {}
  /\ UNCHANGED <<rotates, status, token, failures, refresher, connector, disconnector,
                 user, quiet, crossed>>

-----------------------------------------------------------------------------

AccountsInit ==
  /\ rotates \in BOOLEAN
  /\ status = "CONNECTED"
  /\ \E gen \in {CHOOSE g \in Generations : TRUE} : token = gen /\ valid = {gen}
  /\ failures = 0
  /\ refresher = Resting /\ connector = Resting /\ user = Resting
  /\ disconnector = "idle"
  /\ accountFaults = 0 /\ quiet = FALSE /\ crossed = FALSE

RefreshPass ==
  \/ FindExpiring \/ ReadForRefresh \/ RefreshGranted \/ RefreshFails
  \/ StoreRefreshed \/ MarkRefreshed \/ RecordRefreshFailure \/ MarkExpired

AccountsNext ==
  \/ RefreshPass
  \/ ExchangeCode \/ UpsertAccount \/ StoreConnected
  \/ Disconnect \/ DeleteTokens \/ MarkDisconnected
  \/ ReadForUse \/ UseAccepted \/ UseRefused \/ MarkRefused
  \/ WorkerCrash \/ ServerCrash \/ Revoke

\* The loop worker's schedule runs a refresh pass every hour.
AccountsSpec == AccountsInit /\ [][AccountsNext]_accountVars /\ WF_accountVars(RefreshPass)

-----------------------------------------------------------------------------
(* Properties.                                                             *)

\* A disconnect that met no refresh pass and no callback is final: no job and
\* no later pass brings the credentials or the connected status back.
DisconnectIsFinal == quiet => token = NoToken /\ status # "CONNECTED"

\* An account is shown as connected without credentials only when a disconnect
\* crossed a refresh or a callback, or the server died in one of them.
ConnectedHasCredentials ==
  status = "CONNECTED" /\ connector.pc = "idle" /\ disconnector = "idle" /\ ~crossed
    => token # NoToken

\* Rotation never leaves the account with credentials the platform has replaced:
\* unless something died or was lost, what is stored works, or the pass that
\* replaced it is about to store what works.
StoredCredentialsWork ==
  token # NoToken /\ accountFaults = 0 =>
    \/ token \in valid
    \/ refresher.pc = "store" /\ refresher.gen \in valid

Recoverable == token # NoToken /\ (token \in valid \/ refresher.pc = "store")

\* An account marked expired by mistake (a job that still held the credentials
\* of before a refresh, a rate limit taken for an auth error, a failure counted
\* before a reconnect) is connected again by a later refresh pass.
FalseAlarmsAreHealed ==
  status = "TOKEN_EXPIRED" /\ Recoverable ~> status = "CONNECTED" \/ ~Recoverable

\* An account whose stored credentials are dead does not stay connected.
DeadCredentialsAreNoticed ==
  token # NoToken /\ ~Recoverable ~> status # "CONNECTED" \/ token = NoToken \/ Recoverable
=============================================================================
