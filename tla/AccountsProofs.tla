---------------------------- MODULE AccountsProofs ----------------------------
(***************************************************************************)
(* What is proved of an account and its credentials, for any generations   *)
(* and any number of faults.                                               *)
(***************************************************************************)
EXTENDS Accounts, TLAPS

\* What the platform issues is new to everyone, and of what is in use it invalidates at
\* most what it replaces.
LEMMA IssueIsFresh ==
  ASSUME valid \subseteq Generations, NEW gen \in Generations, NEW STATE old, Issue(gen, old)
  PROVE  /\ gen \notin InUse
         /\ valid' \subseteq Generations
         /\ gen \in valid'
         /\ \A g \in valid : g \in InUse => g \in valid' \/ (rotates /\ g = old)
<1>1. valid' = ((valid \cap InUse) \ (IF rotates THEN {old} ELSE {})) \cup {gen}
  BY DEF Issue
<1>2. gen \notin InUse
  BY DEF Issue
<1>3. gen \in valid' /\ valid' \subseteq Generations
  BY <1>1
<1>4. ASSUME NEW g \in valid, g \in InUse PROVE g \in valid' \/ (rotates /\ g = old)
  <2>1. CASE rotates
    BY <1>1, <1>4, <2>1
  <2>2. CASE ~rotates
    BY <1>1, <1>4, <2>2
  <2>. QED BY <2>1, <2>2
<1>. QED BY <1>2, <1>3, <1>4

\* No step of a pass, a callback, the route or a job leaves the types.
LEMMA AccountsTypeInductive ==
  AccountsTypeOK /\ [AccountsNext]_accountVars => AccountsTypeOK'
<1> SUFFICES ASSUME AccountsTypeOK, [AccountsNext]_accountVars PROVE AccountsTypeOK'
  OBVIOUS
<1> USE AccountsAssumption DEF AccountsTypeOK, AccountStatus, Holder, Resting
<1>1. CASE FindExpiring
  BY <1>1 DEF FindExpiring
<1>2. CASE ReadForRefresh
  BY <1>2 DEF ReadForRefresh
<1>3. CASE RefreshGranted
  <2>1. PICK gen \in Generations :
          Issue(gen, refresher.gen) /\ refresher' = [pc |-> "store", gen |-> gen]
    BY <1>3 DEF RefreshGranted
  <2>2. /\ gen \notin InUse /\ gen \in valid' /\ valid' \subseteq Generations
        /\ \A g \in valid : g \in InUse => g \in valid' \/ (rotates /\ g = refresher.gen)
    BY <2>1, IssueIsFresh
  <2>. QED BY <1>3, <2>1, <2>2 DEF RefreshGranted, InUse
<1>4. CASE RefreshFails
  BY <1>4 DEF RefreshFails, AccountFault
<1>5. CASE StoreRefreshed
  BY <1>5 DEF StoreRefreshed, Forget, InUse
<1>6. CASE MarkRefreshed
  BY <1>6 DEF MarkRefreshed
<1>7. CASE RecordRefreshFailure
  BY <1>7 DEF RecordRefreshFailure
<1>8. CASE MarkExpired
  BY <1>8 DEF MarkExpired
<1>9. CASE ExchangeCode
  <2>1. PICK gen \in Generations :
          Issue(gen, NoToken) /\ connector' = [pc |-> "upsert", gen |-> gen]
    BY <1>9 DEF ExchangeCode
  <2>2. /\ gen \notin InUse /\ gen \in valid' /\ valid' \subseteq Generations
        /\ \A g \in valid : g \in InUse => g \in valid' \/ (rotates /\ g = NoToken)
    BY <2>1, IssueIsFresh
  <2>3. connector' \in Holder({"idle", "upsert", "store"})
    BY <2>1
  <2>. QED BY <1>9, <2>2, <2>3 DEF ExchangeCode
<1>10. CASE UpsertAccount
  BY <1>10 DEF UpsertAccount
<1>11. CASE StoreConnected
  BY <1>11 DEF StoreConnected, Forget, InUse
<1>12. CASE Disconnect
  BY <1>12 DEF Disconnect
<1>13. CASE DeleteTokens
  BY <1>13 DEF DeleteTokens, Forget, InUse
<1>14. CASE MarkDisconnected
  BY <1>14 DEF MarkDisconnected
<1>15. CASE ReadForUse
  BY <1>15 DEF ReadForUse
<1>16. CASE UseAccepted
  BY <1>16 DEF UseAccepted, Forget, InUse
<1>17. CASE UseRefused
  BY <1>17 DEF UseRefused, Forget, AccountFault, InUse
<1>18. CASE MarkRefused
  BY <1>18 DEF MarkRefused
<1>19. CASE WorkerCrash
  BY <1>19 DEF WorkerCrash, Forget, AccountFault, InUse
<1>20. CASE ServerCrash
  BY <1>20 DEF ServerCrash, Forget, AccountFault, InUse
<1>21. CASE Revoke
  BY <1>21 DEF Revoke, AccountFault
<1>22. CASE UNCHANGED accountVars
  BY <1>22 DEF accountVars
<1>. QED
  BY <1>1, <1>2, <1>3, <1>4, <1>5, <1>6, <1>7, <1>8, <1>9, <1>10, <1>11, <1>12, <1>13, <1>14, <1>15, <1>16, <1>17, <1>18, <1>19, <1>20, <1>21, <1>22
  DEF AccountsNext, RefreshPass

\* A connected account has credentials, and nobody works on them.
LEMMA AccountsTypeStarts == AccountsInit => AccountsTypeOK
<1>1. (CHOOSE g \in Generations : TRUE) \in Generations
  BY AccountsAssumption
<1>2. AccountsInit => token \in Generations /\ valid \subseteq Generations
  BY <1>1 DEF AccountsInit
<1>3. AccountsInit => /\ status \in AccountStatus /\ failures \in 0..3
                      /\ accountFaults \in 0..MaxAccountFaults
                      /\ disconnector \in {"idle", "delete", "status"}
  BY AccountsAssumption DEF AccountsInit, AccountStatus
<1>4. AccountsInit => rotates \in BOOLEAN /\ quiet \in BOOLEAN /\ crossed \in BOOLEAN
  BY DEF AccountsInit
<1>5. AccountsInit => /\ refresher = Resting /\ connector = Resting /\ user = Resting
                      /\ disconnector = "idle"
  BY DEF AccountsInit
<1>. QED BY <1>2, <1>3, <1>4, <1>5 DEF AccountsTypeOK, Holder, Resting

\* An account, its credentials and those who work on them stay within their types.
THEOREM AccountsTypeCorrect == AccountsSpec => []AccountsTypeOK
BY AccountsTypeStarts, AccountsTypeInductive, PTL DEF AccountsSpec

-----------------------------------------------------------------------------

\* What makes DisconnectIsFinal and ConnectedHasCredentials inductive.  While a
\* disconnect that has met nothing is under way, no pass and no callback is; once it
\* has deleted the credentials they stay deleted; and from then on only a callback
\* can bring the account back, which stores its credentials after it marks it.
AloneUnlessCrossed ==
  /\ disconnector # "idle" /\ ~crossed => refresher.pc = "idle" /\ connector.pc = "idle"
  /\ disconnector = "status" /\ ~crossed => token = NoToken
  /\ quiet => refresher.pc = "idle" /\ connector.pc = "idle"
  /\ token = NoToken /\ ~crossed =>
       /\ refresher.pc = "idle"
       /\ disconnector = "idle" => status # "CONNECTED" \/ connector.pc = "store"

\* Whoever is about to store credentials has some.
HoldersHold ==
  /\ refresher.pc \in {"refresh", "store"} => refresher.gen # NoToken
  /\ connector.pc # "idle" => connector.gen # NoToken

AccountsInv == DisconnectIsFinal /\ ConnectedHasCredentials /\ AloneUnlessCrossed
               /\ HoldersHold

\* It starts connected, with nobody between two steps.
LEMMA AccountsStart == AccountsInit => AccountsInv
BY AccountsAssumption
DEF AccountsInit, AccountsInv, DisconnectIsFinal, ConnectedHasCredentials,
    AloneUnlessCrossed, HoldersHold, Resting

\* No step of anyone brings back what an undisturbed disconnect has taken away.
LEMMA AccountsInductive ==
  AccountsTypeOK /\ AccountsInv /\ [AccountsNext]_accountVars => AccountsInv'
<1> SUFFICES ASSUME AccountsTypeOK, AccountsInv, [AccountsNext]_accountVars PROVE AccountsInv'
  OBVIOUS
<1> USE AccountsAssumption
    DEF AccountsTypeOK, AccountStatus, Holder, Resting, AccountsInv, DisconnectIsFinal,
        ConnectedHasCredentials, AloneUnlessCrossed, HoldersHold
<1>1. CASE FindExpiring
  BY <1>1 DEF FindExpiring
<1>2. CASE ReadForRefresh
  BY <1>2 DEF ReadForRefresh
<1>3. CASE RefreshGranted
  <2>1. PICK gen \in Generations :
          Issue(gen, refresher.gen) /\ refresher' = [pc |-> "store", gen |-> gen]
    BY <1>3 DEF RefreshGranted
  <2>2. /\ gen \notin InUse /\ gen \in valid' /\ valid' \subseteq Generations
        /\ \A g \in valid : g \in InUse => g \in valid' \/ (rotates /\ g = refresher.gen)
    BY <2>1, IssueIsFresh
  <2>. QED BY <1>3, <2>1, <2>2 DEF RefreshGranted, InUse
<1>4. CASE RefreshFails
  BY <1>4 DEF RefreshFails, AccountFault
<1>5. CASE StoreRefreshed
  BY <1>5 DEF StoreRefreshed, Forget
<1>6. CASE MarkRefreshed
  BY <1>6 DEF MarkRefreshed
<1>7. CASE RecordRefreshFailure
  BY <1>7 DEF RecordRefreshFailure
<1>8. CASE MarkExpired
  BY <1>8 DEF MarkExpired
<1>9. CASE ExchangeCode
  <2>1. PICK gen \in Generations :
          Issue(gen, NoToken) /\ connector' = [pc |-> "upsert", gen |-> gen]
    BY <1>9 DEF ExchangeCode
  <2>2. /\ gen \notin InUse /\ gen \in valid' /\ valid' \subseteq Generations
        /\ \A g \in valid : g \in InUse => g \in valid' \/ (rotates /\ g = NoToken)
    BY <2>1, IssueIsFresh
  <2>. QED BY <1>9, <2>1, <2>2 DEF ExchangeCode, InUse
<1>10. CASE UpsertAccount
  BY <1>10 DEF UpsertAccount
<1>11. CASE StoreConnected
  BY <1>11 DEF StoreConnected, Forget
<1>12. CASE Disconnect
  BY <1>12 DEF Disconnect
<1>13. CASE DeleteTokens
  BY <1>13 DEF DeleteTokens, Forget
<1>14. CASE MarkDisconnected
  BY <1>14 DEF MarkDisconnected
<1>15. CASE ReadForUse
  BY <1>15 DEF ReadForUse
<1>16. CASE UseAccepted
  BY <1>16 DEF UseAccepted, Forget
<1>17. CASE UseRefused
  BY <1>17 DEF UseRefused, Forget, AccountFault
<1>18. CASE MarkRefused
  BY <1>18 DEF MarkRefused
<1>19. CASE WorkerCrash
  BY <1>19 DEF WorkerCrash, Forget, AccountFault
<1>20. CASE ServerCrash
  BY <1>20 DEF ServerCrash, Forget, AccountFault
<1>21. CASE Revoke
  BY <1>21 DEF Revoke, AccountFault
<1>22. CASE UNCHANGED accountVars
  BY <1>22 DEF accountVars
<1>. QED
  BY <1>1, <1>2, <1>3, <1>4, <1>5, <1>6, <1>7, <1>8, <1>9, <1>10, <1>11, <1>12, <1>13, <1>14, <1>15, <1>16, <1>17, <1>18, <1>19, <1>20, <1>21, <1>22
  DEF AccountsNext, RefreshPass

\* A disconnect that met no refresh pass and no callback is final, whatever passes and
\* jobs run after it and whatever fails.
THEOREM DisconnectStands == AccountsSpec => []DisconnectIsFinal
<1>1. AccountsInv => DisconnectIsFinal
  BY DEF AccountsInv
<1>. QED BY <1>1, AccountsStart, AccountsInductive, AccountsTypeCorrect, PTL DEF AccountsSpec

\* An account shown as connected has credentials, unless a disconnect crossed a pass or
\* a callback, or the server died in one of them.
THEOREM ConnectedMeansCredentials == AccountsSpec => []ConnectedHasCredentials
<1>1. AccountsInv => ConnectedHasCredentials
  BY DEF AccountsInv
<1>. QED BY <1>1, AccountsStart, AccountsInductive, AccountsTypeCorrect, PTL DEF AccountsSpec

-----------------------------------------------------------------------------

\* What makes StoredCredentialsWork inductive: until something dies or is lost, what
\* was issued to a callback or to a pass is valid when it comes to be stored, and
\* nobody refreshes, and so invalidates, what a callback has not stored yet.
IssuedCredentialsWork ==
  /\ connector.pc # "idle" =>
       /\ connector.gen \notin {token, refresher.gen}
       /\ accountFaults = 0 => connector.gen \in valid
  /\ refresher.pc = "store" /\ accountFaults = 0 => refresher.gen \in valid

CredentialsInv == StoredCredentialsWork /\ IssuedCredentialsWork /\ HoldersHold

\* The credentials an account starts with work.
LEMMA CredentialsStart == AccountsInit => CredentialsInv
BY AccountsAssumption
DEF AccountsInit, CredentialsInv, StoredCredentialsWork, IssuedCredentialsWork,
    HoldersHold, Resting

\* No step that is not a fault leaves stored or issued credentials that do not work.
LEMMA CredentialsInductive ==
  AccountsTypeOK /\ CredentialsInv /\ [AccountsNext]_accountVars => CredentialsInv'
<1> SUFFICES ASSUME AccountsTypeOK, CredentialsInv, [AccountsNext]_accountVars PROVE CredentialsInv'
  OBVIOUS
<1> USE AccountsAssumption
    DEF AccountsTypeOK, Holder, Resting, CredentialsInv, StoredCredentialsWork,
        IssuedCredentialsWork, HoldersHold
<1>1. CASE FindExpiring
  BY <1>1 DEF FindExpiring
<1>2. CASE ReadForRefresh
  BY <1>2 DEF ReadForRefresh
<1>3. CASE RefreshGranted
  <2>1. PICK gen \in Generations :
          Issue(gen, refresher.gen) /\ refresher' = [pc |-> "store", gen |-> gen]
    BY <1>3 DEF RefreshGranted
  <2>2. /\ gen \notin InUse /\ gen \in valid' /\ valid' \subseteq Generations
        /\ \A g \in valid : g \in InUse => g \in valid' \/ (rotates /\ g = refresher.gen)
    BY <2>1, IssueIsFresh
  <2>. QED BY <1>3, <2>1, <2>2 DEF RefreshGranted, InUse
<1>4. CASE RefreshFails
  BY <1>4 DEF RefreshFails, AccountFault
<1>5. CASE StoreRefreshed
  BY <1>5 DEF StoreRefreshed, Forget, InUse
<1>6. CASE MarkRefreshed
  BY <1>6 DEF MarkRefreshed
<1>7. CASE RecordRefreshFailure
  BY <1>7 DEF RecordRefreshFailure
<1>8. CASE MarkExpired
  BY <1>8 DEF MarkExpired
<1>9. CASE ExchangeCode
  <2>1. PICK gen \in Generations :
          Issue(gen, NoToken) /\ connector' = [pc |-> "upsert", gen |-> gen]
    BY <1>9 DEF ExchangeCode
  <2>2. /\ gen \notin InUse /\ gen \in valid' /\ valid' \subseteq Generations
        /\ \A g \in valid : g \in InUse => g \in valid' \/ (rotates /\ g = NoToken)
    BY <2>1, IssueIsFresh
  <2>. QED BY <1>9, <2>1, <2>2 DEF ExchangeCode, InUse
<1>10. CASE UpsertAccount
  BY <1>10 DEF UpsertAccount
<1>11. CASE StoreConnected
  BY <1>11 DEF StoreConnected, Forget, InUse
<1>12. CASE Disconnect
  BY <1>12 DEF Disconnect
<1>13. CASE DeleteTokens
  BY <1>13 DEF DeleteTokens, Forget, InUse
<1>14. CASE MarkDisconnected
  BY <1>14 DEF MarkDisconnected
<1>15. CASE ReadForUse
  BY <1>15 DEF ReadForUse
<1>16. CASE UseAccepted
  BY <1>16 DEF UseAccepted, Forget, InUse
<1>17. CASE UseRefused
  BY <1>17 DEF UseRefused, Forget, AccountFault, InUse
<1>18. CASE MarkRefused
  BY <1>18 DEF MarkRefused
<1>19. CASE WorkerCrash
  BY <1>19 DEF WorkerCrash, Forget, AccountFault, InUse
<1>20. CASE ServerCrash
  BY <1>20 DEF ServerCrash, Forget, AccountFault, InUse
<1>21. CASE Revoke
  BY <1>21 DEF Revoke, AccountFault
<1>22. CASE UNCHANGED accountVars
  BY <1>22 DEF accountVars
<1>. QED
  BY <1>1, <1>2, <1>3, <1>4, <1>5, <1>6, <1>7, <1>8, <1>9, <1>10, <1>11, <1>12, <1>13, <1>14, <1>15, <1>16, <1>17, <1>18, <1>19, <1>20, <1>21, <1>22
  DEF AccountsNext, RefreshPass

\* While nothing dies or is lost, the stored credentials work, or the pass that had the
\* platform replace them is about to store those that do.
THEOREM RotationKeepsCredentials == AccountsSpec => []StoredCredentialsWork
<1>1. CredentialsInv => StoredCredentialsWork
  BY DEF CredentialsInv
<1>. QED BY <1>1, CredentialsStart, CredentialsInductive, AccountsTypeCorrect, PTL DEF AccountsSpec
===============================================================================
