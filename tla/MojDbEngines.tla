----------------------------- MODULE MojDbEngines -----------------------------
(* What the requests of a database share besides its objects: the quotas,  *)
(* the permissions, the tokens of kinds, and what open, drop and the       *)
(* locale change of all of them (src/db/MojDb.cpp).  The four keep         *)
(* separate state, and their steps interleave.                             *)
EXTENDS MojDbQuotaEngine, MojDbPermissionEngine, MojDbKindState, MojDbLifecycle

engineVars == <<quotaVars, permVars, kstateVars, lifeVars>>

EnginesInit == QuotaInit /\ PermInit /\ KStateInit /\ LifeInit

QuotaStep == QuotaNext /\ UNCHANGED <<permVars, kstateVars, lifeVars>>
PermStep == PermNext /\ UNCHANGED <<quotaVars, kstateVars, lifeVars>>
KStateStep == KStateNext /\ UNCHANGED <<quotaVars, permVars, lifeVars>>
LifeStep == LifeNext /\ UNCHANGED <<quotaVars, permVars, kstateVars>>
EnginesNext == QuotaStep \/ PermStep \/ KStateStep \/ LifeStep

EnginesSpec == EnginesInit /\ [][EnginesNext]_engineVars

\* A token that an object is stored with means its property, before and after a restart;
\* whoever reads the kinds sorts by the locale of what is stored; and the usage of a quota is
\* the sum of what its kinds store (MojDbKindState, MojDb::updateLocale, MojDbQuotaEngine).
SharedStateKept == EveryTokenResolves /\ QuotasKept /\ SortedAsStored
=============================================================================
