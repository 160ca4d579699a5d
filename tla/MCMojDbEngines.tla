--------------------------- MODULE MCMojDbEngines ---------------------------
(* Bounds for TLC.  The parts of the database that do not meet are checked *)
(* in one run: a behaviour is one of a single unit, the others stay as     *)
(* they are at first.                                                      *)
EXTENDS MojDbEngines, TLC

VARIABLE unit
Units == {"quotas", "permissions", "tokens", "lifecycle"}
vars == <<unit, engineVars>>

MCKindOwner == "k1" :> "a" @@ "k2" :> "b" @@ "Quota:1" :> "admin"
MCSuper == "k1" :> "none" @@ "k2" :> "k1" @@ "Quota:1" :> "none"
MCCovers == {<<"*", "a">>, <<"*", "b">>, <<"*", "admin">>}

MCSuperOf == "k1" :> "none" @@ "k2" :> "k1"
MCOwnerOf == "k1" :> <<"com", "a">> @@ "k2" :> <<"com", "a">>
MCCallers == {<<"com", "a">>, <<"com", "b">>, <<"org", "x">>}
MCNames == {<<"com", "b">>, <<"com", "*">>, <<"*">>, <<"*", "com">>}
MCPutKeys == {<<"k1", <<"com", "*">>>>, <<"k1", <<"com", "b">>>>, <<"k2", <<"com", "*">>>>, <<"k2", <<"*", "com">>>>}
MCOperations == {[read |-> "allow", update |-> "undefined"], [read |-> "deny", update |-> "deny"],
                 [read |-> "undefined", update |-> "undefined"]}
MCConfig ==
  [k \in {"k1", "k2"} |-> [n \in MCNames |->
     IF k = "k1" /\ n = <<"*">> THEN [read |-> "allow", update |-> "deny"] ELSE Undefined]]

Init ==
  /\ unit \in Units
  /\ EnginesInit
  /\ unit # "quotas" => ~locking /\ \A k \in Kinds : bytes[k] = 0
  /\ unit # "lifecycle" => storedLocale = "en" /\ versionFile = "none"

Next ==
  /\ \/ unit = "quotas" /\ QuotaStep
     \/ unit = "permissions" /\ PermStep
     \/ unit = "tokens" /\ KStateStep
     \/ unit = "lifecycle" /\ LifeStep
  /\ UNCHANGED unit

Spec == Init /\ [][Next]_vars /\ LifeFairness
=============================================================================
