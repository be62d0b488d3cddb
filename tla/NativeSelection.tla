-------------------------- MODULE NativeSelection --------------------------
(***************************************************************************)
(* modelctl-omp (adapters/omp): reads the native configuration of OMP,     *)
(* plans a selection and, with --apply, writes the fallback chains and     *)
(* then the roles through `omp config set`, reads them back and restores   *)
(* what it found when a step fails.  No lock protects the configuration:   *)
(* its user may edit it between any two steps, a command may fail after it *)
(* took effect (it timed out), and the process may end anywhere.           *)
(*                                                                         *)
(* Roles and chains are whole records, kept as functions over every role,  *)
(* the ones that the policy does not manage included.                      *)
(***************************************************************************)
EXTENDS Selection, FiniteSets

CONSTANTS
    Policy,      \* the selection section of the policy bundle
    Situations,  \* runway estimates and a clock, as a run may find them
    Overrides,   \* values of the setting that is watched and never written
    MaxOmpRuns,  \* bound: runs of modelctl-omp
    MaxOmpEdits, \* bound: edits of the user
    MaxOmpFaults \* bound: commands that fail, and runs that end early

Roles == [AnyRole -> Candidate \cup {Absent}]
Chains == [AnyRole -> Seq(Candidate) \cup {Absent}]
Managed == [roles : Roles, chains : Chains]
Native == [roles : Roles, chains : Chains, overrides : Overrides]
Keys == {"roles", "chains"}
Fields == Keys \cup {"overrides"}

ASSUME PolicyAssumption ==
    /\ Absent \notin Candidate \cup Seq(Candidate)
    /\ Policy.rungs \in [Role -> Seq(Candidate)]
    /\ Overrides # {}
    /\ Situations # {}
\* A reading of an account, as the runway estimates it.
Reading == [account : Account, time : Nat, unit : STRING, reported : BOOLEAN, used : Nat]

ASSUME SituationsAssumption ==
    /\ Absent \notin Reading
    /\ \A s \in Situations : s.now \in Nat /\ s.runway \in Seq(Reading)
    /\ \A account \in DOMAIN Policy.allowed : Policy.allowed[account] \in Nat
ASSUME OmpBounds == {MaxOmpRuns, MaxOmpEdits, MaxOmpFaults} \subseteq Nat

VARIABLES
    native,    \* the configuration of OMP
    at,        \* where the run is
    situation, \* the runway estimates and the clock of the run
    target,    \* the plan
    before,    \* what the run, and then the applier, read of each key
    writes,    \* the keys to write, in this order
    todo,      \* the keys still to read, to write, to read back, to restore
    failed,    \* the keys that a rollback could not restore
    receipt,   \* the status in the receipt of the last run, if it left one
    edited,    \* history: the user edited since the run began
    stale,     \* history: keys the user edited since a run last read or wrote them
    ompTally   \* plans, edits and faults so far

ompVars == <<native, at, situation, target, before, writes, todo, failed,
             receipt, edited, stale, ompTally>>

Places == {"idle", "plan", "compare", "set", "verify", "rollback", "confirm", "applied", "undone"}
Statuses == {"ok", "rolled-back", "failed", "dry-run"}
OmpBound == [runs |-> MaxOmpRuns, edits |-> MaxOmpEdits, faults |-> MaxOmpFaults]

SelectionTypeOK ==
    /\ native \in Native
    /\ at \in Places
    /\ situation \in Situations
    /\ target \in Managed
    /\ before \in Native
    /\ writes \in {<<>>, <<"chains">>, <<"roles">>, <<"chains", "roles">>}
    /\ todo \in Seq(Fields)
    /\ failed \subseteq Keys
    /\ receipt \in Statuses \cup {""}
    /\ edited \in BOOLEAN
    /\ stale \subseteq Fields
    /\ ompTally \in [DOMAIN OmpBound -> Nat]
    /\ at \in {"set", "verify", "rollback", "confirm"} => todo # <<>>

SelectionInit ==
    /\ native = [roles |-> [r \in AnyRole |-> Absent],
                 chains |-> [r \in AnyRole |-> Absent],
                 overrides |-> CHOOSE o \in Overrides : TRUE]
    /\ at = "idle"
    /\ situation = (CHOOSE s \in Situations : TRUE)
    /\ target = [roles |-> native.roles, chains |-> native.chains]
    /\ before = native
    /\ writes = <<>>
    /\ todo = <<>>
    /\ failed = {}
    /\ receipt = ""
    /\ edited = FALSE
    /\ stale = {}
    /\ ompTally = [b \in DOMAIN OmpBound |-> 0]

Spends(b) ==
    /\ ompTally[b] < OmpBound[b]
    /\ ompTally' = [ompTally EXCEPT ![b] = @ + 1]

\* `omp config get` of one key.
Reads(k) ==
    /\ before' = [before EXCEPT ![k] = native[k]]
    /\ stale' = stale \ {k}

-----------------------------------------------------------------------------
(* The command line *)

\* The run begins with the roles.
Start ==
    /\ at = "idle"
    /\ ompTally.runs < MaxOmpRuns
    /\ at' = "plan"
    /\ Reads("roles")
    /\ writes' = <<>>
    /\ todo' = <<>>
    /\ failed' = {}
    /\ receipt' = ""
    /\ edited' = FALSE
    /\ UNCHANGED <<native, situation, target, ompTally>>

\* It reads the chains and plans.
Plan(s, place, status) ==
    /\ at = "plan"
    /\ Spends("runs")
    /\ Reads("chains")
    /\ situation' = s
    /\ target' = [roles |-> PlanRoles(Policy, s.runway, before.roles, s.now),
                  chains |-> PlanChains(Policy, s.runway, before.roles, native.chains, s.now)]
    /\ at' = place
    /\ todo' = <<"overrides", "roles", "chains">>
    /\ receipt' = status
    /\ UNCHANGED <<native, writes, failed, edited>>

ForApply(s) == Plan(s, "compare", "")
DryRun(s) == Plan(s, "idle", "dry-run")

-----------------------------------------------------------------------------
(* SelectionApplier.apply *)

\* The applier reads the configuration again, one key after the other.
Look ==
    /\ at = "compare"
    /\ todo # <<>>
    /\ Reads(Head(todo))
    /\ todo' = Tail(todo)
    /\ UNCHANGED <<native, at, situation, target, writes, failed, receipt, edited, ompTally>>

\* A key that was not found as planned has to be written.
Pending(k) == IF target[k] # before[k] THEN <<k>> ELSE <<>>

\* Mutant: the roles are written first.
CompareRolesFirst ==
    /\ at = "compare"
    /\ todo = <<>>
    /\ writes' = Pending("roles") \o Pending("chains")
    /\ todo' = writes'
    /\ at' = IF writes' = <<>> THEN "applied" ELSE "set"
    /\ UNCHANGED <<native, situation, target, before, failed, receipt, edited, stale, ompTally>>

Compare ==
    /\ at = "compare"
    /\ todo = <<>>
    /\ writes' = Pending("chains") \o Pending("roles")
    /\ todo' = writes'
    /\ at' = IF writes' = <<>> THEN "applied" ELSE "set"
    /\ UNCHANGED <<native, situation, target, before, failed, receipt, edited, stale, ompTally>>

Set ==
    /\ at = "set"
    /\ native' = [native EXCEPT ![Head(todo)] = target[Head(todo)]]
    /\ stale' = stale \ {Head(todo)}
    /\ IF Tail(todo) # <<>>
       THEN at' = "set" /\ todo' = Tail(todo)
       ELSE at' = "verify" /\ todo' = Append(writes, "overrides")
    /\ UNCHANGED <<situation, target, before, writes, failed, receipt, edited, ompTally>>

\* A failed run restores every key it meant to write, the last one first.
Undo == at' = "rollback" /\ todo' = Reverse(writes)

\* The command failed, before or after it took effect.
SetFails ==
    /\ at = "set"
    /\ Spends("faults")
    /\ native' \in {native, [native EXCEPT ![Head(todo)] = target[Head(todo)]]}
    /\ Undo
    /\ UNCHANGED <<situation, target, before, writes, failed, receipt, edited, stale>>

\* What a key holds after the writes: the watched setting is as it was.
Planned(k) == IF k \in Keys THEN target[k] ELSE before[k]

\* Mutant: only the watched setting is read back.
VerifyOverrides ==
    /\ at = "verify"
    /\ stale' = stale \ {Head(todo)}
    /\ IF Head(todo) \in Keys \/ native[Head(todo)] = Planned(Head(todo))
       THEN /\ todo' = Tail(todo)
            /\ at' = IF Tail(todo) = <<>> THEN "applied" ELSE "verify"
       ELSE Undo
    /\ UNCHANGED <<native, situation, target, before, writes, failed, receipt, edited, ompTally>>

\* One key is read back: the written ones in their order, the watched one last.
Verify ==
    /\ at = "verify"
    /\ stale' = stale \ {Head(todo)}
    /\ IF native[Head(todo)] = Planned(Head(todo))
       THEN /\ todo' = Tail(todo)
            /\ at' = IF Tail(todo) = <<>> THEN "applied" ELSE "verify"
       ELSE Undo
    /\ UNCHANGED <<native, situation, target, before, writes, failed, receipt, edited, ompTally>>

VerifyFails ==
    /\ at = "verify"
    /\ Spends("faults")
    /\ Undo
    /\ UNCHANGED <<native, situation, target, before, writes, failed, receipt, edited, stale>>

Restored(key) == [native EXCEPT ![key] = before[key]]

\* The next key is tried, whether or not this one was restored.
Passed ==
    /\ todo' = Tail(todo)
    /\ at' = IF Tail(todo) = <<>> THEN "undone" ELSE "rollback"

Rollback ==
    /\ at = "rollback"
    /\ native' = Restored(Head(todo))
    /\ stale' = stale \ {Head(todo)}
    /\ at' = "confirm"
    /\ UNCHANGED <<situation, target, before, writes, todo, failed, receipt, edited, ompTally>>

\* What was restored is read.
Confirm ==
    /\ at = "confirm"
    /\ stale' = stale \ {Head(todo)}
    /\ failed' = IF native[Head(todo)] = before[Head(todo)] THEN failed
                 ELSE failed \cup {Head(todo)}
    /\ Passed
    /\ UNCHANGED <<native, situation, target, before, writes, receipt, edited, ompTally>>

\* One key cannot be restored, or not be seen to be; the others still are.
RollbackFails ==
    /\ at \in {"rollback", "confirm"}
    /\ Spends("faults")
    /\ native' \in {native} \cup (IF at = "rollback" THEN {Restored(Head(todo))} ELSE {})
    /\ failed' = failed \cup {Head(todo)}
    /\ Passed
    /\ UNCHANGED <<situation, target, before, writes, receipt, edited, stale>>

-----------------------------------------------------------------------------
(* The end of the run *)

Receipt(place, status) ==
    /\ at = place
    /\ at' = "idle"
    /\ receipt' = status
    /\ UNCHANGED <<native, situation, target, before, writes, todo, failed, edited, stale,
                   ompTally>>

Applied == Receipt("applied", "ok")
Undone == Receipt("undone", IF failed = {} THEN "rolled-back" ELSE "failed")

\* The run ends with nothing restored and no receipt: it is killed, a first
\* read fails, the command cannot be started, or the receipt not be written.
Ends ==
    /\ at # "idle"
    /\ Spends("faults")
    /\ at' = "idle"
    /\ UNCHANGED <<native, situation, target, before, writes, todo, failed, receipt, edited,
                   stale>>

\* The user sets a role, a chain or the setting that is watched.
Edit(k, v) ==
    /\ v # native[k]
    /\ Spends("edits")
    /\ native' = [native EXCEPT ![k] = v]
    /\ edited' = TRUE
    /\ stale' = stale \cup {k}
    /\ UNCHANGED <<at, situation, target, before, writes, todo, failed, receipt>>

Edits ==
    \/ \E r \in AnyRole, c \in Candidate : Edit("roles", [native.roles EXCEPT ![r] = c])
    \/ \E r \in AnyRole : Edit("chains", [native.chains EXCEPT ![r] = <<>>])
    \/ \E o \in Overrides : Edit("overrides", o)

SelectionNext ==
    \/ Start
    \/ \E s \in Situations : ForApply(s) \/ DryRun(s)
    \/ Look \/ Compare \/ Set \/ SetFails \/ Verify \/ VerifyFails
    \/ Rollback \/ Confirm \/ RollbackFails
    \/ Applied \/ Undone \/ Ends
    \/ Edits

SelectionSpec == SelectionInit /\ [][SelectionNext]_ompVars

-----------------------------------------------------------------------------
(* Properties *)

\* The freshest readings of an account: there may be several of one time.
Freshest(account) ==
    {e \in ToSet(situation.runway) :
        /\ e.account = account
        /\ \A f \in ToSet(situation.runway) : f.account = account => f.time <= e.time}

\* Of those the ones that decide: none of them reports more use, and one
\* without a use is above every use.
Deciding(account) ==
    {e \in Freshest(account) :
        e.reported => \A f \in Freshest(account) : f.reported /\ f.used <= e.used}

\* A reading that lets an account be used.
Within(e) ==
    /\ e.unit = Policy.unit
    /\ e.reported
    /\ e.time # 0
    /\ situation.now - e.time <= Policy.maxAge
    /\ e.account \in DOMAIN Policy.allowed
    /\ e.used <= Policy.allowed[e.account]

Qualified(r, c) ==
    /\ c \in DOMAIN Policy.catalog \cap Policy.promoted
    /\ Policy.catalog[c].available
    /\ Policy.catalog[c].expires >= situation.now
    /\ Policy.catalog[c].mode \in Policy.modes[r]

Metered(c) == Policy.catalog[c].mode # "strict-local" /\ Policy.catalog[c].observable
Meter(c) == Deciding(Policy.catalog[c].account)

\* A reading that decides lets the rung be used, or one forbids it.  Only two
\* readings of one use in different units can do both.
Admits(r, c) == Qualified(r, c) /\ (Metered(c) => \E e \in Meter(c) : Within(e))
Rejects(r, c) ==
    \/ ~Qualified(r, c)
    \/ Metered(c) /\ (Meter(c) = {} \/ \E e \in Meter(c) : ~Within(e))

\* The plan gives a role the first of its rungs that is qualified and, when its
\* use is metered, whose account has room by the freshest readings, of which the
\* highest use counts; one that is missing, old, without a use or in another unit
\* gives no room.  A role without such a rung keeps its primary (select_models,
\* _evaluate_role, _runway_index).
FirstRung ==
    ompTally.runs > 0 =>
        \A r \in Role :
            LET rungs == Policy.rungs[r]
            IN  \/ \E i \in DOMAIN rungs :
                    /\ target.roles[r] = rungs[i]
                    /\ Admits(r, rungs[i])
                    /\ \A j \in 1 .. i - 1 : Rejects(r, rungs[j])
                \/ /\ \A i \in DOMAIN rungs : Rejects(r, rungs[i])
                   /\ at = "compare" /\ ~edited => target.roles[r] = native.roles[r]

\* What a receipt says is so, but for the keys the user edited after the run last
\* looked at them: after "ok" a key holds the plan and the watched setting what
\* was found of it, and after "rolled-back" a key holds what the applier found,
\* whichever commands failed and whatever was edited before the key was read back
\* (SelectionApplier.apply, _rollback, _run).
ReceiptTrue ==
    /\ receipt = "ok" => \A k \in Fields \ stale : native[k] = Planned(k)
    /\ receipt = "rolled-back" => \A k \in Keys \ stale : native[k] = before[k]

\* New roles are never in force without the chains planned with them, in any
\* state a kill can leave: the chains are written first and restored last
\* (SelectionApplier.apply, _rollback).
ChainsFirst ==
    ~edited /\ "roles" \notin failed =>
        native.roles = before.roles \/ native.chains = target.chains

\* A run never changes what the policy does not manage, be it applied, rolled
\* back or cut short, unless the user edits during it (select_models, apply).
UnmanagedKept ==
    [][~edited' =>
        \A r \in OtherRole : /\ native'.roles[r] = native.roles[r]
                             /\ native'.chains[r] = native.chains[r]]_ompVars
=============================================================================
