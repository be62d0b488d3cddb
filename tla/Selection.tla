----------------------------- MODULE Selection -----------------------------
(***************************************************************************)
(* The pure selection engine of modelctl (selection/engine.py): from the   *)
(* runway estimates of the accounts and the policy's rungs, the primary    *)
(* model and the fallback chain of every managed role.                     *)
(*                                                                         *)
(* A policy is a record of                                                 *)
(*   rungs     the candidates a role lists, first choice first             *)
(*   modes     the evaluation modes a role admits                          *)
(*   catalog   what is known of a candidate; a reference may be missing    *)
(*   promoted  the candidates with a promotion decision "promoted"         *)
(*   unit      the quota unit, maxAge the age of the oldest usable reading *)
(*   allowed   for an account with a ceiling, the use it may have reached  *)
(* An estimate is a reading of one account; time 0 stands for no           *)
(* freshness time, and "reported" is false when it gives no use.           *)
(***************************************************************************)
EXTENDS Integers, Sequences, SequencesExt, Lists

CONSTANTS
    Role,       \* the roles of the policy
    OtherRole,  \* roles of the native configuration that the policy leaves out
    Candidate,  \* the references a rung may name
    Account,    \* provider and account label of a subscription
    Absent      \* no value: an unset role, an account without an estimate

ASSUME RoleAssumption == Role \cap OtherRole = {}

AnyRole == Role \cup OtherRole

\* A rank is the freshness time, then the use, a missing use above every use.
\* Mutant: the first of two equally fresh readings stays.
OutranksByTime(e, f) == e.time > f.time

Outranks(e, f) ==
    \/ e.time > f.time
    \/ e.time = f.time /\ f.reported /\ (e.reported => e.used > f.used)

\* The estimate of an account that is joined to its candidates: the first in
\* the list that no other outranks.
Index(estimates, account) ==
    FoldLeft(LAMBDA best, e :
                 IF e.account = account /\ (best = Absent \/ Outranks(e, best))
                 THEN e ELSE best,
             Absent, estimates)

\* What a metered candidate needs of its account's estimate.
Funded(p, c, estimates, now) ==
    LET account == p.catalog[c].account
        e == Index(estimates, account)
    IN  /\ e # Absent
        /\ e.unit = p.unit
        /\ e.time # 0 /\ now - e.time <= p.maxAge
        /\ account \in DOMAIN p.allowed
        /\ e.reported /\ e.used <= p.allowed[account]

Eligible(p, r, c, estimates, now) ==
    /\ c \in DOMAIN p.catalog
    /\ p.catalog[c].available
    /\ p.catalog[c].expires >= now
    /\ p.catalog[c].mode \in p.modes[r]
    /\ c \in p.promoted
    /\ \/ p.catalog[c].mode = "strict-local"
       \/ ~p.catalog[c].observable
       \/ Funded(p, c, estimates, now)

\* The first eligible rung, if there is one.
Selected(p, r, estimates, now) ==
    LET rungs == p.rungs[r]
        eligible == {i \in DOMAIN rungs : Eligible(p, r, rungs[i], estimates, now)}
    IN  IF eligible = {} THEN Absent ELSE rungs[Min(eligible)]

\* The rungs behind a primary: neither use nor qualification expiry counts.
Chain(p, r, primary) ==
    Only(p.rungs[r], {c \in Candidate \ {primary} :
                         /\ c \in p.promoted
                         /\ c \in DOMAIN p.catalog
                         /\ p.catalog[c].available
                         /\ p.catalog[c].mode \in p.modes[r]})

\* Mutant: the plan starts from the managed roles only.
PlanManagedRoles(p, estimates, roles, now) ==
    [r \in AnyRole |->
        IF r \in Role THEN Selected(p, r, estimates, now) ELSE Absent]

\* The primary of every role: a blocked role keeps the one it has.
PlanRoles(p, estimates, roles, now) ==
    [r \in AnyRole |->
        IF r \in Role /\ Selected(p, r, estimates, now) # Absent
        THEN Selected(p, r, estimates, now)
        ELSE roles[r]]

\* The chain of every role that has a primary, the blocked ones included.
PlanChains(p, estimates, roles, chains, now) ==
    LET primary == PlanRoles(p, estimates, roles, now)
    IN  [r \in AnyRole |->
            IF r \in Role /\ primary[r] # Absent
            THEN Chain(p, r, primary[r])
            ELSE chains[r]]
=============================================================================
