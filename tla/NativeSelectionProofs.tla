------------------------ MODULE NativeSelectionProofs ------------------------
(***************************************************************************)
(* Proofs about NativeSelection for any policy, readings, edits and        *)
(* failures: what is written, in which order and what is restored, and     *)
(* that the plan is made of the first rungs that may be used.              *)
(***************************************************************************)
EXTENDS NativeSelection, FiniteSetTheorems, SequenceTheorems, TLAPS

Orders == {<<"chains">>, <<"roles">>, <<"chains", "roles">>}
Backward == {<<"chains">>, <<"roles">>, <<"roles", "chains">>}
Looks == {<<"overrides", "roles", "chains">>, <<"roles", "chains">>, <<"chains">>, <<>>}
Checks ==
    {<<"overrides">>, <<"chains", "overrides">>, <<"roles", "overrides">>,
     <<"chains", "roles", "overrides">>}

\* The configuration has its keys, and a run reads, writes and restores some of them.
Shape ==
    /\ DOMAIN native = Fields /\ DOMAIN before = Fields
    /\ writes \in Orders \cup {<<>>}
    /\ failed \subseteq Keys
    /\ at = "plan" => failed = {}
    /\ at = "compare" => todo \in Looks
    /\ at = "set" => todo \in Orders /\ ToSet(todo) \subseteq ToSet(writes) /\ writes \in Orders
    /\ at = "verify" => todo \in Checks /\ writes \in Orders
                        /\ ToSet(todo) \subseteq ToSet(writes) \cup {"overrides"}
    /\ at \in {"rollback", "confirm"} => todo \in Backward
    /\ at = "undone" => todo = <<>>

LEMMA Heads ==
    /\ Head(<<"chains">>) = "chains" /\ Tail(<<"chains">>) = <<>>
    /\ Head(<<"roles">>) = "roles" /\ Tail(<<"roles">>) = <<>>
    /\ Head(<<"chains", "roles">>) = "chains" /\ Tail(<<"chains", "roles">>) = <<"roles">>
    /\ Head(<<"roles", "chains">>) = "roles" /\ Tail(<<"roles", "chains">>) = <<"chains">>
OBVIOUS

LEMMA LookHeads ==
    /\ Head(<<"overrides", "roles", "chains">>) = "overrides"
    /\ Tail(<<"overrides", "roles", "chains">>) = <<"roles", "chains">>
OBVIOUS

LEMMA CheckHeads ==
    /\ Head(<<"overrides">>) = "overrides" /\ Tail(<<"overrides">>) = <<>>
    /\ Head(<<"chains", "overrides">>) = "chains" /\ Tail(<<"chains", "overrides">>) = <<"overrides">>
    /\ Head(<<"roles", "overrides">>) = "roles" /\ Tail(<<"roles", "overrides">>) = <<"overrides">>
    /\ Head(<<"chains", "roles", "overrides">>) = "chains"
    /\ Tail(<<"chains", "roles", "overrides">>) = <<"roles", "overrides">>
OBVIOUS

LEMMA AppendedTo ==
    ASSUME NEW V, NEW a \in V, NEW b \in V, NEW c \in V
    PROVE  Append(<<a>>, b) = <<a, b>> /\ Append(<<a, b>>, c) = <<a, b, c>>
<1>1. Append(<<a>>, b) = <<a, b>>
  <2>1. Append(<<a>>, b) \in Seq(V) /\ <<a, b>> \in Seq(V)
    OBVIOUS
  <2>2. Len(Append(<<a>>, b)) = Len(<<a, b>>)
    OBVIOUS
  <2>3. \A i \in 1 .. Len(Append(<<a>>, b)) : Append(<<a>>, b)[i] = <<a, b>>[i]
    OBVIOUS
  <2> QED
    BY <2>1, <2>2, <2>3, SeqEqual
<1>2. Append(<<a, b>>, c) = <<a, b, c>>
  <2>1. Append(<<a, b>>, c) \in Seq(V) /\ <<a, b, c>> \in Seq(V)
    OBVIOUS
  <2>2. Len(Append(<<a, b>>, c)) = Len(<<a, b, c>>)
    OBVIOUS
  <2>3. \A i \in 1 .. Len(Append(<<a, b>>, c)) : Append(<<a, b>>, c)[i] = <<a, b, c>>[i]
    OBVIOUS
  <2> QED
    BY <2>1, <2>2, <2>3, SeqEqual
<1> QED
  BY <1>1, <1>2

LEMMA Appended ==
    /\ Append(<<"chains">>, "overrides") = <<"chains", "overrides">>
    /\ Append(<<"roles">>, "overrides") = <<"roles", "overrides">>
    /\ Append(<<"chains", "roles">>, "overrides") = <<"chains", "roles", "overrides">>
<1>1. "chains" \in Fields /\ "roles" \in Fields /\ "overrides" \in Fields
  BY DEF Fields, Keys
<1>2. Append(<<"chains">>, "overrides") = <<"chains", "overrides">>
  BY <1>1, AppendedTo
<1>3. Append(<<"roles">>, "overrides") = <<"roles", "overrides">>
  BY <1>1, AppendedTo
<1>4. Append(<<"chains", "roles">>, "overrides") = <<"chains", "roles", "overrides">>
  BY <1>1, AppendedTo
<1> QED
  BY <1>2, <1>3, <1>4

LEMMA Distinct ==
    /\ <<"chains">> # <<>> /\ <<"roles">> # <<>> /\ <<"chains", "roles">> # <<>>
    /\ <<"roles", "chains">> # <<>> /\ <<"chains">> # <<"roles">>
    /\ <<"chains">> # <<"chains", "roles">> /\ <<"roles">> # <<"chains", "roles">>
    /\ <<"chains">> # <<"roles", "chains">> /\ <<"roles">> # <<"roles", "chains">>
    /\ <<"chains", "roles">> # <<"roles", "chains">>
OBVIOUS

LEMMA Reversed ==
    /\ Reverse(<<>>) = <<>>
    /\ Reverse(<<"chains">>) = <<"chains">>
    /\ Reverse(<<"roles">>) = <<"roles">>
    /\ Reverse(<<"chains", "roles">>) = <<"roles", "chains">>
<1>1. Reverse(<<>>) = <<>>
  BY DEF Reverse
<1>2. Reverse(<<"chains">>) = <<"chains">>
  BY DEF Reverse
<1>3. Reverse(<<"roles">>) = <<"roles">>
  BY DEF Reverse
<1>4. Reverse(<<"chains", "roles">>) = <<"roles", "chains">>
  BY DEF Reverse
<1> QED
  BY <1>1, <1>2, <1>3, <1>4

LEMMA Members ==
    /\ ToSet(<<>>) = {}
    /\ ToSet(<<"chains">>) = {"chains"}
    /\ ToSet(<<"roles">>) = {"roles"}
    /\ ToSet(<<"chains", "roles">>) = {"chains", "roles"}
    /\ ToSet(<<"roles", "chains">>) = {"roles", "chains"}
<1>1. ToSet(<<>>) = {}
  BY DEF ToSet
<1>2. ToSet(<<"chains">>) = {"chains"}
  BY DEF ToSet
<1>3. ToSet(<<"roles">>) = {"roles"}
  BY DEF ToSet
<1>4. DOMAIN <<"chains", "roles">> = {1, 2} /\ DOMAIN <<"roles", "chains">> = {1, 2}
  OBVIOUS
<1>5. ToSet(<<"chains", "roles">>) = {"chains", "roles"}
  BY <1>4 DEF ToSet
<1>6. ToSet(<<"roles", "chains">>) = {"roles", "chains"}
  BY <1>4 DEF ToSet
<1> QED
  BY <1>1, <1>2, <1>3, <1>5, <1>6

LEMMA LongMembers ==
    /\ ToSet(<<"overrides">>) = {"overrides"}
    /\ ToSet(<<"chains", "overrides">>) = {"chains", "overrides"}
    /\ ToSet(<<"roles", "overrides">>) = {"roles", "overrides"}
    /\ ToSet(<<"chains", "roles", "overrides">>) = {"chains", "roles", "overrides"}
    /\ ToSet(<<"overrides", "roles", "chains">>) = {"overrides", "roles", "chains"}
<1>1. /\ DOMAIN <<"overrides">> = {1}
      /\ DOMAIN <<"chains", "overrides">> = {1, 2} /\ DOMAIN <<"roles", "overrides">> = {1, 2}
      /\ DOMAIN <<"chains", "roles", "overrides">> = {1, 2, 3}
      /\ DOMAIN <<"overrides", "roles", "chains">> = {1, 2, 3}
  OBVIOUS
<1>2. ToSet(<<"overrides">>) = {"overrides"}
  BY <1>1 DEF ToSet
<1>3. ToSet(<<"chains", "overrides">>) = {"chains", "overrides"}
  BY <1>1 DEF ToSet
<1>4. ToSet(<<"roles", "overrides">>) = {"roles", "overrides"}
  BY <1>1 DEF ToSet
<1>5. ToSet(<<"chains", "roles", "overrides">>) = {"chains", "roles", "overrides"}
  BY <1>1 DEF ToSet
<1>6. ToSet(<<"overrides", "roles", "chains">>) = {"overrides", "roles", "chains"}
  BY <1>1 DEF ToSet
<1> QED
  BY <1>2, <1>3, <1>4, <1>5, <1>6

LEMMA JoinedTwo ==
    ASSUME NEW a \in Keys, NEW b \in Keys
    PROVE  <<a>> \o <<b>> = <<a, b>>
<1>1. <<a>> \o <<b>> \in Seq(Keys) /\ <<a, b>> \in Seq(Keys)
  OBVIOUS
<1>2. Len(<<a>> \o <<b>>) = Len(<<a, b>>)
  OBVIOUS
<1>3. \A i \in 1 .. Len(<<a>> \o <<b>>) : (<<a>> \o <<b>>)[i] = <<a, b>>[i]
  OBVIOUS
<1> QED
  BY <1>1, <1>2, <1>3, SeqEqual

LEMMA Joined ==
    /\ <<"chains">> \o <<"roles">> = <<"chains", "roles">>
    /\ <<"chains">> \o <<>> = <<"chains">>
    /\ <<>> \o <<"roles">> = <<"roles">>
    /\ <<>> \o <<>> = <<>>
<1>1. <<"chains">> \o <<"roles">> = <<"chains", "roles">>
  BY JoinedTwo DEF Keys
<1>2. <<"chains">> \o <<>> = <<"chains">>
  OBVIOUS
<1>3. <<>> \o <<"roles">> = <<"roles">>
  OBVIOUS
<1>4. <<>> \o <<>> = <<>>
  OBVIOUS
<1> QED
  BY <1>1, <1>2, <1>3, <1>4

\* A key is written when, and only when, it was not found as planned.
LEMMA PendingWrites ==
    ASSUME NEW s, s = Pending("chains") \o Pending("roles")
    PROVE  /\ s \in {<<>>, <<"chains">>, <<"roles">>, <<"chains", "roles">>}
           /\ "chains" \in ToSet(s) <=> target["chains"] # before["chains"]
           /\ "roles" \in ToSet(s) <=> target["roles"] # before["roles"]
<1>1. CASE target["chains"] # before["chains"] /\ target["roles"] # before["roles"]
  <2>1. s = <<"chains", "roles">>
    BY <1>1, Joined DEF Pending
  <2> QED
    BY <1>1, <2>1, Members
<1>2. CASE target["chains"] # before["chains"] /\ target["roles"] = before["roles"]
  <2>1. s = <<"chains">>
    BY <1>2, Joined DEF Pending
  <2> QED
    BY <1>2, <2>1, Members
<1>3. CASE target["chains"] = before["chains"] /\ target["roles"] # before["roles"]
  <2>1. s = <<"roles">>
    BY <1>3, Joined DEF Pending
  <2> QED
    BY <1>3, <2>1, Members
<1>4. CASE target["chains"] = before["chains"] /\ target["roles"] = before["roles"]
  <2>1. s = <<>>
    BY <1>4, Joined DEF Pending
  <2> QED
    BY <1>4, <2>1, Members
<1> QED
  BY <1>1, <1>2, <1>3, <1>4

-----------------------------------------------------------------------------
(* Steps *)

\* Writing one key leaves the others alone.
LEMMA PutFacts ==
    ASSUME DOMAIN native = Fields, NEW key \in Fields, NEW value,
           native' = [native EXCEPT ![key] = value]
    PROVE  /\ DOMAIN native' = Fields
           /\ native'[key] = value
           /\ \A k \in Fields \ {key} : native'[k] = native[k]
           /\ key = "roles" => native'.roles = value /\ native'.chains = native.chains
           /\ key = "chains" => native'.chains = value /\ native'.roles = native.roles
BY DEF Fields, Keys

\* Reading one key leaves what was read of the others alone.
LEMMA ReadsFacts ==
    ASSUME DOMAIN before = Fields, NEW key \in Fields, Reads(key)
    PROVE  /\ DOMAIN before' = Fields /\ stale' = stale \ {key}
           /\ before'[key] = native[key]
           /\ \A k \in Fields \ {key} : before'[k] = before[k]
           /\ key = "roles" => before'.roles = native.roles /\ before'.chains = before.chains
           /\ key = "chains" => before'.chains = native.chains /\ before'.roles = before.roles
           /\ key = "overrides" => before'.roles = before.roles /\ before'.chains = before.chains
BY DEF Reads, Fields, Keys

\* A key is the next to write or to restore, and the rest are the others.
LEMMA NextKey ==
    ASSUME NEW s \in Orders \cup Backward
    PROVE  /\ Head(s) \in Keys
           /\ ToSet(s) = {Head(s)} \cup ToSet(Tail(s))
           /\ Tail(s) # <<>> => Tail(s) \in Orders \cap Backward
           /\ ToSet(<<>>) = {}
BY Heads, Members, Distinct DEF Orders, Backward, Keys

\* A key is the next to look at.
LEMMA NextLook ==
    ASSUME NEW s \in Looks, s # <<>>
    PROVE  /\ Head(s) \in Fields /\ Tail(s) \in Looks
           /\ ToSet(s) = {Head(s)} \cup ToSet(Tail(s))
           /\ Head(s) # "chains" => ("chains" \in ToSet(Tail(s)) <=> "chains" \in ToSet(s))
<1>1. CASE s = <<"overrides", "roles", "chains">>
  BY <1>1, LookHeads, Members, LongMembers DEF Looks, Fields, Keys
<1>2. CASE s = <<"roles", "chains">>
  BY <1>2, Heads, Members DEF Looks, Fields, Keys
<1>3. CASE s = <<"chains">>
  BY <1>3, Heads, Members DEF Looks, Fields, Keys
<1> QED
  BY <1>1, <1>2, <1>3 DEF Looks

\* A key is the next to read back, and the watched setting is the last one.
LEMMA NextCheck ==
    ASSUME NEW s \in Checks
    PROVE  /\ Head(s) \in Fields
           /\ ToSet(s) = {Head(s)} \cup ToSet(Tail(s))
           /\ Tail(s) # <<>> => Tail(s) \in Checks
<1>1. CASE s = <<"overrides">>
  BY <1>1, CheckHeads, Members, LongMembers DEF Checks, Fields, Keys
<1>2. CASE s = <<"chains", "overrides">>
  BY <1>2, CheckHeads, LongMembers DEF Checks, Fields, Keys
<1>3. CASE s = <<"roles", "overrides">>
  BY <1>3, CheckHeads, LongMembers DEF Checks, Fields, Keys
<1>4. CASE s = <<"chains", "roles", "overrides">>
  BY <1>4, CheckHeads, LongMembers DEF Checks, Fields, Keys
<1> QED
  BY <1>1, <1>2, <1>3, <1>4 DEF Checks

\* What is read back is what was written, and the watched setting.
LEMMA ChecksOf ==
    ASSUME writes \in Orders
    PROVE  /\ Append(writes, "overrides") \in Checks
           /\ ToSet(Append(writes, "overrides")) = ToSet(writes) \cup {"overrides"}
<1>1. CASE writes = <<"chains">>
  BY <1>1, Appended, Members, LongMembers DEF Checks
<1>2. CASE writes = <<"roles">>
  BY <1>2, Appended, Members, LongMembers DEF Checks
<1>3. CASE writes = <<"chains", "roles">>
  BY <1>3, Appended, Members, LongMembers DEF Checks
<1> QED
  BY <1>1, <1>2, <1>3 DEF Orders

\* A key holds its old value or has just been given the new one.
Puts(key, value) == native' = native \/ native' = [native EXCEPT ![key] = value]

LEMMA PutsFacts ==
    ASSUME DOMAIN native = Fields, NEW key \in Keys, NEW value, Puts(key, value)
    PROVE  /\ DOMAIN native' = Fields
           /\ \A k \in Fields \ {key} : native'[k] = native[k]
           /\ native'[key] \in {native[key], value}
           /\ key = "roles" => native'.chains = native.chains
           /\ key = "chains" => native'.roles = native.roles
<1>1. key \in Fields
  BY DEF Fields
<1> QED
  BY <1>1, PutFacts DEF Puts

\* The steps, by what they do to the configuration.
Writing == Set \/ SetFails
Restoring == Rollback \/ Confirm \/ RollbackFails
Checking == Verify \/ VerifyFails
Closing == Applied \/ Undone \/ Ends
Planning(s) == ForApply(s) \/ DryRun(s)

LEMMA SelectionCases ==
    ASSUME [SelectionNext]_ompVars
    PROVE  \/ Start \/ \E s \in Situations : Planning(s)
           \/ Look \/ Compare \/ Writing \/ Checking \/ Restoring \/ Closing \/ Edits
           \/ UNCHANGED ompVars
BY DEF SelectionNext, Planning, Writing, Checking, Restoring, Closing

LEMMA StartFacts ==
    ASSUME DOMAIN before = Fields, Start
    PROVE  /\ at = "idle" /\ at' = "plan" /\ UNCHANGED <<native, target, situation, ompTally>>
           /\ DOMAIN before' = Fields /\ before'.roles = native.roles
           /\ writes' = <<>> /\ todo' = <<>> /\ failed' = {} /\ edited' = FALSE
           /\ receipt' = "" /\ stale' = stale \ {"roles"}
<1>1. "roles" \in Fields /\ Reads("roles")
  BY DEF Start, Fields, Keys
<1>2. /\ DOMAIN before' = Fields /\ stale' = stale \ {"roles"}
      /\ before'.roles = native.roles
  BY <1>1, ReadsFacts
<1> QED
  BY <1>2 DEF Start

LEMMA PlanTarget ==
    ASSUME NEW s \in Situations, NEW place, NEW status, Plan(s, place, status)
    PROVE  /\ target'.roles = PlanRoles(Policy, s.runway, before.roles, s.now)
           /\ target'.chains =
                 PlanChains(Policy, s.runway, before.roles, native.chains, s.now)
<1> DEFINE roles == PlanRoles(Policy, s.runway, before.roles, s.now)
           chains == PlanChains(Policy, s.runway, before.roles, native.chains, s.now)
<1>1. target' = [roles |-> roles, chains |-> chains]
  BY DEF Plan
<1> HIDE DEF roles, chains
<1>2. target'.roles = roles /\ target'.chains = chains
  BY <1>1
<1> QED
  BY <1>2 DEF roles, chains

LEMMA PlanFacts ==
    ASSUME DOMAIN before = Fields, NEW s \in Situations, Planning(s)
    PROVE  /\ at = "plan" /\ at' \in {"idle", "compare"}
           /\ UNCHANGED <<native, writes, failed, edited>> /\ situation' = s
           /\ DOMAIN before' = Fields /\ stale' = stale \ {"chains"}
           /\ before'.roles = before.roles /\ before'.chains = native.chains
           /\ todo' = <<"overrides", "roles", "chains">>
           /\ receipt' \in {"", "dry-run"}
           /\ at' = "compare" => receipt' = ""
           /\ target'.roles = PlanRoles(Policy, s.runway, before.roles, s.now)
           /\ target'.chains =
                 PlanChains(Policy, s.runway, before.roles, native.chains, s.now)
<1>1. PICK place, status :
        Plan(s, place, status) /\ <<place, status>> \in {<<"compare", "">>, <<"idle", "dry-run">>}
  <2>1. CASE ForApply(s)
    BY <2>1 DEF ForApply
  <2>2. CASE DryRun(s)
    BY <2>2 DEF DryRun
  <2> QED
    BY <2>1, <2>2 DEF Planning
<1>2. /\ at = "plan" /\ at' = place /\ receipt' = status
      /\ UNCHANGED <<native, writes, failed, edited>> /\ situation' = s
      /\ todo' = <<"overrides", "roles", "chains">> /\ Reads("chains")
  BY <1>1 DEF Plan
<1>3. (place = "compare" /\ status = "") \/ (place = "idle" /\ status = "dry-run")
  BY <1>1
<1>4. "chains" \in Fields
  BY DEF Fields, Keys
<1>5. /\ DOMAIN before' = Fields /\ stale' = stale \ {"chains"}
      /\ before'.roles = before.roles /\ before'.chains = native.chains
  BY <1>2, <1>4, ReadsFacts
<1> QED
  BY <1>1, <1>2, <1>3, <1>5, PlanTarget

LEMMA LookFacts ==
    ASSUME Shape, Look
    PROVE  /\ at = "compare" /\ todo \in Looks /\ todo # <<>> /\ Head(todo) \in Fields
           /\ UNCHANGED <<native, at, situation, target, writes, failed, receipt, edited, ompTally>>
           /\ Reads(Head(todo)) /\ todo' = Tail(todo)
BY NextLook DEF Shape, Look

LEMMA CompareFacts ==
    ASSUME Compare
    PROVE  /\ at = "compare" /\ todo = <<>>
           /\ UNCHANGED <<native, target, before, failed, receipt, edited, stale>>
           /\ todo' = writes'
           /\ (writes' \in Orders /\ at' = "set") \/ (writes' = <<>> /\ at' = "applied")
           /\ "chains" \in ToSet(writes') <=> target.chains # before.chains
           /\ "roles" \in ToSet(writes') <=> target.roles # before.roles
<1>1. writes' = Pending("chains") \o Pending("roles") /\ todo' = writes'
  BY DEF Compare
<1>2. /\ writes' \in {<<>>, <<"chains">>, <<"roles">>, <<"chains", "roles">>}
      /\ "chains" \in ToSet(writes') <=> target["chains"] # before["chains"]
      /\ "roles" \in ToSet(writes') <=> target["roles"] # before["roles"]
  BY <1>1, PendingWrites
<1> QED
  BY <1>1, <1>2, Distinct DEF Compare, Orders

LEMMA WritingFacts ==
    ASSUME Shape, Writing
    PROVE  /\ at = "set" /\ todo \in Orders /\ writes \in Orders /\ Head(todo) \in Keys
           /\ Puts(Head(todo), target[Head(todo)])
           /\ UNCHANGED <<target, before, writes, failed, receipt, edited>>
           /\ \/ /\ native' = [native EXCEPT ![Head(todo)] = target[Head(todo)]]
                 /\ stale' = stale \ {Head(todo)}
                 /\ IF Tail(todo) # <<>>
                    THEN at' = "set" /\ todo' = Tail(todo)
                    ELSE at' = "verify" /\ todo' = Append(writes, "overrides")
              \/ at' = "rollback" /\ todo' = Reverse(writes) /\ stale' = stale
<1>1. at = "set" /\ todo \in Orders /\ writes \in Orders /\ Head(todo) \in Keys
  BY NextKey DEF Shape, Writing, Set, SetFails
<1>2. CASE Set
  BY <1>1, <1>2 DEF Set, Puts
<1>3. CASE SetFails
  BY <1>1, <1>3 DEF SetFails, Undo, Puts
<1> QED
  BY <1>2, <1>3 DEF Writing

LEMMA CheckingFacts ==
    ASSUME Shape, Checking
    PROVE  /\ at = "verify" /\ writes \in Orders /\ todo \in Checks /\ Head(todo) \in Fields
           /\ ToSet(todo) \subseteq ToSet(writes) \cup {"overrides"}
           /\ UNCHANGED <<native, target, before, writes, failed, receipt, edited>>
           /\ \/ /\ native[Head(todo)] = Planned(Head(todo))
                 /\ todo' = Tail(todo) /\ stale' = stale \ {Head(todo)}
                 /\ at' = IF Tail(todo) = <<>> THEN "applied" ELSE "verify"
              \/ /\ at' = "rollback" /\ todo' = Reverse(writes)
                 /\ stale' \in {stale, stale \ {Head(todo)}}
<1>1. /\ at = "verify" /\ writes \in Orders /\ todo \in Checks /\ Head(todo) \in Fields
      /\ ToSet(todo) \subseteq ToSet(writes) \cup {"overrides"}
  BY NextCheck DEF Shape, Checking, Verify, VerifyFails
<1>2. CASE Verify
  BY <1>1, <1>2 DEF Verify, Undo
<1>3. CASE VerifyFails
  BY <1>1, <1>3 DEF VerifyFails, Undo
<1> QED
  BY <1>2, <1>3 DEF Checking

LEMMA RollbackFacts ==
    ASSUME Shape, Rollback
    PROVE  /\ at = "rollback" /\ at' = "confirm" /\ todo \in Backward /\ Head(todo) \in Keys
           /\ native' = [native EXCEPT ![Head(todo)] = before[Head(todo)]]
           /\ Puts(Head(todo), before[Head(todo)])
           /\ stale' = stale \ {Head(todo)}
           /\ UNCHANGED <<target, before, writes, todo, failed, receipt, edited>>
BY NextKey DEF Shape, Rollback, Restored, Puts

\* A key is passed when it holds what it held, or is known not to.
Passing == Confirm \/ RollbackFails

LEMMA PassingFacts ==
    ASSUME Shape, Passing
    PROVE  /\ at \in {"rollback", "confirm"} /\ todo \in Backward /\ Head(todo) \in Keys
           /\ Puts(Head(todo), before[Head(todo)])
           /\ UNCHANGED <<target, before, writes, receipt, edited>>
           /\ todo' = Tail(todo) /\ stale' \in {stale, stale \ {Head(todo)}}
           /\ at' = IF Tail(todo) = <<>> THEN "undone" ELSE "rollback"
           /\ \/ /\ at = "confirm" /\ native' = native /\ failed' = failed
                 /\ native[Head(todo)] = before[Head(todo)]
              \/ failed' = failed \cup {Head(todo)}
<1>1. at \in {"rollback", "confirm"} /\ todo \in Backward /\ Head(todo) \in Keys
  BY NextKey DEF Shape, Passing, Confirm, RollbackFails
<1>2. CASE Confirm
  BY <1>1, <1>2 DEF Confirm, Passed, Puts
<1>3. CASE RollbackFails
  BY <1>1, <1>3 DEF RollbackFails, Passed, Restored, Puts
<1> QED
  BY <1>2, <1>3 DEF Passing

LEMMA RestoringCases ==
    ASSUME Restoring
    PROVE  Rollback \/ Passing
BY DEF Restoring, Passing

LEMMA ClosingFacts ==
    ASSUME Closing
    PROVE  /\ at # "idle" /\ at' = "idle"
           /\ UNCHANGED <<native, target, before, writes, todo, failed, edited, stale>>
           /\ \/ receipt' = receipt
              \/ at = "applied" /\ receipt' = "ok"
              \/ at = "undone" /\ receipt' = "failed"
              \/ at = "undone" /\ receipt' = "rolled-back" /\ failed = {}
BY DEF Closing, Applied, Undone, Ends, Receipt

\* The key that is edited is stale until it is read or written again.
LEMMA EditsFacts ==
    ASSUME DOMAIN native = Fields, Edits
    PROVE  /\ DOMAIN native' = Fields /\ edited' = TRUE
           /\ UNCHANGED <<at, situation, target, before, writes, todo, failed, receipt>>
           /\ \E k \in Fields : /\ stale' = stale \cup {k}
                                /\ \A l \in Fields \ {k} : native'[l] = native[l]
<1>1. PICK k \in Fields : \E v : Edit(k, v)
  BY DEF Edits, Fields, Keys
<1>2. PICK v : Edit(k, v)
  BY <1>1
<1>3. native' = [native EXCEPT ![k] = v] /\ stale' = stale \cup {k}
  BY <1>2 DEF Edit
<1>4. DOMAIN native' = Fields /\ \A l \in Fields \ {k} : native'[l] = native[l]
  BY <1>3, PutFacts
<1> QED
  BY <1>2, <1>3, <1>4 DEF Edit

LEMMA ReverseOrders ==
    ASSUME writes \in Orders
    PROVE  /\ Reverse(writes) \in Backward
           /\ ToSet(Reverse(writes)) = ToSet(writes)
           /\ "roles" \in ToSet(writes) => Head(Reverse(writes)) = "roles"
BY Reversed, Members, Heads DEF Orders, Backward

LEMMA ShapeStep == Shape /\ [SelectionNext]_ompVars => Shape'
<1> SUFFICES ASSUME Shape, [SelectionNext]_ompVars PROVE Shape'
  OBVIOUS
<1>1. CASE Start
  <2>1. DOMAIN before = Fields
    BY DEF Shape
  <2> QED
    BY <1>1, <2>1, StartFacts DEF Shape
<1>2. ASSUME NEW s \in Situations, Planning(s) PROVE Shape'
  <2>1. DOMAIN before = Fields
    BY DEF Shape
  <2>2. todo' \in Looks
    BY <1>2, <2>1, PlanFacts DEF Looks
  <2> QED
    BY <1>2, <2>1, <2>2, PlanFacts DEF Shape
<1>3. CASE Look
  <2>1. DOMAIN before' = Fields
    BY <1>3, LookFacts, ReadsFacts DEF Shape
  <2>2. todo' \in Looks
    BY <1>3, LookFacts, NextLook
  <2> QED
    BY <1>3, <2>1, <2>2, LookFacts DEF Shape
<1>4. CASE Compare
  BY <1>4, CompareFacts DEF Shape
<1>5. CASE Writing
  <2>1. DOMAIN native' = Fields
    BY <1>5, WritingFacts, PutsFacts DEF Shape
  <2>2. CASE at' = "rollback" /\ todo' = Reverse(writes)
    BY <1>5, <2>1, <2>2, WritingFacts, ReverseOrders DEF Shape
  <2>3. CASE at' = "set" /\ todo' = Tail(todo) /\ Tail(todo) # <<>>
    <3>1. todo' \in Orders /\ ToSet(todo') \subseteq ToSet(writes)
      BY <1>5, <2>3, WritingFacts, NextKey DEF Shape
    <3> QED
      BY <1>5, <2>1, <2>3, <3>1, WritingFacts DEF Shape
  <2>4. CASE at' = "verify" /\ todo' = Append(writes, "overrides")
    BY <1>5, <2>1, <2>4, WritingFacts, ChecksOf DEF Shape
  <2> QED
    BY <1>5, <2>2, <2>3, <2>4, WritingFacts
<1>6. CASE Checking
  <2>1. CASE at' = "rollback" /\ todo' = Reverse(writes)
    BY <1>6, <2>1, CheckingFacts, ReverseOrders DEF Shape
  <2>2. CASE todo' = Tail(todo) /\ at' = IF Tail(todo) = <<>> THEN "applied" ELSE "verify"
    <3>1. todo' # <<>> => todo' \in Checks /\ ToSet(todo') \subseteq ToSet(todo)
      BY <1>6, <2>2, CheckingFacts, NextCheck
    <3> QED
      BY <1>6, <2>2, <3>1, CheckingFacts DEF Shape
  <2> QED
    BY <1>6, <2>1, <2>2, CheckingFacts
<1>7. CASE Rollback
  <2>1. DOMAIN native' = Fields
    BY <1>7, RollbackFacts, PutsFacts DEF Shape
  <2> QED
    BY <1>7, <2>1, RollbackFacts DEF Shape
<1>8. CASE Passing
  <2>1. DOMAIN native' = Fields
    BY <1>8, PassingFacts, PutsFacts DEF Shape
  <2>2. todo' # <<>> => todo' \in Backward
    BY <1>8, PassingFacts, NextKey
  <2> QED
    BY <1>8, <2>1, <2>2, PassingFacts DEF Shape
<1>9. CASE Closing
  BY <1>9, ClosingFacts DEF Shape
<1>10. CASE Edits
  BY <1>10, EditsFacts DEF Shape
<1>11. CASE UNCHANGED ompVars
  BY <1>11 DEF ompVars, Shape
<1> QED
  BY <1>1, <1>2, <1>3, <1>4, <1>5, <1>6, <1>7, <1>8, <1>9, <1>10, <1>11, SelectionCases,
     RestoringCases

LEMMA ShapeInit == SelectionInit => Shape
<1> SUFFICES ASSUME SelectionInit
             PROVE  Shape
  OBVIOUS
<1> DEFINE none == [r \in AnyRole |-> Absent]
           first == CHOOSE o \in Overrides : TRUE
<1>1. native = [roles |-> none, chains |-> none, overrides |-> first] /\ before = native
  BY DEF SelectionInit
<1> HIDE DEF none, first
<1>2. DOMAIN native = Fields /\ DOMAIN before = Fields
  BY <1>1 DEF Fields, Keys
<1>3. at = "idle" /\ writes = <<>> /\ failed = {}
  BY DEF SelectionInit
<1> QED
  BY <1>2, <1>3 DEF Shape

-----------------------------------------------------------------------------
(* What the policy does not manage *)

Others(roles) == \A r \in OtherRole : roles[r] = native.roles[r]
OtherChains(chains) == \A r \in OtherRole : chains[r] = native.chains[r]

\* Unless the user edits, what a run has read and planned is, where the policy
\* does not manage it, as the configuration is.
OthersKept ==
    ~edited /\ at # "idle" =>
        /\ Others(before.roles)
        /\ at # "plan" => /\ OtherChains(before.chains)
                          /\ Others(target.roles) /\ OtherChains(target.chains)

\* A role that is not managed keeps its primary and its chain in any plan.
LEMMA PlanOthers ==
    ASSUME NEW p, NEW estimates, NEW roles, NEW chains, NEW now, NEW r \in OtherRole
    PROVE  /\ PlanRoles(p, estimates, roles, now)[r] = roles[r]
           /\ PlanChains(p, estimates, roles, chains, now)[r] = chains[r]
<1>1. r \in AnyRole /\ r \notin Role
  BY RoleAssumption DEF AnyRole
<1> QED
  BY <1>1 DEF PlanRoles, PlanChains

LEMMA OthersStep ==
    Shape /\ OthersKept /\ [SelectionNext]_ompVars
      => /\ OthersKept'
         /\ ~edited' =>
               \A r \in OtherRole : /\ native'.roles[r] = native.roles[r]
                                    /\ native'.chains[r] = native.chains[r]
<1> DEFINE Kept == ~edited' =>
               \A r \in OtherRole : /\ native'.roles[r] = native.roles[r]
                                    /\ native'.chains[r] = native.chains[r]
<1> SUFFICES ASSUME Shape, OthersKept, [SelectionNext]_ompVars PROVE OthersKept' /\ Kept
  OBVIOUS
<1>1. DOMAIN native = Fields /\ DOMAIN before = Fields
  BY DEF Shape
<1>2. CASE Start
  BY <1>1, <1>2, StartFacts DEF OthersKept, Others
<1>3. ASSUME NEW s \in Situations, Planning(s) PROVE OthersKept' /\ Kept
  <2>1. /\ at = "plan" /\ UNCHANGED <<native, edited>>
        /\ before'.roles = before.roles /\ before'.chains = native.chains
    BY <1>1, <1>3, PlanFacts
  <2>2. ~edited => Others(before.roles)
    BY <2>1 DEF OthersKept
  <2>3. ASSUME ~edited, NEW r \in OtherRole
        PROVE  target'.roles[r] = native.roles[r] /\ target'.chains[r] = native.chains[r]
    <3> DEFINE roles == PlanRoles(Policy, s.runway, before.roles, s.now)
               chains == PlanChains(Policy, s.runway, before.roles, native.chains, s.now)
    <3>1. target'.roles = roles /\ target'.chains = chains
      BY <1>1, <1>3, PlanFacts
    <3>2. roles[r] = before.roles[r] /\ chains[r] = native.chains[r]
      BY PlanOthers
    <3> HIDE DEF roles, chains
    <3> QED
      BY <2>2, <2>3, <3>1, <3>2 DEF Others
  <2> QED
    BY <2>1, <2>2, <2>3 DEF OthersKept, Others, OtherChains
<1>4. CASE Look
  <2>1. /\ at = "compare" /\ at' = "compare" /\ UNCHANGED <<native, target, edited>>
        /\ Head(todo) \in Fields /\ Reads(Head(todo))
    BY <1>4, LookFacts
  <2>2. /\ before'.roles \in {before.roles, native.roles}
        /\ before'.chains \in {before.chains, native.chains}
    BY <1>1, <2>1, ReadsFacts DEF Fields, Keys
  <2> QED
    BY <2>1, <2>2 DEF OthersKept, Others, OtherChains
<1>5. CASE Compare
  BY <1>5, CompareFacts DEF OthersKept, Others, OtherChains
<1>6. ASSUME NEW key \in Keys, Puts(key, target[key]) \/ Puts(key, before[key]),
             UNCHANGED <<target, before, edited>>, at \notin {"idle", "plan"}
      PROVE  OthersKept' /\ Kept
  <2>1. CASE key = "roles"
    BY <1>1, <1>6, <2>1, PutsFacts DEF OthersKept, Others, OtherChains
  <2>2. CASE key = "chains"
    BY <1>1, <1>6, <2>2, PutsFacts DEF OthersKept, Others, OtherChains
  <2> QED
    BY <2>1, <2>2 DEF Keys
<1>7. CASE Writing
  BY <1>6, <1>7, WritingFacts
<1>8. CASE Rollback
  BY <1>6, <1>8, RollbackFacts
<1>9. CASE Passing
  BY <1>6, <1>9, PassingFacts
<1>10. CASE Checking \/ Closing
  BY <1>10, CheckingFacts, ClosingFacts DEF OthersKept, Others, OtherChains
<1>11. CASE Edits
  BY <1>1, <1>11, EditsFacts DEF OthersKept
<1>12. CASE UNCHANGED ompVars
  BY <1>12 DEF ompVars, OthersKept, Others, OtherChains
<1> QED
  BY <1>2, <1>3, <1>4, <1>5, <1>7, <1>8, <1>9, <1>10, <1>11, <1>12, SelectionCases,
     RestoringCases

\* A run leaves the roles the policy does not manage as they are, applied,
\* rolled back or cut short (select_models, SelectionApplier.apply).
THEOREM UnmanagedRolesKept == SelectionSpec => UnmanagedKept
<1>1. SelectionInit => OthersKept
  BY DEF SelectionInit, OthersKept
<1> QED
  BY <1>1, ShapeInit, ShapeStep, OthersStep, PTL DEF SelectionSpec, UnmanagedKept

-----------------------------------------------------------------------------
(* Receipts *)

\* What the applier has read, written and restored, but for what was edited since.
Found == \A k \in Fields \ (stale \cup ToSet(todo)) : native[k] = before[k]
Written ==
    /\ \A k \in Keys \ (stale \cup ToSet(todo)) : native[k] = target[k]
    /\ "overrides" \notin stale => native["overrides"] = before["overrides"]
HoldsPlan == \A k \in Fields \ stale : native[k] = Planned(k)
Unwritten == \A k \in Keys \ ToSet(writes) : target[k] = before[k]
PartRestored == \A k \in Keys \ (stale \cup failed \cup ToSet(todo)) : native[k] = before[k]

ReceiptKept ==
    /\ receipt # "" => at = "idle"
    /\ at = "compare" => Found
    /\ at = "set" => Written
    /\ at \in {"verify", "applied"} => HoldsPlan
    /\ at \in {"set", "verify"} => Unwritten
    /\ at \in {"rollback", "confirm", "undone"} => PartRestored
    /\ ReceiptTrue

\* A key that keeps its value is edited or as it was.
LEMMA ReceiptEdit ==
    ASSUME ReceiptKept, NEW k \in Fields, stale' = stale \cup {k},
           \A l \in Fields \ {k} : native'[l] = native[l],
           UNCHANGED <<at, target, before, writes, todo, failed, receipt>>
    PROVE  ReceiptKept'
<1>1. Keys \subseteq Fields /\ "overrides" \in Fields
  BY DEF Fields
<1>2. Found => Found'
  BY DEF Found
<1>3. Written => Written'
  BY <1>1 DEF Written
<1>4. HoldsPlan => HoldsPlan'
  BY DEF HoldsPlan, Planned
<1>5. PartRestored => PartRestored'
  BY <1>1 DEF PartRestored
<1>6. ReceiptTrue => ReceiptTrue'
  BY <1>1 DEF ReceiptTrue, Planned
<1>7. Unwritten => Unwritten'
  BY DEF Unwritten
<1> QED
  BY <1>2, <1>3, <1>4, <1>5, <1>6, <1>7 DEF ReceiptKept

\* The keys are written one after the other; a failure is rolled back.
LEMMA ReceiptWriting == Shape /\ ReceiptKept /\ Writing => ReceiptKept'
<1> SUFFICES ASSUME Shape, ReceiptKept, Writing PROVE ReceiptKept'
  OBVIOUS
<1> DEFINE key == Head(todo)
<1>1. /\ at = "set" /\ todo \in Orders /\ writes \in Orders /\ key \in Keys /\ receipt = ""
      /\ Puts(key, target[key]) /\ ToSet(todo) \subseteq ToSet(writes)
      /\ ToSet(todo) = {key} \cup ToSet(Tail(todo)) /\ ToSet(<<>>) = {}
      /\ DOMAIN native = Fields
      /\ UNCHANGED <<target, before, writes, failed, receipt, edited>>
      /\ Written /\ Unwritten
  BY WritingFacts, NextKey DEF Shape, ReceiptKept
<1>2. Keys \subseteq Fields /\ "overrides" \in Fields /\ "overrides" \notin Keys
      /\ Fields = Keys \cup {"overrides"}
  BY DEF Fields, Keys
<1>3. \A k \in Fields \ {key} : native'[k] = native[k]
  BY <1>1, PutsFacts
<1>4. Unwritten'
  BY <1>1 DEF Unwritten
<1>5. CASE at' = "rollback" /\ todo' = Reverse(writes) /\ stale' = stale
  <2>1. ToSet(todo') = ToSet(writes)
    BY <1>1, <1>5, ReverseOrders
  <2>2. PartRestored'
    BY <1>1, <1>2, <1>3, <1>5, <2>1 DEF Written, Unwritten, PartRestored
  <2> QED
    BY <1>1, <1>5, <2>2 DEF ReceiptKept, ReceiptTrue
<1>6. ASSUME native' = [native EXCEPT ![key] = target[key]], stale' = stale \ {key}
      PROVE  /\ \A k \in Keys \ (stale' \cup ToSet(Tail(todo))) : native'[k] = target'[k]
             /\ "overrides" \notin stale' => native'["overrides"] = before'["overrides"]
  <2>1. native'[key] = target[key]
    BY <1>1, <1>2, <1>6, PutFacts
  <2> QED
    BY <1>1, <1>2, <1>3, <1>6, <2>1 DEF Written
<1>7. CASE /\ native' = [native EXCEPT ![key] = target[key]] /\ stale' = stale \ {key}
           /\ at' = "set" /\ todo' = Tail(todo)
  <2>1. Written'
    BY <1>6, <1>7 DEF Written
  <2> QED
    BY <1>1, <1>4, <1>7, <2>1 DEF ReceiptKept, ReceiptTrue
<1>8. CASE /\ native' = [native EXCEPT ![key] = target[key]] /\ stale' = stale \ {key}
           /\ at' = "verify" /\ Tail(todo) = <<>>
  <2>1. HoldsPlan'
    BY <1>1, <1>2, <1>6, <1>8 DEF HoldsPlan, Planned
  <2> QED
    BY <1>1, <1>4, <1>8, <2>1 DEF ReceiptKept, ReceiptTrue
<1> QED
  BY <1>5, <1>7, <1>8, WritingFacts

\* What is read back is planned, or everything written is restored.
LEMMA ReceiptChecking == Shape /\ ReceiptKept /\ Checking => ReceiptKept'
<1> SUFFICES ASSUME Shape, ReceiptKept, Checking PROVE ReceiptKept'
  OBVIOUS
<1> DEFINE key == Head(todo)
<1>1. /\ at = "verify" /\ writes \in Orders /\ todo \in Checks /\ key \in Fields /\ receipt = ""
      /\ ToSet(todo) \subseteq ToSet(writes) \cup {"overrides"}
      /\ ToSet(todo) = {key} \cup ToSet(Tail(todo))
      /\ UNCHANGED <<native, target, before, writes, failed, receipt, edited>>
      /\ HoldsPlan /\ Unwritten
  BY CheckingFacts, NextCheck DEF ReceiptKept
<1>2. Keys \subseteq Fields /\ "overrides" \notin Keys
  BY DEF Fields, Keys
<1>3. Unwritten'
  BY <1>1 DEF Unwritten
<1>4. CASE /\ native[key] = Planned(key) /\ stale' = stale \ {key}
           /\ at' = IF Tail(todo) = <<>> THEN "applied" ELSE "verify"
  <2>1. HoldsPlan'
    BY <1>1, <1>4 DEF HoldsPlan, Planned
  <2> QED
    BY <1>1, <1>3, <1>4, <2>1 DEF ReceiptKept, ReceiptTrue
<1>5. CASE /\ at' = "rollback" /\ todo' = Reverse(writes)
           /\ stale' \in {stale, stale \ {key}}
  <2>1. ToSet(todo') = ToSet(writes)
    BY <1>1, <1>5, ReverseOrders
  <2>2. ASSUME NEW k \in Keys \ (stale' \cup failed' \cup ToSet(todo'))
        PROVE  native'[k] = before'[k]
    <3>1. k \notin stale /\ k \in Keys \ ToSet(writes) /\ k \in Fields
      BY <1>1, <1>2, <1>5, <2>1
    <3>2. native[k] = target[k] /\ target[k] = before[k]
      BY <1>1, <3>1 DEF HoldsPlan, Planned, Unwritten
    <3> QED
      BY <1>1, <3>2
  <2> QED
    BY <1>1, <1>5, <2>2 DEF ReceiptKept, ReceiptTrue, PartRestored
<1> QED
  BY <1>4, <1>5, CheckingFacts

\* A rollback has restored what it has come past, or knows what it could not.
LEMMA ReceiptRestoring == Shape /\ ReceiptKept /\ (Rollback \/ Passing) => ReceiptKept'
<1> SUFFICES ASSUME Shape, ReceiptKept, Rollback \/ Passing PROVE ReceiptKept'
  OBVIOUS
<1> DEFINE key == Head(todo)
<1>1. /\ at \in {"rollback", "confirm"} /\ todo \in Backward /\ key \in Keys /\ receipt = ""
      /\ ToSet(todo) = {key} \cup ToSet(Tail(todo)) /\ ToSet(<<>>) = {}
      /\ Puts(key, before[key]) /\ DOMAIN native = Fields
      /\ UNCHANGED <<target, before, writes, receipt>>
      /\ stale' \in {stale, stale \ {key}} /\ PartRestored
  BY RollbackFacts, PassingFacts, NextKey DEF Shape, ReceiptKept
<1>2. Keys \subseteq Fields
  BY DEF Fields
<1>3. \A k \in Keys \ {key} : native'[k] = native[k]
  BY <1>1, <1>2, PutsFacts
<1>4. CASE Rollback
  <2>1. at' = "confirm" /\ todo' = todo /\ failed' = failed
    BY <1>4, RollbackFacts
  <2>2. PartRestored'
    BY <1>1, <1>3, <2>1 DEF PartRestored
  <2> QED
    BY <1>1, <2>1, <2>2 DEF ReceiptKept, ReceiptTrue
<1>5. CASE Passing
  <2>1. /\ at' \in {"rollback", "undone"} /\ todo' = Tail(todo) /\ failed \subseteq failed'
        /\ key \in failed' \/ native'[key] = before'[key]
    BY <1>1, <1>5, PassingFacts
  <2>2. PartRestored'
    BY <1>1, <1>3, <2>1 DEF PartRestored
  <2> QED
    BY <1>1, <2>1, <2>2 DEF ReceiptKept, ReceiptTrue
<1> QED
  BY <1>4, <1>5

LEMMA ReceiptStep == Shape /\ ReceiptKept /\ [SelectionNext]_ompVars => ReceiptKept'
<1> SUFFICES ASSUME Shape, ReceiptKept, [SelectionNext]_ompVars PROVE ReceiptKept'
  OBVIOUS
<1>1. DOMAIN native = Fields /\ DOMAIN before = Fields
  BY DEF Shape
<1>2. CASE Start
  <2>1. at' = "plan" /\ receipt' = ""
    BY <1>1, <1>2, StartFacts
  <2> QED
    BY <2>1 DEF ReceiptKept, ReceiptTrue
<1>3. ASSUME NEW s \in Situations, Planning(s) PROVE ReceiptKept'
  <2>1. /\ at' \in {"idle", "compare"} /\ receipt' \in {"", "dry-run"}
        /\ at' = "compare" => receipt' = ""
        /\ ToSet(todo') = Fields
    BY <1>1, <1>3, PlanFacts, LongMembers DEF Fields, Keys
  <2>2. Found'
    BY <2>1 DEF Found
  <2> QED
    BY <2>1, <2>2 DEF ReceiptKept, ReceiptTrue
<1>4. CASE Look
  <2> DEFINE key == Head(todo)
  <2>1. /\ at = "compare" /\ at' = "compare" /\ receipt' = "" /\ native' = native
        /\ key \in Fields /\ Reads(key) /\ todo' = Tail(todo)
        /\ ToSet(todo) = {key} \cup ToSet(Tail(todo)) /\ Found
    BY <1>4, LookFacts, NextLook DEF ReceiptKept
  <2>2. /\ before'[key] = native[key] /\ stale' = stale \ {key}
        /\ \A k \in Fields \ {key} : before'[k] = before[k]
    BY <1>1, <2>1, ReadsFacts
  <2>3. Found'
    BY <2>1, <2>2 DEF Found
  <2> QED
    BY <2>1, <2>3 DEF ReceiptKept, ReceiptTrue
<1>5. CASE Compare
  <2>1. /\ at = "compare" /\ todo = <<>> /\ ToSet(<<>>) = {} /\ todo' = writes'
        /\ UNCHANGED <<native, target, before, failed, receipt, edited, stale>>
        /\ receipt' = "" /\ Found
    BY <1>5, CompareFacts, Members DEF ReceiptKept
  <2>2. \A k \in Keys : k \in ToSet(writes') <=> target[k] # before[k]
    BY <1>5, CompareFacts DEF Keys
  <2>3. Keys \subseteq Fields /\ "overrides" \in Fields /\ "overrides" \notin Keys
        /\ Fields = Keys \cup {"overrides"}
    BY DEF Fields, Keys
  <2>4. Written' /\ Unwritten'
    BY <2>1, <2>2, <2>3 DEF Found, Written, Unwritten
  <2>5. CASE at' = "set"
    BY <2>1, <2>4, <2>5 DEF ReceiptKept, ReceiptTrue
  <2>6. CASE at' = "applied" /\ writes' = <<>>
    <3>1. HoldsPlan'
      BY <2>1, <2>2, <2>3, <2>6 DEF Found, HoldsPlan, Planned
    <3> QED
      BY <2>1, <2>6, <3>1 DEF ReceiptKept, ReceiptTrue
  <2> QED
    BY <1>5, <2>5, <2>6, CompareFacts
<1>6. CASE Writing
  BY <1>6, ReceiptWriting
<1>7. CASE Checking
  BY <1>7, ReceiptChecking
<1>8. CASE Restoring
  BY <1>8, RestoringCases, ReceiptRestoring
<1>9. CASE Closing
  <2>1. /\ at' = "idle" /\ at # "idle" /\ receipt = ""
        /\ UNCHANGED <<native, target, before, writes, todo, failed, edited, stale>>
    BY <1>9, ClosingFacts DEF ReceiptKept
  <2>2. CASE receipt' \notin {"ok", "rolled-back"}
    BY <2>1, <2>2 DEF ReceiptKept, ReceiptTrue
  <2>3. CASE at = "applied" /\ receipt' = "ok"
    BY <2>1, <2>3 DEF ReceiptKept, ReceiptTrue, HoldsPlan, Planned
  <2>4. CASE at = "undone" /\ receipt' = "rolled-back" /\ failed = {}
    <3>1. ToSet(todo) = {}
      BY <2>4, Members DEF Shape
    <3> QED
      BY <2>1, <2>4, <3>1 DEF ReceiptKept, ReceiptTrue, PartRestored
  <2> QED
    BY <1>9, <2>1, <2>2, <2>3, <2>4, ClosingFacts
<1>10. CASE Edits
  <2>1. PICK k \in Fields : /\ stale' = stale \cup {k}
                            /\ \A l \in Fields \ {k} : native'[l] = native[l]
    BY <1>1, <1>10, EditsFacts
  <2>2. UNCHANGED <<at, target, before, writes, todo, failed, receipt>>
    BY <1>1, <1>10, EditsFacts
  <2> QED
    BY <2>1, <2>2, ReceiptEdit
<1>11. CASE UNCHANGED ompVars
  BY <1>11 DEF ompVars, ReceiptKept, ReceiptTrue, Found, Written, HoldsPlan, Unwritten,
               PartRestored, Planned
<1> QED
  BY <1>2, <1>3, <1>4, <1>5, <1>6, <1>7, <1>8, <1>9, <1>10, <1>11, SelectionCases

\* A receipt says what the configuration holds, but for the keys the user edited
\* after the run last looked at them (SelectionApplier.apply, _rollback, _run).
THEOREM ReceiptsTrue == SelectionSpec => []ReceiptTrue
<1>1. SelectionInit => ReceiptKept
  BY DEF SelectionInit, ReceiptKept, ReceiptTrue
<1>2. ReceiptKept => ReceiptTrue
  BY DEF ReceiptKept
<1> QED
  BY <1>1, <1>2, ShapeInit, ShapeStep, ReceiptStep, PTL DEF SelectionSpec

-----------------------------------------------------------------------------
(* The order of the two keys *)

OldRoles == native.roles = before.roles
NewChains == native.chains = target.chains

\* Unless the user edits: new roles need new chains at every step, and a
\* rollback that finds new roles restores them first.
OrderKept ==
    ~edited /\ "roles" \notin failed =>
        /\ OldRoles \/ NewChains
        /\ at \in {"plan", "compare", "set", "confirm"} => OldRoles
        /\ at = "compare" => "chains" \in ToSet(todo) \/ native.chains = before.chains
        /\ at = "set" => "chains" \in ToSet(todo) \/ NewChains
        /\ at = "verify" => NewChains /\ (OldRoles \/ "roles" \in ToSet(writes))
        /\ at = "rollback" => OldRoles \/ Head(todo) = "roles"
LEMMA OrderWriting ==
    ASSUME Shape, OrderKept, Writing, ~edited, "roles" \notin failed
    PROVE  OrderKept'
<1>1. /\ at = "set" /\ todo \in Orders /\ writes \in Orders /\ Head(todo) \in Keys
      /\ ToSet(todo) \subseteq ToSet(writes) /\ DOMAIN native = Fields
      /\ UNCHANGED <<target, before, writes, failed, edited>>
      /\ OldRoles /\ ("chains" \in ToSet(todo) \/ NewChains)
  BY WritingFacts DEF Shape, OrderKept
<1>2. "chains" \in Fields /\ "roles" \in Fields
  BY DEF Fields, Keys
<1>3. CASE Head(todo) = "chains"
  <2>1. OldRoles'
    BY <1>1, <1>3, WritingFacts, PutsFacts DEF OldRoles
  <2>2. CASE at' = "rollback"
    BY <2>1, <2>2 DEF OrderKept
  <2>3. CASE native' = [native EXCEPT !["chains"] = target["chains"]] /\ at' \in {"set", "verify"}
    <3>1. NewChains'
      BY <1>1, <1>2, <2>3, PutFacts DEF NewChains
    <3> QED
      BY <2>1, <2>3, <3>1 DEF OrderKept
  <2> QED
    BY <1>3, <2>2, <2>3, WritingFacts
<1>4. CASE Head(todo) = "roles"
  <2>1. todo = <<"roles">> /\ Tail(todo) = <<>>
    BY <1>1, <1>4, Heads DEF Orders
  <2>2. NewChains /\ "roles" \in ToSet(writes)
    BY <1>1, <2>1, Members
  <2>3. NewChains'
    BY <1>1, <1>4, <2>2, WritingFacts, PutsFacts DEF NewChains
  <2>4. at' = "verify" \/ (at' = "rollback" /\ Head(todo') = "roles")
    BY <1>1, <2>1, <2>2, WritingFacts, ReverseOrders
  <2> QED
    BY <1>1, <2>2, <2>3, <2>4 DEF OrderKept
<1> QED
  BY <1>1, <1>3, <1>4 DEF Keys

LEMMA OrderStep == Shape /\ OrderKept /\ [SelectionNext]_ompVars => OrderKept'
<1> SUFFICES ASSUME Shape, OrderKept, [SelectionNext]_ompVars, ~edited', "roles" \notin failed'
             PROVE  OrderKept'
  BY DEF OrderKept
<1>1. DOMAIN native = Fields /\ DOMAIN before = Fields
  BY DEF Shape
<1>2. "chains" \in Fields /\ "roles" \in Fields
  BY DEF Fields, Keys
<1>3. CASE Start
  <2>1. OldRoles' /\ at' = "plan"
    BY <1>1, <1>3, StartFacts DEF OldRoles
  <2> QED
    BY <2>1 DEF OrderKept
<1>4. ASSUME NEW s \in Situations, Planning(s) PROVE OrderKept'
  <2>1. /\ at = "plan" /\ at' \in {"idle", "compare"} /\ ~edited /\ "roles" \notin failed
        /\ native' = native /\ before'.roles = before.roles
        /\ "chains" \in ToSet(todo')
    BY <1>1, <1>4, PlanFacts, LongMembers
  <2>2. OldRoles
    BY <2>1 DEF OrderKept
  <2>3. OldRoles'
    BY <2>1, <2>2 DEF OldRoles
  <2> QED
    BY <2>1, <2>3 DEF OrderKept
<1>5. CASE Look
  <2>1. /\ at = "compare" /\ at' = "compare" /\ ~edited /\ "roles" \notin failed
        /\ Head(todo) \in {"roles", "chains", "overrides"} /\ Reads(Head(todo))
        /\ UNCHANGED <<native, target>> /\ todo' = Tail(todo)
        /\ Head(todo) # "chains" => ("chains" \in ToSet(todo') <=> "chains" \in ToSet(todo))
    <3>1. /\ at = "compare" /\ UNCHANGED <<at, native, target, failed, edited>>
          /\ todo \in Looks /\ todo # <<>> /\ todo' = Tail(todo)
          /\ Head(todo) \in Fields /\ Reads(Head(todo))
      BY <1>5, LookFacts
    <3>2. Head(todo) # "chains" => ("chains" \in ToSet(Tail(todo)) <=> "chains" \in ToSet(todo))
      BY <3>1, NextLook
    <3>3. Head(todo) \in {"roles", "chains", "overrides"}
      BY <3>1 DEF Fields, Keys
    <3> QED
      BY <3>1, <3>2, <3>3
  <2>2. /\ OldRoles
        /\ "chains" \in ToSet(todo) \/ native.chains = before.chains
    BY <2>1 DEF OrderKept
  <2>3. before'.roles \in {before.roles, native.roles}
        /\ before'.chains = IF Head(todo) = "chains" THEN native.chains ELSE before.chains
    BY <1>1, <1>2, <2>1, ReadsFacts DEF Fields
  <2>4. OldRoles' /\ ("chains" \in ToSet(todo') \/ native'.chains = before'.chains)
    BY <2>1, <2>2, <2>3 DEF OldRoles
  <2> QED
    BY <2>1, <2>4 DEF OrderKept
<1>6. CASE Compare
  <2>1. /\ at = "compare" /\ ~edited /\ "roles" \notin failed /\ todo = <<>>
        /\ UNCHANGED <<native, target, before>> /\ at' \in {"set", "applied"}
        /\ todo' = writes' /\ ("chains" \in ToSet(writes') <=> target.chains # before.chains)
    BY <1>6, CompareFacts
  <2>2. OldRoles /\ native.chains = before.chains
    BY <2>1, Members DEF OrderKept
  <2>3. OldRoles' /\ ("chains" \in ToSet(todo') \/ NewChains')
    BY <2>1, <2>2 DEF OldRoles, NewChains
  <2> QED
    BY <2>1, <2>3 DEF OrderKept
<1>7. CASE Writing
  <2>1. ~edited /\ "roles" \notin failed
    BY <1>7, WritingFacts
  <2> QED
    BY <1>7, <2>1, OrderWriting
<1>8. CASE Checking
  <2>1. /\ at = "verify" /\ ~edited /\ "roles" \notin failed /\ writes \in Orders
        /\ UNCHANGED <<native, target, before, writes>>
        /\ NewChains /\ (OldRoles \/ "roles" \in ToSet(writes))
        /\ at' \in {"applied", "verify"} \/ (at' = "rollback" /\ todo' = Reverse(writes))
    BY <1>8, CheckingFacts DEF OrderKept
  <2>2. NewChains' /\ (OldRoles' <=> OldRoles)
    BY <2>1 DEF NewChains, OldRoles
  <2>3. at' = "rollback" => OldRoles' \/ Head(todo') = "roles"
    BY <2>1, <2>2, ReverseOrders
  <2> QED
    BY <2>1, <2>2, <2>3 DEF OrderKept
<1>9. CASE Rollback
  <2>1. /\ at = "rollback" /\ at' = "confirm" /\ ~edited /\ "roles" \notin failed
        /\ Head(todo) \in Keys /\ UNCHANGED <<target, before>>
        /\ native' = [native EXCEPT ![Head(todo)] = before[Head(todo)]]
        /\ OldRoles \/ Head(todo) = "roles"
    BY <1>9, RollbackFacts DEF OrderKept
  <2>2. OldRoles'
    BY <1>1, <1>2, <2>1, PutFacts DEF OldRoles, Keys
  <2> QED
    BY <2>1, <2>2 DEF OrderKept
<1>10. CASE Passing
  <2>1. /\ at' \in {"rollback", "undone"} /\ ~edited /\ "roles" \notin failed
        /\ Head(todo) \in Keys /\ UNCHANGED <<target, before>>
        /\ Puts(Head(todo), before[Head(todo)])
        /\ Head(todo) = "roles" => at = "confirm" /\ native' = native
        /\ (at = "confirm" => OldRoles) /\ (at = "rollback" => OldRoles \/ Head(todo) = "roles")
    BY <1>10, PassingFacts DEF OrderKept
  <2>2. OldRoles'
    BY <1>1, <1>10, <2>1, PassingFacts, PutsFacts DEF OldRoles, Keys
  <2> QED
    BY <2>1, <2>2 DEF OrderKept
<1>11. CASE Closing
  BY <1>11, ClosingFacts DEF OrderKept, OldRoles, NewChains
<1>12. CASE Edits
  BY <1>1, <1>12, EditsFacts
<1>13. CASE UNCHANGED ompVars
  BY <1>13 DEF ompVars, OrderKept, OldRoles, NewChains
<1> QED
  BY <1>3, <1>4, <1>5, <1>6, <1>7, <1>8, <1>9, <1>10, <1>11, <1>12, <1>13, SelectionCases,
     RestoringCases

LEMMA OrderInit == SelectionInit => OrderKept
BY DEF SelectionInit, OrderKept, OldRoles

\* New roles are in force only with the chains planned for them, wherever the
\* run is cut short (SelectionApplier.apply, _rollback).
THEOREM ChainsComeFirst == SelectionSpec => []ChainsFirst
<1>1. OrderKept => ChainsFirst
  BY DEF OrderKept, ChainsFirst, OldRoles, NewChains
<1> QED
  BY <1>1, OrderInit, ShapeInit, ShapeStep, OrderStep, PTL DEF SelectionSpec

-----------------------------------------------------------------------------
(* Folds over sequences *)

\* A fold over a sequence has it as the second part of its parameter.
Nth(p, i) == p[2][i]
LastOf(S) == Max(S)

IndexStep(p, e, best) ==
    IF e.account = p[1] /\ (best = Absent \/ Outranks(e, best)) THEN e ELSE best
OnlyStep(p, v, kept) == IF v \in p[1] THEN Append(kept, v) ELSE kept

Indexed == INSTANCE FoldInduction WITH Op <- IndexStep, Map <- Nth, Pick <- LastOf
Filtered == INSTANCE FoldInduction WITH Op <- OnlyStep, Map <- Nth, Pick <- LastOf

\* The maximum of some of the first numbers is one of them, and above them.
LEMMA Greatest ==
    ASSUME NEW n \in Nat, NEW S \in SUBSET (1 .. n), S # {}
    PROVE  LastOf(S) \in S /\ \A x \in S : x <= LastOf(S)
<1> DEFINE T == {n - x : x \in S}
<1>1. \A x \in S : x \in Nat /\ n - x \in Nat
  OBVIOUS
<1>2. PICK m \in T : \A k \in T : m <= k
  <2>1. T # {} /\ T \subseteq Nat
    BY <1>1
  <2> HIDE DEF T
  <2> QED
    BY <2>1, Indexed!LeastNumber
<1>3. PICK x \in S : m = n - x
  BY <1>2
<1>4. \A y \in S : x >= y
  <2> TAKE y \in S
  <2>1. n - y \in T /\ m <= n - y
    BY <1>2
  <2> HIDE DEF T
  <2> QED
    BY <1>1, <1>3, <2>1
<1> DEFINE z == CHOOSE z \in S : \A y \in S : z >= y
<1>5. z \in S /\ \A y \in S : z >= y
  BY <1>4
<1>6. LastOf(S) = z
  BY DEF LastOf, Max
<1> HIDE DEF z
<1> QED
  BY <1>1, <1>5, <1>6

\* A sequence is taken from its end.
LEMMA FromTheEnd ==
    ASSUME NEW n \in Nat
    PROVE  /\ IsFiniteSet(1 .. n)
           /\ \A T \in SUBSET (1 .. n) : T # {} => LastOf(T) \in T
           /\ n > 0 => LastOf(1 .. n) = n
<1>1. n > 0 => LastOf(1 .. n) = n
  <2> SUFFICES ASSUME n > 0
               PROVE  LastOf(1 .. n) = n
    OBVIOUS
  <2>1. n \in 1 .. n /\ 1 .. n \in SUBSET (1 .. n)
    OBVIOUS
  <2>2. LastOf(1 .. n) \in 1 .. n /\ n <= LastOf(1 .. n)
    BY <2>1, Greatest
  <2> QED
    BY <2>2
<1>2. \A T \in SUBSET (1 .. n) : T # {} => LastOf(T) \in T
  BY Greatest
<1>3. IsFiniteSet(1 .. n)
  BY FS_Interval
<1> QED
  BY <1>1, <1>2, <1>3

LEMMA IndexedLast == Indexed!LastFirst
BY FromTheEnd DEF Indexed!LastFirst, Indexed!Choosable, Indexed!IsFiniteSet, IsFiniteSet

LEMMA FilteredLast == Filtered!LastFirst
BY FromTheEnd DEF Filtered!LastFirst, Filtered!Choosable, Filtered!IsFiniteSet, IsFiniteSet

LEMMA IndexIsFold ==
    ASSUME NEW estimates, NEW account
    PROVE  Index(estimates, account)
             = Indexed!Fold(<<account, estimates>>, Absent, DOMAIN estimates)
BY DEF Index, FoldLeft, MapThenFoldSet, Indexed!Fold, Indexed!MapThenFoldSet, IndexStep, Nth,
       LastOf

LEMMA OnlyIsFold ==
    ASSUME NEW s, NEW T
    PROVE  Only(s, T) = Filtered!Fold(<<T, s>>, <<>>, DOMAIN s)
BY DEF Only, FoldLeft, MapThenFoldSet, Filtered!Fold, Filtered!MapThenFoldSet, OnlyStep, Nth,
       LastOf

\* A filtered sequence has no value that the sequence does not have.
LEMMA OnlyType ==
    ASSUME NEW V, NEW s \in Seq(V), NEW T
    PROVE  Only(s, T) \in Seq(V)
<1> DEFINE p == <<T, s>>
<1>1. DOMAIN s = 1 .. Len(s) /\ Len(s) \in Nat /\ \A i \in DOMAIN s : Nth(p, i) \in V
  BY DEF Nth
<1>2. \A i \in DOMAIN s : \A kept \in Seq(V) : OnlyStep(p, Nth(p, i), kept) \in Seq(V)
  BY <1>1 DEF OnlyStep
<1>3. Filtered!Choosable(DOMAIN s)
  BY <1>1, FilteredLast DEF Filtered!LastFirst
<1>4. Filtered!Fold(p, <<>>, DOMAIN s) \in Seq(V)
  <2>1. <<>> \in Seq(V)
    OBVIOUS
  <2> DEFINE W == Seq(V)
             D == DOMAIN s
  <2>2. <<>> \in W /\ \A i \in D : \A kept \in W : OnlyStep(p, Nth(p, i), kept) \in W
    BY <1>2, <2>1
  <2> HIDE DEF p, W, D
  <2>3. Filtered!Fold(p, <<>>, D) \in W
    BY <1>3, <2>2, Filtered!FoldKept DEF D
  <2> QED
    BY <2>3 DEF W, D
<1> QED
  BY <1>4, OnlyIsFold

-----------------------------------------------------------------------------
(* The first rung *)

\* A reading that no other of the account outranks, among the first k.
Tops(estimates, account, k) ==
    {e \in Reading \cup {Absent} :
        /\ e = Absent => \A i \in 1 .. k : estimates[i].account # account
        /\ e # Absent =>
             /\ \E i \in 1 .. k : estimates[i] = e
             /\ e.account = account
             /\ \A i \in 1 .. k : estimates[i].account = account => ~Outranks(estimates[i], e)}

\* To outrank is a weak order: who outranks a reading that is not outranked
\* is not outranked either.
LEMMA OutranksOrder ==
    ASSUME NEW d \in Reading, NEW e \in Reading, NEW f \in Reading
    PROVE  /\ ~Outranks(e, e)
           /\ Outranks(e, f) /\ ~Outranks(d, f) => ~Outranks(d, e)
BY DEF Outranks, Reading

LEMMA IndexTops ==
    ASSUME SituationsAssumption, NEW estimates \in Seq(Reading), NEW account
    PROVE  Index(estimates, account) \in Tops(estimates, account, Len(estimates))
<1> DEFINE n == Len(estimates)
           p == <<account, estimates>>
           T == [k \in 0 .. n |-> Tops(estimates, account, k)]
<1>1. n \in Nat /\ DOMAIN estimates = 1 .. n /\ \A i \in 1 .. n : estimates[i] \in Reading
  OBVIOUS
<1>2. Absent \in T[0]
  BY <1>1 DEF Tops
<1>3. ASSUME NEW k \in 0 .. (n - 1), NEW best \in T[k]
      PROVE  IndexStep(p, Nth(p, k + 1), best) \in T[k + 1]
  <2> DEFINE m == k + 1
             e == estimates[m]
  <2>1. /\ k \in Nat /\ m \in 1 .. n /\ 1 .. m = (1 .. k) \cup {m} /\ 1 .. k \subseteq 1 .. n
        /\ m \in 0 .. n /\ k \in 0 .. n
    BY <1>1
  <2>2. e \in Reading /\ Nth(p, m) = e /\ e # Absent
    BY <1>1, <2>1 DEF Nth, SituationsAssumption
  <2>3. best \in Tops(estimates, account, k) /\ T[m] = Tops(estimates, account, m)
    BY <2>1
  <2> HIDE DEF m, n, T
  <2>4. CASE e.account = account /\ (best = Absent \/ Outranks(e, best))
    <3>1. \A i \in 1 .. k : estimates[i].account = account => ~Outranks(estimates[i], e)
      <4>1. CASE best = Absent
        BY <2>3, <4>1 DEF Tops
      <4>2. CASE best # Absent
        <5>1. best \in Reading /\ Outranks(e, best)
          BY <2>3, <2>4, <4>2 DEF Tops
        <5>2. \A i \in 1 .. k : estimates[i] \in Reading
          BY <1>1, <2>1
        <5> HIDE DEF e
        <5> QED
          BY <2>2, <2>3, <4>2, <5>1, <5>2, OutranksOrder DEF Tops
      <4> QED
        BY <4>1, <4>2
    <3>2. \A i \in 1 .. m : estimates[i].account = account => ~Outranks(estimates[i], e)
      BY <2>1, <2>2, <3>1, OutranksOrder
    <3>3. e \in Tops(estimates, account, m)
      BY <2>1, <2>2, <2>4, <3>2 DEF Tops
    <3>4. IndexStep(p, e, best) = e
      BY <2>4 DEF IndexStep
    <3> QED
      BY <2>2, <2>3, <3>3, <3>4 DEF m
  <2>5. CASE ~(e.account = account /\ (best = Absent \/ Outranks(e, best)))
    <3>1. best \in Tops(estimates, account, m)
      BY <2>1, <2>3, <2>5 DEF Tops
    <3>2. IndexStep(p, e, best) = best
      BY <2>5 DEF IndexStep
    <3> QED
      BY <2>2, <2>3, <3>1, <3>2 DEF m
  <2> QED
    BY <2>4, <2>5
<1>4. Indexed!Fold(p, Absent, 1 .. n) \in T[n]
  <2> HIDE DEF p, T, n
  <2> QED
    BY <1>1, <1>2, <1>3, IndexedLast, Indexed!FoldThrough
<1> QED
  BY <1>1, <1>4, IndexIsFold

\* The estimate of an account is the strictest of its freshest readings.
LEMMA IndexFreshest ==
    ASSUME situation \in Situations, NEW account, NEW e,
           e = Index(situation.runway, account)
    PROVE  /\ e = Absent => Freshest(account) = {}
           /\ e # Absent =>
                /\ e \in Freshest(account) /\ e \in Reading
                /\ \A f \in Freshest(account) :
                      /\ f \in Reading /\ f.time = e.time /\ f.account = account
                      /\ e.reported => f.reported /\ f.used <= e.used
<1> DEFINE readings == situation.runway
           n == Len(readings)
<1>1. readings \in Seq(Reading)
  BY SituationsAssumption DEF SituationsAssumption
<1>2. /\ n \in Nat /\ ToSet(readings) = {readings[i] : i \in 1 .. n}
      /\ ToSet(readings) \subseteq Reading
  BY <1>1 DEF ToSet
<1>3. e \in Tops(readings, account, n)
  BY <1>1, SituationsAssumption, IndexTops
<1>4. /\ Freshest(account) \subseteq ToSet(readings)
      /\ \A f \in ToSet(readings) :
            f \in Freshest(account) <=>
                /\ f.account = account
                /\ \A g \in ToSet(readings) : g.account = account => g.time <= f.time
  BY DEF Freshest
<1> HIDE DEF readings, n
<1>5. CASE e = Absent
  <2>1. \A f \in ToSet(readings) : f.account # account
    BY <1>2, <1>3, <1>5 DEF Tops
  <2> QED
    BY <1>4, <1>5, <2>1
<1>6. CASE e # Absent
  <2>1. /\ e \in ToSet(readings) /\ e \in Reading /\ e.account = account
        /\ \A f \in ToSet(readings) : f.account = account => ~Outranks(f, e)
    BY <1>2, <1>3, <1>6 DEF Tops
  <2>2. \A f \in ToSet(readings) : f.account = account =>
           f.time <= e.time /\ (f.time = e.time /\ e.reported => f.reported /\ f.used <= e.used)
    BY <1>2, <2>1 DEF Outranks, Reading
  <2>3. e \in Freshest(account)
    BY <1>4, <2>1, <2>2
  <2>4. ASSUME NEW f \in Freshest(account)
        PROVE  /\ f \in Reading /\ f.time = e.time /\ f.account = account
               /\ e.reported => f.reported /\ f.used <= e.used
    <3>1. f \in ToSet(readings) /\ f \in Reading /\ f.account = account /\ e.time <= f.time
      BY <1>2, <1>4, <2>1
    <3>2. f.time <= e.time /\ f.time \in Nat /\ e.time \in Nat
      BY <2>1, <2>2, <3>1 DEF Reading
    <3>3. f.time = e.time
      BY <3>1, <3>2
    <3> QED
      BY <2>2, <3>1, <3>3
  <2> QED
    BY <1>6, <2>1, <2>3, <2>4
<1> QED
  BY <1>5, <1>6

\* What the engine finds eligible is what the deciding readings admit.
Judges ==
    situation \in Situations =>
        \A r \in Role, c \in Candidate :
            IF Eligible(Policy, r, c, situation.runway, situation.now)
            THEN Admits(r, c)
            ELSE Rejects(r, c)

LEMMA Judged == Judges
<1> SUFFICES ASSUME situation \in Situations, NEW r \in Role, NEW c \in Candidate
             PROVE  IF Eligible(Policy, r, c, situation.runway, situation.now)
                    THEN Admits(r, c)
                    ELSE Rejects(r, c)
  BY DEF Judges
<1> DEFINE account == Policy.catalog[c].account
           e == Index(situation.runway, account)
           funded == Funded(Policy, c, situation.runway, situation.now)
<1>1. Eligible(Policy, r, c, situation.runway, situation.now)
        <=> Qualified(r, c) /\ (Metered(c) => funded)
  BY DEF Eligible, Qualified, Metered
<1>2. funded <=> e # Absent /\ Within(e)
  <2>1. e # Absent => e.account = account
    BY IndexFreshest
  <2> QED
    BY <2>1 DEF Funded, Within
<1>3. /\ e = Absent => Meter(c) = {}
      /\ e # Absent => e \in Meter(c)
  BY IndexFreshest DEF Meter, Deciding
<1> HIDE DEF e, funded
<1>4. CASE Qualified(r, c) /\ (Metered(c) => funded)
  BY <1>1, <1>2, <1>3, <1>4 DEF Admits
<1>5. CASE ~Qualified(r, c)
  BY <1>1, <1>5 DEF Rejects
<1>6. CASE Metered(c) /\ ~funded
  BY <1>1, <1>2, <1>3, <1>6 DEF Rejects
<1> QED
  BY <1>4, <1>5, <1>6

LEMMA JudgedNext == Judges'
BY Judged, PTL

\* The engine selects the first eligible rung, or nothing when there is none.
LEMMA SelectedFirst ==
    ASSUME NEW r \in Role, NEW estimates, NEW now
    PROVE  LET rungs == Policy.rungs[r]
               eligible(i) == Eligible(Policy, r, rungs[i], estimates, now)
               selected == Selected(Policy, r, estimates, now)
           IN  /\ rungs \in Seq(Candidate)
               /\ \/ selected = Absent /\ \A i \in DOMAIN rungs : ~eligible(i)
                  \/ /\ selected # Absent
                     /\ \E i \in DOMAIN rungs :
                           /\ selected = rungs[i] /\ eligible(i)
                           /\ \A j \in 1 .. i - 1 : ~eligible(j)
<1> DEFINE rungs == Policy.rungs[r]
           eligible(i) == Eligible(Policy, r, rungs[i], estimates, now)
           selected == Selected(Policy, r, estimates, now)
           S == {i \in DOMAIN rungs : eligible(i)}
<1>1. rungs \in Seq(Candidate) /\ DOMAIN rungs = 1 .. Len(rungs) /\ Len(rungs) \in Nat
  BY PolicyAssumption DEF PolicyAssumption
<1>2. selected = IF S = {} THEN Absent ELSE rungs[Min(S)]
  BY DEF Selected
<1>3. CASE S = {}
  BY <1>1, <1>2, <1>3
<1>4. CASE S # {}
  <2>1. S \subseteq Nat
    BY <1>1
  <2>2. Min(S) \in S /\ \A j \in S : Min(S) <= j
    <3> HIDE DEF S
    <3> QED
      BY <1>4, <2>1, Indexed!LeastNumber DEF Min
  <2> DEFINE i == Min(S)
  <2> HIDE DEF i
  <2>3. i \in S /\ \A j \in S : i <= j
    BY <2>2 DEF i
  <2>4. i \in DOMAIN rungs /\ eligible(i) /\ selected = rungs[i] /\ i \in 1 .. Len(rungs)
    BY <1>1, <1>2, <1>4, <2>3 DEF i
  <2>5. ASSUME NEW j \in 1 .. i - 1
        PROVE  ~eligible(j)
    <3>1. j \in 1 .. Len(rungs) /\ ~(i <= j)
      BY <1>1, <2>4
    <3> QED
      BY <1>1, <2>3, <3>1
  <2>6. selected # Absent
    BY <1>1, <2>4, PolicyAssumption DEF PolicyAssumption
  <2> HIDE DEF selected, S
  <2> QED
    BY <1>1, <2>4, <2>5, <2>6 DEF selected
<1> QED
  BY <1>3, <1>4

-----------------------------------------------------------------------------
(* Types *)

LEMMA PlanTypes ==
    ASSUME NEW roles \in Roles, NEW chains \in Chains, NEW estimates, NEW now
    PROVE  /\ PlanRoles(Policy, estimates, roles, now) \in Roles
           /\ PlanChains(Policy, estimates, roles, chains, now) \in Chains
<1>1. ASSUME NEW r \in Role
      PROVE  Selected(Policy, r, estimates, now) \in Candidate \cup {Absent}
  BY SelectedFirst
<1>2. ASSUME NEW r \in Role, NEW primary
      PROVE  Chain(Policy, r, primary) \in Seq(Candidate)
  <2>1. Policy.rungs[r] \in Seq(Candidate)
    BY PolicyAssumption DEF PolicyAssumption
  <2> QED
    BY <2>1, OnlyType DEF Chain
<1>3. PlanRoles(Policy, estimates, roles, now) \in Roles
  BY <1>1 DEF PlanRoles, Roles
<1>4. PlanChains(Policy, estimates, roles, chains, now) \in Chains
  BY <1>2 DEF PlanChains, Chains
<1> QED
  BY <1>3, <1>4

\* A key holds what its type says.
LEMMA KeyTypes ==
    ASSUME NEW n \in Native, NEW key \in Fields, NEW m \in Managed \cup Native,
           key = "overrides" => m \in Native
    PROVE  [n EXCEPT ![key] = m[key]] \in Native
<1>1. m.roles \in Roles /\ m.chains \in Chains /\ (key = "overrides" => m.overrides \in Overrides)
  BY DEF Managed, Native
<1>2. CASE key = "roles"
  BY <1>1, <1>2 DEF Native
<1>3. CASE key = "chains"
  BY <1>1, <1>3 DEF Native
<1>4. CASE key = "overrides"
  BY <1>1, <1>4 DEF Native
<1> QED
  BY <1>2, <1>3, <1>4 DEF Fields, Keys

LEMMA PutTypes ==
    ASSUME native \in Native, NEW key \in Keys, NEW m \in Managed \cup Native,
           Puts(key, m[key])
    PROVE  native' \in Native
<1>1. key \in Fields /\ key # "overrides"
  BY DEF Fields, Keys
<1>2. [native EXCEPT ![key] = m[key]] \in Native
  BY <1>1, KeyTypes
<1> QED
  BY <1>2 DEF Puts

LEMMA ReadsTypes ==
    ASSUME native \in Native, before \in Native, stale \subseteq Fields,
           NEW key \in Fields, Reads(key)
    PROVE  before' \in Native /\ stale' \subseteq Fields
<1>1. [before EXCEPT ![key] = native[key]] \in Native
  BY KeyTypes
<1> QED
  BY <1>1 DEF Reads

LEMMA EditsTypes ==
    ASSUME native \in Native, Edits
    PROVE  native' \in Native
<1>1. native.roles \in Roles /\ native.chains \in Chains
  BY DEF Native
<1>2. ASSUME NEW r \in AnyRole, NEW c \in Candidate
      PROVE  [native EXCEPT !["roles"] = [native.roles EXCEPT ![r] = c]] \in Native
  <2>1. [native.roles EXCEPT ![r] = c] \in Roles
    BY <1>1 DEF Roles
  <2> QED
    BY <2>1 DEF Native
<1>3. ASSUME NEW r \in AnyRole
      PROVE  [native EXCEPT !["chains"] = [native.chains EXCEPT ![r] = <<>>]] \in Native
  <2>1. <<>> \in Seq(Candidate)
    OBVIOUS
  <2>2. [native.chains EXCEPT ![r] = <<>>] \in Chains
    BY <1>1, <2>1 DEF Chains
  <2> QED
    BY <2>2 DEF Native
<1>4. ASSUME NEW o \in Overrides
      PROVE  [native EXCEPT !["overrides"] = o] \in Native
  BY DEF Native
<1> QED
  BY <1>2, <1>3, <1>4 DEF Edits, Edit

LEMMA TallyStep ==
    ASSUME ompTally \in [DOMAIN OmpBound -> Nat], [SelectionNext]_ompVars
    PROVE  /\ ompTally' \in [DOMAIN OmpBound -> Nat]
           /\ \/ \E s \in Situations : Planning(s)
              \/ ompTally'.runs = ompTally.runs /\ situation' = situation /\ target' = target
<1>1. DOMAIN OmpBound = {"runs", "edits", "faults"}
  BY DEF OmpBound
<1>2. ASSUME NEW b \in {"runs", "edits", "faults"}, Spends(b)
      PROVE  /\ ompTally' \in [DOMAIN OmpBound -> Nat]
             /\ b # "runs" => ompTally'.runs = ompTally.runs
  BY <1>1, <1>2 DEF Spends
<1>3. ASSUME NEW s \in Situations, Planning(s)
      PROVE  Spends("runs")
  BY <1>3 DEF Planning, ForApply, DryRun, Plan
<1>4. CASE UNCHANGED ompTally /\ UNCHANGED <<situation, target>>
  BY <1>4
<1>5. CASE Spends("faults") /\ UNCHANGED <<situation, target>>
  BY <1>2, <1>5
<1>6. CASE Spends("edits") /\ UNCHANGED <<situation, target>>
  BY <1>2, <1>6
<1>7. CASE Writing \/ Restoring
  BY <1>4, <1>5, <1>7
     DEF Writing, Restoring, Set, SetFails, Rollback, Confirm, RollbackFails
<1>8. CASE Start \/ Look \/ Compare \/ Checking \/ Closing
  BY <1>4, <1>5, <1>8
     DEF Start, Look, Compare, Checking, Closing, Verify, VerifyFails, Applied, Undone, Ends,
         Receipt
<1>9. CASE Edits
  <2>1. ASSUME NEW k, NEW v, Edit(k, v)
        PROVE  Spends("edits") /\ UNCHANGED <<situation, target>>
    BY <2>1 DEF Edit
  <2> QED
    BY <1>6, <1>9, <2>1 DEF Edits
<1>10. CASE UNCHANGED ompVars
  BY <1>4, <1>10 DEF ompVars
<1> QED
  BY <1>2, <1>3, <1>7, <1>8, <1>9, <1>10, SelectionCases

LEMMA SelectionTypeStep ==
    Shape /\ SelectionTypeOK /\ [SelectionNext]_ompVars => SelectionTypeOK'
<1> SUFFICES ASSUME Shape, SelectionTypeOK, [SelectionNext]_ompVars
             PROVE  SelectionTypeOK'
  OBVIOUS
<1> DEFINE Busy == {"set", "verify", "rollback", "confirm"}
<1>1. ompTally' \in [DOMAIN OmpBound -> Nat]
  BY TallyStep DEF SelectionTypeOK
<1>2. Shape' /\ DOMAIN native = Fields /\ DOMAIN before = Fields
  BY ShapeStep DEF Shape
<1>3. Orders \cup Backward \cup Looks \cup Checks \cup {<<>>} \subseteq Seq(Fields)
  <2>1. "chains" \in Fields /\ "roles" \in Fields /\ "overrides" \in Fields
    BY DEF Fields, Keys
  <2> QED
    BY <2>1 DEF Orders, Backward, Looks, Checks
<1>4. \A s \in Orders \cup Backward \cup Checks : s # <<>>
  <2>1. /\ <<"overrides">> # <<>> /\ <<"chains", "overrides">> # <<>>
        /\ <<"roles", "overrides">> # <<>> /\ <<"chains", "roles", "overrides">> # <<>>
    OBVIOUS
  <2> QED
    BY <2>1, Distinct DEF Orders, Backward, Checks
<1>5. ASSUME todo' \in Seq(Fields), native' \in Native, target' \in Managed, before' \in Native,
             situation' \in Situations, at' \in Places, receipt' \in Statuses \cup {""},
             edited' \in BOOLEAN, stale' \subseteq Fields
      PROVE  SelectionTypeOK'
  <2>1. writes' \in {<<>>, <<"chains">>, <<"roles">>, <<"chains", "roles">>}
    BY <1>2 DEF Shape, Orders
  <2>2. failed' \subseteq Keys
    BY <1>2 DEF Shape
  <2>3. at' \in Busy => todo' # <<>>
    BY <1>2, <1>4 DEF Shape
  <2> QED
    BY <1>1, <1>5, <2>1, <2>2, <2>3 DEF SelectionTypeOK
<1>6. /\ native \in Native /\ before \in Native /\ target \in Managed /\ situation \in Situations
      /\ at \in Places /\ receipt \in Statuses \cup {""} /\ edited \in BOOLEAN
      /\ stale \subseteq Fields /\ todo \in Seq(Fields)
  BY DEF SelectionTypeOK
<1>7. \/ \E s \in Situations : Planning(s)
      \/ situation' = situation /\ target' = target
  BY TallyStep DEF SelectionTypeOK
<1>8. CASE Start
  <2>1. "roles" \in Fields /\ Reads("roles")
    BY <1>8 DEF Start, Fields, Keys
  <2>2. before' \in Native /\ stale' \subseteq Fields
    BY <1>6, <2>1, ReadsTypes
  <2>3. /\ at' \in Places /\ receipt' \in Statuses \cup {""} /\ edited' \in BOOLEAN
        /\ todo' \in Seq(Fields)
    BY <1>3, <1>8 DEF Start, Places
  <2> QED
    BY <1>2, <1>5, <1>6, <1>8, <2>2, <2>3, StartFacts
<1>9. ASSUME NEW s \in Situations, Planning(s)
      PROVE  SelectionTypeOK'
  <2>1. /\ before.roles \in Roles /\ native.chains \in Chains
        /\ "chains" \in Fields /\ Reads("chains")
    BY <1>6, <1>9 DEF Native, Planning, ForApply, DryRun, Plan, Fields, Keys
  <2>2. target' \in Managed
    <3> DEFINE roles == PlanRoles(Policy, s.runway, before.roles, s.now)
               chains == PlanChains(Policy, s.runway, before.roles, native.chains, s.now)
    <3>1. roles \in Roles /\ chains \in Chains
      BY <2>1, PlanTypes
    <3>2. target' = [roles |-> roles, chains |-> chains]
      BY <1>9 DEF Planning, ForApply, DryRun, Plan
    <3> HIDE DEF roles, chains
    <3> QED
      BY <3>1, <3>2 DEF Managed
  <2>3. before' \in Native /\ stale' \subseteq Fields
    BY <1>6, <2>1, ReadsTypes
  <2>4. /\ at' \in Places /\ receipt' \in Statuses \cup {""} /\ edited' = edited
        /\ native' = native /\ situation' = s
        /\ todo' \in Looks
    BY <1>2, <1>9, PlanFacts DEF Places, Statuses, Looks
  <2> QED
    BY <1>3, <1>5, <1>6, <2>2, <2>3, <2>4
<1>10. CASE Look
  <2>1. /\ Head(todo) \in Fields /\ Reads(Head(todo)) /\ todo' \in Looks
        /\ UNCHANGED <<native, at, situation, target, writes, failed, receipt, edited>>
    BY <1>10, LookFacts, NextLook
  <2>2. before' \in Native /\ stale' \subseteq Fields
    BY <1>6, <2>1, ReadsTypes
  <2> QED
    BY <1>3, <1>5, <1>6, <2>1, <2>2
<1>11. CASE Compare
  <2>1. todo' \in Orders \cup {<<>>} /\ at' \in Places
    BY <1>11, CompareFacts DEF Places
  <2> QED
    BY <1>3, <1>5, <1>6, <1>7, <1>9, <1>11, <2>1, CompareFacts
<1>12. CASE Writing
  <2>1. native' \in Native
    BY <1>6, <1>12, WritingFacts, PutTypes
  <2>2. todo' \in Orders \cup Backward \cup Checks /\ at' \in Places /\ stale' \subseteq Fields
    <3>1. CASE at' = "rollback" /\ todo' = Reverse(writes) /\ stale' = stale
      BY <1>6, <1>12, <3>1, WritingFacts, ReverseOrders DEF Places
    <3>2. CASE at' = "set" /\ todo' = Tail(todo) /\ Tail(todo) # <<>> /\ stale' \subseteq stale
      BY <1>6, <1>12, <3>2, WritingFacts, NextKey DEF Places
    <3>3. CASE at' = "verify" /\ todo' = Append(writes, "overrides") /\ stale' \subseteq stale
      BY <1>6, <1>12, <3>3, WritingFacts, ChecksOf DEF Places
    <3> QED
      BY <1>12, <3>1, <3>2, <3>3, WritingFacts
  <2> QED
    BY <1>3, <1>5, <1>6, <1>7, <1>9, <1>12, <2>1, <2>2, WritingFacts
<1>13. CASE Checking
  <2>1. todo' \in Backward \cup Checks \cup {<<>>} /\ at' \in Places /\ stale' \subseteq Fields
    <3>1. CASE at' = "rollback" /\ todo' = Reverse(writes) /\ stale' \subseteq stale
      BY <1>6, <1>13, <3>1, CheckingFacts, ReverseOrders DEF Places
    <3>2. CASE at' \in {"applied", "verify"} /\ todo' = Tail(todo) /\ stale' \subseteq stale
      BY <1>6, <1>13, <3>2, CheckingFacts, NextCheck DEF Places
    <3> QED
      BY <1>13, <3>1, <3>2, CheckingFacts
  <2> QED
    BY <1>3, <1>5, <1>6, <1>7, <1>9, <1>13, <2>1, CheckingFacts
<1>14. CASE Rollback
  <2>1. native' \in Native
    BY <1>6, <1>14, RollbackFacts, PutTypes
  <2>2. at' \in Places /\ stale' \subseteq Fields /\ todo' = todo
    BY <1>6, <1>14, RollbackFacts DEF Places
  <2> QED
    BY <1>5, <1>6, <1>7, <1>9, <1>14, <2>1, <2>2, RollbackFacts
<1>15. CASE Passing
  <2>1. native' \in Native
    BY <1>6, <1>15, PassingFacts, PutTypes
  <2>2. at' \in Places /\ stale' \subseteq Fields /\ todo' \in Backward \cup {<<>>}
    BY <1>6, <1>15, PassingFacts, NextKey DEF Places
  <2> QED
    BY <1>3, <1>5, <1>6, <1>7, <1>9, <1>15, <2>1, <2>2, PassingFacts
<1>16. CASE Closing
  <2>1. receipt' \in Statuses \cup {""} /\ at' \in Places
    BY <1>6, <1>16, ClosingFacts DEF Statuses, Places
  <2> QED
    BY <1>5, <1>6, <1>7, <1>9, <1>16, <2>1, ClosingFacts
<1>17. CASE Edits
  <2>1. native' \in Native
    BY <1>6, <1>17, EditsTypes
  <2>2. stale' \subseteq Fields
    BY <1>2, <1>6, <1>17, EditsFacts
  <2> QED
    BY <1>2, <1>5, <1>6, <1>7, <1>9, <1>17, <2>1, <2>2, EditsFacts
<1>18. CASE UNCHANGED ompVars
  BY <1>18 DEF ompVars, SelectionTypeOK
<1> QED
  BY <1>8, <1>9, <1>10, <1>11, <1>12, <1>13, <1>14, <1>15, <1>16, <1>17, <1>18, SelectionCases,
     RestoringCases

\* The types, the plan included: whatever the policy and the readings, a plan
\* is a configuration that OMP may hold (select_models, SelectionApplier).
THEOREM SelectionTypes == SelectionSpec => []SelectionTypeOK
<1>1. SelectionInit => SelectionTypeOK
  <2> SUFFICES ASSUME SelectionInit
               PROVE  SelectionTypeOK
    OBVIOUS
  <2> DEFINE none == [r \in AnyRole |-> Absent]
  <2>1. none \in Roles /\ none \in Chains
    BY DEF Roles, Chains
  <2>2. native = [roles |-> none, chains |-> none, overrides |-> CHOOSE o \in Overrides : TRUE]
        /\ target = [roles |-> native.roles, chains |-> native.chains]
    BY DEF SelectionInit
  <2>3. (CHOOSE o \in Overrides : TRUE) \in Overrides
        /\ (CHOOSE s \in Situations : TRUE) \in Situations
    BY PolicyAssumption DEF PolicyAssumption
  <2> HIDE DEF none
  <2>4. native \in Native /\ target \in Managed
    BY <2>1, <2>2, <2>3 DEF Native, Managed
  <2>5. <<>> \in Seq(Fields)
    OBVIOUS
  <2> QED
    BY <2>3, <2>4, <2>5 DEF SelectionInit, SelectionTypeOK, Places
<1> QED
  BY <1>1, ShapeInit, ShapeStep, SelectionTypeStep, PTL DEF SelectionSpec

\* A role without a rung keeps the primary that the run has read.
LEMMA PlannedRung ==
    ASSUME DOMAIN before = Fields, NEW s \in Situations, Planning(s), NEW r \in Role
    PROVE  LET rungs == Policy.rungs[r]
               eligible(i) == Eligible(Policy, r, rungs[i], s.runway, s.now)
           IN  \/ \E i \in DOMAIN rungs :
                     /\ target'.roles[r] = rungs[i] /\ rungs[i] \in Candidate /\ eligible(i)
                     /\ \A j \in 1 .. i - 1 : ~eligible(j) /\ rungs[j] \in Candidate
               \/ /\ \A i \in DOMAIN rungs : ~eligible(i) /\ rungs[i] \in Candidate
                  /\ target'.roles[r] = before.roles[r]
<1> DEFINE rungs == Policy.rungs[r]
           eligible(i) == Eligible(Policy, r, rungs[i], s.runway, s.now)
           selected == Selected(Policy, r, s.runway, s.now)
           roles == PlanRoles(Policy, s.runway, before.roles, s.now)
<1>1. target'.roles = roles
  BY PlanFacts
<1>2. roles[r] = IF selected # Absent THEN selected ELSE before.roles[r]
  BY DEF PlanRoles, AnyRole
<1>3. /\ rungs \in Seq(Candidate)
      /\ \/ selected = Absent /\ \A i \in DOMAIN rungs : ~eligible(i)
         \/ /\ selected # Absent
            /\ \E i \in DOMAIN rungs :
                  /\ selected = rungs[i] /\ eligible(i)
                  /\ \A j \in 1 .. i - 1 : ~eligible(j)
  BY SelectedFirst
<1> HIDE DEF selected, roles
<1>4. \A i \in DOMAIN rungs : rungs[i] \in Candidate /\ \A j \in 1 .. i - 1 : rungs[j] \in Candidate
  BY <1>3
<1>5. CASE selected = Absent
  BY <1>1, <1>2, <1>3, <1>4, <1>5
<1>6. CASE selected # Absent
  BY <1>1, <1>2, <1>3, <1>4, <1>6
<1> QED
  BY <1>5, <1>6

LEMMA FirstRungStep ==
    Shape /\ OrderKept /\ SelectionTypeOK /\ FirstRung /\ [SelectionNext]_ompVars => FirstRung'
<1> SUFFICES ASSUME Shape, OrderKept, SelectionTypeOK, FirstRung, [SelectionNext]_ompVars
             PROVE  FirstRung'
  OBVIOUS
<1>1. DOMAIN native = Fields /\ DOMAIN before = Fields
  BY DEF Shape
<1>2. ASSUME NEW s \in Situations, Planning(s)
      PROVE  FirstRung'
  <2>1. /\ situation' = s /\ native' = native /\ edited' = edited
        /\ at = "plan" /\ failed = {}
    BY <1>1, <1>2, PlanFacts DEF Shape
  <2>2. ~edited' => before.roles = native'.roles
    BY <2>1 DEF OrderKept, OldRoles
  <2>3. ASSUME NEW r \in Role, NEW c \in Candidate
        PROVE  IF Eligible(Policy, r, c, s.runway, s.now)
               THEN Admits(r, c)'
               ELSE Rejects(r, c)'
    BY <2>1, JudgedNext DEF Judges
  <2> SUFFICES ASSUME NEW r \in Role
               PROVE  LET rungs == Policy.rungs[r]
                      IN  \/ \E i \in DOMAIN rungs :
                               /\ target'.roles[r] = rungs[i]
                               /\ Admits(r, rungs[i])'
                               /\ \A j \in 1 .. i - 1 : Rejects(r, rungs[j])'
                          \/ /\ \A i \in DOMAIN rungs : Rejects(r, rungs[i])'
                             /\ ~edited' => target'.roles[r] = native'.roles[r]
    BY DEF FirstRung
  <2>4. ~edited' => before.roles[r] = native'.roles[r]
    BY <2>2
  <2> QED
    BY <1>1, <1>2, <2>3, <2>4, PlannedRung
<1>3. CASE /\ ompTally'.runs = ompTally.runs /\ UNCHANGED <<situation, target>>
           /\ at' = "compare" /\ ~edited' => at = "compare" /\ ~edited /\ native' = native
  <2>1. ASSUME NEW r, NEW c
        PROVE  (Admits(r, c)' <=> Admits(r, c)) /\ (Rejects(r, c)' <=> Rejects(r, c))
    BY <1>3, <2>1 DEF Admits, Rejects, Qualified, Metered, Meter, Deciding, Freshest, Within
  <2>2. CASE ompTally.runs > 0
    BY <1>3, <2>1, <2>2 DEF FirstRung
  <2>3. CASE ~(ompTally.runs > 0)
    BY <1>3, <2>3 DEF FirstRung
  <2> QED
    BY <2>2, <2>3
<1>4. \/ \E s \in Situations : Planning(s)
      \/ ompTally'.runs = ompTally.runs /\ UNCHANGED <<situation, target>>
  BY TallyStep DEF SelectionTypeOK
<1>5. CASE Start \/ Compare \/ Writing \/ Rollback \/ Passing \/ Checking \/ Closing
  <2>1. at' # "compare"
    BY <1>1, <1>5, StartFacts, WritingFacts, RollbackFacts, PassingFacts, CheckingFacts,
       ClosingFacts, CompareFacts
  <2> QED
    BY <1>2, <1>3, <1>4, <2>1
<1>6. CASE Look
  BY <1>2, <1>3, <1>4, <1>6, LookFacts
<1>7. CASE Edits
  <2>1. edited'
    BY <1>1, <1>7, EditsFacts
  <2> QED
    BY <1>2, <1>3, <1>4, <2>1
<1>8. CASE UNCHANGED ompVars
  BY <1>2, <1>3, <1>4, <1>8 DEF ompVars
<1> QED
  BY <1>2, <1>5, <1>6, <1>7, <1>8, SelectionCases, RestoringCases

\* The plan gives every role the first rung that is qualified and that a deciding
\* reading of its account, in the unit of the policy, gives room
\* (select_models, _evaluate_role, _runway_index).
THEOREM FirstRungs == SelectionSpec => []FirstRung
<1>1. SelectionInit => FirstRung
  <2>1. SelectionInit => ompTally.runs = 0
    <3>1. "runs" \in DOMAIN OmpBound
      BY DEF OmpBound
    <3> QED
      BY <3>1 DEF SelectionInit
  <2> QED
    BY <2>1 DEF FirstRung
<1> QED
  BY <1>1, OrderInit, OrderStep, ShapeInit, ShapeStep, SelectionTypeStep, SelectionTypes,
     FirstRungStep, PTL DEF SelectionSpec

=============================================================================
