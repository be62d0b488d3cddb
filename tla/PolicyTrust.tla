----------------------------- MODULE PolicyTrust -----------------------------
(***************************************************************************)
(* A receiver's trust and its last known good policy (policy/store.py and  *)
(* policy/verify.py): a store of signing keys that are added, revoked and  *)
(* replaced, a replay window and the policy in force, each kept in memory  *)
(* and in a file of its own that is replaced whole.  A write may fail, be  *)
(* it after the file was replaced, and the process may end between any two *)
(* of them; a restart reads the three files.                               *)
(*                                                                         *)
(* An envelope stands for its own nonce.  Signature, digest and times are  *)
(* left out: an envelope that fails them changes nothing.                  *)
(***************************************************************************)
EXTENDS Integers, Sequences, FiniteSets, ReplayWindow

CONSTANTS
    Key,              \* key ids
    FirstKeys,        \* the ones the store was made with
    Offered,          \* envelopes: key, sequence and an identity
    Empty,            \* no policy, no envelope
    MaxTrustChanges,  \* bound: changes of the keys
    MaxTrustFaults    \* bound: writes that fail, and restarts

ASSUME TrustAssumption ==
    /\ FirstKeys \subseteq Key
    /\ \A e \in Offered : e.key \in Key /\ e.seq \in Nat
    /\ Empty \notin Offered
    /\ {MaxTrustChanges, MaxTrustFaults} \subseteq Nat

VARIABLES
    trust,       \* the key store in memory: keys, and the revoked among them
    trustFile,
    seen,        \* the verifier's replay window in memory
    seenFile,
    current,     \* the policy in force
    currentFile,
    verified,    \* the envelope that passed and is not written yet
    withdrawn,   \* history: keys whose revocation was reported done
    installed,   \* history: the envelopes written to the policy file, in order
    trustTally   \* changes and faults so far

trustVars == <<trust, trustFile, seen, seenFile, current, currentFile, verified, withdrawn,
               installed, trustTally>>

KeyStore == [keys : SUBSET Key, revoked : SUBSET Key]
TrustBound == [changes |-> MaxTrustChanges, faults |-> MaxTrustFaults]

TrustTypeOK ==
    /\ trust \in KeyStore /\ trustFile \in KeyStore
    /\ seen \subseteq Offered /\ seenFile \subseteq Offered
    /\ {current, currentFile, verified} \subseteq Offered \cup {Empty}
    /\ withdrawn \subseteq Key
    /\ installed \in Seq(Offered)
    /\ trustTally \in [DOMAIN TrustBound -> Nat]
    /\ trustFile.revoked \subseteq trustFile.keys   \* or the file would not load

TrustInit ==
    /\ trust = [keys |-> FirstKeys, revoked |-> {}]
    /\ trustFile = trust
    /\ seen = {} /\ seenFile = {}
    /\ current = Empty /\ currentFile = Empty /\ verified = Empty
    /\ withdrawn = {}
    /\ installed = <<>>
    /\ trustTally = [b \in DOMAIN TrustBound |-> 0]

Uses(b) ==
    /\ trustTally[b] < TrustBound[b]
    /\ trustTally' = [trustTally EXCEPT ![b] = @ + 1]

-----------------------------------------------------------------------------
(* PolicyKeyStore: the memory changes first, then all of it is written *)

Added(k) == [trust EXCEPT !.keys = @ \cup {k}]
CanAdd(k) == k \notin trust.revoked

Revoked(k) == [trust EXCEPT !.revoked = @ \cup {k}]
CanRevoke(k) == k \in trust.keys

Replaced(old, new) ==
    [keys |-> trust.keys \cup {new}, revoked |-> (trust.revoked \cup {old}) \ {new}]

\* Mutant: the replacement may be a key id that was used before.
CanReplaceAny(old, new) == old \in trust.keys /\ old # new

CanReplace(old, new) == old \in trust.keys /\ new \notin trust.keys

\* A change that is reported done.
Change(store, gone) ==
    /\ verified = Empty
    /\ Uses("changes")
    /\ trust' = store
    /\ trustFile' = store
    /\ withdrawn' = withdrawn \cup gone
    /\ UNCHANGED <<seen, seenFile, current, currentFile, verified, installed>>

\* One whose write fails: it holds until the next start, or the next change.
ChangeFails(store) ==
    /\ verified = Empty
    /\ Uses("faults")
    /\ trust' = store
    /\ trustFile' \in {trustFile, store}
    /\ UNCHANGED <<seen, seenFile, current, currentFile, verified, withdrawn, installed>>

Add(k) == CanAdd(k) /\ (Change(Added(k), {}) \/ ChangeFails(Added(k)))
Revoke(k) == CanRevoke(k) /\ (Change(Revoked(k), {k}) \/ ChangeFails(Revoked(k)))
RecoverFromCompromise(old, new) ==
    CanReplace(old, new) /\ (Change(Replaced(old, new), {old}) \/ ChangeFails(Replaced(old, new)))

IsTrusted(k, store) == k \in store.keys /\ k \notin store.revoked

-----------------------------------------------------------------------------
(* PolicyVerifier.verify and PolicyStore.apply *)

Verifies(e) ==
    /\ verified = Empty
    /\ IsTrusted(e.key, trust)
    /\ Fresh(e, seen)

\* Mutant: the replay window is kept in memory only.
AcceptInMemory(e) ==
    /\ Verifies(e)
    /\ seen' = seen \cup {e}
    /\ verified' = e
    /\ UNCHANGED <<trust, trustFile, seenFile, current, currentFile, withdrawn, installed, trustTally>>

\* The replay window is durable before the envelope counts as accepted.
Accept(e) ==
    /\ Verifies(e)
    /\ seenFile' = seen \cup {e}
    /\ seen' = seen \cup {e}
    /\ verified' = e
    /\ UNCHANGED <<trust, trustFile, current, currentFile, withdrawn, installed, trustTally>>

\* It cannot be written, or not be synced: the envelope is refused.
AcceptFails(e) ==
    /\ Verifies(e)
    /\ Uses("faults")
    /\ seenFile' \in {seenFile, seen \cup {e}}
    /\ UNCHANGED <<trust, trustFile, seen, current, currentFile, verified, withdrawn, installed>>

Install ==
    /\ verified # Empty
    /\ currentFile' = verified
    /\ current' = verified
    /\ installed' = Append(installed, verified)
    /\ verified' = Empty
    /\ UNCHANGED <<trust, trustFile, seen, seenFile, withdrawn, trustTally>>

\* The policy file cannot be replaced, or was, and only the memory is behind.
InstallFails ==
    /\ verified # Empty
    /\ Uses("faults")
    /\ \/ UNCHANGED <<currentFile, installed>>
       \/ currentFile' = verified /\ installed' = Append(installed, verified)
    /\ verified' = Empty
    /\ UNCHANGED <<trust, trustFile, seen, seenFile, current, withdrawn>>

RestartReceiver ==
    /\ Uses("faults")
    /\ trust' = trustFile
    /\ seen' = seenFile
    /\ current' = currentFile
    /\ verified' = Empty
    /\ UNCHANGED <<trustFile, seenFile, currentFile, withdrawn, installed>>

TrustNext ==
    \/ \E k \in Key : Add(k) \/ Revoke(k)
    \/ \E old, new \in Key : RecoverFromCompromise(old, new)
    \/ \E e \in Offered : Accept(e) \/ AcceptFails(e)
    \/ Install \/ InstallFails
    \/ RestartReceiver

TrustSpec == TrustInit /\ [][TrustNext]_trustVars

-----------------------------------------------------------------------------
(* Properties *)

\* A key whose revocation was reported done is never trusted again, in memory
\* or by a restart, whatever is added, replaced or fails afterwards
\* (PolicyKeyStore.add, revoke, recover_from_compromise, _persist).
WithdrawnForGood ==
    \A k \in withdrawn : ~IsTrusted(k, trust) /\ ~IsTrusted(k, trustFile)

\* The policy file never goes back: of two envelopes of one key that were
\* written to it the later one has the higher sequence, across restarts and
\* writes that failed half way (PolicyVerifier.verify, PolicyStore.apply).
NeverInstalledBack ==
    \A i, j \in DOMAIN installed :
        i < j /\ installed[i].key = installed[j].key => installed[i].seq < installed[j].seq

\* Nothing that was made durable is undone.
NeverUndone == WithdrawnForGood /\ NeverInstalledBack
=============================================================================
