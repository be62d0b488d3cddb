---------------------------- MODULE ReplayWindow ----------------------------
(***************************************************************************)
(* Replay protection of signed envelopes, as ControllerStore.replay_accept *)
(* and replay_remove keep it: a table of accepted nonces and, per signing  *)
(* key, the highest accepted sequence.  The per-key row is always the      *)
(* maximum of the accepted nonces of that key (replay_accept raises it,    *)
(* replay_remove recomputes it), so a window is just the set of accepted   *)
(* envelopes; an envelope is its own nonce.                                *)
(***************************************************************************)
EXTENDS Naturals

\* replay_accept: the nonce is new and the sequence is above every accepted
\* sequence of the same key.
Fresh(e, window) ==
    /\ e \notin window
    /\ \A f \in window : f.key = e.key => f.seq < e.seq

\* The same test for the replication key of the peer, whose envelopes carry a
\* nonce of their own and are known by their sequence alone.
FreshSeq(s, window) == \A t \in window : t < s
=============================================================================
