---------------------------- MODULE FirewallSpec ----------------------------
(***************************************************************************)
(* What a call of the firewall promises: ApplyPeer, RemovePeer and Sync    *)
(* (agent/internal/firewall) as single steps on the rules, the operators   *)
(* of PeerStores that Agent works with.                                    *)
(*                                                                         *)
(* A call whose iptables command fails, or that the end of the process     *)
(* interrupts, promises nothing about its own peer until the next Sync     *)
(* (bad), but it never touches the rules of another one.                   *)
(***************************************************************************)
EXTENDS PeerStores

CONSTANT PeerRows   \* the rows that calls are made with

VARIABLES row,      \* the table: the row of a key, or None
          fw,       \* the rules, those of the peers in bad left out
          on,       \* FORWARD jumps to the dispatch chain
          bad,      \* peers whose rules are not known
          late      \* those whose rules broke since the last Sync began

vars == <<row, fw, on, bad, late>>

NoRules == [chain |-> [k \in Keys |-> None], jumps |-> {}]

\* The rules f without those of the peers in ks.
Without(f, ks) ==
    [chain |-> [k \in Keys |-> IF k \in ks THEN None ELSE f.chain[k]],
     jumps |-> {j \in f.jumps : j[2] \notin ks}]

Init == /\ row \in [Keys -> PeerRows \cup {None}]
        /\ fw = NoRules
        /\ on = FALSE
        /\ bad = {} /\ late = {}

\* A handler writes the table.
Change == /\ \E k \in Keys, r \in PeerRows \cup {None} :
                row' = [row EXCEPT ![k] = r]
          /\ UNCHANGED <<fw, on, bad, late>>

\* The jump from FORWARD appears, once and for all.
TurnOn == on' = TRUE /\ UNCHANGED <<row, fw, bad, late>>

\* The promise of ApplyPeer is kept only once FORWARD leads to the chain.
Apply(r) == /\ fw' = Without(FwApply(fw, r), bad)
            /\ on' = (on \/ (r.enabled /\ r.addr # None))
            /\ UNCHANGED <<row, bad, late>>

Remove(r) == /\ fw' = Without(FwRemove(fw, r), bad)
             /\ UNCHANGED <<row, on, bad, late>>

Break == /\ \E ks \in SUBSET Keys :
              /\ bad' = bad \cup ks
              /\ late' = late \cup ks
         /\ fw' = Without(fw, bad')
         /\ UNCHANGED <<row, on>>

\* The process ends and starts again: calls are interrupted, rows that were
\* not committed are gone.
Restart == /\ \E ks, lost \in SUBSET Keys :
                /\ bad' = bad \cup ks
                /\ row' = [k \in Keys |-> IF k \in lost THEN None ELSE row[k]]
           /\ fw' = Without(fw, bad')
           /\ late' = {}
           /\ UNCHANGED on

\* Enabled rows without an address, whose chain Sync leaves as it is.
Skipped == {k \in Keys : row[k] # None /\ row[k].enabled /\ row[k].addr = None}

\* Sync repairs whatever earlier calls left, except where one of its own
\* commands failed.
Sync == /\ bad' = (bad \cap Skipped) \cup late
        /\ fw' = Without(FwSync(fw, {row[k] : k \in Keys} \ {None}), bad')
        /\ on' = TRUE
        /\ UNCHANGED <<row, late>>

Next == \/ Change \/ TurnOn \/ Break \/ Restart \/ Sync
        \/ \E r \in PeerRows : Apply(r) \/ Remove(r)

Spec == Init /\ [][Next]_vars
=============================================================================
