----------------------------- MODULE PeerStores -----------------------------
(***************************************************************************)
(* The three stores a peer lives in, and the calls the agent makes on them.*)
(*                                                                         *)
(*   db      the SQLite table peers (agent/internal/storage): a set of rows*)
(*   kernel  the WireGuard device (agent/internal/wireguard): for a public *)
(*           key, the peer's allowed IPs and preshared key, or None        *)
(*   fw      the per-peer iptables rules (agent/internal/firewall): a chain*)
(*           per public key and the jumps of the dispatch chain            *)
(*                                                                         *)
(* Every operator is the effect of ONE successful call.  SQLite runs on one*)
(* connection, so a statement or a transaction is atomic; a netlink call is*)
(* atomic; an iptables sequence is taken as atomic here.                   *)
(*                                                                         *)
(* Data that no property tells apart is left out: names, notes, DNS, MTU,  *)
(* endpoints, keepalives, profiles, timestamps.  A client address is a     *)
(* string such as 10.8.0.2/24; HostOf is its host part, which is what      *)
(* WireGuard routes (host/32) and what iptables matches.  A preshared key  *)
(* carries the name of the public key it was generated with.               *)
(***************************************************************************)
EXTENDS Naturals, Sequences, FiniteSets

CONSTANTS Keys,     \* WireGuard public keys
          Addrs,    \* values of client_address
          Hosts,    \* tunnel addresses
          HostOf,   \* the host part of a client address
          Allows,   \* values of client_allowed_ips
          None      \* SQL '' or NULL, an absent peer, an absent chain

ASSUME StoresAssumption ==
    /\ HostOf \in [Addrs -> Hosts]
    /\ None \notin Keys \cup Addrs \cup Hosts \cup Allows

-----------------------------------------------------------------------------
(* The table peers. *)

Row == [id      : Nat,
        key     : Keys,
        addr    : Addrs \cup {None},    \* client_address
        ips     : Hosts \cup {None},    \* allowed_ips: the server side /32
        allow   : Allows \cup {None},   \* client_allowed_ips
        enabled : BOOLEAN,
        auto    : BOOLEAN,              \* auto_discovered
        psk     : Keys \cup {None}]     \* preshared_key

\* IsClientAddressTaken: the comparison is on the address text, not the host.
ClientAddressTaken(db, a, k) == \E r \in db : r.addr = a /\ r.key # k

\* What the two unique indexes refuse when the rows of s are inserted.
InsertConflict(db, s) ==
    \/ \E i \in DOMAIN s : \E r \in db : r.key = s[i].key \/ r.addr = s[i].addr
    \/ \E i, j \in DOMAIN s : i # j /\ s[i].addr = s[j].addr

\* INSERT of the rows of s, numbered from last + 1 by AUTOINCREMENT.
InsertRows(db, last, s) ==
    db \cup {[s[i] EXCEPT !.id = last + i] : i \in DOMAIN s}

\* DELETE ... WHERE public_key = k, for each k of ks
DeleteRows(db, ks) == {r \in db : r.key \notin ks}

\* UPDATE ... WHERE public_key = k; set[r] is the row r with its new columns
UpdateRows(db, k, set) == {IF r.key = k THEN set[r] ELSE r : r \in db}

HasKey(db, k) == \E r \in db : r.key = k

\* The row UpsertPeerFromReconcile writes for a peer found in the kernel.
QuarantineRow(last, k) ==
    [id |-> last + 1, key |-> k, addr |-> None, ips |-> None, allow |-> None,
     enabled |-> FALSE, auto |-> TRUE, psk |-> None]

EnabledKeys(db) == {r.key : r \in {q \in db : q.enabled}}

-----------------------------------------------------------------------------
(* The WireGuard device. *)

KernelPeer == [ips : SUBSET Hosts, psk : Keys \cup {None}]

\* The allowed IPs a handler or the reconciler parses from a row.
IPsOf(r) == IF r.ips = None THEN {} ELSE {r.ips}

\* Cryptokey routing: an allowed IP belongs to one peer, so that giving hs to
\* a peer takes it from every other one.
Strip(p, hs) == IF p = None THEN None ELSE [p EXCEPT !.ips = @ \ hs]

\* ConfigurePeers for one peer.  No UpdateOnly flag: an absent peer is added.
\* Without replace_allowed_ips the new IPs join the old ones; no psk given
\* leaves the old one.
ConfigurePeer(kernel, k, hs, psk, replace) ==
    LET old == IF kernel[k] = None THEN [ips |-> {}, psk |-> None]
                                   ELSE kernel[k]
    IN  [j \in Keys |->
           IF j = k
             THEN [ips |-> IF replace THEN hs ELSE old.ips \cup hs,
                   psk |-> IF psk = None THEN old.psk ELSE psk]
             ELSE Strip(kernel[j], hs)]

\* ConfigurePeers for the new peers of an import, one netlink message that the
\* device applies in order: of two peers with one host, the later gets it.
ConfigureNew(kernel, s) ==
    [k \in Keys |->
       IF \E i \in DOMAIN s : s[i].key = k
         THEN LET i == CHOOSE i \in DOMAIN s : s[i].key = k
              IN  [ips |-> {h \in IPsOf(s[i]) :
                              \A j \in DOMAIN s : j > i => s[j].ips # h},
                   psk |-> s[i].psk]
         ELSE Strip(kernel[k], UNION {IPsOf(s[i]) : i \in DOMAIN s})]

\* RemovePeer; removing an absent peer is no error.
RemovePeers(kernel, ks) == [k \in Keys |-> IF k \in ks THEN None ELSE kernel[k]]

KernelKeys(kernel) == {k \in Keys : kernel[k] # None}

-----------------------------------------------------------------------------
(* iptables: chain[k] holds the ACCEPT rules -s src -d allow and a DROP, or  *)
(* is Flushed, or does not exist; jumps are the rules -s h -j chain(k).      *)

Rules   == [src : Hosts, allow : Allows \cup {None}]
Flushed == [src |-> None, allow |-> None]

\* An absent peer or chain is told from every one there is.
ASSUME AbsentAssumption == None \notin KernelPeer \cup Rules \cup {Flushed}

Firewall == [chain : [Keys -> Rules \cup {Flushed, None}],
             jumps : SUBSET (Hosts \X Keys)]

\* RemovePeer(row): the jump by source address, or every jump to the chain if
\* the row has no address; then -F, and -X, which iptables refuses while
\* another jump still refers to the chain.
FwRemove(fw, r) ==
    LET left == {j \in fw.jumps :
                   ~ (j[2] = r.key /\ (r.addr = None \/ j[1] = HostOf[r.addr]))}
        rest == IF fw.chain[r.key] = None \/ \A j \in left : j[2] # r.key
                  THEN None ELSE Flushed
    IN  [chain |-> [fw.chain EXCEPT ![r.key] = rest], jumps |-> left]

\* ApplyPeer(row): a disabled row is removed, a row without an address skipped.
FwApply(fw, r) ==
    IF ~ r.enabled THEN FwRemove(fw, r)
    ELSE IF r.addr = None THEN fw
    ELSE [chain |-> [fw.chain EXCEPT
                       ![r.key] = [src |-> HostOf[r.addr], allow |-> r.allow]],
          jumps |-> fw.jumps \cup {<<HostOf[r.addr], r.key>>}]

\* ApplyPeer for each of the new, enabled and addressed peers of an import.
FwApplyNew(fw, rows) ==
    [chain |-> [k \in Keys |->
                  IF HasKey(rows, k)
                    THEN LET r == CHOOSE r \in rows : r.key = k
                         IN  [src |-> HostOf[r.addr], allow |-> r.allow]
                    ELSE fw.chain[k]],
     jumps |-> fw.jumps \cup {<<HostOf[r.addr], r.key>> : r \in rows}]

\* RemovePeer for each peer of an import, with the address it was created with.
FwRemoveNew(fw, rows) ==
    LET left == fw.jumps \ {<<HostOf[r.addr], r.key>> : r \in rows}
    IN  [chain |-> [k \in Keys |->
                      IF ~ HasKey(rows, k) THEN fw.chain[k]
                      ELSE IF fw.chain[k] = None \/ \A j \in left : j[2] # k
                        THEN None ELSE Flushed],
         jumps |-> left]

\* Sync(rows): flush the dispatch chain, apply or remove every row, delete the
\* chains no row owns.  An enabled row without an address keeps its chain.
FwSync(fw, rows) ==
    LET live == {r \in rows : r.enabled /\ r.addr # None}
        of(k) == CHOOSE r \in rows : r.key = k
    IN  [chain |-> [k \in Keys |->
                      IF ~ HasKey(rows, k) \/ ~ of(k).enabled THEN None
                      ELSE IF of(k).addr = None THEN fw.chain[k]
                      ELSE [src |-> HostOf[of(k).addr], allow |-> of(k).allow]],
         jumps |-> {<<HostOf[r.addr], r.key>> : r \in live}]

\* The peers whose chain the dispatch chain may send the traffic of h to.  Jumps
\* are appended, the first that matches wins and every chain ends in a DROP: one
\* of them decides.  Their order is not kept, so that what is said of the decider
\* has to hold of each of them.
Deciders(fw, h) == {j[2] : j \in {i \in fw.jumps : i[1] = h}}

\* The chain of k is there with its rules.
Complete(fw, k) == fw.chain[k] \notin {None, Flushed}

\* Traffic of the kernel peer k is decided by its own chain and by no other, for
\* each of its IPs.
Filtered(kernel, fw, k) ==
    \A h \in kernel[k].ips : Deciders(fw, h) = {k} /\ Complete(fw, k)
=============================================================================
