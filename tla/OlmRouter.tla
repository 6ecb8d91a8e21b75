------------------------------- MODULE OlmRouter -------------------------------
(***************************************************************************)
(* The multi-peer router of the client role (newt/src/olm/router.rs): one  *)
(* peer per site, outbound packets routed by longest prefix, inbound       *)
(* datagrams given to the peer whose index they carry (newt/src/wg.rs,     *)
(* peer_index_of).  A peer's WireGuard session is in Tunn; here a datagram *)
(* is the 32-bit index in its header.                                      *)
(*                                                                         *)
(* Widths are parameters: octets have OCTET bits, an IPv4 address V4 of    *)
(* them and an IPv6 address V6, an index INDEX bits of which the low SLOT  *)
(* are the session's.                                                      *)
(***************************************************************************)
EXTENDS Integers, Sequences, FiniteSets, SequencesExt

CONSTANTS
  Sites,                 \* site ids
  Endpoints,             \* socket addresses
  Cidrs,                 \* the ranges messages may carry
  MaxCidrs,              \* bound: ranges of one peer
  MaxUpserts,            \* bound: calls of upsert_peer
  OCTET, V4, V6,         \* 8, 4, 16
  INDEX, SLOT            \* 32, 8

VARIABLES
  peers,                 \* Vec<Peer>: site_id, endpoint, cidrs, index
  next_index,            \* u32
  upserts,               \* calls so far
  wanted                 \* history: site -> endpoint and set of ranges asked for

vars == <<peers, next_index, upserts, wanted>>

Addresses == [1 .. V4 -> 0 .. 2^OCTET - 1] \cup [1 .. V6 -> 0 .. 2^OCTET - 1]

CidrLists == BoundedSeq(Cidrs, MaxCidrs)
-------------------------------------------------------------------------------
\* Seeded fault: the bits after the last whole octet are not compared.
OctetsMatch(a, b, prefix) == SubSeq(a, 1, prefix \div OCTET) = SubSeq(b, 1, prefix \div OCTET)

\* Whole octets first, then the high bits of the next one under a mask.
bits_match(a, b, prefix) ==
  LET full == prefix \div OCTET
      rem == prefix % OCTET
      Masked(x) == x - (x % 2^(OCTET - rem))
  IN /\ SubSeq(a, 1, full) = SubSeq(b, 1, full)
     /\ rem = 0 \/ Masked(a[full + 1]) = Masked(b[full + 1])

\* An IPv4 range contains no IPv6 address and the other way round.
contains(c, ip) == Len(c.net) = Len(ip) /\ bits_match(c.net, ip, c.prefix)

\* The ranges of all the peers with the position of their peer, in order.
Entries(ps) ==
  FlattenSeq([i \in DOMAIN ps |->
                [k \in DOMAIN ps[i].cidrs |-> [peer |-> i, cidr |-> ps[i].cidrs[k]]]])

\* The position of the peer that owns dst, 0 when there is none: an entry
\* replaces the best so far only when its prefix is longer.
best_peer(dst) ==
  LET Better(best, e) == IF /\ contains(e.cidr, dst)
                            /\ best.peer = 0 \/ e.cidr.prefix > best.prefix
                         THEN [peer |-> e.peer, prefix |-> e.cidr.prefix]
                         ELSE best
  IN FoldLeft(Better, [peer |-> 0, prefix |-> 0], Entries(peers)).peer

\* The receiver index of a session of a peer, and the peer index read back.
LocalIndex(index, slot) == (index * 2^SLOT + slot) % 2^INDEX
peer_index_of(idx) == idx \div 2^SLOT

\* The position of the peer handle_inbound gives a datagram to, 0 for none.
inbound(idx) == SelectInSeq(peers, LAMBDA p : p.index = peer_index_of(idx))
-------------------------------------------------------------------------------
Init == peers = <<>> /\ next_index = 1 /\ upserts = 0 /\ wanted = <<>>

\* Seeded fault: the index is not advanced.
NextIndexStuck == next_index

\* wrapping_add(1).max(1)
NextIndex == LET n == (next_index + 1) % 2^INDEX IN IF n = 0 THEN 1 ELSE n

WithoutPeer(s) == SelectSeq(peers, LAMBDA p : p.site_id # s)

\* A key that does not decode leaves everything as it was.
upsert_peer(s, ep, cs) ==
  /\ upserts < MaxUpserts /\ upserts' = upserts + 1
  /\ \/ /\ peers' = Append(WithoutPeer(s), [site_id |-> s, endpoint |-> ep, cidrs |-> cs,
                                            index |-> next_index])
        /\ next_index' = NextIndex
        /\ wanted' = [t \in DOMAIN wanted \cup {s} |->
                        IF t = s THEN [endpoint |-> ep, ranges |-> ToSet(cs)] ELSE wanted[t]]
     \/ UNCHANGED <<peers, next_index, wanted>>

remove_peer(s) ==
  /\ peers' = WithoutPeer(s)
  /\ wanted' = [t \in DOMAIN wanted \ {s} |-> wanted[t]]
  /\ UNCHANGED <<next_index, upserts>>

\* iter_mut().find(site_id), then an assignment to a field of the peer found.
Found(s) == SelectInSeq(peers, LAMBDA p : p.site_id = s)

set_endpoint(s, ep) ==
  /\ Found(s) # 0
  /\ peers' = [peers EXCEPT ![Found(s)].endpoint = ep]
  /\ wanted' = [wanted EXCEPT ![s].endpoint = ep]
  /\ UNCHANGED <<next_index, upserts>>

set_cidrs(s, cs) ==
  /\ Found(s) # 0
  /\ peers' = [peers EXCEPT ![Found(s)].cidrs = cs]
  /\ wanted' = [wanted EXCEPT ![s].ranges = ToSet(cs)]
  /\ UNCHANGED <<next_index, upserts>>

add_cidrs(s, cs) ==
  /\ Found(s) # 0 /\ Len(peers[Found(s)].cidrs \o cs) <= MaxCidrs
  /\ peers' = [peers EXCEPT ![Found(s)].cidrs = @ \o cs]
  /\ wanted' = [wanted EXCEPT ![s].ranges = @ \cup ToSet(cs)]
  /\ UNCHANGED <<next_index, upserts>>

\* Seeded fault: one copy of a range is removed.
RetainedAllButFirst(cidrs, drop) ==
  LET i == SelectInSeq(cidrs, LAMBDA c : c \in ToSet(drop))
  IN IF i = 0 THEN cidrs ELSE RemoveAt(cidrs, i)

Retained(cidrs, drop) == SelectSeq(cidrs, LAMBDA c : c \notin ToSet(drop))

remove_cidrs(s, drop) ==
  /\ Found(s) # 0
  /\ peers' = [peers EXCEPT ![Found(s)].cidrs = Retained(@, drop)]
  /\ wanted' = [wanted EXCEPT ![s].ranges = @ \ ToSet(drop)]
  /\ UNCHANGED <<next_index, upserts>>

Next == \E s \in Sites :
          \/ remove_peer(s)
          \/ \E ep \in Endpoints : set_endpoint(s, ep)
          \/ \E cs \in CidrLists : \/ \E ep \in Endpoints : upsert_peer(s, ep, cs)
                                   \/ set_cidrs(s, cs)
                                   \/ add_cidrs(s, cs)
                                   \/ remove_cidrs(s, cs)

Spec == Init /\ [][Next]_vars
-------------------------------------------------------------------------------
\* The router holds one peer for each site that was added and not removed,
\* with the last endpoint and the set of ranges asked for, whatever the order
\* of replacements, relays and range updates.
PeersMatchRequests ==
  /\ Len(peers) = Cardinality(DOMAIN wanted)
  /\ \A s \in DOMAIN wanted : \E i \in DOMAIN peers :
       peers[i].site_id = s /\ peers[i].endpoint = wanted[s].endpoint
                            /\ ToSet(peers[i].cidrs) = wanted[s].ranges

\* The n-th bit of an address, from the most significant.
Bit(a, n) == (a[((n - 1) \div OCTET) + 1] \div 2^(OCTET - 1 - ((n - 1) % OCTET))) % 2

Matches(c, ip) == Len(c.net) = Len(ip) /\ \A n \in 1 .. c.prefix : Bit(c.net, n) = Bit(ip, n)

\* "the peer that owns dst by longest-prefix match", best_peer: a packet goes
\* to a site that was given a range with the destination in it and no other
\* site has a longer one; it is dropped only if no site has one.
RouteIsLongest ==
  \A ip \in Addresses :
    LET Lengths(s) == {c.prefix : c \in {d \in wanted[s].ranges : Matches(d, ip)}}
        All == UNION {Lengths(s) : s \in DOMAIN wanted}
        i == best_peer(ip)
    IN IF All = {} THEN i = 0
       ELSE i # 0 /\ \E n \in Lengths(peers[i].site_id) : \A m \in All : n >= m

\* "inbound datagrams are then demultiplexed back to the owning peer",
\* with_index in wg.rs: a datagram for any session of a peer reaches it.
DemuxFindsOwner ==
  \A i \in DOMAIN peers : \A slot \in 0 .. 2^SLOT - 1 :
    inbound(LocalIndex(peers[i].index, slot)) = i
===============================================================================
