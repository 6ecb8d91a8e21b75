--------------------------- MODULE OlmSessionProofs ---------------------------
(***************************************************************************)
(* Proofs about the client's control loop, for every set of sites, of      *)
(* endpoints and of ranges, and every bound.                               *)
(*                                                                         *)
(* RoutesCoverPeers is inductive with the types: each message adds routes  *)
(* for at least the ranges it adds to peers, a range leaves refused only   *)
(* when its route is programmed, and no message takes a route away.        *)
(***************************************************************************)
EXTENDS OlmSession, TLAPS

Topics == {"connect", "peer/add", "peer/update", "sync", "peer/remove", "peer/relay",
           "peer/unrelay", "data/add", "data/remove", "terminate"}

Messages == [typ : Topics, sites : Configs]

\* What the client and the server hold, and what is on its way.
Types ==
  /\ dp # None => dp \in [peers : Configs, routes : SUBSET Ranges]
  /\ toClient \in Seq(Messages)
  /\ sites \in Configs

Inv == Types /\ RoutesCoverPeers
-------------------------------------------------------------------------------
(* Maps from sites to configurations.                                      *)

LEMMA ConfigsShape ==
  ASSUME NEW f \in Configs
  PROVE  /\ DOMAIN f \subseteq Sites
         /\ f \in [DOMAIN f -> Config]
         /\ \A s \in DOMAIN f : /\ f[s] \in Config
                                /\ f[s].endpoint \in Endpoints
                                /\ f[s].ranges \subseteq Ranges
  <1>1. PICK S \in SUBSET Sites : f \in [S -> Config]
    BY DEF Configs
  <1>2. \A s \in S : f[s] \in Config
    BY <1>1
  <1>3. \A c \in Config : c.endpoint \in Endpoints /\ c.ranges \subseteq Ranges
    BY DEF Config
  <1> QED
    BY <1>1, <1>2, <1>3

LEMMA IsConfigs ==
  ASSUME NEW S \in SUBSET Sites, NEW f \in [S -> Config]
  PROVE  f \in Configs
  BY DEF Configs

LEMMA RangesOfConfigs ==
  ASSUME NEW f \in Configs
  PROVE  RangesOf(f) \subseteq Ranges
  BY ConfigsShape DEF RangesOf

\* Leaving sites out leaves ranges out.
LEMMA WithoutConfigs ==
  ASSUME NEW f \in Configs, NEW S
  PROVE  /\ Without(f, S) \in Configs
         /\ RangesOf(Without(f, S)) \subseteq RangesOf(f)
  <1> DEFINE g == Without(f, S)
  <1>1. DOMAIN g \in SUBSET Sites /\ g \in [DOMAIN g -> Config]
    BY ConfigsShape DEF Without
  <1>2. g \in Configs
    BY <1>1, IsConfigs
  <1>3. RangesOf(g) \subseteq RangesOf(f)
    BY DEF RangesOf, Without
  <1> QED
    BY <1>2, <1>3

LEMMA OnlyConfigs ==
  ASSUME NEW f \in Configs, NEW S
  PROVE  Only(f, S) \in Configs
  <1> DEFINE g == Only(f, S)
  <1>1. DOMAIN g \in SUBSET Sites /\ g \in [DOMAIN g -> Config]
    BY ConfigsShape DEF Only
  <1> QED
    BY <1>1, IsConfigs

\* One map over another has no other ranges than the two.
LEMMA OverConfigs ==
  ASSUME NEW f \in Configs, NEW g \in Configs
  PROVE  /\ Over(f, g) \in Configs
         /\ RangesOf(Over(f, g)) \subseteq RangesOf(f) \cup RangesOf(g)
  <1> DEFINE h == Over(f, g)
  <1>1. DOMAIN h = DOMAIN f \cup DOMAIN g
    BY DEF Over
  <1>2. DOMAIN h \in SUBSET Sites /\ h \in [DOMAIN h -> Config]
    BY ConfigsShape DEF Over
  <1>3. h \in Configs
    BY <1>2, IsConfigs
  <1>4. RangesOf(h) \subseteq RangesOf(f) \cup RangesOf(g)
    BY DEF RangesOf, Over
  <1> QED
    BY <1>3, <1>4

LEMMA OneConfigs ==
  ASSUME NEW s \in Sites, NEW c \in Config
  PROVE  One(s, c) \in Configs
  <1>1. One(s, c) \in [{s} -> Config] /\ {s} \in SUBSET Sites
    BY DEF One
  <1> QED
    BY <1>1, IsConfigs
-------------------------------------------------------------------------------
(* The client.                                                             *)

LEMMA NextMessage ==
  ASSUME Types, toClient # <<>>
  PROVE  /\ m.typ \in Topics /\ m.sites \in Configs
         /\ Tail(toClient) \in Seq(Messages)
  <1>1. m \in Messages /\ Tail(toClient) \in Seq(Messages)
    BY DEF Types, m
  <1> QED
    BY <1>1 DEF Messages

\* add_routes for new ranges, in a data plane whose peers have no others than
\* these and the ones they had.
LEMMA ProgramsInv ==
  ASSUME Inv, dp # None,
         NEW peers \in Configs, NEW new \in SUBSET Ranges, NEW F,
         RangesOf(peers) \subseteq RangesOf(dp.peers) \cup new,
         Programs(peers, dp.routes, new, F)
  PROVE  dp' \in [peers : Configs, routes : SUBSET Ranges] /\ RoutesCoverPeers'
  <1>1. /\ dp'.peers = peers
        /\ dp'.routes = dp.routes \cup (new \ F)
        /\ dp' = [peers |-> peers, routes |-> dp.routes \cup (new \ F)]
        /\ refused' = (refused \ new) \cup F
    BY DEF Programs, add_routes
  <1>2. dp.routes \in SUBSET Ranges
    BY DEF Inv, Types
  <1>3. dp' \in [peers : Configs, routes : SUBSET Ranges]
    BY <1>1, <1>2
  <1>4. RangesOf(dp.peers) \subseteq dp.routes \cup refused
    BY DEF Inv, RoutesCoverPeers
  <1>5. RangesOf(peers) \subseteq (dp.routes \cup (new \ F)) \cup ((refused \ new) \cup F)
    BY <1>4
  <1>6. RangesOf(dp'.peers) \subseteq dp'.routes \cup refused'
    BY <1>1, <1>5
  <1> QED
    BY <1>3, <1>6 DEF RoutesCoverPeers, RangesOf

LEMMA SessionEndsInv ==
  ASSUME Inv, SessionEnds, sites' = sites
  PROVE  Inv'
  BY DEF Inv, Types, SessionEnds, RoutesCoverPeers

LEMMA GotConnectInv ==
  ASSUME Inv, GotConnect
  PROVE  Inv'
  <1>1. Receives({"connect"}) /\ sites' = sites
    BY DEF GotConnect, server
  <1>2. m.sites \in Configs /\ Tail(toClient) \in Seq(Messages)
    BY <1>1, NextMessage DEF Inv, Receives
  <1>3. CASE exclusive /\ dp # None /\ SessionEnds
    BY <1>1, <1>3, SessionEndsInv
  <1>4. CASE ~(exclusive /\ dp # None) /\ toClient' = Tail(toClient)
             /\ \E U \in SUBSET Sites, F \in SUBSET Ranges :
                  /\ dp' = [peers |-> Without(m.sites, U),
                            routes |-> add_routes({}, RangesOf(Without(m.sites, U)), F)]
                  /\ refused' = F
    <2>1. PICK U \in SUBSET Sites, F \in SUBSET Ranges :
            /\ dp' = [peers |-> Without(m.sites, U),
                      routes |-> add_routes({}, RangesOf(Without(m.sites, U)), F)]
            /\ refused' = F
      BY <1>4
    <2> DEFINE ps == Without(m.sites, U)
    <2>2. ps \in Configs /\ RangesOf(ps) \subseteq Ranges
      BY <1>2, WithoutConfigs, RangesOfConfigs
    <2>3. /\ dp' = [peers |-> ps, routes |-> {} \cup (RangesOf(ps) \ F)]
          /\ refused' = F
      BY <2>1 DEF add_routes
    <2> HIDE DEF ps
    <2>4. /\ dp' \in [peers : Configs, routes : SUBSET Ranges]
          /\ dp'.peers = ps /\ dp'.routes = RangesOf(ps) \ F
      BY <2>2, <2>3
    <2>5. RoutesCoverPeers'
      BY <2>3, <2>4 DEF RoutesCoverPeers, RangesOf
    <2> QED
      BY <1>1, <1>2, <1>4, <2>4, <2>5 DEF Inv, Types
  <1> QED
    BY <1>3, <1>4 DEF GotConnect

LEMMA GotPeersInv ==
  ASSUME Inv, GotPeers
  PROVE  Inv'
  <1>1. /\ Receives({"peer/add", "peer/update", "sync"})
        /\ sites' = sites /\ toClient' = Tail(toClient)
    BY DEF GotPeers, server
  <1>2. m.sites \in Configs /\ toClient' \in Seq(Messages)
    BY <1>1, NextMessage DEF Inv, Receives
  <1>3. CASE dp = None /\ UNCHANGED <<dp, refused>>
    BY <1>1, <1>2, <1>3 DEF Inv, Types, RoutesCoverPeers
  <1>4. CASE dp # None /\ \E U \in SUBSET Sites, F \in SUBSET Ranges :
               Programs(Upserted(U), dp.routes, RangesOf(Without(m.sites, U)), F)
    <2>1. PICK U \in SUBSET Sites, F \in SUBSET Ranges :
            Programs(Upserted(U), dp.routes, RangesOf(Without(m.sites, U)), F)
      BY <1>4
    <2>2. /\ Without(m.sites, U) \in Configs /\ dp.peers \in Configs
          /\ RangesOf(Without(m.sites, U)) \in SUBSET Ranges
      BY <1>2, <1>4, WithoutConfigs, RangesOfConfigs DEF Inv, Types
    <2>3. /\ Upserted(U) \in Configs
          /\ RangesOf(Upserted(U)) \subseteq RangesOf(dp.peers) \cup RangesOf(Without(m.sites, U))
      BY <2>2, OverConfigs DEF Upserted
    <2>4. dp' \in [peers : Configs, routes : SUBSET Ranges] /\ RoutesCoverPeers'
      BY <1>4, <2>1, <2>2, <2>3, ProgramsInv
    <2> QED
      BY <1>1, <1>2, <2>4 DEF Inv, Types
  <1> QED
    BY <1>3, <1>4 DEF GotPeers, history

\* A change of one peer gives it no other ranges than those data/add names.
LEMMA ChangedConfigs ==
  ASSUME Inv, dp # None, toClient # <<>>, NEW s \in DOMAIN m.sites,
         m.typ \in {"peer/remove", "peer/relay", "peer/unrelay", "data/add", "data/remove"}
  PROVE  LET new == Changed(s, m.sites[s])
         IN /\ new \in Configs
            /\ RangesOf(new) \subseteq RangesOf(dp.peers) \cup RangesAdded
  <1> DEFINE c == m.sites[s]
             ps == dp.peers
             new == Changed(s, c)
  <1>1. ps \in Configs /\ m.sites \in Configs
    BY NextMessage DEF Inv, Types
  <1>2. c \in Config /\ c.endpoint \in Endpoints /\ c.ranges \subseteq Ranges
    BY <1>1, ConfigsShape
  <1>3. /\ DOMAIN ps \in SUBSET Sites /\ ps \in [DOMAIN ps -> Config]
        /\ \A t \in DOMAIN ps : /\ ps[t] \in Config
                                /\ ps[t].endpoint \in Endpoints /\ ps[t].ranges \subseteq Ranges
    BY <1>1, ConfigsShape
  <1>4. CASE s \notin DOMAIN ps
    BY <1>1, <1>4 DEF Changed
  <1>5. CASE s \in DOMAIN ps /\ m.typ = "peer/remove"
    <2>1. new = Without(ps, {s})
      BY <1>5 DEF Changed
    <2> QED
      BY <1>1, <2>1, WithoutConfigs
  <1>6. CASE s \in DOMAIN ps /\ m.typ # "peer/remove"
    <2> DEFINE k == IF m.typ \in {"peer/relay", "peer/unrelay"}
                    THEN [ps[s] EXCEPT !.endpoint = c.endpoint]
                    ELSE IF m.typ = "data/add" THEN [ps[s] EXCEPT !.ranges = @ \cup c.ranges]
                    ELSE [ps[s] EXCEPT !.ranges = @ \ c.ranges]
    <2>1. new = [ps EXCEPT ![s] = k]
      BY <1>6 DEF Changed
    <2>2. k \in Config /\ k.ranges \subseteq ps[s].ranges \cup RangesAdded
      <3>1. m.typ = "data/add" => c.ranges \subseteq RangesAdded
        BY DEF RangesAdded, RangesOf
      <3> QED
        BY <1>2, <1>3, <1>6, <3>1 DEF Config
    <2> HIDE DEF k, new
    <2>3. new \in [DOMAIN ps -> Config]
      BY <1>3, <2>1, <2>2
    <2>4. new \in Configs
      BY <1>3, <2>3, IsConfigs
    <2>5. RangesOf(new) \subseteq RangesOf(ps) \cup RangesAdded
      <3> SUFFICES ASSUME NEW t \in DOMAIN ps, NEW r \in new[t].ranges
                   PROVE  r \in RangesOf(ps) \cup RangesAdded
        BY <2>3 DEF RangesOf
      <3>1. CASE t = s
        BY <1>6, <2>1, <2>2, <3>1 DEF RangesOf
      <3>2. CASE t # s
        BY <2>1, <3>2 DEF RangesOf
      <3> QED
        BY <3>1, <3>2
    <2> QED
      BY <2>4, <2>5 DEF new
  <1> QED
    BY <1>4, <1>5, <1>6

LEMMA GotChangeInv ==
  ASSUME Inv, GotChange
  PROVE  Inv'
  <1>1. /\ Receives({"peer/remove", "peer/relay", "peer/unrelay", "data/add", "data/remove"})
        /\ sites' = sites /\ toClient' = Tail(toClient)
    BY DEF GotChange, server
  <1>2. m.sites \in Configs /\ toClient' \in Seq(Messages)
    BY <1>1, NextMessage DEF Inv, Receives
  <1>3. CASE UNCHANGED <<dp, refused>>
    BY <1>1, <1>2, <1>3 DEF Inv, Types, RoutesCoverPeers
  <1>4. CASE dp # None /\ \E s \in DOMAIN m.sites, F \in SUBSET Ranges :
               Programs(Changed(s, m.sites[s]), dp.routes, RangesAdded, F)
    <2>1. PICK s \in DOMAIN m.sites, F \in SUBSET Ranges :
            Programs(Changed(s, m.sites[s]), dp.routes, RangesAdded, F)
      BY <1>4
    <2>2. /\ Changed(s, m.sites[s]) \in Configs
          /\ RangesOf(Changed(s, m.sites[s])) \subseteq RangesOf(dp.peers) \cup RangesAdded
      BY <1>1, <1>4, ChangedConfigs DEF Receives, m
    <2>3. RangesAdded \in SUBSET Ranges
      BY <1>2, RangesOfConfigs DEF RangesAdded
    <2>4. dp' \in [peers : Configs, routes : SUBSET Ranges] /\ RoutesCoverPeers'
      BY <1>4, <2>1, <2>2, <2>3, ProgramsInv
    <2> QED
      BY <1>1, <1>2, <2>4 DEF Inv, Types
  <1> QED
    BY <1>3, <1>4 DEF GotChange, history
-------------------------------------------------------------------------------
(* The server.                                                             *)

\* A message the server pushes, or none, changes nothing of the data plane.
LEMMA PushedInv ==
  ASSUME Inv, UNCHANGED <<dp, refused>>, sites' \in Configs,
         \/ toClient' = toClient
         \/ \E msg \in Messages : toClient' = Append(toClient, msg)
  PROVE  Inv'
  <1>1. toClient' \in Seq(Messages)
    BY DEF Inv, Types
  <1> QED
    BY <1>1 DEF Inv, Types, RoutesCoverPeers

LEMMA ServerChangesInv ==
  ASSUME Inv, NEW ss \in Configs, NEW msg \in Messages, ServerChanges(ss, msg)
  PROVE  Inv'
  BY PushedInv DEF ServerChanges, Pushes, client, history

LEMMA ServerEditsInv ==
  ASSUME Inv, NEW s \in Sites,
         \/ ServerSets(s) \/ ServerRemoves(s) \/ ServerRelays(s)
         \/ ServerGrants(s) \/ ServerRevokes(s)
  PROVE  Inv'
  <1>1. sites \in Configs
    BY DEF Inv, Types
  <1>2. /\ sites \in [DOMAIN sites -> Config] /\ DOMAIN sites \in SUBSET Sites
        /\ \A t \in DOMAIN sites : /\ sites[t] \in Config
                                   /\ sites[t].ranges \subseteq Ranges
    BY <1>1, ConfigsShape
  <1>3. ASSUME NEW c \in Config, s \in DOMAIN sites
        PROVE  [sites EXCEPT ![s] = c] \in Configs
    <2>1. [sites EXCEPT ![s] = c] \in [DOMAIN sites -> Config]
      BY <1>2
    <2> QED
      BY <1>2, <2>1, IsConfigs
  <1>4. ASSUME NEW typ \in Topics, NEW ss \in Configs
        PROVE  Message(typ, ss) \in Messages
    BY DEF Message, Messages
  <1>5. CASE ServerSets(s)
    <2>1. PICK c \in Config, typ \in {"peer/add", "peer/update"} :
            ServerChanges(Over(One(s, c), sites), Message(typ, One(s, c)))
      BY <1>5 DEF ServerSets
    <2>2. One(s, c) \in Configs /\ Over(One(s, c), sites) \in Configs
      BY <1>1, OneConfigs, OverConfigs
    <2>3. Message(typ, One(s, c)) \in Messages
      BY <1>4, <2>2 DEF Topics
    <2> QED
      BY <2>1, <2>2, <2>3, ServerChangesInv
  <1>6. CASE ServerRemoves(s)
    <2>1. Without(sites, {s}) \in Configs /\ Only(sites, {s}) \in Configs
      BY <1>1, WithoutConfigs, OnlyConfigs
    <2>2. Message("peer/remove", Only(sites, {s})) \in Messages
      BY <1>4, <2>1 DEF Topics
    <2> QED
      BY <1>6, <2>1, <2>2, ServerChangesInv DEF ServerRemoves
  <1>7. CASE ServerRelays(s)
    <2>1. PICK e \in Endpoints, typ \in {"peer/relay", "peer/unrelay"} :
            /\ s \in DOMAIN sites
            /\ ServerChanges([sites EXCEPT ![s].endpoint = e],
                             Message(typ, Only([sites EXCEPT ![s].endpoint = e], {s})))
      BY <1>7 DEF ServerRelays
    <2> DEFINE ss == [sites EXCEPT ![s].endpoint = e]
    <2>2. [sites[s] EXCEPT !.endpoint = e] \in Config
      BY <1>2, <2>1 DEF Config
    <2>3. ss \in Configs
      BY <1>3, <2>1, <2>2
    <2>4. ServerChanges(ss, Message(typ, Only(ss, {s})))
      BY <2>1
    <2> HIDE DEF ss
    <2>5. Message(typ, Only(ss, {s})) \in Messages
      BY <1>4, <2>3, OnlyConfigs DEF Topics
    <2> QED
      BY <2>3, <2>4, <2>5, ServerChangesInv
  <1>8. CASE ServerGrants(s) \/ ServerRevokes(s)
    <2>1. PICK r \in Ranges, rs \in SUBSET Ranges, typ \in {"data/add", "data/remove"} :
            /\ s \in DOMAIN sites
            /\ ServerChanges([sites EXCEPT ![s].ranges = rs],
                             Message(typ, One(s, [sites[s] EXCEPT !.ranges = {r}])))
      <3>1. ASSUME NEW r \in Ranges, s \in DOMAIN sites
            PROVE  /\ sites[s].ranges \cup {r} \in SUBSET Ranges
                   /\ sites[s].ranges \ {r} \in SUBSET Ranges
        BY <1>2, <3>1
      <3> QED
        BY <1>8, <3>1 DEF ServerGrants, ServerRevokes
    <2> DEFINE ss == [sites EXCEPT ![s].ranges = rs]
               c == [sites[s] EXCEPT !.ranges = {r}]
    <2>2. [sites[s] EXCEPT !.ranges = rs] \in Config /\ c \in Config
      BY <1>2, <2>1 DEF Config
    <2>3. ss \in Configs
      BY <1>3, <2>1, <2>2
    <2>4. ServerChanges(ss, Message(typ, One(s, c)))
      BY <2>1
    <2> HIDE DEF ss, c
    <2>5. Message(typ, One(s, c)) \in Messages
      BY <1>4, <2>2, OneConfigs DEF Topics
    <2> QED
      BY <2>3, <2>4, <2>5, ServerChangesInv
  <1> QED
    BY <1>5, <1>6, <1>7, <1>8

LEMMA ServerSendsInv ==
  ASSUME Inv, AnswersRegister \/ ServerIgnores \/ ServerInterrupts
  PROVE  Inv'
  <1>1. sites \in Configs /\ sites' = sites /\ UNCHANGED <<dp, refused>>
    BY DEF Inv, Types, AnswersRegister, ServerIgnores, ServerInterrupts, server, client, history
  <1>2. Message("connect", sites) \in Messages /\ Message("sync", sites) \in Messages
    BY <1>1 DEF Message, Messages, Topics
  <1>3. Message("terminate", <<>>) \in Messages
    <2>1. <<>> \in [{} -> Config]
      OBVIOUS
    <2>2. <<>> \in Configs
      BY <2>1, IsConfigs
    <2> QED
      BY <2>2 DEF Message, Messages, Topics
  <1> QED
    BY <1>1, <1>2, <1>3, PushedInv DEF AnswersRegister, ServerIgnores, ServerInterrupts, Pushes
-------------------------------------------------------------------------------
\* Inv is inductive.
THEOREM Invariance == Spec => []Inv
  <1>1. Init => Inv
    BY DEF Init, Inv, Types, RoutesCoverPeers
  <1>2. ASSUME Inv, [Next]_vars
        PROVE  Inv'
    <2>1. CASE UNCHANGED <<dp, refused, toClient, sites>>
      BY <1>2, <2>1, PushedInv DEF Inv, Types
    <2>2. UNCHANGED vars \/ Restart \/ Tick => UNCHANGED <<dp, refused, toClient, sites>>
      BY DEF vars, client, net, server, history, Restart, Tick
    <2>3. CASE Connect
      <3>1. \/ UNCHANGED <<dp, refused, toClient, sites>>
            \/ SessionEnds /\ sites' = sites
        BY <2>3 DEF Connect, server, history
      <3> QED
        BY <1>2, <2>1, <3>1, SessionEndsInv
    <2>4. CASE SessionFails \/ GotTerminate
      BY <1>2, <2>4, SessionEndsInv DEF SessionFails, GotTerminate, server
    <2>5. CASE GotConnect \/ GotPeers \/ GotChange
      BY <1>2, <2>5, GotConnectInv, GotPeersInv, GotChangeInv
    <2> QED
      BY <1>2, <2>1, <2>2, <2>3, <2>4, <2>5, ServerEditsInv, ServerSendsInv DEF Next, Receive
  <1> QED
    BY <1>1, <1>2, PTL DEF Spec

\* A range of a peer is without a route only if the kernel refused it when it
\* was last added, for every number of sites and ranges and every order of
\* messages, refusals and reconnects.
THEOREM RefusalCostsOneRoute == Spec => []RoutesCoverPeers
  <1>1. Inv => RoutesCoverPeers
    BY DEF Inv
  <1> QED
    BY <1>1, Invariance, PTL
===============================================================================
