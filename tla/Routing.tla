------------------------------ MODULE Routing ------------------------------
(***************************************************************************)
(* Which agent takes a message, and in which session (pkg/routing): the    *)
(* bindings of the configuration are tried from the most to the least      *)
(* specific, and the session key is built from the agent and, by dm_scope, *)
(* from the chat.  Messages arrive one after the other under one           *)
(* configuration; routed remembers where each of them went.  A name or an  *)
(* id is a value without blanks, <<platform, id>> for an id: "" for the    *)
(* platform of a bare one.  Only lower case matters of the conversions.    *)
(***************************************************************************)
EXTENDS Integers, Sequences, FiniteSets, SequencesExt
CONSTANTS Inbound,       \* what may arrive
          RouteConfigs,        \* configurations: agents, a sequence of [id, isDefault], bindings, one of
                          \* [agent, channel, account, peer, guild, team], and scope (dm_scope)
          IdentityLinks,  \* person -> the ids that are this person's
          LowerCase(_),   \* the lower case of an id
          MaxRouted       \* bound: messages that were routed
VARIABLES routes,  \* the configuration
          routed  \* where each message went: [msg, handler, key]
routingVars == <<routes, routed>>

NoId == <<"", "">>
NoPeer == <<"", NoId>>   \* a peer is its kind and its id
Folded(id) == <<id[1], LowerCase(id[2])>>
RoutingInit ==
    /\ routes \in RouteConfigs
    /\ routed = {}
\* extractPeer: a chat without an id is known by its sender or by its chat id
Peer(m) ==
    IF m.kind = "" THEN NoPeer
    ELSE <<m.kind, IF m.peer # NoId THEN m.peer ELSE IF m.kind = "direct" THEN m.sender ELSE m.chat>>
AccountID(m) == IF m.account = "" THEN "default" ELSE LowerCase(m.account)
MatchesAccountID(account, actual) ==
    IF account = "" THEN actual = "default" ELSE account = "*" \/ LowerCase(account) = actual
\* the bindings that are for its channel and its account, by their places
Filtered(m) ==
    {i \in DOMAIN routes.bindings :
        routes.bindings[i].channel = m.channel /\ MatchesAccountID(routes.bindings[i].account, AccountID(m))}
NamesNoChat(b) == b.peer = NoPeer /\ b.guild = "" /\ b.team = ""
\* whether a binding matches a message at a level of the cascade
Matches(level, b, m) ==
    CASE level = 1 -> Peer(m)[2] # NoId /\ b.peer = Peer(m)
      [] level = 2 -> m.parent # NoPeer /\ b.peer = m.parent
      [] level = 3 -> m.guild # "" /\ b.guild = m.guild
      [] level = 4 -> m.team # "" /\ b.team = m.team
      [] level = 5 -> b.account # "*" /\ NamesNoChat(b)
      [] level = 6 -> b.account = "*" /\ NamesNoChat(b)
\* resolveDefaultAgentID: the first that is marked, or the first of all
DefaultAgentID ==
    LET marked == {i \in DOMAIN routes.agents : routes.agents[i].isDefault}
    IN  IF routes.agents = <<>> THEN "main"
        ELSE routes.agents[IF marked # {} THEN Min(marked) ELSE 1].id
Configured == IF routes.agents = <<>> THEN {"main"} ELSE {routes.agents[i].id : i \in DOMAIN routes.agents}
\* pickAgentID: an agent that is not configured gives way to the default one
PickAgentID(agent) ==
    IF agent = "" \/ (routes.agents # <<>> /\ agent \notin Configured) THEN DefaultAgentID ELSE agent
\* ResolveRoute: the first level with a match, and there the first binding
RouteAgent(m) ==
    LET at(level) == {i \in Filtered(m) : Matches(level, routes.bindings[i], m)}
        levels == {level \in 1..6 : at(level) # {}}
    IN  IF levels = {} THEN DefaultAgentID ELSE PickAgentID(routes.bindings[Min(at(Min(levels)))].agent)
\* a person without a name is passed over
People == DOMAIN IdentityLinks \ {""}
\* resolveLinkedPeerID: the person one of whose ids this is; of two, the order of the map decides
Linked(m, id) ==
    LET bare == IF id[1] = "" THEN {<<m.channel, id[2]>>} ELSE {<<"", id[2]>>}
        candidates == {Folded(c) : c \in {id} \cup bare}
        people == {p \in People : {Folded(i) : i \in IdentityLinks[p]} \cap candidates # {}}
    IN  IF people = {} \/ id = NoId THEN {id} ELSE {<<"", p>> : p \in people}
\* the channel is left out of the key of a group
BuildAgentPeerSessionKey_NoChannel(m, agent, id) ==
    <<agent, Peer(m)[1], Folded(id)>>
\* the key of a direct chat says as much of it as dm_scope wants, that of a group says all of it
BuildAgentPeerSessionKey(m, agent, id) ==
    IF Peer(m)[1] \notin {"", "direct"} THEN <<agent, m.channel, Peer(m)[1], Folded(id)>>
    ELSE IF id = NoId THEN <<agent, "main">>
    ELSE CASE routes.scope = "per-account-channel-peer" -> <<agent, m.channel, AccountID(m), "direct", Folded(id)>>
           [] routes.scope = "per-channel-peer" -> <<agent, m.channel, "direct", Folded(id)>>
           [] routes.scope = "per-peer" -> <<agent, "direct", Folded(id)>>
           [] routes.scope = "main" -> <<agent, "main">>
KeyIds(m) == IF Peer(m)[1] = "direct" THEN Linked(m, Peer(m)[2]) ELSE {Peer(m)[2]}
\* resolveMessageRoute: an agent that the registry does not have gives way to the default one
HandlerOf(agent) == IF agent \in Configured THEN agent ELSE DefaultAgentID
\* resolveScopeKey: a message that names a session of an agent keeps it (not modelled: no adapter does)
Route(m) ==
    /\ Cardinality(routed) < MaxRouted
    /\ \E id \in KeyIds(m) :
          routed' = routed \cup {[msg |-> m, handler |-> HandlerOf(RouteAgent(m)),
                                  key |-> BuildAgentPeerSessionKey(m, RouteAgent(m), id)]}
    /\ UNCHANGED routes
RoutingNext == \E m \in Inbound : Route(m)
RoutingSpec == RoutingInit /\ [][RoutingNext]_routingVars
-----------------------------------------------------------------------------
\* who a direct chat is with: a person of identity_links, or somebody known by an id
Persons(m) ==
    {p \in People :
        \E i \in IdentityLinks[p] : i[2] = Peer(m)[2][2] /\ (i[1] = "" \/ i[1] = m.channel)}
Person(m) ==
    IF Persons(m) = {} THEN <<"id", Peer(m)[2]>> ELSE <<"person", CHOOSE p \in Persons(m) : TRUE>>
\* what dm_scope calls one conversation: kind, channel, account and with whom
Conversation(m) ==
    IF Peer(m)[1] \notin {"", "direct"} THEN <<Peer(m)[1], m.channel, "", Peer(m)[2]>>
    ELSE IF routes.scope = "main" \/ Peer(m) = NoPeer THEN <<"main", "", "", NoId>>
    ELSE <<"direct",
           IF routes.scope = "per-peer" THEN "" ELSE m.channel,
           IF routes.scope = "per-account-channel-peer" THEN AccountID(m) ELSE "",
           Person(m)>>
\* Two messages share a session exactly if one agent takes both and they are of one conversation:
\* nobody reads another's history, and no conversation is split ("Group/channel peers always get
\* per-peer sessions", session_key.go).  (Does not hold where ids differ in case only, as those of
\* Matrix rooms may, nor where identity_links gives one id to two people, or to one whose name is an id of
\* another; without agents.list a binding still names an agent, and the one agent there is keeps a session
\* under each of the names.  ClearRouting is without these.)
SessionsApart ==
    \A r, s \in routed :
        r.key = s.key <=> r.handler = s.handler /\ Conversation(r.msg) = Conversation(s.msg)
\* A configuration, and messages, under which names tell chats and people apart: agents are listed where
\* bindings name them; ids differ in more than case; one id is one person's, and no chat's id is a person's
\* name; a direct chat has an id, of its own platform.
ClearConfig(c) ==
    /\ c.agents \in Seq(ToSet(c.agents)) /\ (c.agents = <<>> => c.bindings = <<>>)
    /\ c.scope \in {"main", "per-peer", "per-channel-peer", "per-account-channel-peer"}
ClearMessage(m) ==
    /\ Peer(m)[1] \in {"", "direct", "group", "channel"}
    /\ LET id == Peer(m)[2]
       IN  /\ id = <<id[1], id[2]>> /\ \A p \in People : id # <<"", p>>
           /\ Peer(m)[1] = "direct" => id # NoId /\ id[1] \in {"", m.channel}
LinkedIds == UNION {IdentityLinks[p] : p \in People}
NamesUsed == {Peer(m)[2][2] : m \in Inbound} \cup People \cup {i[2] : i \in LinkedIds}
ClearRouting ==
    /\ \A c \in RouteConfigs : ClearConfig(c)
    /\ \A m \in Inbound : ClearMessage(m)
    /\ \A a, b \in NamesUsed : LowerCase(a) = LowerCase(b) => a = b
    /\ \A p, q \in People : \A i \in IdentityLinks[p], j \in IdentityLinks[q] :
          i[2] = j[2] /\ (i[1] = j[1] \/ i[1] = "" \/ j[1] = "") => p = q
=============================================================================
