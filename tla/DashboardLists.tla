---------------------------- MODULE DashboardLists ----------------------------
(* The lists of the frps dashboard (server/http/controller_v2.go and         *)
(* controller.go): users, clients and proxies, filtered, sorted and cut into *)
(* pages, over the client registry and the traffic statistics as they change *)
(* between requests.                                                         *)
(*                                                                           *)
(* Names are numbers, so that they can be sorted; 0 is the absent filter.    *)
(* A client is <<user, id>> and its key that pair.  A proxy is               *)
(* [type, name, user, client].  Free-text search is left out.                *)
EXTENDS Integers, SequencesExt

CONSTANTS Clients,       \* clients that may connect
          Anonymous,     \* those of them that set no clientID
          Proxies,       \* proxies that may be registered, names distinct
          APIV2ProxyTypes, \* the types the lists know
          MaxPageSize,   \* maxV2PageSize
          MaxInt         \* math.MaxInt, of the form 2^n - 1

VARIABLES online,        \* the registry: client -> Online, for known clients
          stats,         \* proxies with statistics
          running        \* proxies of the proxy manager

dvars == <<online, stats, running>>

-----------------------------------------------------------------------------
(* Page parameters and pages *)

\* Go's int: values past MaxInt are negative.
Wrapped(n) == ((n + MaxInt + 1) % (2 * (MaxInt + 1))) - (MaxInt + 1)

\* parseV2PageParams and parseV2PositiveInt: whether a request is answered.
ParseV2PageParams(page, size) ==
    /\ page >= 1
    /\ size \in 1..MaxPageSize
    /\ page <= MaxInt \div size

\* paginateV2Items.  A negative start is a slice out of range.
PaginateV2Items(items, page, size) ==
    LET start == Wrapped((page - 1) * size)
        end == Wrapped(start + size)
    IN  IF start >= Len(items) THEN <<>>
        ELSE SubSeq(items, start + 1, IF end < Len(items) THEN end ELSE Len(items))

-----------------------------------------------------------------------------
(* Users, clients and proxies *)

MatchV2StatusFilter(isOnline, filter) ==
    \/ filter \in {"", "all"}
    \/ filter = "online" /\ isOnline
    \/ filter = "offline" /\ ~isOnline

ClientBefore(a, b) == \/ a[1] < b[1]
                      \/ a[1] = b[1] /\ a[2] < b[2]

\* APIV2ClientList: byUser is <<>> or <<user>>, for the user may be empty.
V2ClientList(byUser, id, status) ==
    SetToSortSeq({c \in DOMAIN online : /\ byUser # <<>> => c[1] = byUser[1]
                                        /\ id # 0 => c[2] = id
                                        /\ MatchV2StatusFilter(online[c], status)},
                 ClientBefore)

\* listV2ProxyStats: the statistics of one type, or of all listed types.
ListV2ProxyStats(type) ==
    {p \in stats : IF type # 0 THEN p.type = type ELSE p.type \in APIV2ProxyTypes}

\* buildV2ProxyResp: online while the proxy manager has the name.
V2ProxyOnline(p) == \E q \in running : q.name = p.name

ProxyBefore(a, b) == \/ a.type < b.type
                     \/ a.type = b.type /\ a.name < b.name

V2ProxyList(byUser, client, type, status) ==
    SetToSortSeq({p \in ListV2ProxyStats(type) :
                    /\ byUser # <<>> => p.user = byUser[1]
                    /\ client # 0 => p.client = client
                    /\ MatchV2StatusFilter(V2ProxyOnline(p), status)},
                 ProxyBefore)

\* APIV2UserList: a user with a client or a listed proxy, and their numbers.
V2UserList ==
    LET users == {c[1] : c \in DOMAIN online} \cup {p.user : p \in ListV2ProxyStats(0)}
        user(u) == [user |-> u,
                    clients |-> Cardinality({c \in DOMAIN online : c[1] = u}),
                    proxies |-> Cardinality({p \in ListV2ProxyStats(0) : p.user = u})]
    IN  SetToSortSeq({user(u) : u \in users}, LAMBDA a, b : a.user < b.user)

\* buildV2ClientStatus: the listed proxies of the client's user and id.
V2ClientStatus(c) ==
    Cardinality({p \in ListV2ProxyStats(0) : p.user = c[1] /\ p.client = c[2]})

-----------------------------------------------------------------------------
(* What changes between requests *)

ListsInit == online = <<>> /\ stats = {} /\ running = {}

\* A login registers a client; the end of its control marks it offline, or
\* forgets it when it set no clientID.
ClientConnects(c) ==
    /\ online' = [d \in DOMAIN online \cup {c} |-> IF d = c THEN TRUE ELSE online[d]]
    /\ UNCHANGED <<stats, running>>

ClientLeaves(c) ==
    /\ c \in DOMAIN online /\ online[c]
    /\ \A p \in running : <<p.user, p.client>> # c
    /\ online' = IF c \in Anonymous THEN [d \in DOMAIN online \ {c} |-> online[d]]
                 ELSE [online EXCEPT ![c] = FALSE]
    /\ UNCHANGED <<stats, running>>

\* A proxy of an online client is registered and counted, and closes again.
ProxyStarts(p) ==
    /\ <<p.user, p.client>> \in DOMAIN online /\ online[<<p.user, p.client>>]
    /\ running' = running \cup {p}
    /\ stats' = stats \cup {p}
    /\ UNCHANGED online

ProxyCloses(p) ==
    /\ p \in running
    /\ running' = running \ {p}
    /\ UNCHANGED <<online, stats>>

\* APIV2SystemPrune, DeleteProxies: the statistics of closed proxies go.
PruneOfflineProxies ==
    /\ stats' = stats \cap running
    /\ UNCHANGED <<online, running>>

ListsNext ==
    \/ \E c \in Clients : ClientConnects(c) \/ ClientLeaves(c)
    \/ \E p \in Proxies : ProxyStarts(p) \/ ProxyCloses(p)
    \/ PruneOfflineProxies

ListsSpec == ListsInit /\ [][ListsNext]_dvars

-----------------------------------------------------------------------------

ListsTypeOK ==
    /\ DOMAIN online \subseteq Clients
    /\ \A c \in DOMAIN online : online[c] \in BOOLEAN
    /\ stats \subseteq Proxies /\ running \subseteq stats

\* The answered pages of a size hold the list from its start, in order, each
\* item once; no answered page begins before the list.
PagesOf(items, size) ==
    LET answered == {n \in 1..MaxInt : ParseV2PageParams(n, size)}
        page(n) == PaginateV2Items(items, n, size)
    IN  /\ \A n \in answered : Wrapped((n - 1) * size) >= 0
        /\ \A n \in answered : \A i \in 1..size :
              LET at == (n - 1) * size + i
              IN  IF at <= Len(items) THEN i <= Len(page(n)) /\ page(n)[i] = items[at]
                  ELSE i > Len(page(n))

Statuses == {"", "online", "offline"}

\* Walking the pages of any list shows every matching entry once, whatever the
\* page size, and no accepted page number overflows its offset
\* (controller_v2.go parseV2PageParams, paginateV2Items); the clients of a user
\* and their listed proxies add up to the numbers of the user's row, but for
\* the proxies of clients already forgotten (APIV2UserList, buildV2ClientStatus).
ListsExact ==
    /\ \A size \in 1..MaxPageSize :
          /\ \A status \in Statuses : PagesOf(V2ClientList(<<>>, 0, status), size)
          /\ \A status \in Statuses : PagesOf(V2ProxyList(<<>>, 0, 0, status), size)
          /\ PagesOf(V2UserList, size)
    /\ \A i \in DOMAIN V2UserList :
          LET row == V2UserList[i]
              own == V2ClientList(<<row.user>>, 0, "")
          IN  /\ row.clients = Len(own)
              /\ row.proxies = FoldFunction(+, 0, [k \in DOMAIN own |-> V2ClientStatus(own[k])])
                               + Cardinality({p \in ListV2ProxyStats(0) :
                                                 p.user = row.user /\ <<p.user, p.client>> \notin DOMAIN online})
=============================================================================
