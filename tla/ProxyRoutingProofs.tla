------------------------- MODULE ProxyRoutingProofs -------------------------
(***************************************************************************)
(* Theorems about ProxyRouting, for every number of interfaces and places, *)
(* every Max-Forwards and either port: a request ends where the rules of   *)
(* module_proxy.c say, but for the three kinds for which the code departs  *)
(* from them, and the requests of a dialog pass the CSCF.                  *)
(*                                                                         *)
(* A request under way is described by what it was when it was sent and by *)
(* the number of its passes: each pass takes one hop, one Route that names *)
(* the CSCF while there is one, and adds one Record-Route (Follows).  The  *)
(* number of passes it will need is known when it is sent (PassesOf); it   *)
(* is at the CSCF as long as it has not had them, and then at the address  *)
(* that the code gives it (LeavesFor).  What the code does with every      *)
(* request (EndsAsSent) is part of the invariant; that this is what its    *)
(* rules ask for is the last step.                                         *)
(***************************************************************************)
EXTENDS ProxyRouting, MsgQueuesProofs, SequenceTheorems

Methods == {"INVITE", "ACK", "BYE"}
Hosts == STRING \cup {None, Public, Edge, "127.0.0.1", "cscf", "localhost", "domain"}
Addresses == [host : Hosts, port : Nat]
Routes == [user : Users \cup {None}, host : Hosts, port : Nat, maddr : {None}, lr : BOOLEAN]
Uris == [user : Users \cup {None}, host : Hosts, port : Nat, maddr : {None, Public, Edge},
         lr : BOOLEAN]
Reqs == [method : Methods, scheme : {"sip"} \cup Schemes, uri : Uris, routes : Seq(Routes),
         maxfwd : Nat, require : BOOLEAN, rr : Seq(Routes)]
Flights == [sent : Reqs, req : Reqs, at : Addresses, fate : Fates, passes : Nat]

\* The name this CSCF puts in front of the Record-Route headers.
Own == Loose(Public, app_port)

Typed ==
  /\ app_port \in OwnPorts
  /\ location \in [Users -> Places \cup {Nowhere}]
  /\ dialog \in [Users -> [target : Uris, routes : Seq(Routes)]]
  /\ flight \in Flights \cup {NoFlight}

\* A route set of nothing but the CSCF's name, for the other party.
OnPath(u) ==
  /\ dialog[u].target.user \in Users /\ dialog[u].target.maddr = None
  /\ dialog[u].routes # <<>>
  /\ \A i \in 1 .. Len(dialog[u].routes) : dialog[u].routes[i] = Own

DialogOnPath == dialog # NoDialog => \A u \in Users : OnPath(u)

\* A request that may be sent: by its own dialog, or an INVITE.
Sendable(m) ==
  /\ m.uri.user = None => m.method = "INVITE"
  /\ m.method # "INVITE" =>
       /\ m.routes # <<>> /\ \A i \in 1 .. Len(m.routes) : m.routes[i] = Own
       /\ m.uri.maddr = None /\ m.scheme = "sip"
  /\ m.uri.maddr = Public => m.uri.port = app_port

\* What a pass leaves of the Routes: the first n were the CSCF's.
Used(k, n) == IF k <= n THEN k ELSE n
RoutesLeft(m, r, k) ==
  /\ Len(r.routes) = Len(m.routes) - Used(k, OwnRoutes(m))
  /\ \A i \in 1 .. Len(r.routes) : r.routes[i] = m.routes[i + Used(k, OwnRoutes(m))]

\* Where a request is that has had its passes.
LeavesFor(m, at) ==
  LET others == SubSeq(m.routes, OwnRoutes(m) + 1, Len(m.routes))
      here == location[m.uri.user]
  IN  CASE others # <<>> -> at = Resolve(others[1])
        [] others = <<>> /\ m.uri.maddr = None -> at = here
        [] others = <<>> /\ m.uri.maddr = Edge -> at.host = Edge
        [] OTHER -> at.host = here.host

\* A request r that was sent as m, after k passes.
Kept(m, r, k) ==
  /\ r.method = m.method /\ r.scheme = m.scheme /\ r.require = m.require
  /\ r.uri.user = m.uri.user /\ r.maxfwd = m.maxfwd - k
  /\ r.uri.maddr = m.uri.maddr \/ (r.uri.maddr = None /\ m.uri.maddr = Public)
  /\ Len(r.rr) = k /\ \A i \in 1 .. k : r.rr[i] = Own

\* What has let a request pass.
Passed(m, k) ==
  k > 0 => /\ m.scheme = "sip" /\ ~m.require /\ m.maxfwd > k
           /\ m.uri.user # None /\ location[m.uri.user] # Nowhere

\* A request f under way, and what it was sent as.
Follows(f) ==
  LET m == f.sent
      k == f.passes
  IN  /\ Sendable(m) /\ k <= PassesOf(m)
      /\ Kept(m, f.req, k) /\ RoutesLeft(m, f.req, k) /\ Passed(m, k)
      /\ Ours(f.at) <=> k < PassesOf(m)
      /\ k = PassesOf(m) => LeavesFor(m, f.at)

FlightFollows == flight # NoFlight => Follows(flight)

\* What becomes of any request with a SIP URI, strictly routed ones included.
EndsAsSent ==
  Ended /\ flight.sent.scheme = "sip" =>
    LET m == flight.sent
    IN  IF Expected(m) # "leaves" THEN m.method = "ACK" \/ flight.fate = Expected(m)
        ELSE /\ flight.fate \in {"delivered", "elsewhere"}
             /\ flight.passes = PassesOf(m)
             /\ LeavesFor(m, flight.at)

IInv == Typed /\ DialogOnPath /\ FlightFollows /\ EndsAsSent /\ DialogStaysOnPath

-----------------------------------------------------------------------------
(* The records that requests are made of. *)

\* The CSCF's port is a port, and its first name the one for Record-Route.
LEMMA PortIs ==
  ASSUME Typed
  PROVE  /\ app_port \in Nat /\ app_port # 0
         /\ init_proxy \in Seq(Hosts) /\ init_proxy[1] = Public
         /\ 1 \in DOMAIN init_proxy
<1>1. <<Public>> \in Seq(Hosts) /\ <<"127.0.0.1", "cscf", "localhost">> \in Seq(Hosts)
      /\ Interfaces \in Seq(Hosts)
  BY RoutingAssumption DEF Hosts
<1>2. <<Public>> \o Interfaces \in Seq(Hosts) /\ (<<Public>> \o Interfaces)[1] = Public
      /\ Len(<<Public>> \o Interfaces) = 1 + Len(Interfaces)
  BY <1>1
<1>3. init_proxy \in Seq(Hosts) /\ init_proxy[1] = Public /\ Len(init_proxy) >= 1
  BY <1>1, <1>2 DEF init_proxy
<1>4. QED
  BY <1>3, RoutingAssumption DEF Typed

\* Neither another proxy nor a user has an address of the CSCF's.
LEMMA NotOurs ==
  ASSUME NEW a, a.host = Edge \/ \E h \in Places : a.host = h.host
  PROVE  ~Ours(a)
BY RoutingAssumption DEF Ours

\* Where the users are.
LEMMA PlacesAre ==
  ASSUME Typed, NEW u \in Users, location[u] # Nowhere
  PROVE  location[u] \in Places /\ location[u] \in Addresses /\ location[u].port # 0
BY RoutingAssumption DEF Typed, Addresses, Hosts

\* The addresses of the Routes and of the Request-URIs.
LEMMA ResolveIs ==
  ASSUME Typed, NEW uri \in Uris
  PROVE  /\ Resolve(uri) \in Addresses
         /\ uri.maddr = None => (Ours(Resolve(uri)) <=> is_uri_local(uri))
<1>1. {Public, Edge, None} \subseteq Hosts /\ app_port \in Nat /\ app_port # 0
  BY PortIs DEF Hosts
<1>2. uri.host \in Hosts /\ uri.port \in Nat /\ uri.maddr \in {None, Public, Edge}
  BY DEF Uris
<1>3. QED
  BY <1>1, <1>2 DEF Resolve, Address, Addresses, Ours, is_uri_local

(* A Route is an address like any other. *)
LEMMA RoutesAreUris == Routes \subseteq Uris
BY DEF Routes, Uris

\* The name in the Record-Route leads back.
LEMMA OwnIs ==
  ASSUME Typed
  PROVE  Own \in Routes /\ Ours(Resolve(Own))
<1>1. Public \in Hosts /\ app_port \in Nat /\ app_port # 0 /\ init_proxy[1] = Public
      /\ 1 \in DOMAIN init_proxy
  BY PortIs DEF Hosts
<1>2. Own \in Routes /\ Own.host = Public /\ Own.port = app_port /\ Own.maddr = None
  BY <1>1 DEF Own, Loose, Uri, Routes
<1>3. QED
  BY <1>1, <1>2 DEF Resolve, Address, Ours

-----------------------------------------------------------------------------
(* How many of a request's Routes are the CSCF's. *)
LEMMA OwnRoutesIs ==
  ASSUME NEW m, m.routes \in Seq(Routes)
  PROVE  LET n == OwnRoutes(m)
         IN  /\ n \in 0 .. Len(m.routes)
             /\ \A j \in 1 .. n : Ours(Resolve(m.routes[j]))
             /\ n < Len(m.routes) => ~Ours(Resolve(m.routes[n + 1]))
<1> DEFINE ours(j) == Ours(Resolve(m.routes[j]))
           len == Len(m.routes)
           S == {i \in 1 .. len : \A j \in 1 .. i : ours(j)}
           T == {i \in 1 .. len : ~ours(i)}
<1>1. len \in Nat /\ DOMAIN m.routes = 1 .. len
  OBVIOUS
<1>2. OwnRoutes(m) = Cardinality(S)
  BY <1>1 DEF OwnRoutes
<1>3. ASSUME NEW n \in Nat, n <= len, \A j \in 1 .. n : ours(j), n < len => ~ours(n + 1)
      PROVE  OwnRoutes(m) = n
  <2> HIDE DEF ours
  <2>1. S = 1 .. n
    BY <1>1, <1>3
  <2>2. Cardinality(1 .. n) = n
    BY FS_Interval
  <2>3. QED
    BY <1>2, <2>1, <2>2, Zenon
<1>4. PICK n \in Nat : n <= len /\ (\A j \in 1 .. n : ours(j)) /\ (n < len => ~ours(n + 1))
  <2> HIDE DEF ours
  <2>1. CASE T = {}
    BY <1>1, <2>1
  <2>2. CASE T # {}
    <3>0. T \subseteq Nat
      BY <1>1
    <3>1. PICK x \in T : \A y \in T : x <= y
      <4> HIDE DEF T
      <4> QED BY <2>2, <3>0, LeastNatural
    <3>2. x \in 1 .. len /\ ~ours(x) /\ x - 1 \in Nat /\ x - 1 <= len /\ (x - 1) + 1 = x
      BY <1>1, <3>1
    <3>3. \A j \in 1 .. x - 1 : ours(j)
      BY <1>1, <3>1, <3>2
    <3>4. QED
      BY <3>2, <3>3
  <2>3. QED
    BY <2>1, <2>2
<1>5. OwnRoutes(m) = n
  BY <1>3, <1>4
<1>6. QED
  BY <1>1, <1>4, <1>5

\* It stays the same as long as the port does.
LEMMA OwnRoutesStay ==
  ASSUME UNCHANGED app_port
  PROVE  \A m : OwnRoutes(m)' = OwnRoutes(m) /\ PassesOf(m)' = PassesOf(m)
<1>1. \A a : Ours(a)' <=> Ours(a)
  BY DEF Ours
<1>2. \A m : OwnRoutes(m)' = OwnRoutes(m)
  BY <1>1 DEF OwnRoutes
<1>3. QED
  BY <1>2 DEF PassesOf

-----------------------------------------------------------------------------
(* One pass: the functions that handle a request, in their order. *)

\* Everything of a request but its Request-URI, its Routes and its hops.
SameBut(m, r) ==
  m.method = r.method /\ m.scheme = r.scheme /\ m.require = r.require /\ m.rr = r.rr

\* route_on_rx_msg writes the user's address, pjsip's copy has one hop less to go.
LEMMA RewriteIs ==
  ASSUME Typed, Rewritten, flight.req \in Reqs, flight.req.maxfwd > 1
  PROVE  LET r == flight.req
             m == Copy(Rewrite(r))
         IN  /\ m \in Reqs /\ SameBut(m, r) /\ m.routes = r.routes /\ m.maxfwd = r.maxfwd - 1
             /\ m.uri.user = r.uri.user /\ m.uri.maddr = r.uri.maddr
             /\ m.uri.host = Here.host /\ m.uri.port = Here.port
             /\ Here \in Places
<1> DEFINE r == flight.req
           uri == Rewrite(r).uri
           hops == r.maxfwd - 1
           m == Copy(Rewrite(r))
<1>1. Here \in Places /\ Here \in Addresses
  BY PlacesAre DEF Rewritten, Here, Reqs, Uris
<1>2. r.uri \in Uris /\ r.maxfwd \in Nat /\ hops \in Nat
  BY DEF Reqs
<1>3. /\ uri \in Uris /\ uri.user = r.uri.user /\ uri.maddr = r.uri.maddr
      /\ uri.host = Here.host /\ uri.port = Here.port
  BY <1>1, <1>2 DEF Rewrite, Uris, Addresses, Reqs
<1>4. Rewrite(r) = [r EXCEPT !.uri = uri]
  BY DEF Rewrite, Reqs
<1>5. m = [r EXCEPT !.uri = uri, !.maxfwd = hops]
  BY <1>4 DEF Copy, Reqs
<1> HIDE DEF uri, hops, m
<1>6. m \in Reqs /\ SameBut(m, r) /\ m.routes = r.routes /\ m.maxfwd = hops /\ m.uri = uri
  BY <1>2, <1>3, <1>5 DEF Reqs, SameBut
<1>7. QED
  BY <1>1, <1>3, <1>6 DEF m, hops

\* A Request-URI with a user's address names no strict route and is not this proxy's.
LEMMA UserIsNotLocal ==
  ASSUME NEW uri, \E a \in Places : uri.host = a.host
  PROVE  ~is_uri_local(uri)
BY RoutingAssumption DEF is_uri_local

\* A maddr that names this proxy goes, and the port with it.
LEMMA StripIs ==
  ASSUME Typed, NEW m \in Reqs
  PROVE  LET c == StripMaddr(m)
         IN  /\ c \in Reqs /\ SameBut(c, m) /\ c.routes = m.routes /\ c.maxfwd = m.maxfwd
             /\ c.uri.user = m.uri.user /\ c.uri.host = m.uri.host
             /\ c.uri.maddr = IF m.uri.maddr = Public THEN None ELSE m.uri.maddr
             /\ c.uri.maddr = m.uri.maddr => c.uri.port = m.uri.port
<1> DEFINE c == StripMaddr(m)
           uri == c.uri
<1>1. m.uri \in Uris /\ app_port \in Nat /\ init_proxy[1] = Public /\ 1 \in DOMAIN init_proxy
  BY PortIs DEF Reqs
<1>2. \A i \in DOMAIN init_proxy : init_proxy[i] # None /\ init_proxy[i] # Edge
  BY RoutingAssumption
<1>3. Public # None /\ Public # Edge
  BY <1>1, <1>2
<1>4. \A h : is_uri_local(Address(h, app_port)) <=> \E i \in DOMAIN init_proxy : init_proxy[i] = h
  BY DEF is_uri_local, Address
<1>5. /\ m.uri.maddr = Public => is_uri_local(Address(m.uri.maddr, app_port))
      /\ m.uri.maddr # Public => m.uri.maddr = None
                                 \/ ~is_uri_local(Address(m.uri.maddr, app_port))
  BY <1>1, <1>2, <1>4 DEF Uris
<1>6. CASE m.uri.maddr = Public
  <2>1. c = [m EXCEPT !.uri.maddr = None, !.uri.port = 0]
    BY <1>3, <1>5, <1>6 DEF StripMaddr
  <2>2. /\ uri \in Uris /\ uri.user = m.uri.user /\ uri.host = m.uri.host /\ uri.maddr = None
        /\ c = [m EXCEPT !.uri = uri]
    <3>1. uri = [m.uri EXCEPT !.maddr = None, !.port = 0]
      BY <2>1 DEF Reqs
    <3>2. c = [m EXCEPT !.uri = uri]
      BY <2>1 DEF Reqs
    <3> HIDE DEF uri, c
    <3>3. QED
      BY <1>1, <3>1, <3>2 DEF Uris
  <2> HIDE DEF uri
  <2>3. c \in Reqs /\ SameBut(c, m) /\ c.routes = m.routes /\ c.maxfwd = m.maxfwd
    BY <2>2 DEF Reqs, SameBut
  <2>4. QED
    BY <1>3, <1>6, <2>2, <2>3 DEF uri
<1>7. CASE m.uri.maddr # Public
  BY <1>5, <1>7 DEF StripMaddr, SameBut
<1>8. QED
  BY <1>6, <1>7

\* The first Route goes if it names this proxy.
LEMMA OwnRouteIs ==
  ASSUME Typed, NEW m \in Reqs
  PROVE  LET d == OwnRoute(m)
         IN  /\ d \in Reqs /\ SameBut(d, m) /\ d.uri = m.uri /\ d.maxfwd = m.maxfwd
             /\ d.routes = IF m.routes # <<>> /\ Ours(Resolve(Head(m.routes)))
                             THEN Tail(m.routes) ELSE m.routes
<1> DEFINE left == Tail(m.routes)
<1>1. m.routes \in Seq(Routes)
  BY DEF Reqs
<1>2. CASE m.routes = <<>>
  BY <1>2 DEF OwnRoute, SameBut
<1>3. CASE m.routes # <<>>
  <2>1. Head(m.routes) \in Routes /\ left \in Seq(Routes)
    BY <1>1, <1>3
  <2>2. Head(m.routes) \in Uris /\ Head(m.routes).maddr = None
    BY <2>1 DEF Routes, Uris
  <2>3. Ours(Resolve(Head(m.routes))) <=> is_uri_local(Head(m.routes))
    BY <2>2, ResolveIs
  <2>4. CASE is_uri_local(Head(m.routes))
    <3>1. OwnRoute(m) = [m EXCEPT !.routes = left]
      BY <1>3, <2>4 DEF OwnRoute
    <3> HIDE DEF left
    <3>2. /\ OwnRoute(m) \in Reqs /\ SameBut(OwnRoute(m), m) /\ OwnRoute(m).uri = m.uri
          /\ OwnRoute(m).maxfwd = m.maxfwd /\ OwnRoute(m).routes = left
      BY <2>1, <3>1 DEF Reqs, SameBut
    <3>3. QED
      BY <1>3, <2>3, <2>4, <3>2 DEF left
  <2>5. CASE ~is_uri_local(Head(m.routes))
    BY <1>3, <2>3, <2>5 DEF OwnRoute, SameBut
  <2>6. QED
    BY <2>4, <2>5
<1>4. QED
  BY <1>2, <1>3

\* The three together, on a request that goes to a user.
LEMMA RoutingIs ==
  ASSUME Typed, NEW m \in Reqs, NEW a \in Places, m.uri.host = a.host, m.uri.port = a.port
  PROVE  LET d == proxy_process_routing(m)
         IN  /\ d \in Reqs /\ SameBut(d, m) /\ d.maxfwd = m.maxfwd
             /\ d.uri.user = m.uri.user /\ d.uri.host = a.host
             /\ d.uri.maddr = IF m.uri.maddr = Public THEN None ELSE m.uri.maddr
             /\ d.uri.maddr = m.uri.maddr => d.uri.port = a.port
             /\ d.routes = IF m.routes # <<>> /\ Ours(Resolve(Head(m.routes)))
                             THEN Tail(m.routes) ELSE m.routes
             /\ ~is_uri_local(d.uri)
<1> DEFINE c == StripMaddr(m)
           d == OwnRoute(c)
<1>1. StrictRoute(m) = m
  BY UserIsNotLocal DEF StrictRoute
<1>2. proxy_process_routing(m) = d
  BY <1>1 DEF proxy_process_routing
<1>3. /\ c \in Reqs /\ SameBut(c, m) /\ c.routes = m.routes /\ c.maxfwd = m.maxfwd
      /\ c.uri.user = m.uri.user /\ c.uri.host = m.uri.host
      /\ c.uri.maddr = IF m.uri.maddr = Public THEN None ELSE m.uri.maddr
      /\ c.uri.maddr = m.uri.maddr => c.uri.port = m.uri.port
  BY StripIs
<1> HIDE DEF c
<1>4. /\ d \in Reqs /\ SameBut(d, c) /\ d.uri = c.uri /\ d.maxfwd = c.maxfwd
      /\ d.routes = IF c.routes # <<>> /\ Ours(Resolve(Head(c.routes)))
                      THEN Tail(c.routes) ELSE c.routes
  BY <1>3, OwnRouteIs
<1>5. ~is_uri_local(d.uri)
  BY <1>3, <1>4, UserIsNotLocal
<1> HIDE DEF d
<1>6. QED
  BY <1>2, <1>3, <1>4, <1>5 DEF SameBut

\* The proxy's own name goes in front of the Record-Route headers.
LEMMA PostprocessIs ==
  ASSUME Typed, NEW m \in Reqs
  PROVE  LET e == proxy_postprocess(m)
         IN  /\ e \in Reqs /\ e.method = m.method /\ e.scheme = m.scheme
             /\ e.require = m.require /\ e.uri = m.uri /\ e.routes = m.routes
             /\ e.maxfwd = m.maxfwd
             /\ Len(e.rr) = Len(m.rr) + 1 /\ e.rr[1] = Own
             /\ \A i \in 1 .. Len(m.rr) : e.rr[i + 1] = m.rr[i]
<1> DEFINE e == proxy_postprocess(m)
           rr == e.rr
<1>1. m.rr \in Seq(Routes) /\ Own \in Routes
  BY OwnIs DEF Reqs
<1>2. e = [m EXCEPT !.rr = <<Own>> \o m.rr] /\ rr = <<Own>> \o m.rr
  BY PortIs DEF proxy_postprocess, Own, Reqs
<1> HIDE DEF e
<1>3. \A s \in Seq(Routes) :
        /\ <<Own>> \o s \in Seq(Routes) /\ Len(<<Own>> \o s) = Len(s) + 1
        /\ (<<Own>> \o s)[1] = Own /\ \A i \in 1 .. Len(s) : (<<Own>> \o s)[i + 1] = s[i]
  BY <1>1
<1>4. e = [m EXCEPT !.rr = rr]
  BY <1>2
<1> HIDE DEF rr
<1>5. /\ rr \in Seq(Routes) /\ Len(rr) = Len(m.rr) + 1 /\ rr[1] = Own
      /\ \A i \in 1 .. Len(m.rr) : rr[i + 1] = m.rr[i]
  BY <1>1, <1>2, <1>3
<1>6. e \in Reqs /\ e.method = m.method /\ e.scheme = m.scheme /\ e.require = m.require
      /\ e.uri = m.uri /\ e.routes = m.routes /\ e.maxfwd = m.maxfwd
  BY <1>4, <1>5 DEF Reqs
<1>7. QED
  BY <1>5, <1>6 DEF rr, e

\* A request that proxy_verify_request lets pass has hops to go.
LEMMA ValidIs ==
  ASSUME NEW m \in Reqs, m.scheme = "sip"
  PROVE  /\ proxy_verify_request(m) \in {None, "483", "420"}
         /\ proxy_verify_request(m) = None <=> m.maxfwd > 1 /\ ~m.require
         /\ proxy_verify_request(m) = "483" <=> m.maxfwd <= 1
<1>1. m.maxfwd \in Nat /\ m.require \in BOOLEAN
  BY DEF Reqs
<1>2. QED
  BY <1>1 DEF proxy_verify_request, TooManyHops, None

-----------------------------------------------------------------------------
(* A request under way. *)

\* It does not depend on what follows it how a request follows from what was sent.
LEMMA FollowsStays ==
  ASSUME UNCHANGED <<app_port, location>>, NEW f, Follows(f), flight' = f
  PROVE  FlightFollows'
<1>1. \A m : OwnRoutes(m)' = OwnRoutes(m) /\ PassesOf(m)' = PassesOf(m)
  BY OwnRoutesStay
<1>2. \A a : Ours(a)' <=> Ours(a)
  BY DEF Ours
<1>3. Own' = Own
  BY DEF Own
<1>4. Sendable(f.sent)' /\ Kept(f.sent, f.req, f.passes)' /\ Passed(f.sent, f.passes)'
  BY <1>3 DEF Follows, Sendable, Kept, Passed
<1>5. RoutesLeft(f.sent, f.req, f.passes)'
  BY <1>1 DEF Follows, RoutesLeft, Used
<1>6. LeavesFor(f.sent, f.at)' <=> LeavesFor(f.sent, f.at)
  BY <1>1 DEF LeavesFor
<1>7. Follows(f)'
  BY <1>1, <1>2, <1>4, <1>5, <1>6 DEF Follows
<1>8. Follows(flight)'
  BY <1>7 DEF Follows
<1>9. QED
  BY <1>8 DEF FlightFollows


\* The first n of the Routes ms are the CSCF's, and no more.
OwnFirst(ms, n) ==
  /\ n \in 0 .. Len(ms)
  /\ \A j \in 1 .. n : Ours(Resolve(ms[j]))
  /\ n < Len(ms) => ~Ours(Resolve(ms[n + 1]))

\* rs is what is left of ms without its first u elements.
Rest(ms, rs, u) ==
  Len(rs) = Len(ms) - u /\ \A i \in 1 .. Len(rs) : rs[i] = ms[i + u]

\* OwnRoute on Routes of which k have been used.
LEMMA OneLess ==
  ASSUME NEW ms \in Seq(Routes), NEW rs \in Seq(Routes), NEW n \in Nat, OwnFirst(ms, n),
         NEW k \in Nat, Rest(ms, rs, k), k < n
  PROVE  /\ rs # <<>> /\ Ours(Resolve(Head(rs)))
         /\ Tail(rs) \in Seq(Routes) /\ Rest(ms, Tail(rs), k + 1)
<1>1. n <= Len(ms) /\ Len(rs) = Len(ms) - k /\ \A i \in 1 .. Len(rs) : rs[i] = ms[i + k]
  BY DEF OwnFirst, Rest
<1>2. Len(rs) >= 1 /\ rs # <<>> /\ Head(rs) = rs[1] /\ rs[1] = ms[k + 1]
  BY <1>1
<1>3. Ours(Resolve(ms[k + 1]))
  BY DEF OwnFirst
<1>4. /\ Tail(rs) \in Seq(Routes) /\ Len(Tail(rs)) = Len(rs) - 1
      /\ \A i \in 1 .. Len(rs) - 1 : Tail(rs)[i] = rs[i + 1]
  BY <1>2, TailIs
<1>5. Len(Tail(rs)) = Len(ms) - (k + 1)
  BY <1>1, <1>4
<1>6. ASSUME NEW i \in 1 .. Len(Tail(rs)) PROVE Tail(rs)[i] = ms[i + (k + 1)]
  <2>1. i \in Nat /\ i \in 1 .. Len(rs) - 1 /\ i + 1 \in 1 .. Len(rs)
    BY <1>2, <1>4
  <2>2. Tail(rs)[i] = rs[i + 1] /\ rs[i + 1] = ms[(i + 1) + k]
    BY <1>1, <1>4, <2>1
  <2>3. (i + 1) + k = i + (k + 1)
    BY <2>1
  <2>4. QED
    BY <2>2, <2>3
<1>7. QED
  BY <1>2, <1>3, <1>4, <1>5, <1>6 DEF Rest

\* Where the Routes lead of which n or more have been used.
LEMMA NoneLeft ==
  ASSUME NEW ms \in Seq(Routes), NEW rs \in Seq(Routes), NEW n \in Nat, OwnFirst(ms, n),
         Rest(ms, rs, n)
  PROVE  LET others == SubSeq(ms, n + 1, Len(ms))
         IN  /\ rs = <<>> <=> others = <<>>
             /\ others # <<>> => Head(rs) = others[1] /\ ~Ours(Resolve(Head(rs)))
<1> DEFINE others == SubSeq(ms, n + 1, Len(ms))
<1>1. n \in 0 .. Len(ms) /\ Len(ms) \in Nat
  BY DEF OwnFirst
<1>2. /\ others \in Seq(Routes) /\ Len(others) = Len(ms) - n
      /\ \A i \in 1 .. Len(ms) - n : others[i] = ms[n + i]
  <2>1. \A i \in 1 .. Len(ms) - n : (n + 1) + i - 1 = n + i
    BY <1>1
  <2>2. n + 1 \in 1 .. Len(ms) + 1
    BY <1>1
  <2>3. QED
    BY <1>1, <2>1, <2>2, SubSeqProperties
<1> HIDE DEF others
<1>3. Len(rs) = Len(ms) - n /\ \A i \in 1 .. Len(rs) : rs[i] = ms[i + n]
  BY DEF Rest
<1>4. rs = <<>> <=> others = <<>>
  BY <1>1, <1>2, <1>3
<1>5. ASSUME others # <<>> PROVE Head(rs) = others[1] /\ ~Ours(Resolve(Head(rs)))
  <2>1. n < Len(ms) /\ Head(rs) = rs[1] /\ 1 + n = n + 1
    BY <1>1, <1>2, <1>3, <1>4, <1>5
  <2>2. rs[1] = ms[n + 1] /\ others[1] = ms[n + 1]
    BY <1>1, <1>2, <1>3, <2>1
  <2>3. ~Ours(Resolve(ms[n + 1]))
    BY <2>1 DEF OwnFirst
  <2>4. QED
    BY <2>1, <2>2, <2>3
<1>6. QED
  BY <1>4, <1>5 DEF others

\* The Routes that one more pass leaves, and where they lead.
LEMMA NextRoutes ==
  ASSUME Typed, NEW m \in Reqs, NEW r \in Reqs, NEW k \in Nat, k < PassesOf(m),
         RoutesLeft(m, r, k), NEW d \in Reqs, d.routes =
           IF r.routes # <<>> /\ Ours(Resolve(Head(r.routes))) THEN Tail(r.routes) ELSE r.routes
  PROVE  LET others == SubSeq(m.routes, OwnRoutes(m) + 1, Len(m.routes))
         IN  /\ RoutesLeft(m, d, k + 1)
             /\ k + 1 <= PassesOf(m)
             /\ k + 1 < PassesOf(m) => d.routes # <<>> /\ Ours(Resolve(Head(d.routes)))
             /\ k + 1 = PassesOf(m) => (d.routes = <<>> <=> others = <<>>)
             /\ k + 1 = PassesOf(m) /\ others # <<>> =>
                  Head(d.routes) = others[1] /\ ~Ours(Resolve(Head(d.routes)))
<1> DEFINE n  == OwnRoutes(m)
           ms == m.routes
           rs == r.routes
           ds == d.routes
           others == SubSeq(ms, n + 1, Len(ms))
<1>1. ms \in Seq(Routes) /\ rs \in Seq(Routes) /\ ds \in Seq(Routes)
  BY DEF Reqs
<1>2. OwnFirst(ms, n) /\ n \in Nat
  BY <1>1, OwnRoutesIs DEF OwnFirst
<1>3. PassesOf(m) = IF n = 0 THEN 1 ELSE n
  BY DEF PassesOf
<1>4. \A x, j : RoutesLeft(m, x, j) <=> Rest(ms, x.routes, Used(j, n))
  BY DEF RoutesLeft, Rest
<1>5. Rest(ms, rs, Used(k, n))
  BY <1>4
<1>6. ds = IF rs # <<>> /\ Ours(Resolve(Head(rs))) THEN Tail(rs) ELSE rs
  OBVIOUS
<1>7. RoutesLeft(m, d, k + 1) <=> Rest(ms, ds, Used(k + 1, n))
  BY <1>4
<1> HIDE DEF n, ms, rs, ds
<1>8. OwnFirst(ms, n) /\ Rest(ms, ds, n) =>
        /\ ds = <<>> <=> others = <<>>
        /\ others # <<>> => Head(ds) = others[1] /\ ~Ours(Resolve(Head(ds)))
  BY <1>1, <1>2, NoneLeft
<1> HIDE DEF others
<1>9. CASE n = 0
  <2>1. k = 0 /\ PassesOf(m) = 1 /\ Used(k, n) = n /\ Used(k + 1, n) = n
    BY <1>3, <1>9 DEF Used
  <2>2. rs # <<>> => ~Ours(Resolve(Head(rs)))
    <3>1. rs # <<>> => Len(rs) >= 1 /\ Head(rs) = rs[1]
      BY <1>1
    <3>2. Len(rs) = Len(ms) - n /\ \A i \in 1 .. Len(rs) : rs[i] = ms[i + n]
      BY <1>5, <2>1 DEF Rest
    <3>3. rs # <<>> => n < Len(ms) /\ rs[1] = ms[n + 1]
      BY <1>1, <1>9, <3>1, <3>2
    <3>4. QED
      BY <1>2, <3>1, <3>3 DEF OwnFirst
  <2>3. ds = rs
    BY <1>6, <2>2
  <2>4. Rest(ms, ds, n) /\ Rest(ms, ds, Used(k + 1, n))
    BY <1>5, <2>1, <2>3
  <2>5. /\ RoutesLeft(m, d, k + 1) /\ k + 1 = PassesOf(m)
        /\ ds = <<>> <=> others = <<>>
        /\ others # <<>> => Head(ds) = others[1] /\ ~Ours(Resolve(Head(ds)))
    BY <1>2, <1>7, <1>8, <2>1, <2>4
  <2>6. k + 1 <= PassesOf(m) /\ ~(k + 1 < PassesOf(m))
    BY <2>5
  <2>7. QED
    BY <2>5, <2>6 DEF others, n, ms, ds
<1>10. CASE n # 0
  <2>1. n >= 1 /\ PassesOf(m) = n /\ k < n /\ Used(k, n) = k /\ Used(k + 1, n) = k + 1
    BY <1>2, <1>3, <1>10 DEF Used
  <2>2. /\ rs # <<>> /\ Ours(Resolve(Head(rs))) /\ Rest(ms, Tail(rs), k + 1)
    BY <1>1, <1>2, <1>5, <2>1, OneLess
  <2>3. Rest(ms, ds, k + 1)
    BY <1>6, <2>2
  <2>4. k + 1 < n => ds # <<>> /\ Ours(Resolve(Head(ds)))
    <3>1. k + 1 \in Nat
      OBVIOUS
    <3>2. QED
      BY <1>1, <1>2, <2>3, <3>1, OneLess
  <2>5. k + 1 = n => Rest(ms, ds, n)
    BY <2>3
  <2>6. RoutesLeft(m, d, k + 1)
    BY <1>7, <2>1, <2>3
  <2>7. k + 1 <= n
    BY <1>2, <2>1
  <2>8. QED
    BY <1>2, <1>8, <2>1, <2>4, <2>5, <2>6, <2>7 DEF others, n, ms, ds
<1>11. QED
  BY <1>9, <1>10

(***************************************************************************)
(* Forward: the request has one more pass, and follows from what was sent  *)
(* as it did (module_proxy.c:322-398).                                     *)
(***************************************************************************)
LEMMA ForwardIs ==
  ASSUME Typed, FlightFollows, Forward
  PROVE  /\ UNCHANGED <<app_port, location, dialog>>
         /\ flight' \in Flights /\ Follows(flight') /\ flight'.fate = "on its way"
<1> DEFINE m == flight.sent
           r == flight.req
           k == flight.passes
           here == Here
           c == Copy(Rewrite(r))
           d == proxy_process_routing(c)
           e == proxy_postprocess(d)
           at == NextHop(d)
           others == SubSeq(m.routes, OwnRoutes(m) + 1, Len(m.routes))
<1>1. /\ flight \in Flights /\ r \in Reqs /\ m \in Reqs /\ k \in Nat /\ Ours(flight.at)
      /\ flight.fate = "on its way" /\ r.scheme = "sip" /\ proxy_verify_request(r) = None
      /\ Rewritten /\ flight # NoFlight
  <2>1. /\ Ours(flight.at) /\ flight.fate = "on its way" /\ r.scheme = "sip"
        /\ proxy_verify_request(r) = None /\ Rewritten
    BY DEF Forward, Rewritten, InHand
  <2>2. flight # NoFlight
    <3>1. NoFlight.fate = "none"
      BY DEF NoFlight
    <3>2. flight.fate = "on its way"
      BY <2>1
    <3>3. NoFlight.fate # flight.fate
      BY <3>1, <3>2
    <3>4. QED
      BY <3>3, Zenon
  <2>3. flight \in Flights
    BY <2>2 DEF Typed
  <2>4. r \in Reqs /\ m \in Reqs /\ k \in Nat
    BY <2>3 DEF Flights
  <2>5. QED
    BY <2>1, <2>2, <2>3, <2>4
<1>2. r.maxfwd > 1 /\ ~r.require
  BY <1>1, ValidIs
<1>3. Follows(flight)
  BY <1>1 DEF FlightFollows
<1>3a. PassesOf(m) \in Nat
  <2>1. m.routes \in Seq(Routes)
    BY <1>1 DEF Reqs
  <2>2. OwnRoutes(m) \in Nat
    BY <2>1, OwnRoutesIs
  <2>3. QED
    BY <2>2 DEF PassesOf
<1>3b. k \in Nat /\ m.maxfwd \in Nat /\ r.maxfwd \in Nat
  BY <1>1 DEF Reqs
<1>4. /\ Sendable(m) /\ Kept(m, r, k) /\ RoutesLeft(m, r, k) /\ k < PassesOf(m)
  BY <1>1, <1>3 DEF Follows
<1>5. /\ c \in Reqs /\ SameBut(c, r) /\ c.routes = r.routes /\ c.maxfwd = r.maxfwd - 1
      /\ c.uri.user = r.uri.user /\ c.uri.maddr = r.uri.maddr
      /\ c.uri.host = here.host /\ c.uri.port = here.port /\ here \in Places
  BY <1>1, <1>2, RewriteIs
<1>6. /\ r.uri.user \in Users /\ here = location[r.uri.user] /\ here # Nowhere
      /\ here \in Addresses /\ here.port # 0
  <2>1. r.uri.user \in Users /\ here = location[r.uri.user] /\ here # Nowhere
    BY <1>1 DEF Rewritten, Here, Reqs, Uris
  <2>2. QED
    BY <2>1, PlacesAre
<1> HIDE DEF c, here, m, r, k
<1>7. /\ d \in Reqs /\ SameBut(d, c) /\ d.maxfwd = c.maxfwd
      /\ d.uri.user = c.uri.user /\ d.uri.host = here.host
      /\ d.uri.maddr = IF c.uri.maddr = Public THEN None ELSE c.uri.maddr
      /\ d.uri.maddr = c.uri.maddr => d.uri.port = here.port
      /\ d.routes = IF c.routes # <<>> /\ Ours(Resolve(Head(c.routes)))
                      THEN Tail(c.routes) ELSE c.routes
      /\ ~is_uri_local(d.uri)
  BY <1>5, RoutingIs
<1> HIDE DEF d
<1>8. /\ e \in Reqs /\ e.method = d.method /\ e.scheme = d.scheme
      /\ e.require = d.require /\ e.uri = d.uri /\ e.routes = d.routes
      /\ e.maxfwd = d.maxfwd
      /\ Len(e.rr) = Len(d.rr) + 1 /\ e.rr[1] = Own
      /\ \A i \in 1 .. Len(d.rr) : e.rr[i + 1] = d.rr[i]
  BY <1>7, PostprocessIs
<1>9. flight' = [flight EXCEPT !.req = e, !.at = at, !.passes = k + 1]
      /\ UNCHANGED <<app_port, location, dialog>>
  BY <1>7 DEF Forward, c, d, r, k
<1> HIDE DEF e, at
<1>10. at \in Addresses
  <2>1. d.routes # <<>> => Head(d.routes) \in Uris
    <3>1. d.routes \in Seq(Routes)
      BY <1>7 DEF Reqs
    <3>2. d.routes # <<>> => Head(d.routes) \in Routes
      BY <3>1
    <3>3. QED
      BY <3>2, RoutesAreUris
  <2>2. QED
    BY <1>7, <2>1, ResolveIs DEF at, NextHop, Reqs
<1>11. /\ flight' \in Flights /\ flight'.sent = m /\ flight'.req = e /\ flight'.at = at
       /\ flight'.passes = k + 1 /\ flight'.fate = "on its way"
  <2>0. k + 1 \in Nat
    BY <1>3b
  <2>1. flight \in Flights /\ flight.fate = "on its way" /\ e \in Reqs /\ k + 1 \in Nat
    BY <1>1, <1>8, <2>0
  <2>2. flight' = [flight EXCEPT !.req = e, !.at = at, !.passes = k + 1]
    BY <1>9
  <2>3. QED
    BY <1>10, <2>1, <2>2 DEF Flights, m
<1>12. Kept(m, e, k + 1)
  <2>1. /\ e.method = m.method /\ e.scheme = m.scheme /\ e.require = m.require
        /\ e.uri.user = m.uri.user /\ e.uri.maddr = d.uri.maddr
    BY <1>4, <1>5, <1>7, <1>8 DEF Kept, SameBut
  <2>2. e.maxfwd = m.maxfwd - (k + 1)
    <3>1. e.maxfwd = r.maxfwd - 1 /\ r.maxfwd = m.maxfwd - k
      BY <1>4, <1>5, <1>7, <1>8 DEF Kept
    <3>2. QED
      BY <1>3b, <3>1
  <2>3. d.uri.maddr = m.uri.maddr \/ (d.uri.maddr = None /\ m.uri.maddr = Public)
    BY <1>4, <1>5, <1>7 DEF Kept
  <2>4. d.rr = r.rr
    BY <1>5, <1>7 DEF SameBut
  <2>5. Len(e.rr) = k + 1 /\ \A i \in 1 .. k : e.rr[i + 1] = Own
    <3>1. Len(d.rr) = k /\ \A i \in 1 .. k : d.rr[i] = Own
      <4>1. Len(r.rr) = k /\ \A i \in 1 .. k : r.rr[i] = Own
        BY <1>4, Zenon DEF Kept
      <4>2. QED
        BY <2>4, <4>1, Zenon
    <3>2. Len(e.rr) = Len(d.rr) + 1 /\ \A i \in 1 .. Len(d.rr) : e.rr[i + 1] = d.rr[i]
      BY <1>8, Zenon
    <3>3. QED
      BY <3>1, <3>2
  <2>6. \A i \in 1 .. k + 1 : e.rr[i] = Own
    <3>1. SUFFICES ASSUME NEW i \in 1 .. k + 1, i # 1 PROVE e.rr[i] = Own
      BY <1>8
    <3>2. i - 1 \in 1 .. k /\ (i - 1) + 1 = i
      BY <1>3b, <3>1
    <3>3. QED
      BY <2>5, <3>2
  <2>7. QED
    BY <2>1, <2>2, <2>3, <2>5, <2>6 DEF Kept
<1>13. /\ RoutesLeft(m, d, k + 1) /\ k + 1 <= PassesOf(m)
       /\ k + 1 < PassesOf(m) => d.routes # <<>> /\ Ours(Resolve(Head(d.routes)))
       /\ k + 1 = PassesOf(m) => (d.routes = <<>> <=> others = <<>>)
       /\ k + 1 = PassesOf(m) /\ others # <<>> =>
            Head(d.routes) = others[1] /\ ~Ours(Resolve(Head(d.routes)))
  <2>1. /\ m \in Reqs /\ r \in Reqs /\ d \in Reqs /\ k \in Nat /\ k < PassesOf(m)
        /\ RoutesLeft(m, r, k)
    BY <1>1, <1>4, <1>7
  <2>2. d.routes = IF r.routes # <<>> /\ Ours(Resolve(Head(r.routes)))
                     THEN Tail(r.routes) ELSE r.routes
    BY <1>5, <1>7
  <2>3. QED
    BY <2>1, <2>2, NextRoutes DEF others
<1>14. RoutesLeft(m, e, k + 1)
  BY <1>8, <1>13 DEF RoutesLeft
<1>15. Passed(m, k + 1)
  <2>1. m.scheme = "sip" /\ ~m.require /\ m.uri.user = r.uri.user /\ r.maxfwd = m.maxfwd - k
    BY <1>1, <1>2, <1>4 DEF Kept
  <2>2. m.maxfwd > k + 1
    BY <1>2, <1>3b, <2>1
  <2>3. m.uri.user # None /\ location[m.uri.user] # Nowhere
    BY <1>6, <2>1 DEF None, Users
  <2>4. QED
    BY <2>1, <2>2, <2>3 DEF Passed
<1> HIDE DEF others
<1>16. CASE k + 1 < PassesOf(m)
  <2>1. at = Resolve(Head(d.routes)) /\ Ours(at) /\ k + 1 # PassesOf(m)
    BY <1>13, <1>16 DEF at, NextHop
  <2>2. QED
    BY <1>4, <1>9, <1>11, <1>12, <1>13, <1>14, <1>15, <1>16, <2>1 DEF Follows
<1>17. CASE k + 1 = PassesOf(m)
  <2>1. ~(k + 1 < PassesOf(m))
    BY <1>3a, <1>3b, <1>17
  <2>2. CASE others # <<>>
    <3>1. at = Resolve(others[1]) /\ ~Ours(at)
      BY <1>13, <1>17, <2>2 DEF at, NextHop
    <3>2. LeavesFor(m, at)
      BY <2>2, <3>1 DEF LeavesFor, others
    <3>3. QED
      BY <1>4, <1>9, <1>11, <1>12, <1>13, <1>14, <1>15, <2>1, <3>1, <3>2 DEF Follows
  <2>3. CASE others = <<>>
    <3>1. at = Resolve(d.uri) /\ d.uri \in Uris
      BY <1>7, <1>13, <1>17, <2>3 DEF at, NextHop, Reqs
    <3>2. at.host = IF d.uri.maddr = None THEN here.host ELSE d.uri.maddr
      BY <1>7, <3>1 DEF Resolve, Address
    <3>3. Public # Edge /\ Public # None /\ Edge # None
      <4>1. 1 \in DOMAIN init_proxy /\ init_proxy[1] = Public
        BY PortIs
      <4>2. QED
        BY <4>1, RoutingAssumption
    <3>4. d.uri.maddr \in {None, Edge}
      BY <1>7, <3>1 DEF Uris
    <3>5. ~Ours(at)
      BY <1>5, <3>2, <3>4, NotOurs
    <3>6. here = location[m.uri.user]
      BY <1>4, <1>6 DEF Kept
    <3>7. m.uri.maddr = None => at = here
      <4>1. SUFFICES ASSUME m.uri.maddr = None PROVE at = here
        OBVIOUS
      <4>2. c.uri.maddr = None /\ d.uri.maddr = None /\ d.uri.port = here.port
        BY <1>4, <1>5, <1>7, <3>3, <4>1 DEF Kept
      <4>3. at = Address(here.host, here.port)
        BY <1>6, <1>7, <3>1, <4>2 DEF Resolve
      <4>4. QED
        BY <1>6, <4>3 DEF Address, Addresses
    <3>8. m.uri.maddr = Edge => at.host = Edge
      <4>1. SUFFICES ASSUME m.uri.maddr = Edge PROVE at.host = Edge
        OBVIOUS
      <4>2. d.uri.maddr = Edge
        BY <1>4, <1>5, <1>7, <3>3, <4>1 DEF Kept
      <4>3. QED
        BY <3>2, <3>3, <4>2
    <3>9. m.uri.maddr \notin {None, Edge} => at.host = here.host
      <4>1. SUFFICES ASSUME m.uri.maddr \notin {None, Edge} PROVE at.host = here.host
        OBVIOUS
      <4>2. m.uri.maddr = Public
        BY <1>1, <4>1 DEF Reqs, Uris
      <4>3. d.uri.maddr = None
        BY <1>4, <1>5, <1>7, <3>3, <4>2 DEF Kept
      <4>4. QED
        BY <3>2, <4>3
    <3>10. LeavesFor(m, at)
      BY <2>3, <3>3, <3>6, <3>7, <3>8, <3>9 DEF LeavesFor, others
    <3>11. QED
      BY <1>4, <1>9, <1>11, <1>12, <1>13, <1>14, <1>15, <2>1, <3>5, <3>10 DEF Follows
  <2>4. QED
    BY <2>2, <2>3
<1>18. QED
  <2>1. k + 1 <= PassesOf(m)
    BY <1>13
  <2>2. k + 1 < PassesOf(m) \/ k + 1 = PassesOf(m)
    BY <1>3a, <1>3b, <2>1
  <2>3. QED
    BY <1>16, <1>17, <2>2

-----------------------------------------------------------------------------
(* The invariant. *)

\* While a request is under way, what is expected of it does not change.
LEMMA ExpectedStays ==
  ASSUME UNCHANGED <<app_port, location>>
  PROVE  \A m : /\ OwnRoutes(m)' = OwnRoutes(m) /\ PassesOf(m)' = PassesOf(m)
                /\ Expected(m)' = Expected(m)
BY OwnRoutesStay DEF Expected, Known

\* A refusal ends a request and leaves everything else alone.
Ends(fate) ==
  /\ flight' = [flight EXCEPT !.fate = fate]
  /\ UNCHANGED <<app_port, location, dialog>>

(* A refusal that is the expected one keeps the invariant. *)
LEMMA EndsIs ==
  ASSUME IInv, flight # NoFlight, NEW fate \in Fates \ {"delivered", "on its way"}, Ends(fate),
         LET m == flight.sent
         IN  m.scheme = "sip" => Expected(m) # "leaves" /\ (m.method = "ACK" \/ fate = Expected(m))
  PROVE  IInv'
<1> DEFINE f == [flight EXCEPT !.fate = fate]
<1>1. flight \in Flights /\ Follows(flight) /\ flight' = f /\ Typed
  BY DEF IInv, Typed, FlightFollows, Ends
<1>2. /\ f \in Flights /\ f.sent = flight.sent /\ f.req = flight.req /\ f.at = flight.at
      /\ f.passes = flight.passes /\ f.fate = fate
  BY <1>1 DEF Flights
<1> HIDE DEF f
<1>3. Follows(f)
  BY <1>1, <1>2 DEF Follows
<1>4. FlightFollows'
  BY <1>1, <1>3, FollowsStays DEF Ends
<1>5. Typed'
  BY <1>1, <1>2 DEF Typed, Ends
<1>6. DialogOnPath'
  BY DEF IInv, DialogOnPath, OnPath, Own, Ends
<1>7. EndsAsSent'
  <2>0. PICK m : m = flight.sent
    OBVIOUS
  <2>1. Expected(m)' = Expected(m)
    BY ExpectedStays DEF Ends
  <2>2. flight'.sent = m /\ flight'.fate = fate
    BY <1>1, <1>2, <2>0
  <2>3. m.scheme = "sip" => /\ Expected(m)' # "leaves"
                            /\ m.method = "ACK" \/ fate = Expected(m)'
    BY <2>0, <2>1
  <2>4. QED
    BY <2>2, <2>3 DEF EndsAsSent, Ended
<1>8. DialogStaysOnPath'
  BY <1>1, <1>2 DEF DialogStaysOnPath
<1>9. QED
  BY <1>4, <1>5, <1>6, <1>7, <1>8 DEF IInv

\* What the CSCF knows of a request it has in hand.
LEMMA HandIs ==
  ASSUME IInv, InHand
  PROVE  LET m == flight.sent
             r == flight.req
             k == flight.passes
         IN  /\ flight \in Flights /\ flight # NoFlight /\ Follows(flight)
             /\ r \in Reqs /\ m \in Reqs
             /\ m.maxfwd \in Nat /\ k \in Nat /\ PassesOf(m) \in Nat
             /\ k < PassesOf(m) /\ Kept(m, r, k) /\ Passed(m, k)
<1>1. flight.fate = "on its way" /\ Ours(flight.at)
  BY DEF InHand
<1>2. flight # NoFlight
  <2>1. NoFlight.fate = "none"
    BY DEF NoFlight
  <2>2. NoFlight.fate # flight.fate
    BY <1>1, <2>1
  <2>3. QED
    BY <2>2, Zenon
<1>3. flight \in Flights /\ Follows(flight) /\ Typed
  BY <1>2 DEF IInv, Typed, FlightFollows
<1>4. flight.req \in Reqs /\ flight.sent \in Reqs /\ flight.passes \in Nat
  BY <1>3 DEF Flights
<1>5. flight.sent.maxfwd \in Nat /\ flight.sent.routes \in Seq(Routes)
  BY <1>4 DEF Reqs
<1>6. PassesOf(flight.sent) \in Nat
  <2>1. OwnRoutes(flight.sent) \in Nat
    BY <1>5, OwnRoutesIs
  <2>2. QED
    BY <2>1 DEF PassesOf
<1>7. QED
  BY <1>1, <1>2, <1>3, <1>4, <1>5, <1>6 DEF Follows

\* route_on_rx_msg refuses it: nobody of that name.
LEMMA NotFoundStep ==
  ASSUME IInv, NotFound
  PROVE  IInv'
<1> DEFINE m == flight.sent
           r == flight.req
           fate == IF r.method = "ACK" THEN "crash" ELSE "404"
<1>1. /\ flight # NoFlight /\ m \in Reqs /\ Kept(m, r, flight.passes) /\ Here = Nowhere
      /\ Ends(fate)
  BY HandIs DEF NotFound, Answer, Ends
<1>2. r.method = m.method /\ r.uri.user = m.uri.user
  BY <1>1 DEF Kept
<1>3. Expected(m) = "404"
  BY <1>1, <1>2 DEF Here, Expected, Known
<1>4. m.method = "ACK" \/ fate = "404"
  BY <1>2
<1>5. fate \in Fates \ {"delivered", "on its way"}
  BY DEF Fates
<1> HIDE DEF fate
<1>6. QED
  BY <1>1, <1>3, <1>4, <1>5, EndsIs

\* A tel URI is rewritten through a null pointer.
LEMMA RewritesTelStep ==
  ASSUME IInv, RewritesTel
  PROVE  IInv'
<1> DEFINE fate == "crash"
<1>1. /\ flight # NoFlight /\ Kept(flight.sent, flight.req, flight.passes)
      /\ flight.req.scheme = "tel" /\ Ends(fate)
  BY HandIs DEF RewritesTel, Ends
<1>2. flight.sent.scheme # "sip"
  BY <1>1 DEF Kept
<1>3. fate \in Fates \ {"delivered", "on its way"}
  BY DEF Fates
<1> HIDE DEF fate
<1>4. QED
  BY <1>1, <1>2, <1>3, EndsIs

\* proxy_verify_request refuses it: the same it would have refused when it was sent.
LEMMA InvalidStep ==
  ASSUME IInv, Invalid
  PROVE  IInv'
<1> DEFINE m == flight.sent
           r == flight.req
           k == flight.passes
           status == proxy_verify_request(r)
           fate == IF r.method = "ACK" THEN "crash" ELSE status
<1>1. /\ flight # NoFlight /\ m \in Reqs /\ r \in Reqs /\ k < PassesOf(m)
      /\ Kept(m, r, k) /\ Passed(m, k) /\ status # None /\ Rewritten /\ Ends(fate)
      /\ r.scheme = "sip"
  BY HandIs DEF Invalid, Rewritten, Answer, Ends
<1>2. m.maxfwd \in Nat /\ k \in Nat /\ PassesOf(m) \in Nat
  BY HandIs DEF Invalid, Rewritten
<1>3. /\ r.method = m.method /\ r.require = m.require /\ r.uri.user = m.uri.user
      /\ r.maxfwd = m.maxfwd - k
  BY <1>1 DEF Kept
<1>4. m.uri.user # None /\ location[m.uri.user] # Nowhere
  BY <1>1, <1>3 DEF Rewritten, Here
<1>5. /\ status \in {"483", "420"}
      /\ status = "420" => r.maxfwd > 1 /\ r.require
      /\ status = "483" => r.maxfwd <= 1
  <2>1. /\ status \in {None, "483", "420"}
        /\ status = None <=> r.maxfwd > 1 /\ ~r.require
        /\ status = "483" <=> r.maxfwd <= 1
    BY <1>1, ValidIs
  <2>2. r.maxfwd > 1 \/ r.maxfwd <= 1
    BY <1>2, <1>3
  <2>3. QED
    BY <1>1, <2>1, <2>2
<1> HIDE DEF m, r, k, status
<1>6. m.require => k = 0
  BY <1>1, <1>2 DEF Passed
<1>7. Expected(m) = status
  <2>1. CASE status = "420"
    <3>1. m.require /\ m.maxfwd > 1
      BY <1>2, <1>3, <1>5, <1>6, <2>1
    <3>2. QED
      BY <1>4, <2>1, <3>1 DEF Expected, Known
  <2>2. CASE status = "483"
    <3>1. m.maxfwd - k <= 1
      BY <1>3, <1>5, <2>2
    <3>2. m.maxfwd <= PassesOf(m)
      BY <1>1, <1>2, <3>1
    <3>3. ~(m.require /\ m.maxfwd > 1)
      BY <1>2, <1>6, <3>1
    <3>4. QED
      BY <1>4, <2>2, <3>2, <3>3 DEF Expected, Known
  <2>3. QED
    BY <1>5, <2>1, <2>2
<1>8. m.method = "ACK" \/ fate = status
  BY <1>3
<1>9. fate \in Fates \ {"delivered", "on its way"}
  BY <1>5 DEF Fates
<1>10. status # "leaves"
  BY <1>5
<1> HIDE DEF fate
<1>11. QED
  BY <1>1, <1>7, <1>8, <1>9, <1>10, EndsIs DEF m

\* It is forwarded.
LEMMA ForwardStep ==
  ASSUME IInv, Forward
  PROVE  IInv'
<1>1. /\ UNCHANGED <<app_port, location, dialog>>
      /\ flight' \in Flights /\ Follows(flight') /\ flight'.fate = "on its way"
  BY ForwardIs DEF IInv
<1>2. PICK f : f = flight'
  OBVIOUS
<1>3. FlightFollows'
  BY <1>1, <1>2, FollowsStays
<1>4. Typed'
  BY <1>1 DEF IInv, Typed
<1>5. DialogOnPath'
  BY <1>1 DEF IInv, DialogOnPath, OnPath, Own
<1>6. EndsAsSent' /\ DialogStaysOnPath'
  BY <1>1 DEF EndsAsSent, Ended, DialogStaysOnPath
<1>7. QED
  BY <1>3, <1>4, <1>5, <1>6 DEF IInv

-----------------------------------------------------------------------------
(* The users and the network. *)

\* A request that is sent to the CSCF has had no pass.
LEMMA SendsIs ==
  ASSUME IInv, NEW m \in Reqs, NEW to \in Addresses, Ours(to), Sendable(m), m.rr = <<>>,
         Sends(m, to)
  PROVE  IInv'
<1> DEFINE f == [sent |-> m, req |-> m, at |-> to, fate |-> "on its way", passes |-> 0]
<1>1. Typed /\ DialogOnPath /\ flight' = f /\ UNCHANGED <<app_port, location, dialog>>
  BY DEF IInv, Sends
<1>2. /\ f \in Flights /\ f.sent = m /\ f.req = m /\ f.at = to /\ f.passes = 0
      /\ f.fate = "on its way"
  BY DEF Flights, Fates
<1> HIDE DEF f
<1>3. OwnRoutes(m) \in Nat /\ Len(m.routes) \in Nat /\ m.maxfwd \in Nat
  <2>1. m.routes \in Seq(Routes) /\ m.maxfwd \in Nat
    BY DEF Reqs
  <2>2. QED
    BY <2>1, OwnRoutesIs
<1>4. 0 < PassesOf(m) /\ 0 # PassesOf(m) /\ 0 <= PassesOf(m)
  BY <1>3 DEF PassesOf
<1>5. Used(0, OwnRoutes(m)) = 0
  BY <1>3 DEF Used
<1>6. RoutesLeft(m, m, 0)
  BY <1>3, <1>5 DEF RoutesLeft
<1>7. Kept(m, m, 0)
  BY <1>3 DEF Kept
<1>8. Passed(m, 0)
  BY DEF Passed
<1>9. Follows(f)
  BY <1>2, <1>4, <1>6, <1>7, <1>8 DEF Follows
<1>10. FlightFollows'
  BY <1>1, <1>9, FollowsStays
<1>11. Typed'
  BY <1>1, <1>2 DEF Typed
<1>12. DialogOnPath'
  BY <1>1 DEF DialogOnPath, OnPath, Own
<1>13. EndsAsSent' /\ DialogStaysOnPath'
  BY <1>1, <1>2 DEF EndsAsSent, Ended, DialogStaysOnPath
<1>14. QED
  BY <1>10, <1>11, <1>12, <1>13 DEF IInv

\* The address of the CSCF.
LEMMA ToCscf ==
  ASSUME Typed
  PROVE  Address(Public, app_port) \in Addresses /\ Ours(Address(Public, app_port))
<1>1. /\ app_port \in Nat /\ init_proxy[1] = Public /\ 1 \in DOMAIN init_proxy
      /\ Public \in Hosts
  BY PortIs DEF Hosts
<1>2. QED
  BY <1>1 DEF Address, Addresses, Ours

\* A Route or a Request-URI with a name.
LEMMA UriIs ==
  ASSUME NEW u \in Users \cup {None}, NEW h \in Hosts, NEW q \in Nat
  PROVE  Uri(u, h, q) \in Routes /\ Uri(u, h, q) \in Uris
BY DEF Uri, Routes, Uris

(* A Route of a loose router. *)
LEMMA LooseIs ==
  ASSUME NEW h \in Hosts, NEW q \in Nat
  PROVE  Loose(h, q) \in Routes
BY DEF Loose, Uri, Routes

(* The Routes a caller is configured with. *)
LEMMA PreloadedIs ==
  ASSUME Typed
  PROVE  Preloaded \subseteq Seq(Routes)
<1> DEFINE own   == Loose(Public, app_port)
           cscf  == Loose("cscf", 0)
           local == Loose("localhost", app_port)
           edge  == Loose(Edge, 0)
<1>1. app_port \in Nat /\ {Public, "cscf", "localhost", Edge} \subseteq Hosts
  BY PortIs DEF Hosts
<1>2. own \in Routes /\ cscf \in Routes /\ local \in Routes /\ edge \in Routes
  <2> DEFINE h1 == "cscf"
             h2 == "localhost"
             q  == 0
  <2>1. h1 \in Hosts /\ h2 \in Hosts /\ Public \in Hosts /\ Edge \in Hosts /\ q \in Nat
    BY <1>1
  <2> HIDE DEF h1, h2, q
  <2>2. Loose(h1, q) \in Routes /\ Loose(h2, app_port) \in Routes /\ Loose(Edge, q) \in Routes
    BY <1>1, <2>1, LooseIs
  <2>3. own \in Routes
    BY <1>1, <2>1, LooseIs
  <2>4. QED
    BY <2>2, <2>3 DEF h1, h2, q
<1>3. Preloaded = {<<>>, <<own>>, <<own, cscf>>, <<local, own>>, <<edge>>, <<own, edge>>,
                   <<own, own, edge, own>>}
  BY Zenon DEF Preloaded
<1> HIDE DEF own, cscf, local, edge
<1>4. /\ <<>> \in Seq(Routes) /\ <<own>> \in Seq(Routes) /\ <<own, cscf>> \in Seq(Routes)
      /\ <<local, own>> \in Seq(Routes) /\ <<edge>> \in Seq(Routes)
      /\ <<own, edge>> \in Seq(Routes) /\ <<own, own, edge, own>> \in Seq(Routes)
  BY <1>2
<1>5. QED
  BY <1>3, <1>4

(* A request as a user makes it. *)
LEMMA RequestIs ==
  ASSUME NEW method \in Methods, NEW uri \in Uris, NEW routes \in Seq(Routes), NEW hops \in Nat
  PROVE  LET m == Request(method, uri, routes, hops)
         IN  /\ m \in Reqs /\ m.method = method /\ m.uri = uri /\ m.routes = routes
             /\ m.rr = <<>> /\ m.scheme = "sip"
<1> DEFINE m == Request(method, uri, routes, hops)
<1>1. <<>> \in Seq(Routes)
  OBVIOUS
<1>2. m = [method |-> method, scheme |-> "sip", uri |-> uri, routes |-> routes,
           maxfwd |-> hops, require |-> FALSE, rr |-> <<>>]
  BY DEF Request
<1>3. m \in Reqs
  BY <1>1, <1>2 DEF Reqs
<1>4. QED
  BY <1>2, <1>3

\* The two INVITEs that come from outside.
LEMMA InviteStep ==
  ASSUME IInv, Invite
  PROVE  IInv'
<1> DEFINE to == Address(Public, app_port)
           domain == "domain"
           callee == "callee"
           invite == "INVITE"
           port(maddr) == IF maddr = Public THEN app_port ELSE 0
<1>0. /\ domain \in Hosts /\ callee \in Users /\ callee # None /\ invite \in Methods
  BY DEF Hosts, Users, None, Methods
<1>1. PICK routes \in Preloaded, hops \in MaxForwards \cup {Absent}, maddr \in {None, Public, Edge},
           scheme \in Schemes, require \in BOOLEAN :
        Sends([Request(invite, [Uri(callee, domain, port(maddr)) EXCEPT !.maddr = maddr],
                       routes, hops)
               EXCEPT !.scheme = scheme, !.require = require], to)
  BY ZenonT(40) DEF Invite
<1> DEFINE q == port(maddr)
           uri == [Uri(callee, domain, q) EXCEPT !.maddr = maddr]
           r == Request(invite, uri, routes, hops)
           m == [r EXCEPT !.scheme = scheme, !.require = require]
<1> HIDE DEF domain, callee, invite
<1>2. Typed /\ to \in Addresses /\ Ours(to) /\ hops \in Nat /\ routes \in Seq(Routes)
  <2>1. Typed
    BY DEF IInv
  <2>2. hops \in Nat
    BY RoutingAssumption DEF Absent
  <2>3. routes \in Seq(Routes)
    BY <2>1, PreloadedIs
  <2>4. QED
    BY <2>1, <2>2, <2>3, ToCscf
<1>3. uri \in Uris /\ uri.user = callee /\ (uri.maddr = Public => uri.port = app_port)
  <2>1. q \in Nat /\ (maddr = Public => q = app_port)
    BY <1>2, PortIs
  <2> HIDE DEF q
  <2>2. Uri(callee, domain, q) \in Uris
    BY <1>0, <2>1, UriIs
  <2>3. Uri(callee, domain, q).user = callee /\ Uri(callee, domain, q).port = q
    BY DEF Uri
  <2>4. uri.maddr = maddr /\ uri.user = callee /\ uri.port = q /\ uri \in Uris
    BY <2>2, <2>3 DEF Uris
  <2>5. QED
    BY <2>1, <2>4
<1> HIDE DEF uri
<1>4. r \in Reqs /\ r.method = invite /\ r.uri = uri /\ r.rr = <<>>
  BY <1>0, <1>2, <1>3, RequestIs
<1> HIDE DEF r
<1>5. m \in Reqs /\ m.method = invite /\ m.uri = uri /\ m.rr = <<>>
  BY <1>4 DEF Reqs
<1>6. Sends(m, to)
  BY <1>1 DEF m, r, uri
<1> HIDE DEF m, to
<1>7. Sendable(m)
  BY <1>0, <1>3, <1>5 DEF Sendable, invite
<1>8. QED
  BY <1>2, <1>5, <1>6, <1>7, SendsIs

(* The second comes from a strict router, with the CSCF's own Request-URI. *)
LEMMA InviteStrictStep ==
  ASSUME IInv, InviteStrict
  PROVE  IInv'
<1> DEFINE to == Address(Public, app_port)
           domain == "domain"
           callee == "callee"
           invite == "INVITE"
           zero == 0
           hops == Absent
           uri == Uri(None, Public, app_port)
           routes == <<Uri(callee, domain, zero)>>
           m == Request(invite, uri, routes, hops)
<1>0. /\ domain \in Hosts /\ callee \in Users \cup {None} /\ invite \in Methods
      /\ zero \in Nat /\ hops \in Nat /\ None \in Users \cup {None} /\ Public \in Hosts
  BY DEF Hosts, Users, Methods, Absent
<1>1. Sends(m, to)
  BY Zenon DEF InviteStrict
<1> HIDE DEF domain, callee, invite, zero, hops
<1>2. Typed /\ to \in Addresses /\ Ours(to) /\ app_port \in Nat
  BY ToCscf, PortIs DEF IInv
<1>3. uri \in Uris /\ uri.maddr = None
  BY <1>0, <1>2, UriIs DEF Uri
<1>4. routes \in Seq(Routes)
  <2>1. Uri(callee, domain, zero) \in Routes
    BY <1>0, UriIs
  <2>2. QED
    BY <2>1
<1> HIDE DEF uri, routes
<1>5. m \in Reqs /\ m.method = invite /\ m.rr = <<>> /\ m.uri.maddr = None
  BY <1>0, <1>3, <1>4, RequestIs
<1> HIDE DEF m, to
<1>6. Sendable(m)
  <2>1. Public # None
    BY PortIs, <1>2, RoutingAssumption
  <2>2. QED
    BY <1>5, <2>1 DEF Sendable, invite
<1>7. QED
  BY <1>1, <1>2, <1>5, <1>6, SendsIs

\* A request of the dialog goes to the name in the Record-Route.
LEMMA InDialogStep ==
  ASSUME IInv, NEW u \in Users, InDialog(u)
  PROVE  IInv'
<1> DEFINE hops == Absent
           uri == dialog[u].target
           routes == dialog[u].routes
<1>0. hops \in Nat
  BY DEF Absent
<1>1. dialog # NoDialog
  BY DEF InDialog
<1>2. PICK method \in {"ACK", "BYE"} :
        Sends(Request(method, uri, routes, hops), NextHop(Request(method, uri, routes, hops)))
  BY Zenon DEF InDialog
<1> DEFINE m == Request(method, uri, routes, hops)
           to == NextHop(m)
<1>3. Typed /\ OnPath(u) /\ uri \in Uris /\ routes \in Seq(Routes)
  BY <1>1 DEF IInv, DialogOnPath, Typed
<1>4. /\ uri.user \in Users /\ uri.maddr = None /\ routes # <<>>
      /\ \A i \in 1 .. Len(routes) : routes[i] = Own
  BY <1>3 DEF OnPath
<1> HIDE DEF hops, uri, routes
<1>5. /\ m \in Reqs /\ m.uri = uri /\ m.routes = routes /\ m.rr = <<>> /\ m.scheme = "sip"
  <2>1. method \in Methods
    BY DEF Methods
  <2>2. QED
    BY <1>0, <1>3, <2>1, RequestIs
<1>6. Sends(m, to)
  BY <1>2
<1> HIDE DEF m
<1>7. Head(routes) = Own /\ to = Resolve(Own)
  <2>1. Head(routes) = routes[1] /\ 1 \in 1 .. Len(routes)
    BY <1>3, <1>4
  <2>2. QED
    BY <1>4, <1>5, <2>1 DEF NextHop
<1>8. Ours(to) /\ to \in Addresses
  <2>1. Own \in Uris
    BY <1>3, OwnIs, RoutesAreUris
  <2>2. QED
    BY <1>3, <1>7, <2>1, OwnIs, ResolveIs
<1> HIDE DEF to
<1>9. Sendable(m)
  <2>1. m.uri.user # None
    BY <1>4, <1>5 DEF Users, None
  <2>2. Public # None
    BY <1>3, PortIs, RoutingAssumption
  <2>3. QED
    BY <1>4, <1>5, <2>1, <2>2 DEF Sendable
<1>10. QED
  BY <1>5, <1>6, <1>8, <1>9, SendsIs

\* All the Routes of a request that was sent by the route set of a dialog are used up.
LEMMA NoRouteLeft ==
  ASSUME Typed, NEW m \in Reqs, NEW r \in Reqs, Sendable(m), m.method # "INVITE",
         RoutesLeft(m, r, PassesOf(m))
  PROVE  r.routes = <<>>
<1> DEFINE n == OwnRoutes(m)
           len == Len(m.routes)
<1>1. m.routes \in Seq(Routes) /\ r.routes \in Seq(Routes) /\ len \in Nat
  BY DEF Reqs
<1>2. n \in 0 .. len /\ (n < len => ~Ours(Resolve(m.routes[n + 1])))
  BY <1>1, OwnRoutesIs
<1>3. m.routes # <<>> /\ \A i \in 1 .. len : m.routes[i] = Own
  BY DEF Sendable
<1>4. Len(r.routes) = len - Used(PassesOf(m), n) /\ PassesOf(m) = IF n = 0 THEN 1 ELSE n
  BY DEF RoutesLeft, PassesOf
<1> HIDE DEF n
<1>5. n = len
  <2>1. SUFFICES ASSUME n < len PROVE FALSE
    BY <1>1, <1>2
  <2>2. n + 1 \in 1 .. len
    BY <1>1, <1>2, <2>1
  <2>3. m.routes[n + 1] = Own
    BY <1>3, <2>2
  <2>4. QED
    BY <1>2, <2>1, <2>3, OwnIs
<1>6. len # 0
  BY <1>1, <1>3
<1>7. Len(r.routes) = 0
  BY <1>1, <1>4, <1>5, <1>6 DEF Used
<1>8. QED
  BY <1>1, <1>7

\* The route sets of a new dialog are those of its INVITE, one of them reversed.
LEMMA NewDialog ==
  ASSUME Typed, NEW rr \in Seq(Routes), Len(rr) > 0, \A i \in 1 .. Len(rr) : rr[i] = Own
  PROVE  /\ Reverse(rr) \in Seq(Routes) /\ Reverse(rr) # <<>> /\ rr # <<>>
         /\ \A i \in 1 .. Len(Reverse(rr)) : Reverse(rr)[i] = Own
<1>1. Len(rr) \in Nat
  OBVIOUS
<1>2. Reverse(rr) = [i \in 1 .. Len(rr) |-> rr[(Len(rr) - i) + 1]]
  BY DEF Reverse
<1>3. \A i \in 1 .. Len(rr) : (Len(rr) - i) + 1 \in 1 .. Len(rr)
  BY <1>1
<1>4. \A i \in 1 .. Len(rr) : rr[(Len(rr) - i) + 1] = Own /\ rr[(Len(rr) - i) + 1] \in Routes
  BY <1>3
<1>5. Reverse(rr) \in [1 .. Len(rr) -> Routes] /\ \A i \in 1 .. Len(rr) : Reverse(rr)[i] = Own
  BY <1>2, <1>4
<1>6. Reverse(rr) \in Seq(Routes) /\ Len(Reverse(rr)) = Len(rr)
  BY <1>1, <1>5
<1>7. QED
  BY <1>5, <1>6

\* A user's Contact.
LEMMA ContactIs ==
  ASSUME Typed, NEW u \in Users
  PROVE  LET c == Uri(u, location[u].host, location[u].port)
         IN  c \in Uris /\ c.user = u /\ c.maddr = None
<1>1. location[u] \in Addresses
  <2>1. CASE location[u] = Nowhere
    BY <2>1 DEF Nowhere, Address, Addresses, Hosts
  <2>2. CASE location[u] # Nowhere
    BY <2>2, PlacesAre
  <2>3. QED
    BY <2>1, <2>2
<1>2. location[u].host \in Hosts /\ location[u].port \in Nat
  BY <1>1 DEF Addresses
<1>3. QED
  BY <1>2, UriIs DEF Uri

(***************************************************************************)
(* The request arrives: it has had all its passes, and is where it should  *)
(* be; an INVITE leaves its Record-Routes to the dialog.                   *)
(***************************************************************************)
LEMMA ArriveStep ==
  ASSUME IInv, Arrive
  PROVE  IInv'
<1> DEFINE m == flight.sent
           r == flight.req
           k == flight.passes
           found == \E u \in Users : u = r.uri.user /\ location[u] = flight.at
           contact(u) == Uri(u, location[u].host, location[u].port)
           fate == IF found THEN "delivered" ELSE "elsewhere"
           f == [flight EXCEPT !.fate = fate]
           routes(u) == IF u = "callee" THEN r.rr ELSE Reverse(r.rr)
           new == [u \in Users |-> [target |-> contact(Other(u)), routes |-> routes(u)]]
<1>1. /\ flight.fate = "on its way" /\ ~Ours(flight.at) /\ flight' = f
      /\ (dialog' = new /\ r.method = "INVITE") \/ dialog' = dialog
      /\ UNCHANGED <<app_port, location>>
  BY DEF Arrive
<1>2. flight # NoFlight
  <2>1. NoFlight.fate = "none"
    BY DEF NoFlight
  <2>2. NoFlight.fate # flight.fate
    BY <1>1, <2>1
  <2>3. QED
    BY <2>2, Zenon
<1>3. Typed /\ DialogOnPath /\ flight \in Flights /\ Follows(flight)
  BY <1>2 DEF IInv, Typed, FlightFollows
<1>4. m \in Reqs /\ r \in Reqs /\ k \in Nat
  BY <1>3 DEF Flights
<1>5. PassesOf(m) \in Nat /\ PassesOf(m) >= 1
  <2>1. m.routes \in Seq(Routes)
    BY <1>4 DEF Reqs
  <2>2. OwnRoutes(m) \in Nat
    BY <2>1, OwnRoutesIs
  <2>3. QED
    BY <2>2 DEF PassesOf
<1>6. k = PassesOf(m) /\ k > 0
  <2>1. k <= PassesOf(m) /\ ~(k < PassesOf(m))
    BY <1>1, <1>3 DEF Follows
  <2>2. k \in Nat
    BY <1>4
  <2>3. QED
    BY <1>5, <2>1, <2>2
<1>7. /\ Sendable(m) /\ Kept(m, r, k) /\ RoutesLeft(m, r, k) /\ Passed(m, k)
      /\ LeavesFor(m, flight.at)
  BY <1>3, <1>6 DEF Follows
<1>8. /\ f \in Flights /\ f.sent = m /\ f.req = r /\ f.at = flight.at /\ f.passes = k
      /\ f.fate = fate
  <2>1. fate \in Fates
    BY DEF Fates
  <2> HIDE DEF fate
  <2>2. QED
    BY <1>3, <2>1 DEF Flights
<1> HIDE DEF f
<1>9. Follows(f)
  BY <1>3, <1>8 DEF Follows
<1>10. FlightFollows'
  BY <1>1, <1>9, FollowsStays
<1>11. r.rr \in Seq(Routes) /\ Len(r.rr) > 0 /\ \A i \in 1 .. Len(r.rr) : r.rr[i] = Own
  BY <1>4, <1>6, <1>7 DEF Kept, Reqs
<1>12. ASSUME dialog' = new
       PROVE  \A u \in Users : /\ dialog'[u] \in [target : Uris, routes : Seq(Routes)]
                               /\ dialog'[u].target.user \in Users
                               /\ dialog'[u].target.maddr = None
                               /\ dialog'[u].routes # <<>>
                               /\ \A i \in 1 .. Len(dialog'[u].routes) : dialog'[u].routes[i] = Own
  <2>1. SUFFICES ASSUME NEW u \in Users
                 PROVE  LET d == [target |-> contact(Other(u)), routes |-> routes(u)]
                        IN  /\ d \in [target : Uris, routes : Seq(Routes)]
                            /\ d.target.user \in Users /\ d.target.maddr = None
                            /\ d.routes # <<>>
                            /\ \A i \in 1 .. Len(d.routes) : d.routes[i] = Own
    BY <1>12
  <2>2. Other(u) \in Users
    BY DEF Other, Users
  <2>3. /\ contact(Other(u)) \in Uris /\ contact(Other(u)).user \in Users
        /\ contact(Other(u)).maddr = None
    BY <1>3, <2>2, ContactIs
  <2>4. /\ Reverse(r.rr) \in Seq(Routes) /\ Reverse(r.rr) # <<>> /\ r.rr # <<>>
        /\ \A i \in 1 .. Len(Reverse(r.rr)) : Reverse(r.rr)[i] = Own
    BY <1>3, <1>11, NewDialog
  <2>5. /\ routes(u) \in Seq(Routes) /\ routes(u) # <<>>
        /\ \A i \in 1 .. Len(routes(u)) : routes(u)[i] = Own
    BY <1>11, <2>4
  <2> HIDE DEF contact, routes
  <2>6. QED
    BY <2>3, <2>5
<1>13. dialog' = new => dialog' \in [Users -> [target : Uris, routes : Seq(Routes)]]
  <2>1. SUFFICES ASSUME dialog' = new
                 PROVE  dialog' \in [Users -> [target : Uris, routes : Seq(Routes)]]
    OBVIOUS
  <2>2. DOMAIN dialog' = Users /\ dialog' = [u \in Users |-> dialog'[u]]
    BY <2>1
  <2>3. QED
    BY <1>12, <2>1, <2>2
<1>14. Own' = Own
  BY <1>1 DEF Own
<1> HIDE DEF new
<1>15. Typed'
  BY <1>1, <1>3, <1>8, <1>13 DEF Typed
<1>16. DialogOnPath'
  BY <1>1, <1>3, <1>12, <1>14 DEF DialogOnPath, OnPath
<1>17. DialogStaysOnPath'
  <2>1. m.method # "INVITE" => r.routes = <<>>
    BY <1>3, <1>4, <1>6, <1>7, NoRouteLeft
  <2>2. k >= 1
    <3>1. k \in Nat
      BY <1>4
    <3>2. QED
      BY <1>6, <3>1
  <2>3. /\ flight'.sent.method # "INVITE" => flight'.req.routes = <<>>
        /\ flight'.passes = k
    BY <1>1, <1>8, <2>1
  <2>4. QED
    BY <2>2, <2>3 DEF DialogStaysOnPath
<1>18. EndsAsSent'
  <2>1. PICK x : x = m
    OBVIOUS
  <2>2. OwnRoutes(x)' = OwnRoutes(x) /\ PassesOf(x)' = PassesOf(x) /\ Expected(x)' = Expected(x)
    BY <1>1, ExpectedStays
  <2>3. /\ ~x.require /\ x.maxfwd > k
        /\ x.uri.user # None /\ location[x.uri.user] # Nowhere
    BY <1>6, <1>7, <2>1 DEF Passed
  <2>4. ~(x.maxfwd <= PassesOf(x))
    <3>1. x.maxfwd \in Nat
      BY <1>4, <2>1 DEF Reqs
    <3>2. QED
      BY <1>5, <1>6, <2>1, <2>3, <3>1
  <2>5. Expected(x) = "leaves"
    BY <2>3, <2>4 DEF Expected, Known
  <2>6. flight'.sent = x /\ flight'.passes = k /\ flight'.at = flight.at /\ flight'.fate = fate
    BY <1>1, <1>8, <2>1
  <2>7. LeavesFor(x, flight.at)
    BY <1>7, <2>1
  <2>8. fate \in {"delivered", "elsewhere"}
    OBVIOUS
  <2>9. PICK at : at = flight.at
    OBVIOUS
  <2>10. LeavesFor(x, at)'
    BY <1>1, <2>2, <2>7, <2>9 DEF LeavesFor
  <2> HIDE DEF fate
  <2>11. PassesOf(x)' = k /\ Expected(x)' = "leaves"
    BY <1>6, <2>1, <2>2, <2>5
  <2>12. QED
    BY <2>6, <2>8, <2>9, <2>10, <2>11 DEF EndsAsSent, Ended, LeavesFor
<1>19. QED
  BY <1>10, <1>15, <1>16, <1>17, <1>18 DEF IInv

\* The next request may come, and the users may move in between.
LEMMA DoneStep ==
  ASSUME IInv, Done
  PROVE  IInv'
<1>1. NoFlight.fate = "none"
  BY DEF NoFlight
<1>2. Typed' /\ FlightFollows' /\ DialogOnPath'
  BY DEF IInv, Done, Typed, FlightFollows, DialogOnPath, OnPath, Own
<1>3. EndsAsSent' /\ DialogStaysOnPath'
  BY <1>1 DEF Done, EndsAsSent, Ended, DialogStaysOnPath
<1>4. QED
  BY <1>2, <1>3 DEF IInv

(* A user moves while no request is under way. *)
LEMMA MoveStep ==
  ASSUME IInv, NEW u \in Users, Move(u)
  PROVE  IInv'
<1>1. NoFlight.fate = "none"
  BY DEF NoFlight
<1>2. Typed' /\ FlightFollows' /\ DialogOnPath'
  BY DEF IInv, Move, Typed, FlightFollows, DialogOnPath, OnPath, Own
<1>3. EndsAsSent' /\ DialogStaysOnPath'
  BY <1>1 DEF Move, EndsAsSent, Ended, DialogStaysOnPath
<1>4. QED
  BY <1>2, <1>3 DEF IInv

(* Nothing happens. *)
LEMMA StutterStep ==
  ASSUME IInv, UNCHANGED vars
  PROVE  IInv'
<1>1. /\ app_port' = app_port /\ location' = location /\ dialog' = dialog /\ flight' = flight
  BY DEF vars
<1>2. Typed' /\ DialogOnPath' /\ DialogStaysOnPath'
  BY <1>1 DEF IInv, Typed, DialogOnPath, OnPath, Own, DialogStaysOnPath
<1>3. FlightFollows'
  <2>1. CASE flight = NoFlight
    BY <1>1, <2>1 DEF FlightFollows
  <2>2. CASE flight # NoFlight
    <3>1. PICK f : f = flight
      OBVIOUS
    <3>2. Follows(f)
      BY <2>2, <3>1 DEF IInv, FlightFollows
    <3>3. QED
      BY <1>1, <3>1, <3>2, FollowsStays
  <2>3. QED
    BY <2>1, <2>2
<1>4. EndsAsSent'
  <2>1. PICK x : x = flight.sent
    OBVIOUS
  <2>2. OwnRoutes(x)' = OwnRoutes(x) /\ PassesOf(x)' = PassesOf(x) /\ Expected(x)' = Expected(x)
    BY <1>1, ExpectedStays
  <2>3. PICK at : at = flight.at
    OBVIOUS
  <2>4. LeavesFor(x, at)' <=> LeavesFor(x, at)
    BY <1>1, <2>2 DEF LeavesFor
  <2>5. QED
    BY <1>1, <2>1, <2>2, <2>3, <2>4 DEF IInv, EndsAsSent, Ended
<1>5. QED
  BY <1>2, <1>3, <1>4 DEF IInv

(* The invariant holds at the start. *)
LEMMA InitIInv == Init => IInv
<1> SUFFICES ASSUME Init PROVE IInv
  OBVIOUS
<1>1. NoFlight.fate = "none"
  BY DEF NoFlight
<1>2. \A u \in Users : NoDialog[u] \in [target : Uris, routes : Seq(Routes)]
  <2> DEFINE none == None
             zero == 0
  <2>1. none \in Hosts /\ none \in Users \cup {None} /\ zero \in Nat
    BY DEF Hosts
  <2> HIDE DEF none, zero
  <2>2. Uri(none, none, zero) \in Uris
    BY <2>1, UriIs
  <2>3. Uri(None, None, 0) \in Uris
    BY <2>2 DEF none, zero
  <2>4. <<>> \in Seq(Routes)
    OBVIOUS
  <2>5. QED
    BY <2>3, <2>4 DEF NoDialog
<1>3. NoDialog \in [Users -> [target : Uris, routes : Seq(Routes)]]
  <2>1. NoDialog = [u \in Users |-> NoDialog[u]]
    BY DEF NoDialog
  <2>2. QED
    BY <1>2, <2>1
<1>4. Typed /\ FlightFollows /\ DialogOnPath
  BY <1>3 DEF Init, Typed, FlightFollows, DialogOnPath
<1>5. EndsAsSent /\ DialogStaysOnPath
  BY <1>1 DEF Init, EndsAsSent, Ended, DialogStaysOnPath
<1>6. QED
  BY <1>4, <1>5 DEF IInv

(* Every reachable state satisfies the invariant: what follows from a request as it was sent
   (module_proxy.c:6-398, module_cscf_hss_IPC.c:79-102) is what becomes of it. *)
THEOREM Invariance == Spec => []IInv
<1>1. IInv /\ [Next]_vars => IInv'
  <2> SUFFICES ASSUME IInv, [Next]_vars PROVE IInv'
    OBVIOUS
  <2>1. CASE Cscf
    BY <2>1, NotFoundStep, RewritesTelStep, InvalidStep, ForwardStep DEF Cscf
  <2>2. CASE Invite \/ InviteStrict \/ Arrive \/ Done
    BY <2>2, InviteStep, InviteStrictStep, ArriveStep, DoneStep
  <2>3. CASE \E u \in Users : InDialog(u) \/ Move(u)
    BY <2>3, InDialogStep, MoveStep
  <2>4. CASE UNCHANGED vars
    BY <2>4, StutterStep
  <2>5. QED
    BY <2>1, <2>2, <2>3, <2>4 DEF Next
<1>2. QED
  BY <1>1, InitIInv, PTL DEF Spec

-----------------------------------------------------------------------------
(***************************************************************************)
(* Types are kept, and no request has more hops to go than it was sent     *)
(* with: each pass takes one (module_proxy.c:41-78, pjsip's copy).         *)
(***************************************************************************)
THEOREM TypeCorrect == Spec => []TypeOK
<1>1. IInv => TypeOK
  <2> SUFFICES ASSUME IInv PROVE TypeOK
    OBVIOUS
  <2>1. Typed
    BY DEF IInv
  <2>2. \A u \in Users : dialog[u].target.user \in Users \cup {None}
    BY <2>1 DEF Typed, Uris
  <2>3. ASSUME flight # NoFlight
        PROVE  flight.fate \in Fates /\ flight.req.maxfwd \in 0 .. flight.sent.maxfwd
    <3>1. flight \in Flights /\ Kept(flight.sent, flight.req, flight.passes)
      BY <2>1, <2>3 DEF IInv, Typed, FlightFollows, Follows
    <3>2. flight.fate \in Fates /\ flight.passes \in Nat /\ flight.sent \in Reqs
          /\ flight.req \in Reqs
      BY <3>1 DEF Flights
    <3>3. flight.sent.maxfwd \in Nat /\ flight.req.maxfwd \in Nat
      BY <3>2 DEF Reqs
    <3>4. flight.req.maxfwd = flight.sent.maxfwd - flight.passes
      BY <3>1 DEF Kept
    <3>5. flight.req.maxfwd \in 0 .. flight.sent.maxfwd
      <4>1. \A x, y, z \in Nat : x = y - z => x \in 0 .. y
        OBVIOUS
      <4>2. QED
        BY <3>2, <3>3, <3>4, <4>1
    <3>6. QED
      BY <3>2, <3>5
  <2>4. QED
    BY <2>1, <2>2, <2>3 DEF TypeOK, Typed
<1>2. QED
  BY <1>1, Invariance, PTL

(***************************************************************************)
(* A request with a SIP URI that no strict router has sent ends where the  *)
(* rules in module_proxy.c say: refused for the right reason after the     *)
(* right number of passes, or at the first Route that is not the CSCF's,   *)
(* or at the address its user has registered last, or with nothing but a   *)
(* maddr to go by at the host of its target (module_proxy.c:41-249,        *)
(* module_cscf_hss_IPC.c:79-102), for any hops, names, places and port.    *)
(***************************************************************************)
THEOREM RequestsEndRight == Spec => []EndsWhereItShould
<1>1. ASSUME IInv PROVE EndsWhereItShould
  <2> DEFINE m == flight.sent
             here == location[m.uri.user]
  <2>1. SUFFICES ASSUME Ended, m.scheme = "sip"
        PROVE  EndsAs(m, IF ByMaddr(m) THEN [host : {Target(m).host}, port : Nat]
                         ELSE {Target(m)})
    BY DEF EndsWhereItShould
  <2>2. flight # NoFlight
    <3>1. NoFlight.fate = "none" /\ flight.fate # "none"
      BY <2>1 DEF Ended, NoFlight
    <3>2. QED
      BY <3>1, Zenon
  <2>3. Typed /\ EndsAsSent /\ Sendable(m) /\ flight \in Flights
    BY <1>1, <2>2 DEF IInv, Typed, FlightFollows, Follows
  <2>4. m \in Reqs /\ m.uri \in Uris /\ flight.at.port \in Nat
    BY <2>3 DEF Flights, Reqs, Addresses
  <2>5. CASE Expected(m) # "leaves"
    BY <2>1, <2>3, <2>5 DEF EndsAsSent, EndsAs, Ended
  <2>6. CASE Expected(m) = "leaves"
    <3>1. /\ flight.fate \in {"delivered", "elsewhere"} /\ flight.passes = PassesOf(m)
          /\ LeavesFor(m, flight.at)
      BY <2>1, <2>3, <2>6 DEF EndsAsSent, Ended
    <3>2. m.uri.maddr = Edge => Resolve(m.uri).host = Edge /\ ~Ours(Resolve(m.uri))
      <4>1. m.uri.maddr = Edge => Resolve(m.uri).host = Edge
        BY <2>3, PortIs, RoutingAssumption DEF Resolve, Address
      <4>2. QED
        BY <4>1, NotOurs
    <3>3. m.uri.maddr = Public => Ours(Resolve(m.uri))
      <4>1. ASSUME m.uri.maddr = Public PROVE Resolve(m.uri) = Address(Public, app_port)
        <5>1. Public # None
          BY <2>3, PortIs, RoutingAssumption
        <5>2. QED
          BY <2>3, <4>1, <5>1, PortIs DEF Sendable, Resolve, Address
      <4>2. QED
        BY <2>3, <4>1, ToCscf
    <3>4. CASE OtherRoutes(m) # <<>>
      <4>1. ~ByMaddr(m) /\ flight.at = Target(m)
        BY <3>1, <3>4 DEF ByMaddr, LeavesFor, OtherRoutes, Target
      <4>2. QED
        BY <2>6, <3>1, <4>1 DEF EndsAs
    <3>5. CASE OtherRoutes(m) = <<>> /\ m.uri.maddr = None
      <4>1. flight.at = here
        <5>1. Edge # None
          BY <2>3, PortIs, RoutingAssumption
        <5>2. QED
          BY <3>1, <3>5, <5>1 DEF LeavesFor, OtherRoutes
      <4>2. ~ByMaddr(m) /\ Target(m) = here
        BY <3>5, Zenon DEF ByMaddr, Target
      <4>3. QED
        BY <2>6, <3>1, <4>1, <4>2 DEF EndsAs
    <3>6. CASE OtherRoutes(m) = <<>> /\ m.uri.maddr # None
      <4>1. ByMaddr(m) /\ m.uri.maddr \in {Public, Edge}
        BY <2>4, <3>6 DEF ByMaddr, Uris
      <4>2. flight.at.host = Target(m).host
        <5>1. CASE m.uri.maddr = Edge
          BY <3>1, <3>2, <3>6, <5>1 DEF LeavesFor, OtherRoutes, Target
        <5>2. CASE m.uri.maddr # Edge
          BY <3>1, <3>3, <3>6, <4>1, <5>2 DEF LeavesFor, OtherRoutes, Target
        <5>3. QED
          BY <5>1, <5>2
      <4>3. flight.at \in [host : {Target(m).host}, port : Nat]
        <5>1. flight.at = [host |-> flight.at.host, port |-> flight.at.port]
          BY <2>3 DEF Flights, Addresses
        <5>2. QED
          BY <2>4, <4>2, <5>1
      <4>4. QED
        BY <2>6, <3>1, <4>1, <4>3 DEF EndsAs
    <3>7. QED
      BY <3>4, <3>5, <3>6
  <2>7. QED
    BY <2>5, <2>6
<1>2. QED
  BY <1>1, Invariance, PTL

(***************************************************************************)
(* The requests of a dialog pass the CSCF, by the Record-Route that        *)
(* proxy_postprocess has put in (module_proxy.c:22-40).                    *)
(***************************************************************************)
THEOREM DialogPassesTheCscf == Spec => []DialogStaysOnPath
<1>1. IInv => DialogStaysOnPath
  BY DEF IInv
<1>2. QED
  BY <1>1, Invariance, PTL
=============================================================================
