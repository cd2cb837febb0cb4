---------------------------- MODULE ProxyRouting ----------------------------
(***************************************************************************)
(* Where the CSCF sends a request: the lookup of its user                  *)
(* (route_on_rx_msg), then the validation, the Route preprocessing and the *)
(* choice of the target of module_proxy.c, for the INVITE and the later    *)
(* requests of one dialog.  A request may pass the CSCF several times, its *)
(* users may register elsewhere between two requests.                      *)
(*                                                                         *)
(* A host is a name, an address a host and a port; port 0 in a URI means   *)
(* 5060.  Of SIP's transactions, timers and responses there is nothing     *)
(* here: a request that is not lost on the network ends by reaching an     *)
(* address that is not the CSCF's, by a refusal or by a crash.             *)
(*                                                                         *)
(* A definition whose name starts with Slip is a bug the code might have   *)
(* had instead of the definition that follows; no specification uses it.   *)
(***************************************************************************)
EXTENDS Integers, Sequences, FiniteSets, SequencesExt

CONSTANTS
  OwnPorts,     \* the CSCF's port, by build: 9170, or 5060 without PJ_SERVER_TEST
  Public,       \* PJ_SERVER_ADDRESS
  Interfaces,   \* the host's other addresses, in order, the first is its primary one
  Edge,         \* the host of another proxy
  Places,       \* the addresses from which users register
  MaxForwards,  \* the values a Max-Forwards header is sent with
  Schemes       \* the schemes of a Request-URI: "sip", "tel"

None    == "none"
Absent  == 70                           \* pjsip adds a missing Max-Forwards with 70
Users   == {"caller", "callee"}
Other(u) == IF u = "caller" THEN "callee" ELSE "caller"
Address(h, p) == [host |-> h, port |-> p]
Nowhere == Address(None, 0)

\* The names of this host (app.name), the one for Record-Route first.
init_proxy == <<Public>> \o Interfaces \o <<"127.0.0.1", "cscf", "localhost">>

NameArraySize == 16

ASSUME RoutingAssumption ==
  /\ OwnPorts \subseteq Nat \ {0} /\ MaxForwards \subseteq Nat
  /\ Interfaces \in Seq(STRING) /\ Places \subseteq [host : STRING, port : Nat]
  /\ Len(init_proxy) <= NameArraySize                 \* init_proxy does not check it
  /\ \A i \in DOMAIN init_proxy : init_proxy[i] \notin {Edge, None} /\ Edge # None
  \* a user on one of the CSCF's hosts is the CSCF itself once StripMaddr has set the port to 0
  /\ \A a \in Places : a.port > 0 /\ a.host \notin {init_proxy[i] : i \in DOMAIN init_proxy}

(***************************************************************************)
(* A request: its Request-URI, the Route headers, Max-Forwards, whether it *)
(* has Proxy-Require, and the Record-Route headers proxies have put in.    *)
(***************************************************************************)
Uri(u, h, p) == [user |-> u, host |-> h, port |-> p, maddr |-> None, lr |-> FALSE]
Loose(h, p)  == [Uri(None, h, p) EXCEPT !.lr = TRUE]

VARIABLES
  app_port,   \* the CSCF's port
  location,   \* where the HSS says each user is
  dialog,     \* each party's remote target and route set; NoDialog before the first INVITE
  flight      \* the request under way: as sent, as it is, where to, what became of it,
              \* how often it has passed the CSCF

vars == <<app_port, location, dialog, flight>>

NoDialog == [u \in Users |-> [target |-> Uri(None, None, 0), routes |-> <<>>]]
NoFlight == [fate |-> "none"]

Init ==
  /\ app_port \in OwnPorts
  /\ location \in [Users -> Places \cup {Nowhere}]
  /\ dialog = NoDialog
  /\ flight = NoFlight

-----------------------------------------------------------------------------
is_uri_local(uri) ==
  /\ uri.port = app_port \/ (uri.port = 0 /\ app_port = 5060)
  /\ \E i \in DOMAIN init_proxy : init_proxy[i] = uri.host

\* The proxy's own name in front of the Record-Route headers.
SlipPostprocess(m) == m

proxy_postprocess(m) == [m EXCEPT !.rr = <<Loose(init_proxy[1], app_port)>> \o @]

\* RFC 3261, 16.4, first part: a request that a strict router has sent.
StrictRoute(m) ==
  IF is_uri_local(m.uri) /\ m.routes # <<>> /\ ~Last(m.routes).lr
    THEN [m EXCEPT !.uri = Last(m.routes), !.routes = Front(m.routes)] ELSE m

\* Second part: a maddr that names this proxy is dropped, and the port with it.
StripMaddr(m) ==
  IF m.uri.maddr # None /\ is_uri_local(Address(m.uri.maddr, app_port))
    THEN [m EXCEPT !.uri.maddr = None, !.uri.port = 0] ELSE m

\* Third part: the first Route, if it names this proxy.
OwnRoute(m) ==
  IF m.routes # <<>> /\ is_uri_local(Head(m.routes)) THEN [m EXCEPT !.routes = Tail(@)] ELSE m

proxy_process_routing(m) == OwnRoute(StripMaddr(StrictRoute(m)))

SlipTooManyHops(m) == m.maxfwd < 1

\* Max-Forwards of 1 or lower.
TooManyHops(m) == m.maxfwd <= 1

\* proxy_verify_request: the refusal, None if the request is valid.
proxy_verify_request(m) ==
  CASE m.scheme # "sip"                          -> "416"
    [] m.scheme = "sip" /\ TooManyHops(m)        -> "483"
    [] m.scheme = "sip" /\ ~TooManyHops(m) /\ m.require -> "420"
    [] OTHER                                     -> None

SlipCopy(m) == [m EXCEPT !.maxfwd = Absent]

\* pjsip's copy of a request to forward has one hop less to go.
Copy(m) == [m EXCEPT !.maxfwd = @ - 1]

\* pjsip sends a request to its first Route, else to its Request-URI.
Resolve(uri) ==
  Address(IF uri.maddr = None THEN uri.host ELSE uri.maddr, IF uri.port = 0 THEN 5060 ELSE uri.port)
NextHop(m) == Resolve(IF m.routes = <<>> THEN m.uri ELSE Head(m.routes))

Ours(a) == a.port = app_port /\ \E i \in DOMAIN init_proxy : init_proxy[i] = a.host

-----------------------------------------------------------------------------
\* The CSCF has a request; the HSS says where its user is.
InHand == flight.fate = "on its way" /\ Ours(flight.at)
Here   == IF flight.req.uri.user = None THEN Nowhere ELSE location[flight.req.uri.user]

\* pjsip's functions that answer a request abort on an ACK.
Answer(code) ==
  /\ flight' = [flight EXCEPT !.fate = IF flight.req.method = "ACK" THEN "crash" ELSE code]
  /\ UNCHANGED <<app_port, location, dialog>>

\* route_on_rx_msg: nobody of that name.
NotFound == InHand /\ Here = Nowhere /\ Answer("404")

(***************************************************************************)
(* route_on_rx_msg takes every Request-URI for a SIP URI: of a tel URI it  *)
(* writes to the extension parameter, through a null pointer.              *)
(***************************************************************************)
RewritesTel ==
  /\ InHand /\ Here # Nowhere
  /\ flight.req.scheme = "tel"
  /\ flight' = [flight EXCEPT !.fate = "crash"]
  /\ UNCHANGED <<app_port, location, dialog>>

Rewritten == InHand /\ Here # Nowhere /\ flight.req.scheme = "sip"

Invalid ==
  /\ Rewritten
  /\ proxy_verify_request(flight.req) # None
  /\ Answer(proxy_verify_request(flight.req))

\* route_on_rx_msg: the Request-URI becomes the user's registered address.
Rewrite(m) == [m EXCEPT !.uri.host = Here.host, !.uri.port = Here.port]

(***************************************************************************)
(* The request is forwarded, unless it is for this proxy itself, which     *)
(* proxy_calculate_target answers with 404 or, an ACK, drops.              *)
(***************************************************************************)
Forward ==
  /\ Rewritten
  /\ proxy_verify_request(flight.req) = None
  /\ LET out == proxy_process_routing(Copy(Rewrite(flight.req)))
     IN  flight' = IF out.uri.maddr # None \/ ~is_uri_local(out.uri)
           THEN [flight EXCEPT !.req = proxy_postprocess(out), !.at = NextHop(out),
                               !.passes = @ + 1]
           ELSE [flight EXCEPT !.fate = IF out.method = "ACK" THEN "dropped" ELSE "404"]
  /\ UNCHANGED <<app_port, location, dialog>>

Cscf == NotFound \/ RewritesTel \/ Invalid \/ Forward

-----------------------------------------------------------------------------
(* The users and the network: one request at a time. *)
Sends(m, to) ==
  /\ flight = NoFlight
  /\ flight' = [sent |-> m, req |-> m, at |-> to, fate |-> "on its way", passes |-> 0]
  /\ UNCHANGED <<app_port, location, dialog>>

Request(method, uri, routes, hops) ==
  [method |-> method, scheme |-> "sip", uri |-> uri, routes |-> routes, maxfwd |-> hops,
   require |-> FALSE, rr |-> <<>>]

\* Routes that a caller has been configured with.
Preloaded ==
  LET own == Loose(Public, app_port)
  IN  {<<>>, <<own>>, <<own, Loose("cscf", 0)>>, <<Loose("localhost", app_port), own>>,
       <<Loose(Edge, 0)>>, <<own, Loose(Edge, 0)>>, <<own, own, Loose(Edge, 0), own>>}

\* A caller sends its INVITE to the CSCF, whose address a maddr may name; a strict router
\* before the CSCF sends one with the CSCF's own URI.
Invite ==
  \E routes \in Preloaded, hops \in MaxForwards \cup {Absent}, maddr \in {None, Public, Edge},
     scheme \in Schemes, require \in BOOLEAN :
    /\ require => scheme = "sip"
    /\ LET port == IF maddr = Public THEN app_port ELSE 0
           uri == [Uri("callee", "domain", port) EXCEPT !.maddr = maddr]
           m   == [Request("INVITE", uri, routes, hops) EXCEPT !.scheme  = scheme,
                                                               !.require = require]
       IN  Sends(m, Address(Public, app_port))

InviteStrict ==
  Sends(Request("INVITE", Uri(None, Public, app_port), <<Uri("callee", "domain", 0)>>, Absent),
        Address(Public, app_port))

\* A request in the dialog, by the route set of its sender.
InDialog(u) ==
  /\ dialog # NoDialog
  /\ \E method \in {"ACK", "BYE"} :
       LET m == Request(method, dialog[u].target, dialog[u].routes, Absent) IN Sends(m, NextHop(m))

(***************************************************************************)
(* The request arrives.  An INVITE that reaches its user begins a dialog:  *)
(* each party takes the Record-Route headers for its route set and the     *)
(* other's Contact, the address it has then, for its target.               *)
(***************************************************************************)
Arrive ==
  /\ flight.fate = "on its way" /\ ~Ours(flight.at)
  /\ LET m == flight.req
         found == \E u \in Users : u = m.uri.user /\ location[u] = flight.at
         contact(u) == Uri(u, location[u].host, location[u].port)
     IN  /\ flight' = [flight EXCEPT !.fate = IF found THEN "delivered" ELSE "elsewhere"]
         /\ IF found /\ m.method = "INVITE" /\ location["caller"] # Nowhere
              THEN dialog' = [u \in Users |->
                     [target |-> contact(Other(u)),
                      routes |-> IF u = "callee" THEN m.rr ELSE Reverse(m.rr)]]
              ELSE UNCHANGED dialog
  /\ UNCHANGED <<app_port, location>>

Done ==
  /\ flight.fate \notin {"none", "on its way", "crash"}
  /\ flight' = NoFlight
  /\ UNCHANGED <<app_port, location, dialog>>

\* A user registers elsewhere, or no longer does, while no request is under way.
Move(u) ==
  /\ flight = NoFlight
  /\ \E a \in (Places \cup {Nowhere}) \ {location[u]} : location' = [location EXCEPT ![u] = a]
  /\ UNCHANGED <<app_port, dialog, flight>>

Next == Cscf \/ Invite \/ InviteStrict \/ Arrive \/ Done \/ \E u \in Users : InDialog(u) \/ Move(u)

Spec == Init /\ [][Next]_vars

-----------------------------------------------------------------------------
Fates == {"on its way", "delivered", "elsewhere", "dropped", "crash", "404", "416", "483", "420"}

\* The variables keep their types; a request never has more hops to go than it was sent with.
TypeOK ==
  /\ app_port \in OwnPorts
  /\ location \in [Users -> Places \cup {Nowhere}]
  /\ \A u \in Users : dialog[u].target.user \in Users \cup {None}
  /\ flight # NoFlight => flight.fate \in Fates /\ flight.req.maxfwd \in 0 .. flight.sent.maxfwd

(***************************************************************************)
(* Where a request should end, by the rules that module_proxy.c states in  *)
(* its comments.  The Routes at its front that name the CSCF are used up,  *)
(* one a pass; it is refused if nobody is known by the name in its         *)
(* Request-URI, if it has a Proxy-Require, or if its Max-Forwards is 1 or  *)
(* lower at a pass (line 221; of RFC 3261 it would be 0).  Else it leaves  *)
(* for the first other Route; without one for its maddr (line 49), which   *)
(* is as good as none if it names the CSCF (line 154); without one for the *)
(* user's registered address.                                              *)
(***************************************************************************)
Known(m) == m.uri.user # None /\ location[m.uri.user] # Nowhere

OwnRoutes(m) ==
  Cardinality({i \in DOMAIN m.routes : \A j \in 1 .. i : Ours(Resolve(m.routes[j]))})
PassesOf(m)    == IF OwnRoutes(m) = 0 THEN 1 ELSE OwnRoutes(m)
OtherRoutes(m) == SubSeq(m.routes, OwnRoutes(m) + 1, Len(m.routes))

Expected(m) ==
  IF ~Known(m) THEN "404"
  ELSE IF m.require /\ m.maxfwd > 1 THEN "420"
  ELSE IF m.maxfwd <= PassesOf(m) THEN "483" ELSE "leaves"

Target(m) ==
  IF OtherRoutes(m) # <<>> THEN Resolve(OtherRoutes(m)[1])
  ELSE IF m.uri.maddr = None \/ Ours(Resolve(m.uri)) THEN location[m.uri.user]
  ELSE Resolve(m.uri)

Ended == flight.fate \notin {"none", "on its way"}

\* The request under way has ended as m should, and if it has left, at one of these addresses.
EndsAs(m, addresses) ==
  IF Expected(m) # "leaves" THEN m.method = "ACK" \/ flight.fate = Expected(m)
  ELSE /\ flight.fate \in {"delivered", "elsewhere"}
       /\ flight.passes = PassesOf(m)
       /\ flight.at \in addresses

\* A strict router has put the CSCF's Record-Route into the Request-URI and that at the end.
StrictRouted(m) == is_uri_local(m.uri) /\ m.routes # <<>> /\ ~Last(m.routes).lr

\* Whether nothing but a maddr says where the request goes.
ByMaddr(m) == m.uri.maddr # None /\ OtherRoutes(m) = <<>>

(***************************************************************************)
(* A request ends where it should (module_proxy.c:41-249,                  *)
(* module_cscf_hss_IPC.c:79-102): refused for the right reason after the   *)
(* right number of passes, or at the first Route that is not the CSCF's,   *)
(* or at the address its user has registered last, whatever address the    *)
(* dialog knew.  ACKs that are refused are left to AckNotAnswered.         *)
(*                                                                         *)
(* The code departs from its own rules for three kinds of request, because *)
(* route_on_rx_msg reads and writes the Request-URI before the proxy does, *)
(* and the property does not take that for right but leaves them out:      *)
(* - one of a strict router is answered with 404, where lines 107-111 say  *)
(*   that its last Route MUST replace the Request-URI;                     *)
(* - one with nothing but a maddr to go by loses the port of its target,   *)
(*   the registered one or its own (49-51, 154-161); only the host is      *)
(*   right;                                                                *)
(* - a tel URI crashes the CSCF, where lines 208-218 refuse it with 416.   *)
(***************************************************************************)
EndsWhereItShould ==
  Ended /\ flight.sent.scheme = "sip" /\ ~StrictRouted(flight.sent) =>
    LET m == flight.sent
    IN  EndsAs(m, IF ByMaddr(m) THEN [host : {Target(m).host}, port : Nat] ELSE {Target(m)})

(***************************************************************************)
(* The requests of a dialog pass the CSCF, in both directions and wherever *)
(* the parties are by then: the BYE that does not would leave the call's   *)
(* ports taken (module_proxy.c:22-40).  They bring no Route along.         *)
(***************************************************************************)
DialogStaysOnPath ==
  flight.fate = "delivered" /\ flight.sent.method # "INVITE" =>
    flight.passes >= 1 /\ flight.req.routes = <<>>

(***************************************************************************)
(* module_proxy.c:75, "respond with 404/Not Found (only if request is not  *)
(* ACK!)": the CSCF does not answer an ACK, which pjsip does not survive.  *)
(***************************************************************************)
AckNotAnswered == flight.fate # "crash"
=============================================================================
