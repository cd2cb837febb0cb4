------------------------------ MODULE CallFlow ------------------------------
(***************************************************************************)
(* One call from end to end: the caller, the callee and the CSCF between   *)
(* them, whose modules see each SIP message in the order of their          *)
(* priorities: change_sdp (module_rtpproxy.c), pjsip's transaction layer,  *)
(* the registrar, route_on_rx_msg (module_cscf_hss_IPC.c), the proxy.      *)
(* The subject is the call's pair of RTP ports: when messages that cross,  *)
(* are repeated or are refused take it and give it back, and what ports    *)
(* the two parties are told.                                               *)
(*                                                                         *)
(* The CSCF's one worker thread handles a message in one step; its         *)
(* requests to the relay server are answered as PortService says (PortIpc  *)
(* implements it), those to the HSS from the users registered.  The pairs  *)
(* that other calls hold are elsewhere.  The parties are any that follow   *)
(* the rules of SIP.  Left out are the messages that change_sdp passes on  *)
(* untouched and no state here depends on: responses to BYE and CANCEL, the*)
(* 100 of a re-INVITE and the ACK of a refusal, which ends at the next hop.*)
(* The pjsip that is linked has its assertions on, and one of them is that *)
(* no response is made for an ACK.                                         *)
(*                                                                         *)
(* A definition whose name starts with Slip is a bug the code might have   *)
(* had instead of the definition that follows; no specification uses it.   *)
(***************************************************************************)
EXTENDS Naturals, Sequences, FiniteSets

CONSTANTS Pairs,     \* the relay server's pairs of ports
          NoPair,
          Faults     \* the combinations of what may happen, see below

(***************************************************************************)
(* "retransmit"  the caller repeats its INVITE, the callee its 200         *)
(* "refusal"     the callee is busy or out of reach: 486 or 408            *)
(* "late_offer"  the caller sends its SDP in the ACK, not in the INVITE    *)
(* "expiry"      registrations end, and begin again, during the call       *)
(* "reinvite"    each party may send new SDP during the call, which is     *)
(*               accepted, or refused, with 491 when both do so at once    *)
(***************************************************************************)
AllFaults == {"retransmit", "refusal", "late_offer", "expiry", "reinvite"}

ASSUME CallAssumption == NoPair \notin Pairs /\ Faults \subseteq SUBSET AllFaults

Users    == {"caller", "callee"}
Other(u) == IF u = "caller" THEN "callee" ELSE "caller"

(* The SDP of a message: none, its sender's own address, or a relay port. *)
NoSdp       == <<>>
Direct      == <<"direct">>
Relay(q, e) == <<q, e>>                    \* port e of pair q

Requests == {"INVITE", "CANCEL", "ACK", "BYE", "re-INVITE"}
Refusals == {"404", "408", "486", "487", "603"}
Answers  == {"re-200", "re-4xx"}           \* to a re-INVITE
Types    == Requests \cup {"100", "180", "200"} \cup Refusals \cup Answers
Msg(t, sdp) == [type |-> t, sdp |-> sdp]

VARIABLES
  faults,      \* what may happen to this call
  pair,        \* the pair the relay server has for the call
  elsewhere,   \* the pairs of other calls
  registered,  \* the users the HSS knows
  tsx,         \* the INVITE's transaction at the CSCF; "aborted" with the CSCF
  ua,          \* where each party is in the call
  told,        \* where each party has been told to send its media
  resent,      \* which parties have repeated a message or sent a re-INVITE
  up, down     \* messages on their way from and to each party

port == <<pair, elsewhere>>
party == <<ua, told, resent>>
vars == <<faults, port, registered, tsx, party, up, down>>

Free == Pairs \ (elsewhere \cup {pair})

Init ==
  /\ faults \in Faults
  /\ pair = NoPair
  /\ elsewhere = {}
  /\ registered \in SUBSET Users
  /\ tsx = "none"
  /\ ua = [u \in Users |-> "idle"]
  /\ told = [u \in Users |-> NoSdp]
  /\ resent = {}
  /\ up = [u \in Users |-> <<>>]
  /\ down = [u \in Users |-> <<>>]

-----------------------------------------------------------------------------
\* Taking a message off the wire, and putting some on it.
Took(u, m) == up[u] # <<>> /\ m = Head(up[u]) /\ up' = [up EXCEPT ![u] = Tail(@)]
Sent(u, ms) == down' = [down EXCEPT ![u] = @ \o ms]

SlipHangUp(m) == m.type \in {"BYE", "CANCEL"}

\* The messages that release the ports.  Decline is the text of a 603.
HangUp(m) == m.type \in {"BYE", "CANCEL", "603"}

\* The port a message is given: get_port(1) for a request, get_port(2) for a response.
SlipEnd(m) == 1
End(m)     == IF m.type \in Requests THEN 1 ELSE 2

SlipAnswerSdp(m) == Relay(pair, End(m))

\* A response for a call without ports keeps its SDP.
AnswerSdp(m) == IF pair = NoPair THEN m.sdp ELSE Relay(pair, End(m))

(***************************************************************************)
(* change_sdp of a message: the pair it leaves the call and the SDP it     *)
(* leaves the message.  None, if the message is a request with SDP and no  *)
(* port is free: it is answered with 486 and goes no further.              *)
(***************************************************************************)
change_sdp(m) ==
  IF HangUp(m) THEN {[pair |-> NoPair, sdp |-> m.sdp]}
  ELSE IF m.sdp = NoSdp THEN {[pair |-> pair, sdp |-> NoSdp]}
  ELSE IF m.type \notin Requests THEN {[pair |-> pair, sdp |-> AnswerSdp(m)]}
  ELSE {[pair |-> q, sdp |-> Relay(q, End(m))] :
          q \in IF pair = NoPair THEN Free ELSE {pair}}

\* pjsip answers an INVITE it knows by itself.
Repeated(m) == m.type = "INVITE" /\ tsx \in {"pending", "completed"}

(***************************************************************************)
(* Requests the CSCF answers itself, through a transaction that pjsip makes*)
(* for the answer.  A request that has one gets no other answer; making one*)
(* for an ACK fails the assertion.  A party goes by no answer to its BYE or*)
(* CANCEL.                                                                 *)
(***************************************************************************)
Respond(u, m, code) ==
  CASE m.type = "INVITE" /\ ~Repeated(m) ->
         Sent(u, <<Msg(code, NoSdp)>>) /\ tsx' = "completed"
    [] m.type = "re-INVITE" -> Sent(u, <<Msg("re-4xx", NoSdp)>>) /\ UNCHANGED tsx
    [] m.type = "ACK"       -> tsx' = "aborted" /\ UNCHANGED down
    [] OTHER                -> UNCHANGED <<tsx, down>>

\* No port for a request.
NoPort(u, m) ==
  /\ Took(u, m)
  /\ change_sdp(m) = {}
  /\ Respond(u, m, "486")
  /\ UNCHANGED <<faults, port, registered, party>>

\* A repeated INVITE goes through change_sdp and no further.
Absorb(u, m) ==
  /\ Took(u, m)
  /\ Repeated(m)
  /\ \E out \in change_sdp(m) : pair' = out.pair
  /\ UNCHANGED <<faults, elsewhere, registered, tsx, party, down>>

\* The HSS does not know the user: 404, and then whatever ports the call has are released.
NotFound(u, m) ==
  /\ Took(u, m)
  /\ m.type \in Requests /\ ~Repeated(m)
  /\ Other(u) \notin registered
  /\ \E out \in change_sdp(m) : pair' = IF m.type = "ACK" THEN out.pair ELSE NoPair
  /\ Respond(u, m, "404")
  /\ UNCHANGED <<faults, elsewhere, registered, party>>

\* The request reaches the proxy as change_sdp leaves it.
ToProxy(u, m, out) ==
  /\ Took(u, m)
  /\ m.type \in Requests /\ ~Repeated(m)
  /\ Other(u) \in registered
  /\ out \in change_sdp(m)
  /\ pair' = out.pair
  /\ UNCHANGED <<faults, elsewhere, registered, party>>

\* An INVITE is given its two transactions, forwarded, and answered with 100.
Invite(u, m) ==
  /\ m.type = "INVITE"
  /\ \E out \in change_sdp(m) :
       /\ ToProxy(u, m, out)
       /\ down' = [down EXCEPT ![Other(u)] = Append(@, Msg("INVITE", out.sdp)),
                               ![u] = Append(@, Msg("100", NoSdp))]
  /\ tsx' = "pending"

SlipCancel(u, m) ==
  /\ m.type = "CANCEL"
  /\ \E out \in change_sdp(m) : ToProxy(u, m, out)
  /\ UNCHANGED <<tsx, down>>

\* A CANCEL goes on while the INVITE has no final response.
Cancel(u, m) ==
  /\ m.type = "CANCEL"
  /\ \E out \in change_sdp(m) : ToProxy(u, m, out)
  /\ IF tsx = "pending" THEN Sent(Other(u), <<Msg("CANCEL", NoSdp)>>) ELSE UNCHANGED down
  /\ UNCHANGED tsx

\* Requests in the call: the ACK without a transaction, the others with one of their own.
InDialog(u, m) ==
  /\ m.type \in {"ACK", "BYE", "re-INVITE"}
  /\ \E out \in change_sdp(m) :
       ToProxy(u, m, out) /\ Sent(Other(u), <<Msg(m.type, out.sdp)>>)
  /\ UNCHANGED tsx

(***************************************************************************)
(* A response: tu_on_tsx_state forwards it while there is a transaction,   *)
(* proxy_on_rx_response when there is none.  A 200 ends the transaction at *)
(* once, a refusal leaves it to absorb repeated INVITEs.                   *)
(***************************************************************************)
Response(u, m) ==
  /\ Took(u, m)
  /\ m.type \notin Requests
  /\ \E out \in change_sdp(m) : pair' = out.pair /\ Sent(Other(u), <<Msg(m.type, out.sdp)>>)
  /\ tsx' = IF tsx # "pending" THEN tsx
            ELSE CASE m.type = "180" -> "pending" [] m.type = "200" -> "gone"
                   [] OTHER -> "completed"
  /\ UNCHANGED <<faults, elsewhere, registered, party>>

(***************************************************************************)
(* The callee is out of reach: its INVITEs are lost, and after timer B the *)
(* caller is sent a 408 by the proxy, past change_sdp.                     *)
(***************************************************************************)
Timeout ==
  /\ "refusal" \in faults
  /\ tsx = "pending"
  /\ ua["callee"] = "idle"
  /\ tsx' = "completed"
  /\ down' = [down EXCEPT !["callee"] = <<>>, !["caller"] = Append(@, Msg("408", NoSdp))]
  /\ UNCHANGED <<faults, port, registered, party, up>>

Handle(u, m) == NoPort(u, m) \/ Absorb(u, m) \/ NotFound(u, m) \/ Invite(u, m)
                \/ Cancel(u, m) \/ InDialog(u, m) \/ Response(u, m)

Cscf(u) == tsx # "aborted" /\ up[u] # <<>> /\ Handle(u, Head(up[u]))

\* A REGISTER with credentials is passed to the HSS and answered with 200.
Register(u) ==
  /\ "expiry" \in faults
  /\ u \notin registered
  /\ registered' = registered \cup {u}
  /\ UNCHANGED <<faults, port, tsx, party, up, down>>

\* A registration ends: its time is over, or a REGISTER says that it is (Expires: 0).
Expire(u) ==
  /\ "expiry" \in faults
  /\ u \in registered
  /\ registered' = registered \ {u}
  /\ UNCHANGED <<faults, port, tsx, party, up, down>>

\* Other calls come and go.
OtherCall ==
  /\ \/ \E q \in Free : elsewhere' = elsewhere \cup {q}
     \/ \E q \in elsewhere : elsewhere' = elsewhere \ {q}
  /\ UNCHANGED <<faults, pair, registered, tsx, party, up, down>>

-----------------------------------------------------------------------------
(* The two parties. *)

\* Party u says ms, in the state from, and is then in the state to.
Says(u, from, to, ms) ==
  /\ ua[u] \in from
  /\ ua' = [ua EXCEPT ![u] = to]
  /\ up' = [up EXCEPT ![u] = @ \o ms]
  /\ UNCHANGED <<faults, port, registered, tsx, told, down>>

Call ==
  \E sdp \in {Direct} \cup (IF "late_offer" \in faults THEN {NoSdp} ELSE {}) :
    /\ Says("caller", {"idle"}, IF sdp = NoSdp THEN "asking" ELSE "inviting",
            <<Msg("INVITE", sdp)>>)
    /\ UNCHANGED resent

\* A caller that has heard nothing, a callee whose 200 is not acknowledged.
Repeat(u) ==
  /\ "retransmit" \in faults
  /\ u \notin resent
  /\ resent' = resent \cup {u}
  /\ IF u = "caller" THEN Says(u, {"inviting"}, "inviting", <<Msg("INVITE", Direct)>>)
                     ELSE Says(u, {"answered"}, "answered", <<Msg("200", Direct)>>)

Reinvite(u) ==
  /\ "reinvite" \in faults
  /\ u \notin resent
  /\ resent' = resent \cup {u}
  /\ Says(u, {"talking"}, "reinviting", <<Msg("re-INVITE", Direct)>>)

CallerCancels ==
  Says("caller", {"proceeding"}, "cancelling", <<Msg("CANCEL", NoSdp)>>) /\ UNCHANGED resent

Ring ==
  /\ \E sdp \in {NoSdp, Direct} : Says("callee", {"ringing"}, "rung", <<Msg("180", sdp)>>)
  /\ UNCHANGED resent

Answer ==
  /\ Says("callee", {"ringing", "rung"}, "answered", <<Msg("200", Direct)>>)
  /\ UNCHANGED resent

Refuse ==
  /\ \E t \in {"603"} \cup (IF "refusal" \in faults THEN {"486"} ELSE {}) :
       Says("callee", {"ringing", "rung"}, "over", <<Msg(t, NoSdp)>>)
  /\ UNCHANGED resent

Bye(u) == Says(u, {"talking"}, "over", <<Msg("BYE", NoSdp)>>) /\ UNCHANGED resent

(***************************************************************************)
(* What a party does with a message: where it is then and what it answers. *)
(* A caller that has cancelled and is answered all the same hangs up.      *)
(***************************************************************************)
CallerHears(s, t) ==
  CASE t \in {"100", "180"} /\ s = "inviting"   -> [ua |-> "proceeding", says |-> <<>>]
    [] t \in {"100", "180"} /\ s = "asking"     -> [ua |-> "asked", says |-> <<>>]
    [] t = "200" /\ s \in {"inviting", "proceeding"} ->
         [ua |-> "talking", says |-> <<Msg("ACK", NoSdp)>>]
    [] t = "200" /\ s \in {"asking", "asked"} ->
         [ua |-> "talking", says |-> <<Msg("ACK", Direct)>>]
    [] t = "200" /\ s = "cancelling" ->
         [ua |-> "over", says |-> <<Msg("ACK", NoSdp), Msg("BYE", NoSdp)>>]
    [] t \in Refusals /\ s # "talking"          -> [ua |-> "over", says |-> <<>>]
    [] OTHER                                    -> [ua |-> s, says |-> <<>>]

CalleeHears(s, t) ==
  CASE t = "INVITE" /\ s = "idle"               -> [ua |-> "ringing", says |-> <<>>]
    [] t = "CANCEL" /\ s \in {"ringing", "rung"} ->
         [ua |-> "over", says |-> <<Msg("487", NoSdp)>>]
    [] t = "ACK" /\ s = "answered"              -> [ua |-> "talking", says |-> <<>>]
    [] OTHER                                    -> [ua |-> s, says |-> <<>>]

EitherHears(s, t) ==
  CASE t = "BYE"                                -> [ua |-> "over", says |-> <<>>]
    [] t = "re-INVITE" /\ s = "talking"         ->
         [ua |-> "reanswered", says |-> <<Msg("re-200", Direct)>>]
    [] t = "re-INVITE" /\ s = "reinviting"      ->
         [ua |-> s, says |-> <<Msg("re-4xx", NoSdp)>>]
    [] t = "re-200" /\ s = "reinviting"         ->
         [ua |-> "talking", says |-> <<Msg("ACK", NoSdp)>>]
    [] t = "re-4xx" /\ s = "reinviting"         -> [ua |-> "talking", says |-> <<>>]
    [] t = "ACK" /\ s = "reanswered"            -> [ua |-> "talking", says |-> <<>>]
    [] OTHER                                    -> [ua |-> s, says |-> <<>>]

Hears(u, s, t) ==
  IF t \in {"BYE", "re-INVITE"} \cup Answers \/ s = "reanswered" THEN EitherHears(s, t)
  ELSE IF u = "caller" THEN CallerHears(s, t) ELSE CalleeHears(s, t)

\* A party goes by the SDP of a message that takes the call further, or of early media.
Hear(u) ==
  /\ down[u] # <<>>
  /\ LET m == Head(down[u])
         then == Hears(u, ua[u], m.type)
     IN  /\ ua' = [ua EXCEPT ![u] = then.ua]
         /\ up' = [up EXCEPT ![u] = @ \o then.says]
         /\ told' = IF m.sdp # NoSdp /\ (then.ua # ua[u] \/ m.type = "180")
                      THEN [told EXCEPT ![u] = m.sdp] ELSE told
  /\ down' = [down EXCEPT ![u] = Tail(@)]
  /\ UNCHANGED <<faults, port, registered, tsx, resent>>

Party(u) == Repeat(u) \/ Reinvite(u) \/ Bye(u)

Next ==
  \/ \E u \in Users : Cscf(u) \/ Hear(u) \/ Party(u) \/ Register(u) \/ Expire(u)
  \/ Call \/ CallerCancels \/ Ring \/ Answer \/ Refuse
  \/ Timeout
  \/ OtherCall

Spec == Init /\ [][Next]_vars

(***************************************************************************)
(* Messages arrive and the worker thread handles them.  Nobody has to      *)
(* call, ring, answer or hang up.                                          *)
(***************************************************************************)
FairSpec == Spec /\ \A u \in Users : WF_vars(Cscf(u)) /\ WF_vars(Hear(u))

-----------------------------------------------------------------------------
Sdps == {NoSdp, Direct} \cup {Relay(q, e) : q \in Pairs, e \in 1 .. 2}
Messages == [type : Types, sdp : Sdps]
Talks == {"idle", "talking", "reinviting", "reanswered", "over"}

(***************************************************************************)
(* The variables keep their types: no SDP ever names port 0                *)
(* (module_rtpproxy.c:42-56).                                              *)
(***************************************************************************)
TypeOK ==
  /\ faults \in Faults
  /\ pair \in Pairs \cup {NoPair}
  /\ elsewhere \subseteq Pairs \ {pair}
  /\ registered \subseteq Users
  /\ tsx \in {"none", "pending", "completed", "gone", "aborted"}
  /\ ua["caller"] \in Talks \cup {"asking", "asked", "inviting", "proceeding", "cancelling"}
  /\ ua["callee"] \in Talks \cup {"ringing", "rung", "answered"}
  /\ told \in [Users -> Sdps]
  /\ resent \subseteq Users
  /\ \A u \in Users : up[u] \in Seq(Messages) /\ down[u] \in Seq(Messages)

\* The call is over for both parties and nothing of it is on its way.
Over ==
  /\ ua["caller"] = "over"
  /\ ua["callee"] \in {"idle", "over"}
  /\ \A u \in Users : up[u] = <<>> /\ down[u] = <<>>

(***************************************************************************)
(* Every call that ends by BYE, CANCEL, Decline or 404 gives its ports     *)
(* back, whatever crosses what on the way: late offers, answers crossing a *)
(* CANCEL, registrations that end during the call (module_rtpproxy.c:21-28,*)
(* module_cscf_hss_IPC.c:93).                                              *)
(***************************************************************************)
EndedCallsHoldNothing ==
  faults \cap {"retransmit", "refusal", "reinvite"} = {} /\ Over => pair = NoPair

(***************************************************************************)
(* module_rtpproxy.c:20, "on a hang-up message the port is released": a    *)
(* call that the callee has refused with Decline, that was cancelled or    *)
(* hung up has no ports.                                                   *)
(***************************************************************************)
HangUpReleases ==
  "refusal" \notin faults /\ Over /\ ua["callee"] = "over" => pair = NoPair

(***************************************************************************)
(* Two parties that talk have been told the two ports of one pair, one     *)
(* each, and it is the pair that the call has at the relay server: with    *)
(* repeated messages, early media, re-INVITEs of either party, which swap  *)
(* the ports, or of both at once, and other calls that take and leave      *)
(* ports (module_rtpproxy.c:39-57).  A re-INVITE to a caller that has never*)
(* registered is answered 404 and costs the call its ports.                *)
(***************************************************************************)
TalkersShareARelay ==
  /\ faults \cap {"late_offer", "expiry"} = {}
  /\ "reinvite" \in faults => registered = Users
  /\ \A u \in Users : ua[u] = "talking"
  => /\ pair # NoPair
     /\ {told[u] : u \in Users} = {Relay(pair, 1), Relay(pair, 2)}

(***************************************************************************)
(* When one party leaves, by a hang-up, a refusal or a CANCEL, the other   *)
(* gets out of the call as well, as long as both are registered: also when *)
(* a CANCEL and the callee's answer cross, or a BYE and a re-INVITE        *)
(* (module_proxy.c:311-397, 400-444).                                      *)
(***************************************************************************)
HangsUpBoth ==
  \A u \in Users :
    (faults \subseteq {"reinvite"} /\ registered = Users /\ ua[u] \in {"cancelling", "over"})
      ~> ua[Other(u)] \in {"idle", "over"}
=============================================================================
