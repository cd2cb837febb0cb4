--------------------------- MODULE CallFlowProofs ---------------------------
(***************************************************************************)
(* Proofs about CallFlow, for any pairs of ports and any set of worlds:    *)
(* its type invariant; that two parties that talk have been told the two   *)
(* ports of the pair that the call has; and that a call that has ended     *)
(* holds no ports.                                                         *)
(***************************************************************************)
EXTENDS CallFlow, MsgQueuesProofs

-----------------------------------------------------------------------------
(* What is on its way.                                                     *)

Offers      == {m \in Messages : m.type = "re-INVITE"}
Replies     == {m \in Messages : m.type \in Answers}
Acceptances == {m \in Messages : m.type = "re-200"}
Acks        == {m \in Messages : m.type = "ACK"}
Rings       == {m \in Messages : m.type = "180"}
Pickups     == {m \in Messages : m.type = "200"}

\* How many messages of these are on their way from u to the other party.
On(u, K) == CountIn(up[u], K) + CountIn(down[Other(u)], K)

-----------------------------------------------------------------------------
(***************************************************************************)
(* The inductive invariant, part by part.                                  *)
(***************************************************************************)
States == Talks \cup {"asking", "asked", "inviting", "proceeding", "cancelling",
                      "ringing", "rung", "answered"}

Typed ==
  /\ TypeOK
  /\ ua \in [Users -> States]
  /\ up \in [Users -> Seq(Messages)] /\ down \in [Users -> Seq(Messages)]

\* The worlds in which the parties are told one relay.
Settled ==
  /\ faults \cap {"late_offer", "expiry"} = {}
  /\ "reinvite" \in faults => registered = Users

\* Neither party is leaving.
Live == ua["caller"] \notin {"cancelling", "over"} /\ ua["callee"] # "over"

Early     == {"idle", "inviting", "proceeding"}       \* the caller has no answer
Unpicked  == {"idle", "ringing", "rung"}              \* the callee has given none
Connected == {"talking", "reinviting", "reanswered"}

\* A message has SDP, and it is s, as far as its type has any.
Carries(m, s) ==
  \/ m.type \in {"INVITE", "200", "180", "re-INVITE", "re-200"} /\ m.sdp = s
  \/ m.type \notin {"INVITE", "200", "re-INVITE", "re-200"} /\ m.sdp = NoSdp

FromCscf == {"100", "404", "408", "486"}
Said(u) == {"ACK", "re-INVITE"} \cup Answers
             \cup IF u = "caller" THEN {"INVITE"} ELSE {"180", "200"}

Leaving(u)  == {m \in Messages : m.type \in Said(u) /\ Carries(m, Direct)}
Arriving(u) == {m \in Messages : /\ m.type \in Said(Other(u)) \cup FromCscf \cup {"re-4xx"}
                                 /\ Carries(m, Relay(pair, End(m)))}

\* The messages that are on their way are told apart by their types.
Messaging == \A u \in Users : up[u] \in Seq(Leaving(u)) /\ down[u] \in Seq(Arriving(u))

\* All messages of s are of these types.
AllOf(s, types) == \A i \in DOMAIN s : s[i].type \in types

OnlyInvite == {"INVITE"}

\* Before the callee knows of the call there is nothing but the INVITE.
NotYet ==
  ua["callee"] = "idle" =>
    /\ ua["caller"] \in Early
    /\ up["callee"] = <<>>
    /\ AllOf(up["caller"], OnlyInvite) /\ AllOf(down["callee"], OnlyInvite)
    /\ AllOf(down["caller"], FromCscf)

\* From then on the call has a pair.
HasPair ==
  /\ ua["callee"] # "idle" \/ down["callee"] # <<>> => pair # NoPair /\ "callee" \in registered
  /\ ua["caller"] \in Early \cup Connected

\* A party has one re-INVITE or one answer to it under way, and waits for the answer.
OneOffer(u) ==
  /\ On(u, Offers) + On(Other(u), Replies) <= 1
  /\ On(u, Offers) + On(Other(u), Replies) = 1 => ua[u] = "reinviting"

\* Who has accepted new SDP goes by it and waits for the ACK, which has yet to be sent.
Accepted(u) ==
  On(u, Acceptances) > 0 =>
    /\ ua[u] = "reanswered"
    /\ told[u] = Relay(pair, 1)
    /\ On(Other(u), Acks) = 0

\* An ACK is one that is waited for.
OneAck(u) ==
  /\ On(u, Acks) <= 1
  /\ On(u, Acks) = 1 => ua[Other(u)] \in {"answered", "reanswered"}

\* Until the caller hears the 200 there is no ACK and the callee does not talk; before the
\* callee sends it the caller has not heard it.
Unanswered ==
  /\ ua["caller"] \in Early => On("caller", Acks) = 0 /\ ua["callee"] \notin Connected
  /\ ua["callee"] \in Unpicked => On("callee", Pickups) = 0 /\ ua["caller"] \in Early

\* The callee goes by the INVITE.
Invited ==
  ua["callee"] \in {"ringing", "rung", "answered"} => told["callee"] = Relay(pair, 1)

\* No 180 comes after a 200.
InOrder(s) ==
  \A i, j \in DOMAIN s : i < j /\ s[i].type = "200" => s[j].type # "180"

RingsFirst ==
  /\ InOrder(down["caller"]) /\ InOrder(up["callee"])
  /\ CountIn(down["caller"], Pickups) > 0 => CountIn(up["callee"], Rings) = 0
  /\ ua["caller"] \in Connected => On("callee", Rings) = 0

\* Both have been told the relay, or one of them is about to.
Matched == {told[u] : u \in Users} = {Relay(pair, 1), Relay(pair, 2)}

Told ==
  ua["caller"] \in Connected /\ ua["callee"] \in {"answered"} \cup Connected =>
    Matched \/ \E u \in Users : On(u, Acceptances) > 0

\* Without re-INVITEs nobody answers one.
NoOffers ==
  "reinvite" \notin faults => \A u \in Users : ua[u] \notin {"reinviting", "reanswered"}

Agreeing ==
  /\ \A u \in Users : OneOffer(u) /\ Accepted(u) /\ OneAck(u)
  /\ Unanswered /\ Invited /\ Told /\ NoOffers

Sharing == Messaging /\ NotYet /\ HasPair /\ RingsFirst /\ Agreeing

IInv == Typed /\ (Settled /\ Live => Sharing)

-----------------------------------------------------------------------------
(* The parties, their messages and the SDP in these.                       *)

(* There are two parties. *)
LEMMA TwoUsers ==
  /\ "caller" \in Users /\ "callee" \in Users
  /\ \A u \in Users : u = "caller" \/ u = "callee"
  /\ \A u \in Users : Other(u) \in Users /\ Other(u) # u /\ Other(Other(u)) = u
  /\ \A u, v \in Users : v = u \/ v = Other(u)
  /\ Other("caller") = "callee" /\ Other("callee") = "caller"
BY DEF Users, Other

(* A message is made of a type and an SDP. *)
LEMMA MsgIs ==
  ASSUME NEW t \in Types, NEW sdp \in Sdps
  PROVE  Msg(t, sdp) \in Messages /\ Msg(t, sdp).type = t /\ Msg(t, sdp).sdp = sdp
BY DEF Msg, Messages

(* What a message has. *)
LEMMA MessageIs ==
  ASSUME NEW m \in Messages
  PROVE  m.type \in Types /\ m.sdp \in Sdps
BY DEF Messages

(* The addresses in SDP are different ones. *)
LEMMA SdpIs ==
  /\ NoSdp \in Sdps /\ Direct \in Sdps /\ NoSdp # Direct
  /\ \A q \in Pairs : /\ Relay(q, 1) \in Sdps /\ Relay(q, 2) \in Sdps
                      /\ Relay(q, 1) # Relay(q, 2)
                      /\ Relay(q, 1) # NoSdp /\ Relay(q, 2) # NoSdp
BY DEF Sdps, NoSdp, Direct, Relay

(* The types by name. *)
LEMMA TypesAre ==
  \A t : t \in Types <=>
    t \in {"INVITE", "CANCEL", "ACK", "BYE", "re-INVITE", "100", "180", "200",
           "404", "408", "486", "487", "603", "re-200", "re-4xx"}
BY DEF Types, Requests, Refusals, Answers

(* change_sdp keeps the call's pair, releases it or takes a free one. *)
LEMMA ChangeIs ==
  ASSUME Typed, NEW m \in Messages, NEW out \in change_sdp(m)
  PROVE  /\ out.pair \in Pairs \cup {NoPair}
         /\ out.pair = NoPair \/ out.pair = pair \/ out.pair \in Free
         /\ out.sdp \in Sdps
         /\ Msg(m.type, out.sdp) \in Messages
<1>1. pair \in Pairs \cup {NoPair} /\ Free \subseteq Pairs
  BY DEF Typed, TypeOK, Free
<1>2. m.type \in Types /\ m.sdp \in Sdps
  BY MessageIs
<1>3. End(m) \in 1 .. 2
  BY DEF End
<1>4. \A q \in Pairs : Relay(q, End(m)) \in Sdps
  BY <1>3 DEF Sdps
<1>5. CASE out \in {[pair |-> NoPair, sdp |-> m.sdp]}
  BY <1>2, <1>5, MsgIs
<1>6. CASE out \in {[pair |-> pair, sdp |-> NoSdp]}
  BY <1>1, <1>2, <1>6, MsgIs, SdpIs
<1>7. CASE out \in {[pair |-> pair, sdp |-> AnswerSdp(m)]}
  <2>1. AnswerSdp(m) \in Sdps
    BY <1>1, <1>2, <1>4 DEF AnswerSdp
  <2>2. QED
    BY <1>1, <1>2, <1>7, <2>1, MsgIs
<1>8. CASE \E q \in IF pair = NoPair THEN Free ELSE {pair} :
             out = [pair |-> q, sdp |-> Relay(q, End(m))]
  <2>1. PICK q \in IF pair = NoPair THEN Free ELSE {pair} :
               out = [pair |-> q, sdp |-> Relay(q, End(m))]
    BY <1>8
  <2>2. q \in Pairs /\ (q = pair \/ q \in Free)
    BY <1>1, <2>1
  <2>3. QED
    BY <1>2, <1>4, <2>1, <2>2, MsgIs
<1>9. QED
  BY <1>5, <1>6, <1>7, <1>8 DEF change_sdp

(* One message more at the end, or none. *)
LEMMA ConcatOne ==
  ASSUME NEW M, NEW s \in Seq(M), NEW m \in M
  PROVE  s \o <<m>> = Append(s, m) /\ s \o <<>> = s /\ Append(s, m) \in Seq(M)
OBVIOUS

-----------------------------------------------------------------------------
(* The type invariant.                                                     *)

\* A party is where a party of its kind can be.
InRole(u, s) ==
  s \in Talks \cup IF u = "caller"
                     THEN {"asking", "asked", "inviting", "proceeding", "cancelling"}
                     ELSE {"ringing", "rung", "answered"}

\* What a party does and the CSCF does not, and the other way round.
WiresTyped == up \in [Users -> Seq(Messages)] /\ down \in [Users -> Seq(Messages)]
PartiesTyped ==
  /\ ua \in [Users -> States] /\ \A u \in Users : InRole(u, ua[u])
  /\ told \in [Users -> Sdps]
  /\ resent \subseteq Users
CscfTyped ==
  /\ faults \in Faults
  /\ pair \in Pairs \cup {NoPair}
  /\ elsewhere \subseteq Pairs \ {pair}
  /\ registered \subseteq Users
  /\ tsx \in {"none", "pending", "completed", "gone", "aborted"}

(* These are all. *)
LEMMA TypedIs == Typed <=> WiresTyped /\ PartiesTyped /\ CscfTyped
BY DEF Typed, TypeOK, WiresTyped, PartiesTyped, CscfTyped, InRole, Users

(* A message is taken off the wire. *)
LEMMA TookIs ==
  ASSUME Typed, NEW u \in Users, NEW m, Took(u, m)
  PROVE  /\ m \in Messages /\ up[u] \in Seq(Messages) /\ up[u] # <<>> /\ m = Head(up[u])
         /\ up' \in [Users -> Seq(Messages)]
         /\ up'[u] = Tail(up[u]) /\ up'[Other(u)] = up[Other(u)]
<1>1. up \in [Users -> Seq(Messages)] /\ up[u] \in Seq(Messages)
  BY DEF Typed
<1>2. Tail(up[u]) \in Seq(Messages) /\ Head(up[u]) \in Messages
  BY <1>1 DEF Took
<1>3. QED
  BY <1>1, <1>2, TwoUsers DEF Took

(* A message is put on the wire. *)
LEMMA SentIs ==
  ASSUME Typed, NEW u \in Users, NEW m \in Messages, Sent(u, <<m>>)
  PROVE  /\ down' \in [Users -> Seq(Messages)]
         /\ down'[u] = Append(down[u], m) /\ down'[Other(u)] = down[Other(u)]
<1>1. down \in [Users -> Seq(Messages)] /\ down[u] \in Seq(Messages)
  BY DEF Typed
<1>2. down[u] \o <<m>> = Append(down[u], m) /\ Append(down[u], m) \in Seq(Messages)
  BY <1>1, ConcatOne
<1>3. QED
  BY <1>1, <1>2, TwoUsers DEF Sent

(* The CSCF's own answers to requests are messages. *)
LEMMA CscfMessages ==
  ASSUME NEW t \in {"100", "404", "408", "486", "re-4xx", "CANCEL"}
  PROVE  Msg(t, NoSdp) \in Messages
BY TypesAre, MsgIs, SdpIs

(* An answer of the CSCF to a request. *)
LEMMA RespondTyped ==
  ASSUME Typed, NEW u \in Users, NEW m \in Messages, NEW code \in {"404", "486"},
         Respond(u, m, code)
  PROVE  /\ down' \in [Users -> Seq(Messages)]
         /\ tsx' \in {"none", "pending", "completed", "gone", "aborted"}
<1>1. /\ down \in [Users -> Seq(Messages)]
      /\ tsx \in {"none", "pending", "completed", "gone", "aborted"}
  BY DEF Typed, TypeOK
<1>2. Msg(code, NoSdp) \in Messages /\ Msg("re-4xx", NoSdp) \in Messages
  BY CscfMessages
<1>3. CASE Sent(u, <<Msg(code, NoSdp)>>) /\ tsx' = "completed"
  BY <1>2, <1>3, SentIs
<1>4. CASE Sent(u, <<Msg("re-4xx", NoSdp)>>) /\ UNCHANGED tsx
  <2> DEFINE r == Msg("re-4xx", NoSdp)
  <2>1. r \in Messages /\ Sent(u, <<r>>)
    BY <1>2, <1>4
  <2> HIDE DEF r
  <2>2. down' \in [Users -> Seq(Messages)]
    BY <2>1, SentIs
  <2>3. QED
    BY <1>1, <1>4, <2>2
<1>5. CASE (tsx' = "aborted" /\ UNCHANGED down) \/ UNCHANGED <<tsx, down>>
  BY <1>1, <1>5
<1>6. QED
  BY <1>3, <1>4, <1>5 DEF Respond

(* One message on its way through the CSCF. *)
LEMMA HandleTyped ==
  ASSUME Typed, NEW u \in Users, Cscf(u)
  PROVE  Typed'
<1> DEFINE m == Head(up[u])
<1>1. Handle(u, m) /\ Took(u, m)
  BY DEF Cscf, Handle, NoPort, Absorb, NotFound, Invite, Cancel, InDialog, ToProxy, Response
<1> HIDE DEF m
<1>2. m \in Messages /\ up' \in [Users -> Seq(Messages)]
  BY <1>1, TookIs
<1>3. /\ down \in [Users -> Seq(Messages)] /\ CscfTyped /\ PartiesTyped
      /\ Other(u) \in Users /\ Other(u) # u
  BY TypedIs, TwoUsers DEF WiresTyped
<1>4. UNCHANGED <<faults, elsewhere, registered, party>>
  BY <1>1 DEF Handle, NoPort, Absorb, NotFound, Invite, Cancel, InDialog, ToProxy, Response, port
<1>5. pair' \in Pairs \cup {NoPair} /\ (pair' = NoPair \/ pair' = pair \/ pair' \in Free)
  <2>1. pair' = pair \/ pair' = NoPair \/ \E out \in change_sdp(m) : pair' = out.pair
    BY <1>1 DEF Handle, NoPort, Absorb, NotFound, Invite, Cancel, InDialog, ToProxy, Response, port
  <2>2. \A out \in change_sdp(m) :
          /\ out.pair \in Pairs \cup {NoPair}
          /\ out.pair = NoPair \/ out.pair = pair \/ out.pair \in Free
    BY <1>2, ChangeIs
  <2>3. QED
    BY <1>3, <2>1, <2>2 DEF CscfTyped
<1>6. elsewhere' \subseteq Pairs \ {pair'}
  BY <1>3, <1>4, <1>5, CallAssumption DEF CscfTyped, Free
<1>7. /\ down' \in [Users -> Seq(Messages)]
      /\ tsx' \in {"none", "pending", "completed", "gone", "aborted"}
  <2>1. CASE NoPort(u, m) \/ NotFound(u, m)
    <3>1. \E code \in {"404", "486"} : Respond(u, m, code)
      BY <2>1 DEF NoPort, NotFound
    <3>2. QED
      BY <1>2, <3>1, RespondTyped
  <2>2. CASE Absorb(u, m)
    BY <1>3, <2>2 DEF Absorb, CscfTyped
  <2>3. CASE Invite(u, m)
    <3>1. PICK out \in change_sdp(m) :
            down' = [down EXCEPT ![Other(u)] = Append(@, Msg("INVITE", out.sdp)),
                                 ![u] = Append(@, Msg("100", NoSdp))]
      BY <2>3 DEF Invite
    <3>2. Msg("INVITE", out.sdp) \in Messages
      BY <1>2, <2>3, ChangeIs DEF Invite
    <3>3. Msg("100", NoSdp) \in Messages
      BY CscfMessages
    <3>4. ASSUME NEW a \in Messages, NEW b \in Messages, NEW v \in Users, v # u
          PROVE  [down EXCEPT ![v] = Append(@, a), ![u] = Append(@, b)]
                   \in [Users -> Seq(Messages)]
      <4>1. Append(down[v], a) \in Seq(Messages) /\ Append(down[u], b) \in Seq(Messages)
        BY <1>3
      <4>2. QED
        BY <1>3, <3>4, <4>1
    <3>5. tsx' = "pending"
      BY <2>3 DEF Invite
    <3>6. QED
      BY <1>3, <3>1, <3>2, <3>3, <3>4, <3>5
  <2>4. CASE Cancel(u, m)
    <3> DEFINE c == Msg("CANCEL", NoSdp)
    <3>1. c \in Messages
      BY CscfMessages
    <3>2. (Sent(Other(u), <<c>>) \/ UNCHANGED down) /\ UNCHANGED tsx
      BY <2>4 DEF Cancel
    <3> HIDE DEF c
    <3>3. QED
      BY <1>3, <3>1, <3>2, SentIs DEF CscfTyped
  <2>5. CASE InDialog(u, m)
    <3>1. \E x \in Messages : Sent(Other(u), <<x>>)
      BY <1>2, <2>5, ChangeIs DEF InDialog
    <3>2. UNCHANGED tsx
      BY <2>5 DEF InDialog
    <3>3. QED
      BY <1>3, <3>1, <3>2, SentIs DEF CscfTyped
  <2>6. CASE Response(u, m)
    <3>1. \E x \in Messages : Sent(Other(u), <<x>>)
      BY <1>2, <2>6, ChangeIs DEF Response
    <3>2. tsx' = tsx \/ tsx' \in {"pending", "gone", "completed"}
      BY <2>6 DEF Response
    <3>3. QED
      BY <1>3, <3>1, <3>2, SentIs DEF CscfTyped
  <2>7. QED
    BY <1>1, <2>1, <2>2, <2>3, <2>4, <2>5, <2>6 DEF Handle
<1>8. CscfTyped' /\ PartiesTyped' /\ WiresTyped'
  BY <1>2, <1>3, <1>4, <1>5, <1>6, <1>7
  DEF CscfTyped, PartiesTyped, WiresTyped, party, InRole, Talks
<1>9. QED
  BY <1>8, TypedIs, PTL

(* What the parties say. *)
LEMMA PartyMessages ==
  /\ \A t \in {"INVITE", "re-INVITE", "200", "re-200", "ACK", "180"} : Msg(t, Direct) \in Messages
  /\ \A t \in {"INVITE", "CANCEL", "ACK", "BYE", "180", "603", "486", "487", "re-4xx"} :
       Msg(t, NoSdp) \in Messages
BY TypesAre, MsgIs, SdpIs

(* A party that hears something stays in its role and says a message or two. *)
LEMMA HearsTyped ==
  ASSUME NEW u \in Users, NEW s, InRole(u, s), NEW t \in Types
  PROVE  InRole(u, Hears(u, s, t).ua) /\ Hears(u, s, t).says \in Seq(Messages)
<1>1. /\ <<>> \in Seq(Messages)
      /\ <<Msg("ACK", NoSdp)>> \in Seq(Messages) /\ <<Msg("ACK", Direct)>> \in Seq(Messages)
      /\ <<Msg("ACK", NoSdp), Msg("BYE", NoSdp)>> \in Seq(Messages)
      /\ <<Msg("487", NoSdp)>> \in Seq(Messages) /\ <<Msg("re-4xx", NoSdp)>> \in Seq(Messages)
      /\ <<Msg("re-200", Direct)>> \in Seq(Messages)
  BY PartyMessages
<1>2. InRole(u, EitherHears(s, t).ua) /\ EitherHears(s, t).says \in Seq(Messages)
  BY <1>1 DEF EitherHears, InRole, Talks
<1>3. ASSUME u = "caller"
      PROVE  InRole(u, CallerHears(s, t).ua) /\ CallerHears(s, t).says \in Seq(Messages)
  BY <1>1, <1>3 DEF CallerHears, InRole, Talks
<1>4. ASSUME u = "callee"
      PROVE  InRole(u, CalleeHears(s, t).ua) /\ CalleeHears(s, t).says \in Seq(Messages)
  BY <1>1, <1>4 DEF CalleeHears, InRole, Talks
<1>5. QED
  BY <1>2, <1>3, <1>4, TwoUsers DEF Hears

(* A party hears a message. *)
LEMMA HearTyped ==
  ASSUME Typed, NEW u \in Users, Hear(u)
  PROVE  Typed'
<1> DEFINE m == Head(down[u])
           then == Hears(u, ua[u], m.type)
<1>1. /\ down[u] # <<>>
      /\ ua' = [ua EXCEPT ![u] = then.ua]
      /\ up' = [up EXCEPT ![u] = @ \o then.says]
      /\ told' = told \/ told' = [told EXCEPT ![u] = m.sdp]
      /\ down' = [down EXCEPT ![u] = Tail(@)]
      /\ UNCHANGED <<faults, port, registered, tsx, resent>>
  BY DEF Hear
<1>2. CscfTyped /\ PartiesTyped /\ WiresTyped
  BY TypedIs
<1>3. m \in Messages /\ Tail(down[u]) \in Seq(Messages)
  <2>1. down[u] \in Seq(Messages)
    BY <1>2 DEF WiresTyped
  <2>2. QED
    BY <1>1, <2>1
<1>4. m.type \in Types /\ m.sdp \in Sdps
  BY <1>3, MessageIs
<1>5. InRole(u, then.ua) /\ then.says \in Seq(Messages)
  BY <1>2, <1>4, HearsTyped DEF PartiesTyped
<1> HIDE DEF m, then
<1>6. then.ua \in States
  BY <1>5 DEF InRole, States
<1>7. WiresTyped'
  <2>1. up[u] \o then.says \in Seq(Messages)
    BY <1>2, <1>5 DEF WiresTyped
  <2>2. QED
    BY <1>1, <1>2, <1>3, <2>1 DEF WiresTyped
<1>8. PartiesTyped'
  BY <1>1, <1>2, <1>4, <1>5, <1>6 DEF PartiesTyped, InRole
<1>9. CscfTyped'
  BY <1>1, <1>2 DEF CscfTyped, port
<1>10. QED
  BY <1>7, <1>8, <1>9, TypedIs, PTL

(* A party says a message. *)
LEMMA SaysTyped ==
  ASSUME Typed, NEW u \in Users, NEW from, NEW to, NEW m \in Messages,
         Says(u, from, to, <<m>>), InRole(u, to), resent' \subseteq Users
  PROVE  Typed'
<1>1. CscfTyped /\ PartiesTyped /\ WiresTyped
  BY TypedIs
<1>2. to \in States
  BY DEF InRole, States
<1>3. WiresTyped'
  <2>1. up[u] \in Seq(Messages)
    BY <1>1 DEF WiresTyped
  <2>2. up[u] \o <<m>> \in Seq(Messages)
    BY <2>1, ConcatOne
  <2>3. QED
    BY <1>1, <2>2 DEF WiresTyped, Says
<1>4. PartiesTyped'
  BY <1>1, <1>2 DEF PartiesTyped, Says, InRole
<1>5. CscfTyped'
  BY <1>1 DEF CscfTyped, Says, port
<1>6. QED
  BY <1>3, <1>4, <1>5, TypedIs, PTL

\* What a party may do by itself.
Acts == Call \/ (\E u \in Users : Party(u)) \/ CallerCancels \/ Ring \/ Answer \/ Refuse

(* Whatever a party does by itself is to say one message. *)
LEMMA ActsAre ==
  ASSUME Typed, Acts
  PROVE  \E u \in Users, from \in SUBSET States, to \in States, m \in Messages :
           Says(u, from, to, <<m>>) /\ InRole(u, to) /\ resent' \subseteq Users
<1>1. resent \subseteq Users
  BY DEF Typed, TypeOK
<1>2. "caller" \in Users /\ "callee" \in Users /\ \A u \in Users : u = "caller" \/ u = "callee"
  BY TwoUsers
<1>3. CASE Call
  <2>1. PICK sdp \in {Direct, NoSdp} :
          /\ Says("caller", {"idle"}, IF sdp = NoSdp THEN "asking" ELSE "inviting",
                  <<Msg("INVITE", sdp)>>)
          /\ UNCHANGED resent
    BY <1>3 DEF Call
  <2> DEFINE to == IF sdp = NoSdp THEN "asking" ELSE "inviting"
             m  == Msg("INVITE", sdp)
  <2>2. m \in Messages /\ to \in States /\ InRole("caller", to)
    BY PartyMessages DEF InRole, States
  <2>3. Says("caller", {"idle"}, to, <<m>>) /\ resent' \subseteq Users
    BY <1>1, <2>1
  <2> HIDE DEF to, m
  <2>4. {"idle"} \in SUBSET States
    BY DEF States, Talks
  <2>5. QED
    BY <1>2, <2>2, <2>3, <2>4
<1>4. ASSUME NEW u \in Users, Repeat(u)
      PROVE  \E from \in SUBSET States, to \in States, m \in Messages :
               Says(u, from, to, <<m>>) /\ InRole(u, to) /\ resent' \subseteq Users
  <2>1. resent' \subseteq Users
    BY <1>1, <1>4 DEF Repeat
  <2>2. CASE u = "caller"
    <3>1. Says(u, {"inviting"}, "inviting", <<Msg("INVITE", Direct)>>)
      BY <1>4, <2>2 DEF Repeat
    <3>2. QED
      BY <2>1, <2>2, <3>1, PartyMessages DEF InRole, States
  <2>3. CASE u = "callee"
    <3>1. Says(u, {"answered"}, "answered", <<Msg("200", Direct)>>)
      BY <1>4, <2>3 DEF Repeat
    <3>2. QED
      BY <2>1, <2>3, <3>1, PartyMessages DEF InRole, States
  <2>4. QED
    BY <1>2, <2>2, <2>3
<1>5. ASSUME NEW u \in Users, Reinvite(u)
      PROVE  \E from \in SUBSET States, to \in States, m \in Messages :
               Says(u, from, to, <<m>>) /\ InRole(u, to) /\ resent' \subseteq Users
  BY <1>1, <1>5, PartyMessages DEF Reinvite, InRole, States, Talks
<1>6. ASSUME NEW u \in Users, Bye(u)
      PROVE  \E from \in SUBSET States, to \in States, m \in Messages :
               Says(u, from, to, <<m>>) /\ InRole(u, to) /\ resent' \subseteq Users
  BY <1>1, <1>6, PartyMessages DEF Bye, InRole, States, Talks
<1>7. CASE CallerCancels
  BY <1>1, <1>2, <1>7, PartyMessages DEF CallerCancels, InRole, States
<1>8. CASE Ring
  <2>1. PICK sdp \in {NoSdp, Direct} : Says("callee", {"ringing"}, "rung", <<Msg("180", sdp)>>)
    BY <1>8 DEF Ring
  <2>2. Msg("180", sdp) \in Messages
    BY PartyMessages
  <2>3. QED
    BY <1>1, <1>2, <1>8, <2>1, <2>2 DEF Ring, InRole, States
<1>9. CASE Answer
  BY <1>1, <1>2, <1>9, PartyMessages DEF Answer, InRole, States
<1>10. CASE Refuse
  <2>1. PICK t \in {"603", "486"} : Says("callee", {"ringing", "rung"}, "over", <<Msg(t, NoSdp)>>)
    BY <1>10 DEF Refuse
  <2>2. Msg(t, NoSdp) \in Messages
    BY PartyMessages
  <2>3. QED
    BY <1>1, <1>2, <1>10, <2>1, <2>2 DEF Refuse, InRole, States, Talks
<1>11. QED
  BY <1>3, <1>4, <1>5, <1>6, <1>7, <1>8, <1>9, <1>10 DEF Acts, Party

(* The variables have their types at the start. *)
LEMMA TypeInit == Init => Typed
<1> SUFFICES ASSUME Init PROVE Typed
  OBVIOUS
<1>1. /\ [u \in Users |-> <<>>] \in [Users -> Seq(Messages)]
      /\ [u \in Users |-> NoSdp] \in [Users -> Sdps]
      /\ [u \in Users |-> "idle"] \in [Users -> States]
  BY SdpIs DEF States, Talks
<1>2. WiresTyped
  BY <1>1 DEF Init, WiresTyped
<1>3. PartiesTyped
  BY <1>1 DEF Init, PartiesTyped, InRole, Talks
<1>4. CscfTyped
  BY DEF Init, CscfTyped
<1>5. QED
  BY <1>2, <1>3, <1>4, TypedIs

(* Every step keeps the types. *)
LEMMA TypeStep == Typed /\ [Next]_vars => Typed'
<1> SUFFICES ASSUME Typed, [Next]_vars PROVE Typed'
  OBVIOUS
<1>1. CscfTyped /\ PartiesTyped /\ WiresTyped
  BY TypedIs
<1>2. ASSUME NEW u \in Users, Cscf(u) PROVE Typed'
  BY <1>2, HandleTyped
<1>3. ASSUME NEW u \in Users, Hear(u) PROVE Typed'
  BY <1>3, HearTyped
<1>4. CASE Acts
  BY <1>4, ActsAre, SaysTyped
<1>5. CASE Timeout \/ OtherCall \/ (\E u \in Users : Register(u) \/ Expire(u)) \/ UNCHANGED vars
  <2>1. /\ UNCHANGED <<ua, told, resent>> /\ UNCHANGED up
        /\ UNCHANGED <<faults, pair>>
    BY <1>5 DEF Timeout, OtherCall, Register, Expire, vars, party, port
  <2>2. PartiesTyped'
    BY <1>1, <2>1 DEF PartiesTyped, InRole
  <2>3. CscfTyped'
    BY <1>1, <1>5, <2>1
    DEF CscfTyped, Timeout, OtherCall, Register, Expire, vars, port, Free
  <2>4. WiresTyped'
    <3>1. CASE Timeout
      <4> DEFINE r == Msg("408", NoSdp)
      <4>1. down' = [down EXCEPT !["callee"] = <<>>, !["caller"] = Append(@, r)] /\ r \in Messages
        BY <3>1, CscfMessages DEF Timeout
      <4> HIDE DEF r
      <4>2. Append(down["caller"], r) \in Seq(Messages) /\ <<>> \in Seq(Messages)
        BY <1>1, <4>1, TwoUsers DEF WiresTyped
      <4>3. QED
        BY <1>1, <2>1, <4>1, <4>2 DEF WiresTyped
    <3>2. CASE ~Timeout
      BY <1>1, <1>5, <2>1, <3>2 DEF WiresTyped, OtherCall, Register, Expire, vars
    <3>3. QED
      BY <3>1, <3>2
  <2>5. QED
    BY <2>2, <2>3, <2>4, TypedIs, PTL
<1>6. QED
  BY <1>2, <1>3, <1>4, <1>5 DEF Next, Acts, Party

-----------------------------------------------------------------------------
(***************************************************************************)
(* Both parties are told one relay.  In a world where that is claimed and  *)
(* while neither party leaves, a step keeps every part of Sharing.         *)
(***************************************************************************)
Calm == Typed /\ Settled /\ Live /\ Sharing

(* The kinds of messages by their types. *)
LEMMA KindsAre ==
  \A m \in Messages :
    /\ m \in Offers <=> m.type = "re-INVITE"
    /\ m \in Replies <=> m.type \in {"re-200", "re-4xx"}
    /\ m \in Acceptances <=> m.type = "re-200"
    /\ m \in Acks <=> m.type = "ACK"
    /\ m \in Rings <=> m.type = "180"
    /\ m \in Pickups <=> m.type = "200"
BY DEF Offers, Replies, Acceptances, Acks, Rings, Pickups, Answers

(* Counts are numbers. *)
LEMMA OnIsNat ==
  ASSUME Typed, NEW u \in Users, NEW K
  PROVE  On(u, K) \in Nat /\ CountIn(up[u], K) \in Nat /\ CountIn(down[u], K) \in Nat
<1>1. up[u] \in Seq(Messages) /\ down[u] \in Seq(Messages) /\ down[Other(u)] \in Seq(Messages)
  BY TwoUsers DEF Typed
<1>2. CountIn(up[u], K) \in Nat /\ CountIn(down[u], K) \in Nat /\ CountIn(down[Other(u)], K) \in Nat
  BY <1>1, CountInIsNat
<1>3. QED
  BY <1>2 DEF On

(* A step of the system goes on in the same world, and nobody comes back. *)
LEMMA CalmBefore ==
  ASSUME Typed, [Next]_vars, Settled', Live'
  PROVE  Settled /\ Live /\ UNCHANGED <<faults, registered>>
<1>1. /\ UNCHANGED faults
      /\ UNCHANGED registered \/ \E u \in Users : Register(u) \/ Expire(u)
  <2>1. ASSUME NEW u \in Users, Cscf(u) PROVE UNCHANGED <<faults, registered>>
    BY <2>1 DEF Cscf, Handle, NoPort, Absorb, NotFound, Invite, Cancel, InDialog, ToProxy, Response
  <2>2. ASSUME NEW u \in Users, Hear(u) PROVE UNCHANGED <<faults, registered>>
    BY <2>2 DEF Hear
  <2>3. CASE Acts
    BY <2>3, ActsAre DEF Says
  <2>4. CASE \E u \in Users : Register(u) \/ Expire(u)
    BY <2>4 DEF Register, Expire
  <2>5. CASE Timeout \/ OtherCall \/ UNCHANGED vars
    BY <2>5 DEF Timeout, OtherCall, vars
  <2>6. QED
    BY <2>1, <2>2, <2>3, <2>4, <2>5 DEF Next, Acts, Party
<1>2. "expiry" \notin faults
  BY <1>1 DEF Settled
<1>3. UNCHANGED registered
  BY <1>1, <1>2 DEF Register, Expire
<1>4. Settled
  BY <1>1, <1>3 DEF Settled
<1>5. Live
  <2>1. ua \in [Users -> States]
    BY DEF Typed
  <2>2. ASSUME NEW u \in Users, Hear(u) PROVE Live
    <3>1. PICK t : ua' = [ua EXCEPT ![u] = Hears(u, ua[u], t).ua]
      BY <2>2 DEF Hear
    <3>2. ua[u] = "over" => Hears(u, ua[u], t).ua = "over"
      BY DEF Hears, EitherHears, CallerHears, CalleeHears
    <3>3. u = "caller" /\ ua[u] = "cancelling" => Hears(u, ua[u], t).ua \in {"cancelling", "over"}
      BY DEF Hears, EitherHears, CallerHears
    <3> DEFINE to == Hears(u, ua[u], t).ua
    <3>4. ua' = [ua EXCEPT ![u] = to]
      BY <3>1
    <3> HIDE DEF to
    <3>5. ua[u] = "over" => to = "over"
      BY <3>2 DEF to
    <3>6. u = "caller" /\ ua[u] = "cancelling" => to \in {"cancelling", "over"}
      BY <3>3 DEF to
    <3>7. CASE u = "caller"
      BY <2>1, <3>4, <3>5, <3>6, <3>7, TwoUsers DEF Live
    <3>8. CASE u = "callee"
      BY <2>1, <3>4, <3>5, <3>8, TwoUsers DEF Live
    <3>9. QED
      BY <3>7, <3>8, TwoUsers
  <2>3. CASE Acts
    <3>1. ASSUME NEW u \in Users, NEW from, NEW to, NEW ms, Says(u, from, to, ms),
                 "over" \notin from, "cancelling" \notin from
          PROVE  Live
      <4>1. CASE u = "caller"
        BY <2>1, <3>1, <4>1, TwoUsers DEF Live, Says
      <4>2. CASE u = "callee"
        BY <2>1, <3>1, <4>2, TwoUsers DEF Live, Says
      <4>3. QED
        BY <4>1, <4>2, TwoUsers
    <3>2. \A u, from, to, ms : u \in Users /\ Says(u, from, to, ms)
                                 /\ "over" \notin from /\ "cancelling" \notin from => Live
      BY <3>1
    <3>3. QED
      BY <2>3, <3>2, TwoUsers
      DEF Acts, Party, Call, Repeat, Reinvite, Bye, CallerCancels, Ring, Answer, Refuse
  <2>4. CASE UNCHANGED ua
    BY <2>4 DEF Live
  <2>5. CASE \E u \in Users : Cscf(u)
    BY <2>4, <2>5 DEF Cscf, Handle, NoPort, Absorb, NotFound, Invite, Cancel, InDialog, ToProxy,
                      Response, party
  <2>6. QED
    BY <2>2, <2>3, <2>4, <2>5
    DEF Next, Acts, Party, Register, Expire, Timeout, OtherCall, vars, party
<1>6. QED
  BY <1>1, <1>3, <1>4, <1>5

(* What a party does with a message, while neither leaves. *)
Outcome(u, s, t, then) ==
  \/ /\ then.ua = s /\ then.says = <<>>
     /\ ~ (t = "re-200" /\ s = "reinviting")
  \/ /\ t = "re-INVITE" /\ s = "talking"
     /\ then.ua = "reanswered" /\ then.says = <<Msg("re-200", Direct)>>
  \/ /\ t = "re-INVITE" /\ s = "reinviting"
     /\ then.ua = s /\ then.says = <<Msg("re-4xx", NoSdp)>>
  \/ /\ t = "re-200" /\ s = "reinviting"
     /\ then.ua = "talking" /\ then.says = <<Msg("ACK", NoSdp)>>
  \/ /\ t = "re-4xx" /\ s = "reinviting"
     /\ then.ua = "talking" /\ then.says = <<>>
  \/ /\ t = "ACK" /\ s = "reanswered"
     /\ then.ua = "talking" /\ then.says = <<>>
  \/ /\ u = "caller" /\ t \in {"100", "180"} /\ s = "inviting"
     /\ then.ua = "proceeding" /\ then.says = <<>>
  \/ /\ u = "caller" /\ t = "200" /\ s \in {"inviting", "proceeding"}
     /\ then.ua = "talking" /\ then.says = <<Msg("ACK", NoSdp)>>
  \/ /\ u = "callee" /\ t = "INVITE" /\ s = "idle"
     /\ then.ua = "ringing" /\ then.says = <<>>
  \/ /\ u = "callee" /\ t = "ACK" /\ s = "answered"
     /\ then.ua = "talking" /\ then.says = <<>>

(* There is nothing else that it does. *)
LEMMA OutcomeIs ==
  ASSUME NEW u \in Users, NEW s \in Talks \cup Early \cup {"ringing", "rung", "answered"},
         NEW t, Hears(u, s, t).ua # "over"
  PROVE  Outcome(u, s, t, Hears(u, s, t))
<1>1. CASE t \in {"BYE", "re-INVITE"} \cup Answers \/ s = "reanswered"
  <2>1. Hears(u, s, t) = EitherHears(s, t)
    BY <1>1 DEF Hears
  <2>2. EitherHears(s, t).ua # "over" => Outcome(u, s, t, EitherHears(s, t))
    BY DEF EitherHears, Outcome
  <2>3. QED
    BY <2>1, <2>2
<1>2. CASE ~ (t \in {"BYE", "re-INVITE"} \cup Answers \/ s = "reanswered")
  <2>1. t # "re-200"
    BY <1>2 DEF Answers
  <2>2. CASE u = "caller"
    <3>1. Hears(u, s, t) = CallerHears(s, t)
      BY <1>2, <2>2 DEF Hears
    <3>2. CallerHears(s, t).ua # "over" => Outcome(u, s, t, CallerHears(s, t))
      BY <2>1, <2>2 DEF CallerHears, Outcome, Talks, Early
    <3>3. QED
      BY <3>1, <3>2
  <2>3. CASE u = "callee"
    <3>1. Hears(u, s, t) = CalleeHears(s, t)
      BY <1>2, <2>3, TwoUsers DEF Hears
    <3>2. CalleeHears(s, t).ua # "over" => Outcome(u, s, t, CalleeHears(s, t))
      BY <2>1, <2>3 DEF CalleeHears, Outcome
    <3>3. QED
      BY <3>1, <3>2
  <2>4. QED
    BY <2>2, <2>3, TwoUsers
<1>3. QED
  BY <1>1, <1>2

(* A party takes a message, and may say one. *)
LEMMA HearCounts ==
  ASSUME Typed, NEW u \in Users, Hear(u), NEW K
  PROVE  LET m == Head(down[u])
             says == Hears(u, ua[u], m.type).says
         IN  /\ m \in Messages
             /\ On(Other(u), K) = On(Other(u), K)' + IF m \in K THEN 1 ELSE 0
             /\ says = <<>> => On(u, K)' = On(u, K)
             /\ \A x \in Messages : says = <<x>> =>
                  On(u, K)' = On(u, K) + IF x \in K THEN 1 ELSE 0
<1> DEFINE m == Head(down[u])
           says == Hears(u, ua[u], m.type).says
           v == Other(u)
<1>1. /\ up \in [Users -> Seq(Messages)] /\ down \in [Users -> Seq(Messages)]
      /\ v \in Users /\ v # u /\ Other(v) = u
  BY TwoUsers DEF Typed
<1>2. up' = [up EXCEPT ![u] = @ \o says] /\ down' = [down EXCEPT ![u] = Tail(@)] /\ down[u] # <<>>
  BY DEF Hear
<1> HIDE DEF says, v
<1>3. /\ down'[u] = Tail(down[u]) /\ down'[v] = down[v]
      /\ up'[u] = up[u] \o says /\ up'[v] = up[v]
      /\ up[u] \in Seq(Messages) /\ down[u] \in Seq(Messages)
      /\ up[v] \in Seq(Messages) /\ down[v] \in Seq(Messages)
  BY <1>1, <1>2
<1>4. m \in Messages
  BY <1>2, <1>3
<1>5. CountIn(down[u], K) = CountIn(Tail(down[u]), K) + IF m \in K THEN 1 ELSE 0
  BY <1>2, <1>3, CountInTail
<1>6. On(v, K) = On(v, K)' + IF m \in K THEN 1 ELSE 0
  <2>1. Tail(down[u]) \in Seq(Messages)
    BY <1>2, <1>3
  <2>2. CountIn(Tail(down[u]), K) \in Nat /\ CountIn(up[v], K) \in Nat
    BY <1>3, <2>1, CountInIsNat
  <2>3. On(v, K)' = CountIn(up[v], K) + CountIn(Tail(down[u]), K)
    BY <1>1, <1>3 DEF On
  <2>4. On(v, K) = CountIn(up[v], K) + CountIn(down[u], K)
    BY <1>1 DEF On
  <2> HIDE DEF m
  <2>5. QED
    BY <1>5, <2>2, <2>3, <2>4
<1>7. On(u, K)' = CountIn(up[u] \o says, K) + CountIn(down[v], K)
  BY <1>3 DEF On, v
<1>8. On(u, K) = CountIn(up[u], K) + CountIn(down[v], K)
  BY DEF On, v
<1>9. CountIn(up[u], K) \in Nat /\ CountIn(down[v], K) \in Nat
  BY <1>3, CountInIsNat
<1>10. says = <<>> => On(u, K)' = On(u, K)
  <2>1. up[u] \o <<>> = up[u]
    BY <1>3
  <2>2. QED
    BY <1>7, <1>8, <2>1
<1>11. ASSUME NEW x \in Messages, says = <<x>>
       PROVE  On(u, K)' = On(u, K) + IF x \in K THEN 1 ELSE 0
  <2>1. up[u] \o <<x>> = Append(up[u], x)
    BY <1>3, ConcatOne
  <2>2. CountIn(Append(up[u], x), K) = CountIn(up[u], K) + IF x \in K THEN 1 ELSE 0
    BY <1>3, CountInAppend
  <2>3. On(u, K)' = CountIn(Append(up[u], x), K) + CountIn(down[v], K)
    BY <1>7, <1>11, <2>1
  <2>4. QED
    BY <1>8, <1>9, <2>2, <2>3
<1>12. QED
  BY <1>4, <1>6, <1>10, <1>11 DEF m, says, v

(* A message said is one more. *)
LEMMA SayCounts ==
  ASSUME Typed, NEW u \in Users, NEW from, NEW to, NEW x \in Messages, Says(u, from, to, <<x>>),
         NEW K
  PROVE  /\ On(u, K)' = On(u, K) + IF x \in K THEN 1 ELSE 0
         /\ On(Other(u), K)' = On(Other(u), K)
<1> DEFINE v == Other(u)
<1>1. /\ up \in [Users -> Seq(Messages)] /\ down \in [Users -> Seq(Messages)]
      /\ v \in Users /\ v # u /\ Other(v) = u
  BY TwoUsers DEF Typed
<1> HIDE DEF v
<1>2. /\ up' = [up EXCEPT ![u] = @ \o <<x>>] /\ down' = down
  BY DEF Says
<1>3. up[u] \in Seq(Messages) /\ down[v] \in Seq(Messages)
  BY <1>1
<1>4. up'[u] = Append(up[u], x) /\ up'[v] = up[v]
  BY <1>1, <1>2, <1>3, ConcatOne
<1>5. CountIn(Append(up[u], x), K) = CountIn(up[u], K) + IF x \in K THEN 1 ELSE 0
  BY <1>3, CountInAppend
<1>6. CountIn(up[u], K) \in Nat /\ CountIn(down[v], K) \in Nat
  BY <1>3, CountInIsNat
<1>7. On(u, K)' = CountIn(Append(up[u], x), K) + CountIn(down[v], K)
  BY <1>2, <1>4 DEF On, v
<1>8. On(u, K) = CountIn(up[u], K) + CountIn(down[v], K)
  BY DEF On, v
<1>9. On(v, K)' = On(v, K)
  BY <1>1, <1>2, <1>4 DEF On
<1>10. QED
  BY <1>5, <1>6, <1>7, <1>8, <1>9 DEF v

(* A message passes the CSCF, or ends there; the CSCF may add one of its own. *)
LEMMA PassCounts ==
  ASSUME Typed, NEW u \in Users, NEW m, Took(u, m), NEW K,
         NEW x \in Messages, NEW y \in Messages, y \notin K,
         \/ down'[Other(u)] = Append(down[Other(u)], x) /\ (x \in K <=> m \in K)
         \/ down'[Other(u)] = down[Other(u)] /\ m \notin K,
         down'[u] = down[u] \/ down'[u] = Append(down[u], y)
  PROVE  On(u, K)' = On(u, K) /\ On(Other(u), K)' = On(Other(u), K)
<1> DEFINE v == Other(u)
<1>1. v \in Users /\ v # u /\ Other(v) = u
  BY TwoUsers
<1>2. /\ m = Head(up[u]) /\ up[u] # <<>> /\ up[u] \in Seq(Messages)
      /\ up'[u] = Tail(up[u]) /\ up'[v] = up[v]
  BY TookIs
<1>3. down[u] \in Seq(Messages) /\ down[v] \in Seq(Messages) /\ up[v] \in Seq(Messages)
  BY <1>1 DEF Typed
<1>4. \/ down'[v] = Append(down[v], x) /\ (x \in K <=> m \in K)
      \/ down'[v] = down[v] /\ m \notin K
  OBVIOUS
<1> HIDE DEF v
<1>5. CountIn(up[u], K) = CountIn(Tail(up[u]), K) + IF m \in K THEN 1 ELSE 0
  BY <1>2, CountInTail
<1>6. CountIn(Append(down[v], x), K) = CountIn(down[v], K) + IF x \in K THEN 1 ELSE 0
  BY <1>3, CountInAppend
<1>7. CountIn(Append(down[u], y), K) = CountIn(down[u], K)
  <2>1. CountIn(Append(down[u], y), K) = CountIn(down[u], K) + IF y \in K THEN 1 ELSE 0
    BY <1>3, CountInAppend
  <2>2. CountIn(down[u], K) \in Nat
    BY <1>3, CountInIsNat
  <2>3. QED
    BY <2>1, <2>2
<1>8. CountIn(Tail(up[u]), K) \in Nat /\ CountIn(down[v], K) \in Nat
  <2>1. Tail(up[u]) \in Seq(Messages)
    BY <1>2
  <2>2. QED
    BY <1>3, <2>1, CountInIsNat
<1>9. /\ On(u, K)' = CountIn(up'[u], K) + CountIn(down'[v], K)
      /\ On(u, K) = CountIn(up[u], K) + CountIn(down[v], K)
  BY DEF On, v
<1>10. /\ On(v, K)' = CountIn(up'[v], K) + CountIn(down'[u], K)
       /\ On(v, K) = CountIn(up[v], K) + CountIn(down[u], K)
  BY <1>1 DEF On
<1>11. On(v, K)' = On(v, K)
  BY <1>2, <1>7, <1>10
<1>12. On(u, K)' = On(u, K)
  <2>1. CountIn(up'[u], K) = CountIn(Tail(up[u]), K)
    BY <1>2
  <2>2. CASE down'[v] = Append(down[v], x) /\ (x \in K <=> m \in K)
    <3>1. CountIn(down'[v], K) = CountIn(down[v], K) + IF m \in K THEN 1 ELSE 0
      BY <1>6, <2>2
    <3>2. QED
      BY <1>5, <1>8, <1>9, <2>1, <3>1
  <2>3. CASE down'[v] = down[v] /\ m \notin K
    BY <1>5, <1>8, <1>9, <2>1, <2>3
  <2>4. QED
    BY <1>4, <2>2, <2>3
<1>13. QED
  BY <1>11, <1>12 DEF v

(* What the parties have agreed on does not change while their messages travel. *)
LEMMA AgreeingKept ==
  ASSUME Calm, UNCHANGED <<ua, told, faults>>, pair' = pair \/ ua["callee"] = "idle",
         \A w \in Users : /\ On(w, Offers)' = On(w, Offers)
                          /\ On(w, Replies)' = On(w, Replies)
                          /\ On(w, Acceptances)' = On(w, Acceptances)
                          /\ On(w, Acks)' = On(w, Acks)
                          /\ On(w, Pickups)' = On(w, Pickups)
  PROVE  Agreeing'
<1>1. Agreeing /\ HasPair /\ NotYet /\ Typed
  BY DEF Calm, Sharing
<1>2. \A w \in Users : OneOffer(w)' /\ OneAck(w)'
  BY <1>1, TwoUsers DEF Agreeing, OneOffer, OneAck
<1>3. Unanswered' /\ NoOffers'
  BY <1>1, TwoUsers DEF Agreeing, Unanswered, NoOffers
<1>4. CASE pair' = pair
  <2>1. \A w \in Users : Accepted(w)'
    BY <1>1, <1>4, TwoUsers DEF Agreeing, Accepted
  <2>2. Invited' /\ Told'
    BY <1>1, <1>4 DEF Agreeing, Invited, Told, Matched
  <2>3. QED
    BY <1>2, <1>3, <2>1, <2>2 DEF Agreeing
<1>5. CASE ua["callee"] = "idle"
  <2>1. ua["caller"] \in Early
    BY <1>1, <1>5 DEF NotYet
  <2>2. \A w \in Users : ua[w] # "reanswered"
    BY <1>5, <2>1, TwoUsers DEF Early
  <2>3. \A w \in Users : Accepted(w)'
    BY <1>1, <2>2 DEF Agreeing, Accepted
  <2>4. Invited' /\ Told'
    BY <1>5 DEF Invited, Told, Connected
  <2>5. QED
    BY <1>2, <1>3, <2>3, <2>4 DEF Agreeing
<1>6. QED
  BY <1>4, <1>5

(* The order of 180 and 200. *)
LEMMA InOrderTail ==
  ASSUME NEW s \in Seq(Messages), s # <<>>, InOrder(s)
  PROVE  InOrder(Tail(s)) /\ (Head(s).type = "200" => CountIn(Tail(s), Rings) = 0)
<1> DEFINE t == Tail(s)
<1>1. /\ t \in Seq(Messages) /\ Len(s) \in Nat /\ Len(s) >= 1 /\ Head(s) = s[1]
      /\ DOMAIN s = 1 .. Len(s) /\ DOMAIN t = 1 .. Len(s) - 1
      /\ \A i \in 1 .. Len(s) - 1 : t[i] = s[i + 1]
  BY TailIs
<1> HIDE DEF t
<1>2. \A i \in DOMAIN t : /\ i \in Nat /\ i + 1 \in DOMAIN s /\ t[i] = s[i + 1]
                          /\ 1 < i + 1 /\ 1 \in DOMAIN s
  BY <1>1
<1>3. InOrder(t)
  <2>1. SUFFICES ASSUME NEW i \in DOMAIN t, NEW j \in DOMAIN t, i < j, t[i].type = "200"
                 PROVE  t[j].type # "180"
    BY DEF InOrder
  <2>2. i + 1 < j + 1
    BY <1>2, <2>1
  <2>3. QED
    BY <1>2, <2>1, <2>2 DEF InOrder
<1>4. ASSUME Head(s).type = "200" PROVE CountIn(t, Rings) = 0
  <2>1. \A i \in DOMAIN t : t[i].type # "180"
    BY <1>1, <1>2, <1>4 DEF InOrder
  <2>2. \A i \in DOMAIN t : t[i] \notin Rings
    BY <2>1 DEF Rings
  <2>3. QED
    BY <1>1, <2>2, CountInIsNat
<1>5. QED
  BY <1>3, <1>4 DEF t

(* A message is put in order, if it is not a 180 after a 200. *)
LEMMA InOrderPut ==
  ASSUME NEW s \in Seq(Messages), InOrder(s), NEW x \in Messages,
         x.type = "180" => CountIn(s, Pickups) = 0
  PROVE  InOrder(Append(s, x))
<1> DEFINE t == Append(s, x)
<1>1. /\ Len(s) \in Nat /\ DOMAIN s = 1 .. Len(s) /\ DOMAIN t = 1 .. Len(s) + 1
      /\ \A i \in 1 .. Len(s) : t[i] = s[i]
      /\ t[Len(s) + 1] = x
  OBVIOUS
<1> HIDE DEF t
<1>2. x.type = "180" => \A i \in DOMAIN s : s[i].type # "200"
  <2>1. ASSUME x.type = "180", NEW i \in DOMAIN s PROVE s[i].type # "200"
    <3>1. s[i] \notin Pickups
      BY <2>1, CountInIsNat
    <3>2. s[i] \in Messages
      OBVIOUS
    <3>3. QED
      BY <3>1, <3>2 DEF Pickups
  <2>2. QED
    BY <2>1
<1>3. ASSUME NEW i \in DOMAIN t, NEW j \in DOMAIN t, i < j, t[i].type = "200"
      PROVE  t[j].type # "180"
  <2>1. i \in DOMAIN s /\ t[i] = s[i]
    BY <1>1, <1>3
  <2>2. CASE j = Len(s) + 1
    BY <1>1, <1>2, <1>3, <2>1, <2>2
  <2>3. CASE j \in DOMAIN s
    BY <1>1, <1>3, <2>1, <2>3 DEF InOrder
  <2>4. QED
    BY <1>1, <2>2, <2>3
<1>4. QED
  BY <1>3 DEF InOrder, t

(***************************************************************************)
(* What the CSCF makes of a message, while neither party leaves.           *)
(***************************************************************************)
\* It is passed on, with the relay's address.
Relayed(u, m) ==
  /\ m.type # "INVITE" /\ pair # NoPair /\ pair' = pair
  /\ \E x \in Messages : /\ x.type = m.type /\ Carries(x, Relay(pair, End(x)))
                         /\ down' = [down EXCEPT ![Other(u)] = Append(@, x)]

\* It is the INVITE, and goes to the callee.
Forwarded(u, m) ==
  /\ u = "caller" /\ m.type = "INVITE"
  /\ pair' \in Pairs /\ (pair = NoPair \/ pair' = pair) /\ "callee" \in registered
  /\ \E x, y \in Messages :
       /\ x.type = "INVITE" /\ x.sdp = Relay(pair', 1) /\ y.type = "100" /\ y.sdp = NoSdp
       /\ down' = [down EXCEPT !["callee"] = Append(@, x), !["caller"] = Append(@, y)]

\* It is the INVITE, and ends here.
Absorbed(u, m) ==
  /\ u = "caller" /\ m.type = "INVITE"
  /\ pair = NoPair \/ pair' = pair
  /\ down' = down

\* It is the INVITE, and is refused.
Refused(u, m) ==
  /\ u = "caller" /\ m.type = "INVITE"
  /\ ua["callee"] = "idle" /\ down["callee"] = <<>>
  /\ \E y \in Messages : /\ y.type \in {"404", "486"} /\ y.sdp = NoSdp
                         /\ down' = [down EXCEPT !["caller"] = Append(@, y)]

(* What a message is that a party has sent. *)
LEMMA TakenIs ==
  ASSUME Calm, NEW u \in Users, NEW m, Took(u, m)
  PROVE  /\ m \in Messages /\ m.type \in Said(u) /\ Carries(m, Direct)
         /\ u = "callee" \/ m.type # "INVITE" => ua["callee"] # "idle" /\ pair # NoPair
         /\ m.type = "INVITE" => u = "caller"
<1>1. Messaging /\ NotYet /\ HasPair
  BY DEF Calm, Sharing
<1>2. m \in Leaving(u) /\ up[u] # <<>> /\ m = Head(up[u])
  <2>1. up[u] \in Seq(Leaving(u)) /\ up[u] # <<>> /\ m = Head(up[u])
    BY <1>1 DEF Messaging, Took
  <2>2. QED
    BY <2>1
<1>3. m \in Messages /\ m.type \in Said(u) /\ Carries(m, Direct)
  BY <1>2 DEF Leaving
<1>4. u = "callee" \/ m.type # "INVITE" => ua["callee"] # "idle"
  <2>1. CASE u = "callee"
    BY <1>1, <1>2, <2>1 DEF NotYet
  <2>2. CASE u = "caller"
    <3>1. up[u] \in Seq(Messages)
      BY DEF Calm, Typed
    <3>2. 1 \in DOMAIN up[u] /\ m = up[u][1]
      BY <1>2, <3>1
    <3>3. QED
      BY <1>1, <2>2, <3>2 DEF NotYet, AllOf, OnlyInvite
  <2>3. QED
    BY <2>1, <2>2, TwoUsers
<1>5. m.type = "INVITE" => u = "caller"
  BY <1>3, TwoUsers DEF Said, Answers
<1>6. QED
  BY <1>1, <1>3, <1>4, <1>5 DEF HasPair

(* An ACK or a re-INVITE of the callee's needs a re-INVITE. *)
LEMMA CalleesRequests ==
  ASSUME Calm, NEW m, Took("callee", m), m.type \in {"ACK", "re-INVITE"}
  PROVE  "reinvite" \in faults
<1>1. Typed /\ OneOffer("callee") /\ OneAck("callee") /\ NoOffers
  BY TwoUsers DEF Calm, Sharing, Agreeing
<1>2. /\ m \in Messages /\ m = Head(up["callee"])
      /\ up["callee"] \in Seq(Messages) /\ up["callee"] # <<>>
  BY <1>1, TookIs, TwoUsers
<1>3. ASSUME NEW K, m \in K PROVE CountIn(up["callee"], K) > 0
  <2>1. up["callee"][1] \in K /\ 1 \in DOMAIN up["callee"]
    BY <1>2, <1>3
  <2>2. CountIn(up["callee"], K) \in Nat /\ CountIn(up["callee"], K) # 0
    BY <1>2, <2>1, CountInIsNat
  <2>3. QED
    BY <2>2
<1>4. ASSUME NEW K, m \in K PROVE On("callee", K) > 0
  <2>1. down[Other("callee")] \in Seq(Messages)
    BY <1>1, TwoUsers DEF Typed
  <2>2. CountIn(down[Other("callee")], K) \in Nat /\ CountIn(up["callee"], K) \in Nat
    BY <1>2, <2>1, CountInIsNat
  <2>3. CountIn(up["callee"], K) > 0
    BY <1>3, <1>4
  <2>4. QED
    BY <2>2, <2>3 DEF On
<1>5. CASE m.type = "ACK"
  <2>1. On("callee", Acks) > 0
    BY <1>2, <1>4, <1>5, KindsAre
  <2>2. On("callee", Acks) \in Nat
    BY <1>1, OnIsNat, TwoUsers
  <2>3. ua["caller"] \in {"answered", "reanswered"}
    BY <1>1, <2>1, <2>2, TwoUsers DEF OneAck
  <2>4. ua["caller"] # "answered"
    BY <1>1 DEF Typed, TypeOK, Talks
  <2>5. QED
    BY <1>1, <2>3, <2>4, TwoUsers DEF NoOffers
<1>6. CASE m.type = "re-INVITE"
  <2>1. On("callee", Offers) > 0
    BY <1>2, <1>4, <1>6, KindsAre
  <2>2. On("callee", Offers) \in Nat /\ On(Other("callee"), Replies) \in Nat
    BY <1>1, OnIsNat, TwoUsers
  <2>3. ua["callee"] = "reinviting"
    BY <1>1, <2>1, <2>2 DEF OneOffer
  <2>4. QED
    BY <1>1, <2>3, TwoUsers DEF NoOffers
<1>7. QED
  BY <1>5, <1>6

(* change_sdp of what a party sends that stays. *)
LEMMA ChangeOf ==
  ASSUME Calm, NEW u \in Users, NEW m, Took(u, m)
  PROVE  /\ m.type = "INVITE" =>
              /\ change_sdp(m) = {} => pair = NoPair
              /\ \A out \in change_sdp(m) :
                   /\ out.pair \in Pairs /\ (pair = NoPair \/ out.pair = pair)
                   /\ out.sdp = Relay(out.pair, 1)
         /\ m.type # "INVITE" =>
              /\ change_sdp(m) # {}
              /\ \A out \in change_sdp(m) :
                   /\ out.pair = pair
                   /\ Carries(Msg(m.type, out.sdp), Relay(pair, End(Msg(m.type, out.sdp))))
<1>1. /\ m \in Messages /\ m.type \in Said(u) /\ Carries(m, Direct)
      /\ m.type # "INVITE" => pair # NoPair
  BY TakenIs
<1>2. ~ HangUp(m) /\ NoSdp # Direct
  BY <1>1, SdpIs DEF HangUp, Said, Answers
<1>3. pair \in Pairs \cup {NoPair} /\ Free \subseteq Pairs
  BY DEF Calm, Typed, TypeOK, Free
<1>4. CASE m.type = "INVITE"
  <2>1. m.sdp # NoSdp /\ m.type \in Requests /\ End(m) = 1
    BY <1>1, <1>2, <1>4 DEF Carries, Requests, End
  <2>2. change_sdp(m) = {[pair |-> q, sdp |-> Relay(q, End(m))] :
                           q \in IF pair = NoPair THEN Free ELSE {pair}}
    BY <1>2, <2>1 DEF change_sdp
  <2>3. ASSUME NEW out \in change_sdp(m)
        PROVE  /\ out.pair \in Pairs /\ (pair = NoPair \/ out.pair = pair)
               /\ out.sdp = Relay(out.pair, 1)
    <3>1. PICK q \in IF pair = NoPair THEN Free ELSE {pair} :
                 out = [pair |-> q, sdp |-> Relay(q, End(m))]
      BY <2>2
    <3>2. q \in Pairs /\ (pair = NoPair \/ q = pair)
      BY <1>3, <3>1
    <3>3. out.pair = q /\ out.sdp = Relay(q, End(m))
      BY <3>1
    <3>4. out.sdp = Relay(q, 1)
      BY <2>1, <3>3
    <3>5. QED
      BY <3>2, <3>3, <3>4
  <2>4. change_sdp(m) = {} => pair = NoPair
    <3>1. ASSUME pair # NoPair PROVE [pair |-> pair, sdp |-> Relay(pair, End(m))] \in change_sdp(m)
      BY <2>2, <3>1
    <3>2. QED
      BY <3>1
  <2>5. QED
    BY <1>4, <2>3, <2>4
<1>5. CASE m.type # "INVITE"
  <2>1. pair # NoPair /\ pair \in Pairs
    BY <1>1, <1>3, <1>5
  <2>2. \A sdp : Msg(m.type, sdp).type = m.type /\ Msg(m.type, sdp).sdp = sdp
    BY DEF Msg
  <2>3. \A sdp : End(Msg(m.type, sdp)) = End(m)
    BY <2>2 DEF End
  <2>4. CASE m.sdp = NoSdp
    <3>1. change_sdp(m) = {[pair |-> pair, sdp |-> NoSdp]}
      BY <1>2, <2>4 DEF change_sdp
    <3>2. m.type \notin {"INVITE", "200", "re-INVITE", "re-200"}
      BY <1>1, <1>2, <2>4 DEF Carries
    <3>3. Carries(Msg(m.type, NoSdp), Relay(pair, End(m)))
      BY <2>2, <3>2 DEF Carries
    <3>4. QED
      BY <1>5, <2>3, <3>1, <3>3
  <2>5. CASE m.sdp # NoSdp
    <3>1. m.type \in {"200", "180", "re-INVITE", "re-200"}
      BY <1>1, <1>5, <2>5 DEF Carries
    <3>2. change_sdp(m) = {[pair |-> pair, sdp |-> Relay(pair, End(m))]}
      <4>1. CASE m.type \notin Requests
        BY <1>2, <2>1, <2>5, <4>1 DEF change_sdp, AnswerSdp
      <4>2. CASE m.type \in Requests
        BY <1>2, <2>1, <2>5, <4>2 DEF change_sdp
      <4>3. QED
        BY <4>1, <4>2
    <3>3. Carries(Msg(m.type, Relay(pair, End(m))), Relay(pair, End(m)))
      BY <2>2, <3>1 DEF Carries
    <3>4. QED
      BY <1>5, <2>3, <3>2, <3>3
  <2>6. QED
    BY <2>4, <2>5
<1>6. QED
  BY <1>4, <1>5

(* These four are all that the CSCF does. *)
LEMMA PassIs ==
  ASSUME Calm, NEW u \in Users, Cscf(u)
  PROVE  LET m == Head(up[u])
         IN  /\ Took(u, m) /\ UNCHANGED <<faults, registered, ua, told>>
             /\ Relayed(u, m) \/ Forwarded(u, m) \/ Absorbed(u, m) \/ Refused(u, m)
<1> DEFINE m == Head(up[u])
<1>1. Handle(u, m) /\ Took(u, m)
  BY DEF Cscf, Handle, NoPort, Absorb, NotFound, Invite, Cancel, InDialog, ToProxy, Response
<1> HIDE DEF m
<1>2. UNCHANGED <<faults, registered, ua, told>>
  BY <1>1 DEF Handle, NoPort, Absorb, NotFound, Invite, Cancel, InDialog, ToProxy, Response, party
<1>3. Typed /\ Settled /\ HasPair /\ NotYet
  BY DEF Calm, Sharing
<1>4. /\ m \in Messages /\ m.type \in Said(u)
      /\ u = "callee" \/ m.type # "INVITE" => ua["callee"] # "idle" /\ pair # NoPair
      /\ m.type = "INVITE" => u = "caller"
  BY <1>1, TakenIs
<1>5. m.type = "INVITE" =>
        /\ change_sdp(m) = {} => pair = NoPair
        /\ \A out \in change_sdp(m) :
             /\ out.pair \in Pairs /\ (pair = NoPair \/ out.pair = pair)
             /\ out.sdp = Relay(out.pair, 1)
  BY <1>1, ChangeOf
<1>6. m.type # "INVITE" =>
        /\ change_sdp(m) # {}
        /\ \A out \in change_sdp(m) :
             /\ out.pair = pair
             /\ Carries(Msg(m.type, out.sdp), Relay(pair, End(Msg(m.type, out.sdp))))
  BY <1>1, ChangeOf
<1>7. \A t, sdp : Msg(t, sdp).type = t /\ Msg(t, sdp).sdp = sdp
  BY DEF Msg
<1>8. ASSUME NEW code \in {"404", "486"}, Respond(u, m, code), m.type = "INVITE", ~Repeated(m),
             ua["callee"] = "idle", down["callee"] = <<>>
      PROVE  Refused(u, m)
  <2>1. Sent(u, <<Msg(code, NoSdp)>>)
    BY <1>8 DEF Respond
  <2>2. Msg(code, NoSdp) \in Messages
    BY CscfMessages
  <2>3. down["caller"] \o <<Msg(code, NoSdp)>> = Append(down["caller"], Msg(code, NoSdp))
    <3>1. down["caller"] \in Seq(Messages)
      BY <1>3, TwoUsers DEF Typed
    <3>2. QED
      BY <2>2, <3>1, ConcatOne
  <2> DEFINE y == Msg(code, NoSdp)
  <2>4. u = "caller" /\ down' = [down EXCEPT !["caller"] = Append(@, y)]
    BY <1>4, <1>8, <2>1, <2>3 DEF Sent
  <2>5. y \in Messages /\ y.type \in {"404", "486"} /\ y.sdp = NoSdp
    BY <1>7, <2>2
  <2> HIDE DEF y
  <2>6. QED
    BY <1>8, <2>4, <2>5 DEF Refused
<1>9. ASSUME NEW x \in Messages, x.type = m.type, Carries(x, Relay(pair, End(x))),
             Sent(Other(u), <<x>>), pair' = pair, m.type # "INVITE"
      PROVE  Relayed(u, m)
  <2>1. down[Other(u)] \o <<x>> = Append(down[Other(u)], x)
    <3>1. down[Other(u)] \in Seq(Messages)
      BY <1>3, TwoUsers DEF Typed
    <3>2. QED
      BY <3>1, ConcatOne
  <2>2. down' = [down EXCEPT ![Other(u)] = Append(@, x)]
    BY <1>9, <2>1 DEF Sent
  <2>3. QED
    BY <1>4, <1>9, <2>2 DEF Relayed
<1> SUFFICES Relayed(u, m) \/ Forwarded(u, m) \/ Absorbed(u, m) \/ Refused(u, m)
  BY <1>1, <1>2 DEF m
<1>10. CASE NoPort(u, m)
  <2>1. change_sdp(m) = {} /\ Respond(u, m, "486") /\ pair' = pair
    BY <1>10 DEF NoPort, port
  <2>2. m.type = "INVITE" /\ pair = NoPair /\ u = "caller"
    BY <1>4, <1>5, <1>6, <2>1
  <2>3. CASE Repeated(m)
    BY <2>1, <2>2, <2>3 DEF Respond, Absorbed
  <2>4. CASE ~Repeated(m)
    <3>1. ua["callee"] = "idle" /\ down["callee"] = <<>>
      BY <1>3, <2>2 DEF HasPair
    <3>2. QED
      BY <1>8, <2>1, <2>2, <2>4, <3>1
  <2>5. QED
    BY <2>3, <2>4
<1>11. CASE Absorb(u, m)
  <2>1. /\ m.type = "INVITE" /\ down' = down
        /\ \E out \in change_sdp(m) : pair' = out.pair
    BY <1>11 DEF Absorb, Repeated
  <2>2. QED
    BY <1>4, <1>5, <2>1 DEF Absorbed
<1>12. CASE NotFound(u, m)
  <2>1. /\ m.type \in Requests /\ ~Repeated(m) /\ Other(u) \notin registered
        /\ Respond(u, m, "404")
    BY <1>12 DEF NotFound
  <2>2. CASE u = "caller"
    <3>1. "callee" \notin registered
      BY <2>1, <2>2, TwoUsers
    <3>2. ua["callee"] = "idle" /\ down["callee"] = <<>>
      BY <1>3, <3>1 DEF HasPair
    <3>3. m.type = "INVITE"
      BY <1>4, <3>2
    <3>4. QED
      BY <1>8, <2>1, <3>2, <3>3
  <2>3. CASE u = "callee"
    <3>1. "caller" \notin registered
      BY <2>1, <2>3, TwoUsers
    <3>2. "reinvite" \notin faults
      BY <1>3, <3>1, TwoUsers DEF Settled
    <3>3. m.type \in {"ACK", "re-INVITE"}
      BY <1>4, <2>1, <2>3 DEF Said, Answers, Requests
    <3>4. QED
      BY <1>1, <2>3, <3>2, <3>3, CalleesRequests
  <2>4. QED
    BY <2>2, <2>3, TwoUsers
<1>13. CASE Invite(u, m)
  <2>1. PICK out \in change_sdp(m) :
          /\ ToProxy(u, m, out)
          /\ down' = [down EXCEPT ![Other(u)] = Append(@, Msg("INVITE", out.sdp)),
                                  ![u] = Append(@, Msg("100", NoSdp))]
    BY <1>13 DEF Invite
  <2>2. m.type = "INVITE" /\ u = "caller" /\ pair' = out.pair /\ Other(u) \in registered
    BY <1>4, <1>13, <2>1 DEF Invite, ToProxy
  <2>3. /\ out.pair \in Pairs /\ (pair = NoPair \/ out.pair = pair)
        /\ out.sdp = Relay(out.pair, 1)
    BY <1>5, <2>2
  <2>4. Msg("INVITE", out.sdp) \in Messages /\ Msg("100", NoSdp) \in Messages
    <3>1. Msg(m.type, out.sdp) \in Messages
      BY <1>3, <1>4, ChangeIs
    <3>2. QED
      BY <2>2, <3>1, CscfMessages
  <2>5. Other(u) = "callee"
    BY <2>2, TwoUsers
  <2>6. \E x, y \in Messages :
       /\ x.type = "INVITE" /\ x.sdp = Relay(pair', 1) /\ y.type = "100" /\ y.sdp = NoSdp
       /\ down' = [down EXCEPT !["callee"] = Append(@, x), !["caller"] = Append(@, y)]
    <3>1. Msg("INVITE", out.sdp).sdp = Relay(pair', 1)
      BY <1>7, <2>2, <2>3
    <3>2. down' = [down EXCEPT !["callee"] = Append(@, Msg("INVITE", out.sdp)),
                               !["caller"] = Append(@, Msg("100", NoSdp))]
      BY <2>1, <2>2, <2>5
    <3>3. QED
      BY <1>7, <2>4, <3>1, <3>2
  <2>7. pair' \in Pairs /\ (pair = NoPair \/ pair' = pair) /\ "callee" \in registered
    BY <2>2, <2>3, <2>5
  <2>8. QED
    BY <2>2, <2>6, <2>7 DEF Forwarded
<1>14. CASE Cancel(u, m)
  BY <1>4, <1>14 DEF Cancel, Said, Answers
<1>15. CASE InDialog(u, m) \/ Response(u, m)
  <2>1. PICK out \in change_sdp(m) :
          pair' = out.pair /\ Sent(Other(u), <<Msg(m.type, out.sdp)>>)
    BY <1>15 DEF InDialog, Response, ToProxy
  <2>2. m.type # "INVITE"
    BY <1>15 DEF InDialog, Response, Requests
  <2>3. /\ out.pair = pair
        /\ Carries(Msg(m.type, out.sdp), Relay(pair, End(Msg(m.type, out.sdp))))
    BY <1>6, <2>2
  <2> DEFINE x == Msg(m.type, out.sdp)
  <2>4. x \in Messages /\ x.type = m.type
    BY <1>3, <1>4, <1>7, ChangeIs
  <2>5. Carries(x, Relay(pair, End(x))) /\ Sent(Other(u), <<x>>) /\ pair' = pair
    BY <2>1, <2>3
  <2> HIDE DEF x
  <2>6. QED
    BY <1>9, <2>2, <2>4, <2>5
<1>16. QED
  BY <1>1, <1>10, <1>11, <1>12, <1>13, <1>14, <1>15 DEF Handle

(* All messages are of some types still when one of these is put or one is taken. *)
LEMMA AllPut ==
  ASSUME NEW s \in Seq(Messages), NEW T, AllOf(s, T), NEW x \in Messages, x.type \in T
  PROVE  AllOf(Append(s, x), T)
<1> DEFINE t == Append(s, x)
<1>1. /\ DOMAIN s = 1 .. Len(s) /\ DOMAIN t = 1 .. Len(s) + 1 /\ Len(s) \in Nat
      /\ \A i \in 1 .. Len(s) : t[i] = s[i]
      /\ t[Len(s) + 1] = x
  OBVIOUS
<1> HIDE DEF t
<1>2. \A i \in DOMAIN t : t[i].type \in T
  BY <1>1 DEF AllOf
<1>3. QED
  BY <1>2 DEF AllOf, t

(* The same for the first one taken. *)
LEMMA AllTail ==
  ASSUME NEW s \in Seq(Messages), s # <<>>, NEW T, AllOf(s, T)
  PROVE  AllOf(Tail(s), T) /\ Head(s).type \in T
<1> DEFINE t == Tail(s)
<1>1. /\ DOMAIN s = 1 .. Len(s) /\ DOMAIN t = 1 .. Len(s) - 1 /\ Len(s) \in Nat /\ Len(s) >= 1
      /\ \A i \in 1 .. Len(s) - 1 : t[i] = s[i + 1]
      /\ Head(s) = s[1]
  BY TailIs
<1> HIDE DEF t
<1>2. \A i \in DOMAIN t : i + 1 \in DOMAIN s /\ t[i] = s[i + 1]
  BY <1>1
<1>3. \A i \in DOMAIN t : t[i].type \in T
  BY <1>2 DEF AllOf
<1>4. QED
  BY <1>1, <1>3 DEF AllOf, t

(* A new pair for a call that the callee does not know of changes no message. *)
LEMMA ArrivingKept ==
  ASSUME Calm, pair' = pair \/ (ua["callee"] = "idle" /\ down["callee"] = <<>>), NEW u \in Users
  PROVE  down[u] \in Seq(Arriving(u)')
<1>1. Messaging /\ NotYet /\ Typed
  BY DEF Calm, Sharing
<1>2. down[u] \in Seq(Arriving(u))
  BY <1>1 DEF Messaging
<1>3. CASE pair' = pair
  <2>1. Arriving(u)' = Arriving(u)
    BY <1>3 DEF Arriving
  <2>2. QED
    BY <1>2, <2>1
<1>4. CASE ua["callee"] = "idle" /\ down["callee"] = <<>>
  <2>1. CASE u = "callee"
    <3>1. \A S : <<>> \in Seq(S)
      OBVIOUS
    <3>2. down[u] = <<>>
      BY <1>4, <2>1
    <3>3. QED
      BY <3>1, <3>2, Zenon
  <2>2. CASE u = "caller"
    <3>1. AllOf(down[u], FromCscf)
      BY <1>1, <1>4, <2>2 DEF NotYet
    <3>2. ASSUME NEW i \in DOMAIN down[u] PROVE down[u][i] \in Arriving(u)'
      <4>1. down[u][i] \in Arriving(u) /\ down[u][i].type \in FromCscf
        BY <1>2, <3>1 DEF AllOf
      <4> DEFINE x == down[u][i]
      <4> HIDE DEF x
      <4>2. x \in Messages /\ x.type \in FromCscf /\ Carries(x, Relay(pair, End(x)))
        BY <4>1 DEF Arriving, x
      <4>3. \A a : Carries(x, a)
        BY <4>2 DEF Carries, FromCscf
      <4>4. x \in Arriving(u)'
        BY <4>2, <4>3 DEF Arriving
      <4>5. QED
        BY <4>4 DEF x
    <3>3. QED
      BY <1>2, <3>2
  <2>3. QED
    BY <2>1, <2>2, TwoUsers
<1>5. QED
  BY <1>3, <1>4

(* An answer of the CSCF's own, and what it passes on, are put where they belong. *)
LEMMA OwnIsArriving ==
  ASSUME NEW u \in Users, NEW y \in Messages, y.type \in FromCscf, y.sdp = NoSdp
  PROVE  y \in Arriving(u)'
BY DEF Arriving, Carries, FromCscf

\* The CSCF passes m on as x or drops it, and adds an answer y or does not.
Passes(u, m, x, y) ==
  /\ \/ /\ down'[Other(u)] = Append(down[Other(u)], x)
        /\ x.type = m.type /\ Carries(x, Relay(pair', End(x)))
     \/ down'[Other(u)] = down[Other(u)] /\ m.type = "INVITE"
  /\ down'[u] = down[u] \/ down'[u] = Append(down[u], y)
  /\ y.type \in FromCscf /\ y.sdp = NoSdp

(* So it does in each of the four ways. *)
LEMMA PassesAre ==
  ASSUME Calm, NEW u \in Users, NEW m, Took(u, m),
         Relayed(u, m) \/ Forwarded(u, m) \/ Absorbed(u, m) \/ Refused(u, m)
  PROVE  \E x, y \in Messages : Passes(u, m, x, y)
<1>1. /\ down \in [Users -> Seq(Messages)] /\ Other(u) \in Users /\ Other(u) # u
      /\ Other("caller") = "callee" /\ "caller" \in Users /\ "callee" \in Users
  BY TwoUsers DEF Calm, Typed
<1>2. /\ Msg("100", NoSdp) \in Messages
      /\ Msg("100", NoSdp).type \in FromCscf /\ Msg("100", NoSdp).sdp = NoSdp
  BY CscfMessages DEF Msg, FromCscf
<1>3. CASE Relayed(u, m)
  <2>1. PICK x \in Messages : /\ x.type = m.type /\ Carries(x, Relay(pair', End(x)))
                              /\ down' = [down EXCEPT ![Other(u)] = Append(@, x)]
    BY <1>3 DEF Relayed
  <2>2. down'[Other(u)] = Append(down[Other(u)], x) /\ down'[u] = down[u]
    BY <1>1, <2>1
  <2>3. QED
    BY <1>2, <2>1, <2>2 DEF Passes
<1>4. CASE Forwarded(u, m)
  <2>1. PICK x \in Messages, y \in Messages :
       /\ x.type = "INVITE" /\ x.sdp = Relay(pair', 1) /\ y.type = "100" /\ y.sdp = NoSdp
       /\ down' = [down EXCEPT !["callee"] = Append(@, x), !["caller"] = Append(@, y)]
    BY <1>4 DEF Forwarded
  <2>2. u = "caller" /\ m.type = "INVITE" /\ Other(u) = "callee"
    BY <1>1, <1>4 DEF Forwarded
  <2>3. down'["callee"] = Append(down["callee"], x) /\ down'["caller"] = Append(down["caller"], y)
    BY <1>1, <2>1
  <2>4. Carries(x, Relay(pair', End(x)))
    BY <2>1 DEF Carries, End, Requests
  <2>5. y.type \in FromCscf
    BY <2>1 DEF FromCscf
  <2>6. QED
    BY <2>1, <2>2, <2>3, <2>4, <2>5 DEF Passes
<1>5. CASE Absorbed(u, m)
  BY <1>2, <1>5 DEF Absorbed, Passes
<1>6. CASE Refused(u, m)
  <2>1. PICK y \in Messages : /\ y.type \in {"404", "486"} /\ y.sdp = NoSdp
                              /\ down' = [down EXCEPT !["caller"] = Append(@, y)]
    BY <1>6 DEF Refused
  <2>2. u = "caller" /\ m.type = "INVITE" /\ Other(u) = "callee"
    BY <1>1, <1>6 DEF Refused
  <2>3. down'["callee"] = down["callee"] /\ down'["caller"] = Append(down["caller"], y)
    BY <1>1, <2>1
  <2>4. y.type \in FromCscf
    BY <2>1 DEF FromCscf
  <2>5. QED
    BY <1>2, <2>1, <2>2, <2>3, <2>4 DEF Passes
<1>7. QED
  BY <1>3, <1>4, <1>5, <1>6

(* The counts that matter stay what they are. *)
LEMMA PassesCounts ==
  ASSUME Calm, NEW u \in Users, NEW m, Took(u, m), NEW x \in Messages, NEW y \in Messages,
         Passes(u, m, x, y), NEW K \in {Offers, Replies, Acceptances, Acks, Rings, Pickups}
  PROVE  \A w \in Users : On(w, K)' = On(w, K)
<1>1. Typed /\ m \in Messages
  BY TookIs DEF Calm
<1>2. y \notin K
  BY KindsAre DEF Passes, FromCscf
<1>3. x.type = m.type => (x \in K <=> m \in K)
  BY <1>1, KindsAre
<1>4. m.type = "INVITE" => m \notin K
  BY <1>1, KindsAre
<1>5. \/ down'[Other(u)] = Append(down[Other(u)], x) /\ (x \in K <=> m \in K)
      \/ down'[Other(u)] = down[Other(u)] /\ m \notin K
  BY <1>3, <1>4 DEF Passes
<1>6. down'[u] = down[u] \/ down'[u] = Append(down[u], y)
  BY DEF Passes
<1>7. On(u, K)' = On(u, K) /\ On(Other(u), K)' = On(Other(u), K)
  BY <1>1, <1>2, <1>5, <1>6, PassCounts
<1>8. QED
  BY <1>7, TwoUsers

-----------------------------------------------------------------------------
(* The CSCF keeps Sharing. *)

(* Messages stay apart by their types. *)
LEMMA PassMessaging ==
  ASSUME Calm, NEW u \in Users, NEW m, Took(u, m), NEW x \in Messages, NEW y \in Messages,
         Passes(u, m, x, y), pair' = pair \/ (ua["callee"] = "idle" /\ down["callee"] = <<>>)
  PROVE  Messaging'
<1>1. Typed /\ Messaging /\ Other(u) \in Users /\ Other(Other(u)) = u
  BY TwoUsers DEF Calm, Sharing
<1>2. m.type \in Said(u)
  BY TakenIs
<1>3. \A w \in Users : up'[w] \in Seq(Leaving(w))
  <2>1. up[u] \in Seq(Leaving(u)) /\ up[Other(u)] \in Seq(Leaving(Other(u)))
    BY <1>1 DEF Messaging
  <2>2. up'[u] = Tail(up[u]) /\ up'[Other(u)] = up[Other(u)] /\ up[u] # <<>>
    BY <1>1, TookIs
  <2>3. Tail(up[u]) \in Seq(Leaving(u))
    BY <2>1, <2>2
  <2>4. ASSUME NEW w \in Users PROVE up'[w] \in Seq(Leaving(w))
    <3>1. CASE w = u
      BY <2>2, <2>3, <3>1
    <3>2. CASE w = Other(u)
      BY <2>1, <2>2, <3>2
    <3>3. QED
      BY <3>1, <3>2, TwoUsers
  <2>5. QED
    BY <2>4
<1>4. \A w \in Users : down[w] \in Seq(Arriving(w)')
  BY ArrivingKept
<1>5. y \in Arriving(u)'
  BY OwnIsArriving DEF Passes
<1>6. x.type = m.type /\ Carries(x, Relay(pair', End(x))) => x \in Arriving(Other(u))'
  BY <1>1, <1>2 DEF Arriving, Carries
<1>7. \A S, s, a : s \in Seq(S) /\ a \in S => Append(s, a) \in Seq(S)
  OBVIOUS
<1>8. down'[u] \in Seq(Arriving(u)')
  BY <1>4, <1>5, <1>7 DEF Passes
<1>9. down'[Other(u)] \in Seq(Arriving(Other(u))')
  BY <1>1, <1>4, <1>6, <1>7 DEF Passes
<1>10. \A w \in Users : down'[w] \in Seq(Arriving(w)')
  BY <1>8, <1>9, TwoUsers
<1>11. QED
  BY <1>3, <1>10 DEF Messaging, Leaving

(* A call that the callee does not know of stays at its INVITE. *)
LEMMA PassNotYet ==
  ASSUME Calm, NEW u \in Users, NEW m, Took(u, m), NEW x \in Messages, NEW y \in Messages,
         Passes(u, m, x, y), UNCHANGED ua
  PROVE  NotYet'
<1>1. Typed /\ NotYet
  BY DEF Calm, Sharing
<1>2. SUFFICES ASSUME ua["callee"] = "idle" PROVE NotYet'
  BY DEF NotYet
<1>3. u = "caller" /\ m.type = "INVITE"
  BY <1>2, TakenIs, TwoUsers
<1>4. Other(u) = "callee"
  BY <1>3, TwoUsers
<1>5. /\ up'["caller"] = Tail(up["caller"]) /\ up["caller"] # <<>>
      /\ up'["callee"] = up["callee"] /\ up["caller"] \in Seq(Messages)
  BY <1>1, <1>3, <1>4, TookIs
<1>6. /\ ua["caller"] \in Early
      /\ up["callee"] = <<>>
      /\ AllOf(up["caller"], OnlyInvite) /\ AllOf(down["callee"], OnlyInvite)
      /\ AllOf(down["caller"], FromCscf)
      /\ down["callee"] \in Seq(Messages) /\ down["caller"] \in Seq(Messages)
  BY <1>1, <1>2, TwoUsers DEF NotYet, Typed
<1>7. AllOf(up["caller"], OnlyInvite)'
  BY <1>5, <1>6, AllTail DEF AllOf
<1>8. AllOf(down["callee"], OnlyInvite)'
  <2>1. CASE down'["callee"] = Append(down["callee"], x) /\ x.type = m.type
    <3>1. x.type \in OnlyInvite
      BY <1>3, <2>1 DEF OnlyInvite
    <3>2. AllOf(Append(down["callee"], x), OnlyInvite)
      BY <1>6, <3>1, AllPut
    <3>3. QED
      BY <2>1, <3>2 DEF AllOf
  <2>2. CASE down'["callee"] = down["callee"]
    BY <1>6, <2>2 DEF AllOf
  <2>3. QED
    BY <1>4, <2>1, <2>2 DEF Passes
<1>9. AllOf(down["caller"], FromCscf)'
  <2>1. CASE down'["caller"] = Append(down["caller"], y)
    <3>1. AllOf(Append(down["caller"], y), FromCscf)
      BY <1>6, AllPut DEF Passes
    <3>2. QED
      BY <2>1, <3>1 DEF AllOf
  <2>2. CASE down'["caller"] = down["caller"]
    BY <1>6, <2>2 DEF AllOf
  <2>3. QED
    BY <1>3, <2>1, <2>2 DEF Passes
<1>10. QED
  BY <1>5, <1>6, <1>7, <1>8, <1>9 DEF NotYet

(* A call that the callee knows of has its pair. *)
LEMMA PassHasPair ==
  ASSUME Calm, NEW u \in Users, NEW m, Took(u, m), UNCHANGED <<ua, registered>>,
         Relayed(u, m) \/ Forwarded(u, m) \/ Absorbed(u, m) \/ Refused(u, m)
  PROVE  HasPair'
<1>1. Typed /\ HasPair
  BY DEF Calm, Sharing
<1>2. (ua["caller"] \in Early \cup Connected)'
  BY <1>1 DEF HasPair
<1>3. SUFFICES ASSUME ua["callee"] # "idle" \/ down'["callee"] # <<>>
               PROVE  pair' # NoPair /\ "callee" \in registered
  BY <1>2 DEF HasPair
<1>4. CASE Relayed(u, m)
  <2>1. ua["callee"] # "idle"
    BY <1>4, TakenIs DEF Relayed
  <2>2. QED
    BY <1>1, <1>4, <2>1 DEF HasPair, Relayed
<1>5. CASE Forwarded(u, m)
  BY <1>5, CallAssumption DEF Forwarded
<1>6. CASE Absorbed(u, m)
  BY <1>1, <1>3, <1>6 DEF HasPair, Absorbed
<1>7. CASE Refused(u, m)
  <2>1. PICK y \in Messages : down' = [down EXCEPT !["caller"] = Append(@, y)]
    BY <1>7 DEF Refused
  <2>2. down \in [Users -> Seq(Messages)] /\ "callee" \in Users
    BY <1>1, TwoUsers DEF Typed
  <2>3. down'["callee"] = down["callee"]
    BY <2>1, <2>2
  <2>4. QED
    BY <1>3, <1>7, <2>3 DEF Refused
<1>8. QED
  BY <1>4, <1>5, <1>6, <1>7

(* A 180 stays before the 200. *)
LEMMA PassRingsFirst ==
  ASSUME Calm, NEW u \in Users, NEW m, Took(u, m), NEW x \in Messages, NEW y \in Messages,
         Passes(u, m, x, y), UNCHANGED ua
  PROVE  RingsFirst'
<1>1. /\ Typed /\ RingsFirst
      /\ "caller" \in Users /\ "callee" \in Users
      /\ Other("caller") = "callee" /\ Other("callee") = "caller"
  BY TwoUsers DEF Calm, Sharing
<1>2. (ua["caller"] \in Connected => On("callee", Rings) = 0)'
  <2>1. On("callee", Rings)' = On("callee", Rings)
    BY <1>1, PassesCounts
  <2>2. QED
    BY <1>1, <2>1 DEF RingsFirst
<1> DEFINE d == down["caller"]
           s == up["callee"]
<1>3. /\ d \in Seq(Messages) /\ s \in Seq(Messages) /\ InOrder(d) /\ InOrder(s)
      /\ CountIn(d, Pickups) > 0 => CountIn(s, Rings) = 0
  BY <1>1 DEF Typed, RingsFirst
<1>4. CountIn(d, Pickups) \in Nat /\ CountIn(s, Rings) \in Nat
  BY <1>3, CountInIsNat
<1>5. /\ InOrder(down'["caller"]) /\ InOrder(up'["callee"])
      /\ CountIn(down'["caller"], Pickups) > 0 => CountIn(up'["callee"], Rings) = 0
  <2>1. CASE u = "caller"
    <3>1. up'["callee"] = s
      BY <1>1, <2>1, TookIs
    <3>2. down'["caller"] = d \/ down'["caller"] = Append(d, y)
      BY <2>1 DEF Passes
    <3>3. y \notin Pickups /\ y.type # "180"
      BY KindsAre DEF Passes, FromCscf
    <3> HIDE DEF d, s
    <3>4. InOrder(Append(d, y))
      BY <1>3, <3>3, InOrderPut
    <3>5. CountIn(Append(d, y), Pickups) = CountIn(d, Pickups)
      <4>1. CountIn(Append(d, y), Pickups) = CountIn(d, Pickups) + IF y \in Pickups THEN 1 ELSE 0
        BY <1>3, CountInAppend
      <4>2. QED
        BY <1>4, <3>3, <4>1
    <3>6. QED
      BY <1>3, <3>1, <3>2, <3>4, <3>5
  <2>2. CASE u = "callee"
    <3>1. m \in Messages /\ m = Head(s) /\ s # <<>> /\ up'["callee"] = Tail(s)
      BY <1>1, <2>2, TookIs
    <3>2. down'["caller"] = Append(d, x) /\ x.type = m.type
      <4>1. m.type # "INVITE"
        BY <2>2, TakenIs
      <4>2. QED
        BY <1>1, <2>2, <4>1 DEF Passes
    <3> HIDE DEF d, s
    <3>3. InOrder(Tail(s)) /\ (m.type = "200" => CountIn(Tail(s), Rings) = 0)
      BY <1>3, <3>1, InOrderTail
    <3>4. CountIn(s, Rings) = CountIn(Tail(s), Rings) + IF m \in Rings THEN 1 ELSE 0
      BY <1>3, <3>1, CountInTail
    <3>5. CountIn(Tail(s), Rings) \in Nat
      <4>1. Tail(s) \in Seq(Messages)
        BY <1>3, <3>1
      <4>2. QED
        BY <4>1, CountInIsNat
    <3>6. CountIn(Append(d, x), Pickups) = CountIn(d, Pickups) + IF x \in Pickups THEN 1 ELSE 0
      BY <1>3, CountInAppend
    <3>7. (x \in Pickups <=> m.type = "200") /\ (m \in Rings <=> m.type = "180")
      BY <3>1, <3>2, KindsAre
    <3>8. m.type = "180" => CountIn(d, Pickups) = 0
      BY <1>3, <1>4, <3>4, <3>5, <3>7
    <3>9. InOrder(Append(d, x))
      BY <1>3, <3>2, <3>8, InOrderPut
    <3>10. CountIn(Append(d, x), Pickups) > 0 => CountIn(Tail(s), Rings) = 0
      <4>1. CASE m.type = "200"
        BY <3>3, <4>1
      <4>2. CASE m.type # "200"
        BY <1>3, <1>4, <3>4, <3>5, <3>6, <3>7, <4>2
      <4>3. QED
        BY <4>1, <4>2
    <3>11. QED
      BY <3>1, <3>2, <3>3, <3>9, <3>10
  <2>3. QED
    BY <2>1, <2>2, TwoUsers
<1>6. QED
  BY <1>2, <1>5 DEF RingsFirst, InOrder

(* One message handled by the CSCF keeps every part. *)
LEMMA CscfKept ==
  ASSUME Calm, NEW u \in Users, Cscf(u)
  PROVE  Sharing'
<1> DEFINE m == Head(up[u])
<1>1. /\ Took(u, m) /\ UNCHANGED <<faults, registered, ua, told>>
      /\ Relayed(u, m) \/ Forwarded(u, m) \/ Absorbed(u, m) \/ Refused(u, m)
  BY PassIs
<1> HIDE DEF m
<1>2. PICK x \in Messages, y \in Messages : Passes(u, m, x, y)
  BY <1>1, PassesAre
<1>3. pair' = pair \/ (ua["callee"] = "idle" /\ down["callee"] = <<>>)
  BY <1>1 DEF Relayed, Forwarded, Absorbed, Refused, Calm, Sharing, HasPair
<1>4. Messaging'
  BY <1>1, <1>2, <1>3, PassMessaging
<1>5. NotYet' /\ RingsFirst'
  BY <1>1, <1>2, PassNotYet, PassRingsFirst
<1>6. HasPair'
  BY <1>1, PassHasPair
<1>7. Agreeing'
  <2>1. ASSUME NEW K \in {Offers, Replies, Acceptances, Acks, Rings, Pickups}
        PROVE  \A w \in Users : On(w, K)' = On(w, K)
    BY <1>1, <1>2, PassesCounts
  <2>2. QED
    BY <1>1, <1>3, <2>1, AgreeingKept
<1>8. QED
  BY <1>4, <1>5, <1>6, <1>7 DEF Sharing

-----------------------------------------------------------------------------
(* The parties keep Sharing when they hear a message. *)

(* There are no fewer messages of more kinds. *)
LEMMA OnAtMost ==
  ASSUME Typed, NEW u \in Users, NEW K, NEW L, K \subseteq L
  PROVE  On(u, K) <= On(u, L)
<1>1. ASSUME NEW s \in Seq(Messages) PROVE CountIn(s, K) <= CountIn(s, L)
  <2>1. {i \in DOMAIN s : s[i] \in K} \in SUBSET {i \in DOMAIN s : s[i] \in L}
    OBVIOUS
  <2>2. IsFiniteSet({i \in DOMAIN s : s[i] \in L})
    BY CountInIsNat
  <2>3. QED
    BY <2>1, <2>2, FS_Subset DEF CountIn
<1>2. up[u] \in Seq(Messages) /\ down[Other(u)] \in Seq(Messages)
  BY TwoUsers DEF Typed
<1>3. /\ CountIn(up[u], K) \in Nat /\ CountIn(up[u], L) \in Nat
      /\ CountIn(down[Other(u)], K) \in Nat /\ CountIn(down[Other(u)], L) \in Nat
  BY <1>2, CountInIsNat
<1>4. /\ CountIn(up[u], K) <= CountIn(up[u], L)
      /\ CountIn(down[Other(u)], K) <= CountIn(down[Other(u)], L)
  BY <1>1, <1>2
<1>5. QED
  BY <1>3, <1>4 DEF On

\* Party u has heard m, and what it has made of it is then.
Heard(u, m, then) ==
  /\ down[u] # <<>> /\ m = Head(down[u]) /\ m \in Arriving(u)
  /\ then = Hears(u, ua[u], m.type)
  /\ Outcome(u, ua[u], m.type, then)
  /\ ua'[u] = then.ua /\ ua'[Other(u)] = ua[Other(u)]
  /\ up'[u] = up[u] \o then.says /\ up'[Other(u)] = up[Other(u)]
  /\ down'[u] = Tail(down[u]) /\ down'[Other(u)] = down[Other(u)]
  /\ told'[Other(u)] = told[Other(u)]
  /\ m.sdp # NoSdp /\ (then.ua # ua[u] \/ m.type = "180") => told'[u] = m.sdp
  /\ m.sdp = NoSdp \/ ~ (then.ua # ua[u] \/ m.type = "180") => told'[u] = told[u]
  /\ UNCHANGED <<faults, pair, registered>>

(* So it is for a party that stays in the call. *)
LEMMA HeardIs ==
  ASSUME Calm, NEW u \in Users, Hear(u), Live'
  PROVE  \E m \in Messages : \E then : Heard(u, m, then)
<1> DEFINE m == Head(down[u])
           then == Hears(u, ua[u], m.type)
<1>1. Typed /\ Messaging /\ HasPair
  BY DEF Calm, Sharing
<1>2. /\ down[u] # <<>>
      /\ ua' = [ua EXCEPT ![u] = then.ua]
      /\ up' = [up EXCEPT ![u] = @ \o then.says]
      /\ told' = IF m.sdp # NoSdp /\ (then.ua # ua[u] \/ m.type = "180")
                   THEN [told EXCEPT ![u] = m.sdp] ELSE told
      /\ down' = [down EXCEPT ![u] = Tail(@)]
      /\ UNCHANGED <<faults, port, registered>>
  BY DEF Hear
<1>3. m \in Arriving(u) /\ m \in Messages
  <2>1. down[u] \in Seq(Arriving(u)) /\ down[u] # <<>>
    BY <1>1, <1>2 DEF Messaging
  <2>2. m \in Arriving(u)
    BY <2>1
  <2> HIDE DEF m
  <2>3. QED
    BY <2>2 DEF Arriving
<1>4. /\ ua \in [Users -> States] /\ told \in [Users -> Sdps] /\ Other(u) \in Users /\ Other(u) # u
      /\ up \in [Users -> Seq(Messages)] /\ down \in [Users -> Seq(Messages)]
  BY <1>1, TwoUsers DEF Typed, TypeOK
<1>5. ua[u] \in Talks \cup Early \cup {"ringing", "rung", "answered"}
  BY <1>1, TwoUsers DEF HasPair, Typed, TypeOK, Talks, Early, Connected
<1>6. then.ua # "over"
  <2> HIDE DEF then
  <2>1. ua'[u] = then.ua
    BY <1>2, <1>4
  <2>2. QED
    BY <2>1, TwoUsers DEF Live
<1>7. Outcome(u, ua[u], m.type, then)
  BY <1>5, <1>6, OutcomeIs
<1>8. pair' = pair
  BY <1>2 DEF port
<1>9. then = Hears(u, ua[u], m.type) /\ m = Head(down[u])
  OBVIOUS
<1> HIDE DEF then, m
<1>10. QED
  BY <1>2, <1>3, <1>4, <1>7, <1>8, <1>9 DEF Heard

(* How the counts change. *)
LEMMA HeardCounts ==
  ASSUME Calm, NEW u \in Users, Hear(u), NEW m \in Messages, NEW then, Heard(u, m, then)
  PROVE  /\ \A K : On(Other(u), K) = On(Other(u), K)' + IF m \in K THEN 1 ELSE 0
         /\ then.says = <<>> => \A K : On(u, K)' = On(u, K)
         /\ \A x \in Messages : then.says = <<x>> =>
              \A K : On(u, K)' = On(u, K) + IF x \in K THEN 1 ELSE 0
<1>1. Typed /\ m = Head(down[u]) /\ then = Hears(u, ua[u], m.type)
  BY DEF Calm, Heard
<1>2. QED
  BY <1>1, HearCounts

(* An answer to what is heard, if there is one. *)
LEMMA HeardSays ==
  ASSUME NEW u \in Users, NEW m, NEW then, Heard(u, m, then)
  PROVE  \/ then.says = <<>>
         \/ \E x \in Leaving(u) : then.says = <<x>> /\ x.type \in {"ACK", "re-200", "re-4xx"}
<1>1. /\ Msg("re-200", Direct) \in Messages /\ Msg("re-4xx", NoSdp) \in Messages
      /\ Msg("ACK", NoSdp) \in Messages
  BY PartyMessages
<1>2. \A t, sdp : Msg(t, sdp).type = t /\ Msg(t, sdp).sdp = sdp
  BY DEF Msg
<1>3. /\ Msg("re-200", Direct) \in Leaving(u) /\ Msg("re-4xx", NoSdp) \in Leaving(u)
      /\ Msg("ACK", NoSdp) \in Leaving(u)
  BY <1>1, <1>2 DEF Leaving, Carries, Said, Answers
<1>4. \/ then.says = <<>>
      \/ then.says = <<Msg("re-200", Direct)>> \/ then.says = <<Msg("re-4xx", NoSdp)>>
      \/ then.says = <<Msg("ACK", NoSdp)>>
  <2>1. Outcome(u, ua[u], m.type, then)
    BY DEF Heard
  <2>2. QED
    BY <2>1, Zenon DEF Outcome
<1>5. QED
  BY <1>2, <1>3, <1>4

(* Messages stay apart by their types. *)
LEMMA HeardMessaging ==
  ASSUME Calm, NEW u \in Users, NEW m, NEW then, Heard(u, m, then)
  PROVE  Messaging'
<1>1. Messaging /\ Other(u) \in Users
  BY TwoUsers DEF Calm, Sharing
<1>2. /\ up[u] \in Seq(Leaving(u)) /\ up[Other(u)] \in Seq(Leaving(Other(u)))
      /\ down[u] \in Seq(Arriving(u)) /\ down[Other(u)] \in Seq(Arriving(Other(u)))
      /\ down[u] # <<>>
  BY <1>1 DEF Messaging, Heard
<1>3. down'[u] \in Seq(Arriving(u))
  BY <1>2 DEF Heard
<1>4. up'[u] \in Seq(Leaving(u))
  <2>1. \A S, s : s \in Seq(S) => s \o <<>> \in Seq(S) /\ \A a \in S : s \o <<a>> \in Seq(S)
    OBVIOUS
  <2>2. up'[u] = up[u] \o then.says
    BY DEF Heard
  <2>3. then.says = <<>> \/ \E x \in Leaving(u) : then.says = <<x>>
    BY HeardSays
  <2>4. QED
    BY <1>2, <2>1, <2>2, <2>3
<1>5. \A w \in Users : up'[w] \in Seq(Leaving(w)) /\ down'[w] \in Seq(Arriving(w))
  BY <1>2, <1>3, <1>4, TwoUsers DEF Heard
<1>6. \A w \in Users : Arriving(w)' = Arriving(w)
  BY DEF Heard, Arriving
<1>7. QED
  BY <1>5, <1>6 DEF Messaging, Leaving

(* A call that the callee does not know of stays at its INVITE. *)
LEMMA HeardNotYet ==
  ASSUME Calm, NEW u \in Users, NEW m \in Messages, NEW then, Heard(u, m, then)
  PROVE  NotYet'
<1>1. Typed /\ NotYet
  BY DEF Calm, Sharing
<1>2. SUFFICES ASSUME ua'["callee"] = "idle" PROVE NotYet'
  BY DEF NotYet
<1>3. /\ Other("caller") = "callee" /\ Other("callee") = "caller"
      /\ "caller" \in Users /\ "callee" \in Users
  BY TwoUsers
<1>4. ua["callee"] = "idle"
  <2>1. CASE u = "callee"
    <3>1. then.ua = "idle" /\ Outcome(u, ua[u], m.type, then)
      BY <1>2, <2>1 DEF Heard
    <3>2. QED
      BY <2>1, <3>1 DEF Outcome
  <2>2. CASE u = "caller"
    BY <1>2, <1>3, <2>2 DEF Heard
  <2>3. QED
    BY <2>1, <2>2, TwoUsers
<1>5. /\ ua["caller"] \in Early
      /\ up["callee"] = <<>>
      /\ AllOf(up["caller"], OnlyInvite) /\ AllOf(down["callee"], OnlyInvite)
      /\ AllOf(down["caller"], FromCscf)
      /\ down["callee"] \in Seq(Messages) /\ down["caller"] \in Seq(Messages)
      /\ up["callee"] \in Seq(Messages) /\ up["caller"] \in Seq(Messages)
  BY <1>1, <1>3, <1>4 DEF NotYet, Typed
<1>6. /\ down[u] # <<>> /\ m = Head(down[u])
      /\ up'[u] = up[u] \o then.says /\ up'[Other(u)] = up[Other(u)]
      /\ down'[u] = Tail(down[u]) /\ down'[Other(u)] = down[Other(u)]
      /\ ua'[u] = then.ua /\ ua'[Other(u)] = ua[Other(u)]
      /\ Outcome(u, ua[u], m.type, then)
  BY DEF Heard
<1>7. AllOf(down'["callee"], OnlyInvite) /\ AllOf(down'["caller"], FromCscf)
  <2>1. CASE u = "caller"
    <3>1. AllOf(Tail(down["caller"]), FromCscf)
      BY <1>5, <1>6, <2>1, AllTail
    <3>2. QED
      BY <1>3, <1>5, <1>6, <2>1, <3>1
  <2>2. CASE u = "callee"
    <3>1. AllOf(Tail(down["callee"]), OnlyInvite)
      BY <1>5, <1>6, <2>2, AllTail
    <3>2. QED
      BY <1>3, <1>5, <1>6, <2>2, <3>1
  <2>3. QED
    BY <2>1, <2>2, TwoUsers
<1>8. then.says = <<>> /\ ua'["caller"] \in Early
  <2>1. CASE u = "caller"
    <3>1. m.type \in FromCscf
      BY <1>5, <1>6, <2>1, AllTail
    <3>2. QED
      BY <1>5, <1>6, <2>1, <3>1 DEF Outcome, Early, FromCscf
  <2>2. CASE u = "callee"
    <3>1. m.type = "INVITE"
      BY <1>5, <1>6, <2>2, AllTail DEF OnlyInvite
    <3>2. QED
      BY <1>3, <1>5, <1>6, <2>2, <3>1 DEF Outcome
  <2>3. QED
    BY <2>1, <2>2, TwoUsers
<1>9. up' ["caller"] = up["caller"] /\ up'["callee"] = up["callee"]
  <2>1. \A s \in Seq(Messages) : s \o <<>> = s
    OBVIOUS
  <2>2. up[u] \in Seq(Messages)
    BY <1>5, TwoUsers
  <2>3. up'[u] = up[u]
    BY <1>6, <1>8, <2>1, <2>2
  <2>4. QED
    BY <1>3, <1>6, <2>3, TwoUsers
<1>10. QED
  BY <1>5, <1>7, <1>8, <1>9 DEF NotYet, AllOf

(* A call that the callee knows of has its pair. *)
LEMMA HeardHasPair ==
  ASSUME Calm, NEW u \in Users, NEW m \in Messages, NEW then, Heard(u, m, then)
  PROVE  HasPair'
<1>1. /\ Typed /\ HasPair
      /\ Other("caller") = "callee" /\ Other("callee") = "caller"
  BY TwoUsers DEF Calm, Sharing
<1>2. /\ UNCHANGED <<pair, registered>>
      /\ down[u] # <<>> /\ down'[Other(u)] = down[Other(u)]
      /\ ua'[u] = then.ua /\ ua'[Other(u)] = ua[Other(u)]
      /\ Outcome(u, ua[u], m.type, then)
  BY DEF Heard
<1>3. ua'["callee"] # "idle" \/ down'["callee"] # <<>>
        => ua["callee"] # "idle" \/ down["callee"] # <<>>
  BY <1>1, <1>2, TwoUsers
<1>4. ua'["caller"] \in Early \cup Connected
  <2>1. CASE u = "caller"
    BY <1>1, <1>2, <2>1 DEF HasPair, Outcome, Early, Connected
  <2>2. CASE u = "callee"
    BY <1>1, <1>2, <2>2 DEF HasPair
  <2>3. QED
    BY <2>1, <2>2, TwoUsers
<1>5. QED
  BY <1>1, <1>2, <1>3, <1>4 DEF HasPair

(* A 180 stays before the 200, and is gone when the caller talks. *)
LEMMA HeardRingsFirst ==
  ASSUME Calm, NEW u \in Users, Hear(u), NEW m \in Messages, NEW then, Heard(u, m, then)
  PROVE  RingsFirst'
<1>1. /\ Typed /\ RingsFirst
      /\ Other("caller") = "callee" /\ Other("callee") = "caller"
      /\ "caller" \in Users /\ "callee" \in Users
  BY TwoUsers DEF Calm, Sharing
<1> DEFINE d == down["caller"]
           s == up["callee"]
<1>2. /\ d \in Seq(Messages) /\ s \in Seq(Messages) /\ InOrder(d) /\ InOrder(s)
      /\ CountIn(d, Pickups) > 0 => CountIn(s, Rings) = 0
      /\ ua["caller"] \in Connected => On("callee", Rings) = 0
  BY <1>1 DEF Typed, RingsFirst
<1>3. /\ CountIn(d, Pickups) \in Nat /\ CountIn(s, Rings) \in Nat /\ CountIn(d, Rings) \in Nat
      /\ On("callee", Rings) = CountIn(s, Rings) + CountIn(d, Rings)
  BY <1>1, <1>2, CountInIsNat DEF On
<1>4. CASE u = "caller"
  <2>1. /\ d # <<>> /\ m = Head(d) /\ down'["caller"] = Tail(d) /\ up'["callee"] = s
        /\ ua'["caller"] = then.ua /\ Outcome("caller", ua["caller"], m.type, then)
    BY <1>1, <1>4 DEF Heard
  <2> HIDE DEF d, s
  <2>2. InOrder(Tail(d)) /\ (m.type = "200" => CountIn(Tail(d), Rings) = 0)
    BY <1>2, <2>1, InOrderTail
  <2>3. /\ CountIn(d, Pickups) = CountIn(Tail(d), Pickups) + IF m \in Pickups THEN 1 ELSE 0
        /\ CountIn(d, Rings) = CountIn(Tail(d), Rings) + IF m \in Rings THEN 1 ELSE 0
    BY <1>2, <2>1, CountInTail
  <2>4. CountIn(Tail(d), Pickups) \in Nat /\ CountIn(Tail(d), Rings) \in Nat
    <3>1. Tail(d) \in Seq(Messages)
      BY <1>2, <2>1
    <3>2. QED
      BY <3>1, CountInIsNat
  <2>5. CountIn(Tail(d), Pickups) > 0 => CountIn(s, Rings) = 0
    BY <1>2, <1>3, <2>3, <2>4
  <2>6. On("callee", Rings)' = CountIn(s, Rings) + CountIn(Tail(d), Rings)
    BY <1>1, <2>1 DEF On
  <2>7. ASSUME ua'["caller"] \in Connected PROVE On("callee", Rings)' = 0
    <3>1. CASE ua["caller"] \in Connected
      BY <1>2, <1>3, <2>3, <2>4, <2>6, <3>1
    <3>2. CASE ua["caller"] \notin Connected
      <4>1. m.type = "200"
        BY <2>1, <2>7, <3>2 DEF Outcome, Connected
      <4>2. CountIn(d, Pickups) > 0
        BY <2>3, <2>4, <4>1, KindsAre
      <4>3. QED
        BY <1>2, <2>2, <2>6, <4>1, <4>2
    <3>3. QED
      BY <3>1, <3>2
  <2>8. QED
    BY <1>2, <2>1, <2>2, <2>5, <2>7 DEF RingsFirst, InOrder
<1>5. CASE u = "callee"
  <2>1. /\ down'["caller"] = d /\ up'["callee"] = s \o then.says
        /\ ua'["caller"] = ua["caller"]
    BY <1>1, <1>5 DEF Heard
  <2> HIDE DEF d, s
  <2>2. InOrder(up'["callee"]) /\ CountIn(up'["callee"], Rings) = CountIn(s, Rings)
    <3>1. CASE then.says = <<>>
      <4>1. s \o <<>> = s
        BY <1>2
      <4>2. QED
        BY <1>2, <2>1, <3>1, <4>1
    <3>2. CASE \E x \in Messages : then.says = <<x>> /\ x.type \in {"ACK", "re-200", "re-4xx"}
      <4>1. PICK x \in Messages : then.says = <<x>> /\ x.type \in {"ACK", "re-200", "re-4xx"}
        BY <3>2
      <4>2. s \o <<x>> = Append(s, x)
        BY <1>2, ConcatOne
      <4>3. InOrder(Append(s, x))
        BY <1>2, <4>1, InOrderPut
      <4>4. CountIn(Append(s, x), Rings) = CountIn(s, Rings) + IF x \in Rings THEN 1 ELSE 0
        BY <1>2, CountInAppend
      <4>5. x \notin Rings
        BY <4>1, KindsAre
      <4>6. CountIn(Append(s, x), Rings) = CountIn(s, Rings)
        BY <1>3, <4>4, <4>5
      <4>7. up'["callee"] = Append(s, x)
        BY <2>1, <4>1, <4>2
      <4>8. QED
        BY <4>3, <4>6, <4>7
    <3>3. QED
      BY <3>1, <3>2, HeardSays DEF Leaving
  <2>3. On("callee", Rings)' = On("callee", Rings)
    <3>1. On("callee", Rings)' = CountIn(up'["callee"], Rings) + CountIn(d, Rings)
      BY <1>1, <2>1 DEF On
    <3>2. QED
      BY <1>3, <2>2, <3>1
  <2>4. QED
    BY <1>2, <2>1, <2>2, <2>3 DEF RingsFirst, InOrder
<1>6. QED
  BY <1>4, <1>5, TwoUsers

(* What m says of the SDP. *)
LEMMA HeardSdp ==
  ASSUME NEW u \in Users, NEW m, NEW then, Heard(u, m, then)
  PROVE  /\ m.type \in {"INVITE", "re-INVITE"} => m.sdp = Relay(pair, 1) /\ m.sdp # NoSdp
         /\ m.type \in {"200", "re-200"} => m.sdp = Relay(pair, 2) /\ m.sdp # NoSdp
         /\ m.type \in {"100", "ACK", "re-4xx"} => m.sdp = NoSdp
         /\ u = "callee" => m.type # "180" /\ m.type # "200"
<1>1. m \in Arriving(u)
  BY DEF Heard
<1>2. /\ m.type \in Said(Other(u)) \cup FromCscf \cup {"re-4xx"}
      /\ Carries(m, Relay(pair, End(m)))
  BY <1>1 DEF Arriving
<1>3. /\ m.type \in {"INVITE", "re-INVITE"} => End(m) = 1
      /\ m.type \in {"200", "re-200"} => End(m) = 2
  BY DEF End, Requests
<1>4. \A q, e : Relay(q, e) # NoSdp
  BY DEF Relay, NoSdp
<1>5. u = "callee" => m.type # "180" /\ m.type # "200"
  BY <1>2, TwoUsers DEF Said, Answers, FromCscf
<1>6. QED
  BY <1>2, <1>3, <1>4, <1>5 DEF Carries

(* The counts by the type of what is heard, and by what is said. *)
LEMMA HeardNumbers ==
  ASSUME Calm, NEW u \in Users, Hear(u), NEW m \in Messages, NEW then, Heard(u, m, then),
         NEW v \in Users, v = Other(u)
  PROVE  /\ On(v, Offers) = On(v, Offers)' + IF m.type = "re-INVITE" THEN 1 ELSE 0
         /\ On(v, Replies) = On(v, Replies)' + IF m.type \in {"re-200", "re-4xx"} THEN 1 ELSE 0
         /\ On(v, Acceptances) = On(v, Acceptances)' + IF m.type = "re-200" THEN 1 ELSE 0
         /\ On(v, Acks) = On(v, Acks)' + IF m.type = "ACK" THEN 1 ELSE 0
         /\ On(v, Pickups) = On(v, Pickups)' + IF m.type = "200" THEN 1 ELSE 0
         /\ On(u, Offers)' = On(u, Offers) /\ On(u, Pickups)' = On(u, Pickups)
         /\ then.says = <<>> => /\ On(u, Replies)' = On(u, Replies)
                                /\ On(u, Acceptances)' = On(u, Acceptances)
                                /\ On(u, Acks)' = On(u, Acks)
         /\ then.says = <<Msg("re-200", Direct)>> =>
              /\ On(u, Replies)' = On(u, Replies) + 1
              /\ On(u, Acceptances)' = On(u, Acceptances) + 1
              /\ On(u, Acks)' = On(u, Acks)
         /\ then.says = <<Msg("re-4xx", NoSdp)>> =>
              /\ On(u, Replies)' = On(u, Replies) + 1
              /\ On(u, Acceptances)' = On(u, Acceptances)
              /\ On(u, Acks)' = On(u, Acks)
         /\ then.says = <<Msg("ACK", NoSdp)>> =>
              /\ On(u, Replies)' = On(u, Replies)
              /\ On(u, Acceptances)' = On(u, Acceptances)
              /\ On(u, Acks)' = On(u, Acks) + 1
<1>1. /\ \A K : On(v, K) = On(v, K)' + IF m \in K THEN 1 ELSE 0
      /\ then.says = <<>> => \A K : On(u, K)' = On(u, K)
      /\ \A x \in Messages : then.says = <<x>> =>
           \A K : On(u, K)' = On(u, K) + IF x \in K THEN 1 ELSE 0
  BY HeardCounts
<1>2. \A K : On(u, K) \in Nat
  BY OnIsNat DEF Calm
<1>3. ASSUME NEW x \in Messages, then.says = <<x>>
      PROVE  /\ On(u, Offers)' = On(u, Offers) + IF x.type = "re-INVITE" THEN 1 ELSE 0
             /\ On(u, Pickups)' = On(u, Pickups) + IF x.type = "200" THEN 1 ELSE 0
             /\ On(u, Replies)' = On(u, Replies)
                                    + IF x.type \in {"re-200", "re-4xx"} THEN 1 ELSE 0
             /\ On(u, Acceptances)' = On(u, Acceptances) + IF x.type = "re-200" THEN 1 ELSE 0
             /\ On(u, Acks)' = On(u, Acks) + IF x.type = "ACK" THEN 1 ELSE 0
  BY <1>1, <1>3, KindsAre
<1>4. /\ On(v, Offers) = On(v, Offers)' + IF m.type = "re-INVITE" THEN 1 ELSE 0
      /\ On(v, Replies) = On(v, Replies)' + IF m.type \in {"re-200", "re-4xx"} THEN 1 ELSE 0
      /\ On(v, Acceptances) = On(v, Acceptances)' + IF m.type = "re-200" THEN 1 ELSE 0
      /\ On(v, Acks) = On(v, Acks)' + IF m.type = "ACK" THEN 1 ELSE 0
      /\ On(v, Pickups) = On(v, Pickups)' + IF m.type = "200" THEN 1 ELSE 0
  BY <1>1, KindsAre
<1>5. On(u, Offers)' = On(u, Offers) /\ On(u, Pickups)' = On(u, Pickups)
  <2>1. CASE then.says = <<>>
    BY <1>1, <2>1
  <2>2. CASE \E x \in Messages : then.says = <<x>> /\ x.type \in {"ACK", "re-200", "re-4xx"}
    BY <1>2, <1>3, <2>2
  <2>3. QED
    BY <2>1, <2>2, HeardSays DEF Leaving
<1>6. /\ Msg("re-200", Direct) \in Messages /\ Msg("re-4xx", NoSdp) \in Messages
      /\ Msg("ACK", NoSdp) \in Messages
      /\ \A t, sdp : Msg(t, sdp).type = t
  BY PartyMessages DEF Msg
<1>7. /\ then.says = <<>> => /\ On(u, Replies)' = On(u, Replies)
                             /\ On(u, Acceptances)' = On(u, Acceptances)
                             /\ On(u, Acks)' = On(u, Acks)
      /\ then.says = <<Msg("re-200", Direct)>> =>
           /\ On(u, Replies)' = On(u, Replies) + 1
           /\ On(u, Acceptances)' = On(u, Acceptances) + 1
           /\ On(u, Acks)' = On(u, Acks)
      /\ then.says = <<Msg("re-4xx", NoSdp)>> =>
           /\ On(u, Replies)' = On(u, Replies) + 1
           /\ On(u, Acceptances)' = On(u, Acceptances)
           /\ On(u, Acks)' = On(u, Acks)
      /\ then.says = <<Msg("ACK", NoSdp)>> =>
           /\ On(u, Replies)' = On(u, Replies)
           /\ On(u, Acceptances)' = On(u, Acceptances)
           /\ On(u, Acks)' = On(u, Acks) + 1
  <2>1. ASSUME NEW x \in Messages, then.says = <<x>>
        PROVE  /\ x.type = "re-200" => /\ On(u, Replies)' = On(u, Replies) + 1
                                       /\ On(u, Acceptances)' = On(u, Acceptances) + 1
                                       /\ On(u, Acks)' = On(u, Acks)
               /\ x.type = "re-4xx" => /\ On(u, Replies)' = On(u, Replies) + 1
                                       /\ On(u, Acceptances)' = On(u, Acceptances)
                                       /\ On(u, Acks)' = On(u, Acks)
               /\ x.type = "ACK" => /\ On(u, Replies)' = On(u, Replies)
                                    /\ On(u, Acceptances)' = On(u, Acceptances)
                                    /\ On(u, Acks)' = On(u, Acks) + 1
    BY <1>2, <1>3, <2>1
  <2>2. QED
    BY <1>1, <1>6, <2>1
<1>8. QED
  BY <1>4, <1>5, <1>7

\* All counts are numbers.
Counted == \A u \in Users : \A K : On(u, K) \in Nat

(* So they are, and in the next state. *)
LEMMA CountedIs == (Typed => Counted) /\ (Typed' => Counted')
<1>1. Typed => Counted
  BY OnIsNat DEF Counted
<1>2. QED
  BY <1>1, PTL

(* The re-INVITEs, their answers and the ACKs stay what the parties wait for. *)
LEMMA HeardWaits ==
  ASSUME Calm, NEW u \in Users, Hear(u), NEW m \in Messages, NEW then, Heard(u, m, then)
  PROVE  \A w \in Users : OneOffer(w)' /\ Accepted(w)' /\ OneAck(w)'
<1>1. PICK v \in Users : v = Other(u)
  BY TwoUsers
<1>2. /\ v # u /\ Other(u) = v /\ Other(v) = u
      /\ \A w \in Users : w = u \/ w = v
      /\ (u = "caller" /\ v = "callee") \/ (u = "callee" /\ v = "caller")
  BY <1>1, TwoUsers
<1>3. Typed /\ Typed' /\ Agreeing /\ RingsFirst
  BY HearTyped DEF Calm, Sharing
<1>4. /\ OneOffer(u) /\ OneOffer(v) /\ Accepted(u) /\ Accepted(v) /\ OneAck(u) /\ OneAck(v)
      /\ Unanswered
  BY <1>3 DEF Agreeing
<1>5. \A w \in Users : \A K : On(w, K) \in Nat /\ On(w, K)' \in Nat
  BY <1>3, CountedIs DEF Counted
<1>6. On(u, Acceptances) <= On(u, Replies) /\ On(v, Acceptances) <= On(v, Replies)
  BY <1>3, OnAtMost DEF Acceptances, Replies, Answers
<1>7. /\ Outcome(u, ua[u], m.type, then) /\ ua'[u] = then.ua /\ ua'[v] = ua[v]
      /\ told'[v] = told[v]
      /\ m.sdp # NoSdp /\ (then.ua # ua[u] \/ m.type = "180") => told'[u] = m.sdp
      /\ m.sdp = NoSdp \/ ~ (then.ua # ua[u] \/ m.type = "180") => told'[u] = told[u]
      /\ UNCHANGED <<faults, pair>>
  BY <1>1 DEF Heard
<1>8. /\ m.type \in {"INVITE", "re-INVITE"} => m.sdp = Relay(pair, 1) /\ m.sdp # NoSdp
      /\ m.type \in {"200", "re-200"} => m.sdp = Relay(pair, 2) /\ m.sdp # NoSdp
      /\ m.type \in {"100", "ACK", "re-4xx"} => m.sdp = NoSdp
      /\ u = "callee" => m.type # "180" /\ m.type # "200"
  BY HeardSdp
\* The counts before and after.
<1>9. PICK offerU \in Nat, offerV \in Nat, replyU \in Nat, replyV \in Nat, takeU \in Nat,
           takeV \in Nat, ackU \in Nat, ackV \in Nat, pickU \in Nat, pickV \in Nat :
       /\ offerU = On(u, Offers) /\ offerV = On(v, Offers)
       /\ replyU = On(u, Replies) /\ replyV = On(v, Replies)
       /\ takeU = On(u, Acceptances) /\ takeV = On(v, Acceptances)
       /\ ackU = On(u, Acks) /\ ackV = On(v, Acks)
       /\ pickU = On(u, Pickups) /\ pickV = On(v, Pickups)
  BY <1>5
<1>10. PICK offerU2 \in Nat, offerV2 \in Nat, replyU2 \in Nat, replyV2 \in Nat, takeU2 \in Nat,
           takeV2 \in Nat, ackU2 \in Nat, ackV2 \in Nat, pickU2 \in Nat, pickV2 \in Nat :
       /\ offerU2 = On(u, Offers)' /\ offerV2 = On(v, Offers)'
       /\ replyU2 = On(u, Replies)' /\ replyV2 = On(v, Replies)'
       /\ takeU2 = On(u, Acceptances)' /\ takeV2 = On(v, Acceptances)'
       /\ ackU2 = On(u, Acks)' /\ ackV2 = On(v, Acks)'
       /\ pickU2 = On(u, Pickups)' /\ pickV2 = On(v, Pickups)'
  BY <1>5
<1>11. PICK s, sv, r, rv, r2, t :
       /\ s = ua[u] /\ sv = ua[v] /\ t = m.type /\ r = told[u] /\ rv = told[v] /\ r2 = told'[u]
  OBVIOUS
<1>12. /\ takeU <= replyU /\ takeV <= replyV
       /\ offerV = offerV2 + IF t = "re-INVITE" THEN 1 ELSE 0
       /\ replyV = replyV2 + IF t \in {"re-200", "re-4xx"} THEN 1 ELSE 0
       /\ takeV = takeV2 + IF t = "re-200" THEN 1 ELSE 0
       /\ ackV = ackV2 + IF t = "ACK" THEN 1 ELSE 0
       /\ pickV = pickV2 + IF t = "200" THEN 1 ELSE 0
       /\ offerU2 = offerU /\ pickU2 = pickU
       /\ then.says = <<>> => replyU2 = replyU /\ takeU2 = takeU /\ ackU2 = ackU
       /\ then.says = <<Msg("re-200", Direct)>> =>
            replyU2 = replyU + 1 /\ takeU2 = takeU + 1 /\ ackU2 = ackU
       /\ then.says = <<Msg("re-4xx", NoSdp)>> =>
            replyU2 = replyU + 1 /\ takeU2 = takeU /\ ackU2 = ackU
       /\ then.says = <<Msg("ACK", NoSdp)>> =>
            replyU2 = replyU /\ takeU2 = takeU /\ ackU2 = ackU + 1
  <2>1. takeU <= replyU /\ takeV <= replyV
    BY <1>6, <1>9
  <2>2. /\ On(v, Offers) = On(v, Offers)' + IF m.type = "re-INVITE" THEN 1 ELSE 0
        /\ On(v, Replies) = On(v, Replies)' + IF m.type \in {"re-200", "re-4xx"} THEN 1 ELSE 0
        /\ On(v, Acceptances) = On(v, Acceptances)' + IF m.type = "re-200" THEN 1 ELSE 0
        /\ On(v, Acks) = On(v, Acks)' + IF m.type = "ACK" THEN 1 ELSE 0
        /\ On(v, Pickups) = On(v, Pickups)' + IF m.type = "200" THEN 1 ELSE 0
        /\ On(u, Offers)' = On(u, Offers) /\ On(u, Pickups)' = On(u, Pickups)
    BY <1>1, HeardNumbers
  <2>3. /\ then.says = <<>> => /\ On(u, Replies)' = On(u, Replies)
                                /\ On(u, Acceptances)' = On(u, Acceptances)
                                /\ On(u, Acks)' = On(u, Acks)
        /\ then.says = <<Msg("re-200", Direct)>> =>
             /\ On(u, Replies)' = On(u, Replies) + 1
             /\ On(u, Acceptances)' = On(u, Acceptances) + 1
             /\ On(u, Acks)' = On(u, Acks)
        /\ then.says = <<Msg("re-4xx", NoSdp)>> =>
             /\ On(u, Replies)' = On(u, Replies) + 1
             /\ On(u, Acceptances)' = On(u, Acceptances)
             /\ On(u, Acks)' = On(u, Acks)
        /\ then.says = <<Msg("ACK", NoSdp)>> =>
             /\ On(u, Replies)' = On(u, Replies)
             /\ On(u, Acceptances)' = On(u, Acceptances)
             /\ On(u, Acks)' = On(u, Acks) + 1
    BY <1>1, HeardNumbers
  <2>4. QED
    BY <1>9, <1>10, <1>11, <2>1, <2>2, <2>3
<1>13. /\ offerU + replyV <= 1 /\ offerV + replyU <= 1
       /\ offerU + replyV = 1 => s = "reinviting"
       /\ offerV + replyU = 1 => sv = "reinviting"
       /\ takeU > 0 => s = "reanswered" /\ r = Relay(pair, 1) /\ ackV = 0
       /\ takeV > 0 => sv = "reanswered" /\ rv = Relay(pair, 1) /\ ackU = 0
       /\ ackU <= 1 /\ ackV <= 1
       /\ ackU = 1 => sv \in {"answered", "reanswered"}
       /\ ackV = 1 => s \in {"answered", "reanswered"}
  BY <1>2, <1>4, <1>9, <1>11 DEF OneOffer, Accepted, OneAck
<1>14. ASSUME /\ offerU2 + replyV2 <= 1 /\ offerV2 + replyU2 <= 1
              /\ offerU2 + replyV2 = 1 => then.ua = "reinviting"
              /\ offerV2 + replyU2 = 1 => sv = "reinviting"
              /\ takeU2 > 0 => then.ua = "reanswered" /\ r2 = Relay(pair, 1) /\ ackV2 = 0
              /\ takeV2 > 0 => sv = "reanswered" /\ rv = Relay(pair, 1) /\ ackU2 = 0
              /\ ackU2 <= 1 /\ ackV2 <= 1
              /\ ackU2 = 1 => sv \in {"answered", "reanswered"}
              /\ ackV2 = 1 => then.ua \in {"answered", "reanswered"}
       PROVE  \A w \in Users : OneOffer(w)' /\ Accepted(w)' /\ OneAck(w)'
  BY <1>2, <1>7, <1>10, <1>11, <1>14 DEF OneOffer, Accepted, OneAck
<1>15. t = "180" => u = "caller" /\ s \notin Connected
  <2>1. ASSUME t = "180" PROVE On(v, Rings) # 0
    <3>1. m \in Rings
      BY <1>11, <2>1, KindsAre
    <3>2. On(v, Rings) = On(v, Rings)' + 1
      BY <1>1, <3>1, HeardCounts
    <3>3. On(v, Rings)' \in Nat
      BY <1>5
    <3>4. QED
      BY <3>2, <3>3
  <2>2. QED
    BY <1>2, <1>3, <1>8, <1>11, <2>1 DEF RingsFirst
<1>16. CASE then.ua = s /\ then.says = <<>> /\ ~ (t = "re-200" /\ s = "reinviting")
  <2>1. t # "re-200"
    BY <1>12, <1>13, <1>16
  <2>2. takeU = 0 \/ r2 = r
    BY <1>7, <1>11, <1>13, <1>16, <1>15 DEF Connected
  <2>3. QED
    BY <1>12, <1>13, <1>14, <1>16, <2>1, <2>2
<1>17. CASE /\ t = "re-INVITE" /\ s = "talking"
            /\ then.ua = "reanswered" /\ then.says = <<Msg("re-200", Direct)>>
  <2>1. r2 = Relay(pair, 1)
    BY <1>7, <1>8, <1>11, <1>17
  <2>2. QED
    BY <1>12, <1>13, <1>14, <1>17, <2>1
<1>18. CASE /\ t = "re-INVITE" /\ s = "reinviting"
            /\ then.ua = s /\ then.says = <<Msg("re-4xx", NoSdp)>>
  BY <1>12, <1>13, <1>14, <1>18
<1>19. CASE /\ t = "re-200" /\ s = "reinviting"
            /\ then.ua = "talking" /\ then.says = <<Msg("ACK", NoSdp)>>
  BY <1>12, <1>13, <1>14, <1>19
<1>20. CASE /\ t \in {"re-4xx", "ACK"} /\ s \in {"reinviting", "reanswered", "answered"}
            /\ then.ua = "talking" /\ then.says = <<>>
            /\ t = "re-4xx" => s = "reinviting"
            /\ s = "reinviting" => t = "re-4xx"
  BY <1>12, <1>13, <1>14, <1>20
<1>21. CASE /\ s \in {"inviting", "idle"} /\ t \in {"100", "180", "INVITE"}
            /\ then.ua \in {"proceeding", "ringing"} /\ then.says = <<>>
  BY <1>12, <1>13, <1>14, <1>21
<1>22. CASE /\ t = "200" /\ u = "caller" /\ s \in {"inviting", "proceeding"}
            /\ then.ua = "talking" /\ then.says = <<Msg("ACK", NoSdp)>>
  <2>1. sv = "answered" /\ ackU = 0
    <3>1. pickV > 0
      BY <1>12, <1>22
    <3>2. On("callee", Pickups) # 0 /\ ua["caller"] \in Early
      BY <1>2, <1>9, <1>11, <1>22, <3>1 DEF Early
    <3>3. ua["callee"] \notin Unpicked \cup Connected /\ On("caller", Acks) = 0
      BY <1>4, <3>2 DEF Unanswered
    <3>4. ua["callee"] \in Talks \cup {"ringing", "rung", "answered"} /\ ua["callee"] # "over"
      BY <1>3 DEF Typed, TypeOK, Calm, Live
    <3>5. ua["callee"] = "answered"
      BY <3>3, <3>4 DEF Unpicked, Connected, Talks
    <3>6. QED
      BY <1>2, <1>9, <1>11, <1>22, <3>3, <3>5
  <2>2. QED
    BY <1>12, <1>13, <1>14, <1>22, <2>1
<1>23. QED
  BY <1>7, <1>11, <1>16, <1>17, <1>18, <1>19, <1>20, <1>21, <1>22 DEF Outcome

(* Until the caller hears the 200 nobody talks, and the callee goes by the INVITE. *)
LEMMA HeardFirst ==
  ASSUME Calm, NEW u \in Users, Hear(u), NEW m \in Messages, NEW then, Heard(u, m, then)
  PROVE  Unanswered' /\ Invited' /\ NoOffers'
<1>1. /\ Typed /\ Typed' /\ Unanswered /\ Invited /\ NoOffers
      /\ \A w \in Users : OneOffer(w) /\ OneAck(w)
  BY HearTyped DEF Calm, Sharing, Agreeing
<1>2. /\ Other("caller") = "callee" /\ Other("callee") = "caller"
      /\ "caller" \in Users /\ "callee" \in Users
  BY TwoUsers
<1>3. /\ Outcome(u, ua[u], m.type, then) /\ ua'[u] = then.ua /\ ua'[Other(u)] = ua[Other(u)]
      /\ told'[Other(u)] = told[Other(u)]
      /\ m.sdp # NoSdp /\ (then.ua # ua[u] \/ m.type = "180") => told'[u] = m.sdp
      /\ m.sdp = NoSdp \/ ~ (then.ua # ua[u] \/ m.type = "180") => told'[u] = told[u]
      /\ UNCHANGED <<faults, pair>>
  BY DEF Heard
<1>4. \A w \in Users : \A K : On(w, K) \in Nat /\ On(w, K)' \in Nat
  BY <1>1, CountedIs DEF Counted
<1>5. CASE u = "caller"
  <2>1. /\ ua'["caller"] = then.ua /\ ua'["callee"] = ua["callee"]
        /\ told'["callee"] = told["callee"]
    BY <1>2, <1>3, <1>5
  <2>2. /\ On("callee", Offers) = On("callee", Offers)' + IF m.type = "re-INVITE" THEN 1 ELSE 0
        /\ On("callee", Pickups) = On("callee", Pickups)' + IF m.type = "200" THEN 1 ELSE 0
        /\ then.says = <<>> => On("caller", Acks)' = On("caller", Acks)
    BY <1>2, <1>5, HeardNumbers
  <2>3. /\ On("callee", Offers) \in Nat /\ On("callee", Offers)' \in Nat
        /\ On("callee", Pickups) \in Nat /\ On("callee", Pickups)' \in Nat
        /\ On("caller", Replies) \in Nat
    BY <1>2, <1>4
  <2>4. then.ua \in Early => ua["caller"] \in Early /\ then.says = <<>>
    BY <1>3, <1>5 DEF Outcome, Early
  <2>5. Unanswered'
    <3>1. ASSUME ua["callee"] \in Unpicked
          PROVE  On("callee", Pickups)' = 0 /\ then.ua \in Early
      <4>1. On("callee", Pickups) = 0 /\ ua["caller"] \in Early
        BY <1>1, <3>1 DEF Unanswered
      <4>2. On("callee", Pickups)' = 0 /\ m.type # "200"
        BY <2>2, <2>3, <4>1
      <4>3. QED
        BY <1>3, <1>5, <4>1, <4>2 DEF Outcome, Early
    <3>2. QED
      BY <1>1, <2>1, <2>2, <2>4, <3>1 DEF Unanswered
  <2>6. Invited'
    BY <1>1, <1>3, <2>1 DEF Invited
  <2>7. m.type = "re-INVITE" => ua["callee"] = "reinviting"
    BY <1>1, <1>2, <2>2, <2>3 DEF OneOffer
  <2>8. NoOffers'
    <3>1. SUFFICES ASSUME "reinvite" \notin faults PROVE NoOffers'
      BY <1>3 DEF NoOffers
    <3>2. /\ ua["caller"] \notin {"reinviting", "reanswered"}
          /\ ua["callee"] \notin {"reinviting", "reanswered"}
      BY <1>1, <1>2, <3>1 DEF NoOffers
    <3>3. then.ua \notin {"reinviting", "reanswered"}
      BY <1>3, <1>5, <2>7, <3>2 DEF Outcome
    <3>4. \A w \in Users : ua'[w] \notin {"reinviting", "reanswered"}
      BY <2>1, <3>2, <3>3, TwoUsers
    <3>5. QED
      BY <3>4 DEF NoOffers
  <2>9. QED
    BY <2>5, <2>6, <2>8
<1>6. CASE u = "callee"
  <2>1. ua'["callee"] = then.ua /\ ua'["caller"] = ua["caller"]
    BY <1>2, <1>3, <1>6
  <2>2. /\ On("caller", Offers) = On("caller", Offers)' + IF m.type = "re-INVITE" THEN 1 ELSE 0
        /\ On("caller", Acks) = On("caller", Acks)' + IF m.type = "ACK" THEN 1 ELSE 0
        /\ On("callee", Pickups)' = On("callee", Pickups)
    BY <1>2, <1>6, HeardNumbers
  <2>3. /\ On("caller", Offers) \in Nat /\ On("caller", Offers)' \in Nat
        /\ On("caller", Acks) \in Nat /\ On("caller", Acks)' \in Nat
        /\ On("callee", Replies) \in Nat
    BY <1>2, <1>4
  <2>4. Unanswered'
    <3>1. ASSUME ua["caller"] \in Early PROVE On("caller", Acks)' = 0 /\ then.ua \notin Connected
      <4>1. On("caller", Acks) = 0 /\ ua["callee"] \notin Connected
        BY <1>1, <3>1 DEF Unanswered
      <4>2. On("caller", Acks)' = 0 /\ m.type # "ACK"
        BY <2>2, <2>3, <4>1
      <4>3. QED
        BY <1>3, <1>6, <4>1, <4>2 DEF Outcome, Connected
    <3>2. then.ua \in Unpicked => ua["callee"] \in Unpicked
      BY <1>3, <1>6 DEF Outcome, Unpicked
    <3>3. QED
      BY <1>1, <2>1, <2>2, <3>1, <3>2 DEF Unanswered
  <2>5. Invited'
    <3>1. /\ m.type = "INVITE" => m.sdp = Relay(pair, 1) /\ m.sdp # NoSdp
          /\ m.type # "180"
      BY <1>6, HeardSdp
    <3>2. SUFFICES ASSUME then.ua \in {"ringing", "rung", "answered"}
                   PROVE  told'["callee"] = Relay(pair, 1)
      BY <1>3, <2>1 DEF Invited
    <3>3. CASE then.ua = ua["callee"]
      BY <1>1, <1>3, <1>6, <3>1, <3>2, <3>3 DEF Invited
    <3>4. CASE then.ua # ua["callee"]
      <4>1. m.type = "INVITE"
        BY <1>3, <1>6, <3>2, <3>4 DEF Outcome
      <4>2. QED
        BY <1>3, <1>6, <3>1, <3>4, <4>1
    <3>5. QED
      BY <3>3, <3>4
  <2>6. m.type = "re-INVITE" => ua["caller"] = "reinviting"
    BY <1>1, <1>2, <2>2, <2>3 DEF OneOffer
  <2>7. NoOffers'
    <3>1. SUFFICES ASSUME "reinvite" \notin faults PROVE NoOffers'
      BY <1>3 DEF NoOffers
    <3>2. /\ ua["caller"] \notin {"reinviting", "reanswered"}
          /\ ua["callee"] \notin {"reinviting", "reanswered"}
      BY <1>1, <1>2, <3>1 DEF NoOffers
    <3>3. then.ua \notin {"reinviting", "reanswered"}
      BY <1>3, <1>6, <2>6, <3>2 DEF Outcome
    <3>4. \A w \in Users : ua'[w] \notin {"reinviting", "reanswered"}
      BY <2>1, <3>2, <3>3, TwoUsers
    <3>5. QED
      BY <3>4 DEF NoOffers
  <2>8. QED
    BY <2>4, <2>5, <2>7
<1>7. QED
  BY <1>5, <1>6, TwoUsers

(* The parties have been told the relay still, or have just been. *)
LEMMA HeardTold ==
  ASSUME Calm, NEW u \in Users, Hear(u), NEW m \in Messages, NEW then, Heard(u, m, then)
  PROVE  Told'
<1>1. PICK v \in Users : v = Other(u)
  BY TwoUsers
<1>2. /\ v # u /\ Other(u) = v /\ Other(v) = u
      /\ \A w \in Users : w = u \/ w = v
      /\ (u = "caller" /\ v = "callee") \/ (u = "callee" /\ v = "caller")
  BY <1>1, TwoUsers
<1>3. /\ Typed /\ Typed' /\ Unanswered /\ Invited /\ Told /\ RingsFirst
      /\ OneOffer(u) /\ Accepted(v)
  BY HearTyped DEF Calm, Sharing, Agreeing
<1>4. /\ Outcome(u, ua[u], m.type, then) /\ ua'[u] = then.ua /\ ua'[v] = ua[v]
      /\ told'[v] = told[v]
      /\ m.sdp # NoSdp /\ (then.ua # ua[u] \/ m.type = "180") => told'[u] = m.sdp
      /\ m.sdp = NoSdp \/ ~ (then.ua # ua[u] \/ m.type = "180") => told'[u] = told[u]
      /\ UNCHANGED <<faults, pair>>
  BY <1>1 DEF Heard
<1>5. \A w \in Users : \A K : On(w, K) \in Nat /\ On(w, K)' \in Nat
  BY <1>3, CountedIs DEF Counted
<1>6. /\ On(v, Replies) = On(v, Replies)' + IF m.type \in {"re-200", "re-4xx"} THEN 1 ELSE 0
      /\ On(v, Acceptances) = On(v, Acceptances)' + IF m.type = "re-200" THEN 1 ELSE 0
      /\ On(v, Pickups) = On(v, Pickups)' + IF m.type = "200" THEN 1 ELSE 0
  BY <1>1, HeardNumbers
<1>7. /\ On(u, Acceptances) \in Nat /\ On(u, Acceptances)' \in Nat
      /\ On(v, Acceptances) \in Nat /\ On(v, Acceptances)' \in Nat
      /\ On(v, Replies) \in Nat /\ On(v, Replies)' \in Nat
      /\ On(v, Pickups) \in Nat /\ On(v, Pickups)' \in Nat
      /\ On(u, Offers) \in Nat
  BY <1>5
<1>8. /\ m.type \in {"200", "re-200"} => m.sdp = Relay(pair, 2) /\ m.sdp # NoSdp
      /\ m.type \in {"100", "ACK", "re-4xx"} => m.sdp = NoSdp
      /\ u = "callee" => m.type # "180" /\ m.type # "200"
  BY HeardSdp
<1>9. ASSUME told'[u] = Relay(pair, 2), told[v] = Relay(pair, 1)
      PROVE  Matched'
  <2>1. told'[v] = Relay(pair, 1) /\ pair' = pair
    BY <1>4, <1>9
  <2>2. {told'[w] : w \in Users} = {Relay(pair, 1), Relay(pair, 2)}
    BY <1>2, <1>9, <2>1
  <2>3. QED
    BY <2>1, <2>2 DEF Matched
<1>10. SUFFICES ASSUME ua'["caller"] \in Connected, ua'["callee"] \in {"answered"} \cup Connected
                PROVE  Matched' \/ \E w \in Users : On(w, Acceptances)' > 0
  BY DEF Told
<1>11. m.type = "re-200" => ua[u] = "reinviting"
  BY <1>2, <1>3, <1>6, <1>7 DEF OneOffer
<1>12. m.type = "180" => u = "caller" /\ ua[u] \notin Connected
  <2>1. ASSUME m.type = "180" PROVE On(v, Rings) # 0
    <3>1. On(v, Rings) = On(v, Rings)' + 1
      BY <1>1, <2>1, HeardCounts, KindsAre
    <3>2. On(v, Rings)' \in Nat
      BY <1>5
    <3>3. QED
      BY <3>1, <3>2
  <2>2. QED
    BY <1>2, <1>3, <1>8, <2>1 DEF RingsFirst
<1>13. CASE m.type = "re-200"
  <2>1. told'[u] = Relay(pair, 2)
    BY <1>4, <1>8, <1>11, <1>13 DEF Outcome
  <2>2. On(v, Acceptances) > 0
    BY <1>6, <1>7, <1>13
  <2>3. told[v] = Relay(pair, 1)
    BY <1>3, <2>2 DEF Accepted
  <2>4. QED
    BY <1>9, <2>1, <2>3
<1>14. CASE m.type = "re-INVITE" /\ ua[u] = "talking" /\ then.ua # ua[u]
  <2>1. then.says = <<Msg("re-200", Direct)>>
    BY <1>4, <1>14 DEF Outcome
  <2>2. On(u, Acceptances)' = On(u, Acceptances) + 1
    BY <1>1, <2>1, HeardNumbers
  <2>3. On(u, Acceptances)' > 0
    BY <1>7, <2>2
  <2>4. QED
    BY <2>3
<1>15. CASE m.type = "200" /\ u = "caller" /\ ua[u] \in {"inviting", "proceeding"}
            /\ then.ua = "talking"
  <2>1. told'[u] = Relay(pair, 2)
    BY <1>4, <1>8, <1>15
  <2>2. ua["callee"] = "answered"
    <3>1. ua["callee"] \notin Connected
      BY <1>3, <1>15 DEF Unanswered, Early
    <3>2. QED
      BY <1>2, <1>4, <1>10, <1>15, <3>1
  <2>3. told[v] = Relay(pair, 1)
    BY <1>2, <1>3, <1>15, <2>2 DEF Invited
  <2>4. QED
    BY <1>9, <2>1, <2>3
<1>16. CASE /\ m.type \notin {"re-200", "180"}
            /\ then.ua = ua[u] \/ m.sdp = NoSdp
            /\ ua[u] \in Connected \cup {"answered"} /\ (u = "caller" => ua[u] \in Connected)
            /\ then.says = <<>> \/ then.says = <<Msg("re-4xx", NoSdp)>>
  <2>1. told'[u] = told[u] /\ told'[v] = told[v]
    BY <1>4, <1>16
  <2>2. ua["caller"] \in Connected /\ ua["callee"] \in {"answered"} \cup Connected
    BY <1>2, <1>4, <1>10, <1>16
  <2>3. On(u, Acceptances)' = On(u, Acceptances)
    BY <1>1, <1>16, HeardNumbers
  <2>4. On(v, Acceptances)' = On(v, Acceptances)
    BY <1>6, <1>7, <1>16
  <2>5. Matched \/ \E w \in Users : On(w, Acceptances) > 0
    BY <1>3, <2>2 DEF Told
  <2>6. Matched => Matched'
    <3>1. \A w \in Users : told'[w] = told[w]
      BY <1>2, <2>1
    <3>2. QED
      BY <1>4, <3>1 DEF Matched
  <2>7. QED
    BY <1>2, <2>3, <2>4, <2>5, <2>6
<1>17. QED
  <2>1. then.ua \in {"answered"} \cup Connected /\ (u = "caller" => then.ua \in Connected)
    BY <1>2, <1>4, <1>10
  <2>2. QED
    BY <1>4, <1>8, <1>11, <1>12, <1>13, <1>14, <1>15, <1>16, <2>1 DEF Outcome, Connected

(* A party that hears a message and stays keeps every part. *)
LEMMA HearKept ==
  ASSUME Calm, NEW u \in Users, Hear(u), Live'
  PROVE  Sharing'
<1>1. PICK m \in Messages : \E then : Heard(u, m, then)
  BY HeardIs
<1>2. PICK then : Heard(u, m, then)
  BY <1>1
<1>3. Messaging' /\ NotYet' /\ HasPair' /\ RingsFirst'
  BY <1>2, HeardMessaging, HeardNotYet, HeardHasPair, HeardRingsFirst
<1>4. Agreeing'
  BY <1>2, HeardWaits, HeardFirst, HeardTold DEF Agreeing
<1>5. QED
  BY <1>3, <1>4 DEF Sharing

-----------------------------------------------------------------------------
(* The parties keep Sharing when they say something by themselves. *)

\* What a party that stays says in the state s, to be in the state to.
Spoken(u, s, to, x) ==
  \/ u = "caller" /\ s \in {"idle", "inviting"} /\ to = "inviting" /\ x.type = "INVITE"
  \/ u = "callee" /\ s = "ringing" /\ to = "rung" /\ x.type = "180"
  \/ u = "callee" /\ s \in {"ringing", "rung", "answered"} /\ to = "answered" /\ x.type = "200"
  \/ s = "talking" /\ to = "reinviting" /\ x.type = "re-INVITE" /\ "reinvite" \in faults

(* There is nothing else, where late offers do not happen. *)
LEMMA SpokenIs ==
  ASSUME Calm, Acts, Live'
  PROVE  \E u \in Users, x \in Messages : \E from, to :
           /\ Says(u, from, to, <<x>>) /\ ua[u] \in from
           /\ x \in Leaving(u) /\ Spoken(u, ua[u], to, x)
<1>1. /\ "caller" \in Users /\ "callee" \in Users /\ ua \in [Users -> States]
      /\ "late_offer" \notin faults
  BY TwoUsers DEF Calm, Typed, Settled
<1>2. \A t, sdp : Msg(t, sdp).type = t /\ Msg(t, sdp).sdp = sdp
  BY DEF Msg
<1>3. \A u \in Users : \A from, to, ms : Says(u, from, to, ms) => ua'[u] = to /\ ua[u] \in from
  BY <1>1 DEF Says
<1>4. CASE Call
  <2>1. Says("caller", {"idle"}, "inviting", <<Msg("INVITE", Direct)>>)
    BY <1>1, <1>4, SdpIs DEF Call
  <2>2. Msg("INVITE", Direct) \in Leaving("caller")
    BY <1>2, PartyMessages DEF Leaving, Carries, Said
  <2>3. Msg("INVITE", Direct) \in Messages /\ Msg("INVITE", Direct).type = "INVITE"
    BY <1>2, PartyMessages
  <2> DEFINE x == Msg("INVITE", Direct)
  <2> HIDE DEF x
  <2>4. ua["caller"] \in {"idle"}
    BY <1>1, <1>3, <2>1
  <2>5. Spoken("caller", ua["caller"], "inviting", x)
    BY <2>3, <2>4 DEF Spoken, x
  <2>6. QED
    BY <1>1, <2>1, <2>2, <2>3, <2>4, <2>5 DEF x
<1>5. ASSUME NEW u \in Users, Party(u)
      PROVE  \E x \in Messages : \E from, to :
               /\ Says(u, from, to, <<x>>) /\ ua[u] \in from
               /\ x \in Leaving(u) /\ Spoken(u, ua[u], to, x)
  <2>1. CASE Repeat(u) /\ u = "caller"
    <3>1. Says(u, {"inviting"}, "inviting", <<Msg("INVITE", Direct)>>)
      BY <2>1 DEF Repeat
    <3>2. Msg("INVITE", Direct) \in Leaving(u)
      BY <1>2, <2>1, PartyMessages DEF Leaving, Carries, Said
    <3>3. QED
      BY <1>2, <1>3, <2>1, <3>1, <3>2, PartyMessages DEF Spoken
  <2>2. CASE Repeat(u) /\ u = "callee"
    <3>1. Says(u, {"answered"}, "answered", <<Msg("200", Direct)>>)
      BY <2>2 DEF Repeat
    <3>2. Msg("200", Direct) \in Leaving(u)
      BY <1>2, <2>2, PartyMessages DEF Leaving, Carries, Said
    <3>3. QED
      BY <1>2, <1>3, <2>2, <3>1, <3>2, PartyMessages DEF Spoken
  <2>3. CASE Reinvite(u)
    <3>1. Says(u, {"talking"}, "reinviting", <<Msg("re-INVITE", Direct)>>) /\ "reinvite" \in faults
      BY <2>3 DEF Reinvite
    <3>2. Msg("re-INVITE", Direct) \in Leaving(u)
      BY <1>2, PartyMessages DEF Leaving, Carries, Said
    <3>3. QED
      BY <1>2, <1>3, <3>1, <3>2, PartyMessages DEF Spoken
  <2>4. CASE Bye(u)
    <3>1. ua'[u] = "over"
      BY <1>3, <2>4 DEF Bye
    <3>2. QED
      BY <3>1, TwoUsers DEF Live
  <2>5. QED
    BY <1>5, <2>1, <2>2, <2>3, <2>4, TwoUsers DEF Party
<1>6. CASE Ring
  <2>1. PICK sdp \in {NoSdp, Direct} : Says("callee", {"ringing"}, "rung", <<Msg("180", sdp)>>)
    BY <1>6 DEF Ring
  <2>2. Msg("180", sdp) \in Messages
    BY PartyMessages
  <2>3. Msg("180", sdp) \in Leaving("callee")
    BY <1>2, <2>2 DEF Leaving, Carries, Said
  <2> DEFINE x == Msg("180", sdp)
  <2>4. x.type = "180" /\ ua["callee"] \in {"ringing"}
    BY <1>1, <1>2, <1>3, <2>1
  <2> HIDE DEF x
  <2>5. Spoken("callee", ua["callee"], "rung", x)
    BY <2>4 DEF Spoken
  <2>6. QED
    BY <1>1, <2>1, <2>2, <2>3, <2>4, <2>5 DEF x
<1>7. CASE Answer
  <2>1. Says("callee", {"ringing", "rung"}, "answered", <<Msg("200", Direct)>>)
    BY <1>7 DEF Answer
  <2>2. Msg("200", Direct) \in Leaving("callee")
    BY <1>2, PartyMessages DEF Leaving, Carries, Said
  <2> DEFINE x == Msg("200", Direct)
  <2>3. x \in Messages /\ x.type = "200" /\ ua["callee"] \in {"ringing", "rung"}
    BY <1>1, <1>2, <1>3, <2>1, PartyMessages
  <2> HIDE DEF x
  <2>4. Spoken("callee", ua["callee"], "answered", x)
    BY <2>3 DEF Spoken
  <2>5. QED
    BY <1>1, <2>1, <2>2, <2>3, <2>4 DEF x
<1>8. CASE CallerCancels \/ Refuse
  <2>1. ua'["caller"] = "cancelling" \/ ua'["callee"] = "over"
    BY <1>1, <1>3, <1>8 DEF CallerCancels, Refuse
  <2>2. QED
    BY <2>1 DEF Live
<1>9. QED
  BY <1>4, <1>5, <1>6, <1>7, <1>8 DEF Acts

(* What the parties have agreed on stays in step with where they are. *)
LEMMA SaidAgreeing ==
  ASSUME Calm, NEW u \in Users, NEW from, NEW to, NEW x \in Messages,
         Says(u, from, to, <<x>>), Spoken(u, ua[u], to, x)
  PROVE  Agreeing'
<1>1. PICK v \in Users : v = Other(u)
  BY TwoUsers
<1>2. /\ v # u /\ Other(u) = v /\ Other(v) = u
      /\ \A w \in Users : w = u \/ w = v
      /\ (u = "caller" /\ v = "callee") \/ (u = "callee" /\ v = "caller")
  BY <1>1, TwoUsers
<1>3. /\ Typed /\ Unanswered /\ Invited /\ Told /\ NoOffers
      /\ OneOffer(u) /\ OneOffer(v) /\ Accepted(u) /\ Accepted(v) /\ OneAck(u) /\ OneAck(v)
  BY DEF Calm, Sharing, Agreeing
<1>4. \A w \in Users : \A K : On(w, K) \in Nat
  BY <1>3, CountedIs DEF Counted
<1>5. /\ ua'[u] = to /\ ua'[v] = ua[v] /\ UNCHANGED <<faults, pair, told>>
  BY <1>2, <1>3 DEF Says, port, Typed
<1>6. Spoken(u, ua[u], to, x)
  OBVIOUS
<1>7. /\ \A K : On(u, K)' = On(u, K) + IF x \in K THEN 1 ELSE 0
      /\ \A K : On(v, K)' = On(v, K)
  BY <1>1, <1>3, SayCounts
<1>8. x \notin Replies /\ x \notin Acceptances /\ x \notin Acks
  BY <1>6, KindsAre DEF Spoken
<1>9. /\ On(u, Replies)' = On(u, Replies) /\ On(u, Acceptances)' = On(u, Acceptances)
      /\ On(u, Acks)' = On(u, Acks)
      /\ On(u, Offers)' = On(u, Offers) + IF x.type = "re-INVITE" THEN 1 ELSE 0
      /\ On(u, Pickups)' = On(u, Pickups) + IF x.type = "200" THEN 1 ELSE 0
  BY <1>4, <1>7, <1>8, KindsAre
<1>10. /\ On(u, Offers) \in Nat /\ On(v, Replies) \in Nat
       /\ On(u, Acks) \in Nat /\ On(v, Acks) \in Nat /\ On(u, Pickups) \in Nat
       /\ On(u, Acceptances) \in Nat
  BY <1>4
<1>11. OneOffer(u)' /\ OneOffer(v)'
  <2>1. OneOffer(u)'
    BY <1>2, <1>3, <1>5, <1>6, <1>7, <1>9, <1>10 DEF OneOffer, Spoken
  <2>2. OneOffer(v)'
    BY <1>2, <1>3, <1>5, <1>7, <1>9 DEF OneOffer
  <2>3. QED
    BY <2>1, <2>2
<1>12. Accepted(u)' /\ Accepted(v)'
  <2>1. ~ (On(u, Acceptances) > 0)
    BY <1>3, <1>6 DEF Accepted, Spoken
  <2>2. Accepted(v)'
    BY <1>2, <1>3, <1>5, <1>7, <1>9 DEF Accepted
  <2>3. QED
    BY <1>9, <2>1, <2>2 DEF Accepted
<1>13. OneAck(u)' /\ OneAck(v)'
  <2>1. ua[u] \in {"answered", "reanswered"} => to = "answered"
    BY <1>6 DEF Spoken
  <2>2. QED
    BY <1>2, <1>3, <1>5, <1>7, <1>9, <2>1 DEF OneAck
<1>14. Unanswered'
  <2>1. CASE u = "caller"
    <3>1. /\ ua'["caller"] = to /\ ua'["callee"] = ua["callee"]
          /\ On("caller", Acks)' = On("caller", Acks)
          /\ On("callee", Pickups)' = On("callee", Pickups)
      BY <1>2, <1>5, <1>7, <1>9, <2>1
    <3>2. ua["caller"] \in Early <=> to \in Early
      BY <1>6, <2>1 DEF Spoken, Early
    <3>3. QED
      BY <1>3, <3>1, <3>2 DEF Unanswered
  <2>2. CASE u = "callee"
    <3>1. /\ ua'["callee"] = to /\ ua'["caller"] = ua["caller"]
          /\ On("caller", Acks)' = On("caller", Acks)
      BY <1>2, <1>5, <1>7, <2>2
    <3>2. to \in Connected => ua["callee"] \in Connected
      BY <1>6, <2>2 DEF Spoken, Connected
    <3>3. to \in Unpicked =>
            ua["callee"] \in Unpicked /\ On("callee", Pickups)' = On("callee", Pickups)
      BY <1>6, <1>9, <1>10, <2>2 DEF Spoken, Unpicked
    <3>4. QED
      BY <1>3, <3>1, <3>2, <3>3 DEF Unanswered
  <2>3. QED
    BY <2>1, <2>2, TwoUsers
<1>15. Invited'
  <2>1. ua'["callee"] \in {"ringing", "rung", "answered"}
          => ua["callee"] \in {"ringing", "rung", "answered"}
    BY <1>2, <1>5, <1>6 DEF Spoken
  <2>2. QED
    BY <1>3, <1>5, <2>1 DEF Invited
<1>16. Told'
  <2>1. ua'["caller"] \in Connected /\ ua'["callee"] \in {"answered"} \cup Connected
          => ua["caller"] \in Connected /\ ua["callee"] \in {"answered"} \cup Connected
    <3>1. ua["callee"] \in {"ringing", "rung"} => ua["caller"] \in Early
      BY <1>3 DEF Unanswered, Unpicked
    <3>2. CASE u = "caller"
      BY <1>2, <1>5, <1>6, <3>2 DEF Spoken, Connected
    <3>3. CASE u = "callee"
      BY <1>2, <1>5, <1>6, <3>1, <3>3 DEF Spoken, Connected, Early
    <3>4. QED
      BY <3>2, <3>3, TwoUsers
  <2>2. Matched => Matched'
    BY <1>5 DEF Matched
  <2>3. \A w \in Users : On(w, Acceptances)' = On(w, Acceptances)
    BY <1>2, <1>7, <1>9
  <2>4. QED
    BY <1>3, <2>1, <2>2, <2>3 DEF Told
<1>17. NoOffers'
  BY <1>2, <1>3, <1>5, <1>6 DEF NoOffers, Spoken
<1>18. QED
  BY <1>2, <1>11, <1>12, <1>13, <1>14, <1>15, <1>16, <1>17 DEF Agreeing

(* What a party says by itself keeps every part. *)
LEMMA ActsKept ==
  ASSUME Calm, Acts, Live'
  PROVE  Sharing'
<1>0. PICK u \in Users, x \in Messages : \E from, to :
        /\ Says(u, from, to, <<x>>) /\ ua[u] \in from
        /\ x \in Leaving(u) /\ Spoken(u, ua[u], to, x)
  BY SpokenIs
<1>1. PICK from, to :
        /\ Says(u, from, to, <<x>>) /\ ua[u] \in from
        /\ x \in Leaving(u) /\ Spoken(u, ua[u], to, x)
  BY <1>0
<1>2. /\ Typed /\ Messaging /\ NotYet /\ HasPair /\ RingsFirst /\ Unanswered
      /\ ua \in [Users -> States] /\ up \in [Users -> Seq(Messages)]
  BY DEF Calm, Sharing, Agreeing, Typed
<1>3. /\ Other("caller") = "callee" /\ Other("callee") = "caller"
      /\ "caller" \in Users /\ "callee" \in Users /\ Other(u) \in Users /\ Other(u) # u
  BY TwoUsers
<1>4. /\ ua'[u] = to /\ ua'[Other(u)] = ua[Other(u)]
      /\ up'[u] = Append(up[u], x) /\ up'[Other(u)] = up[Other(u)]
      /\ UNCHANGED <<pair, registered, down>>
  <2>1. up' = [up EXCEPT ![u] = @ \o <<x>>]
    BY <1>1 DEF Says
  <2>2. up[u] \in Seq(Messages)
    BY <1>2
  <2>3. up'[u] = Append(up[u], x) /\ up'[Other(u)] = up[Other(u)]
    BY <1>2, <1>3, <2>1, <2>2, ConcatOne
  <2>4. QED
    BY <1>1, <1>2, <1>3, <2>3 DEF Says, port
<1>5. Spoken(u, ua[u], to, x) /\ up[u] \in Seq(Messages)
  BY <1>1, <1>2
<1>6. Messaging'
  <2>1. \A w \in Users : up[w] \in Seq(Leaving(w)) /\ down[w] \in Seq(Arriving(w))
    BY <1>2 DEF Messaging
  <2>2. \A S, s, a : s \in Seq(S) /\ a \in S => Append(s, a) \in Seq(S)
    OBVIOUS
  <2>3. up'[u] \in Seq(Leaving(u)) /\ up'[Other(u)] \in Seq(Leaving(Other(u)))
    BY <1>1, <1>3, <1>4, <2>1, <2>2
  <2>4. \A w \in Users : up'[w] \in Seq(Leaving(w))
    BY <2>3, TwoUsers
  <2>5. \A w \in Users : Arriving(w)' = Arriving(w) /\ down'[w] = down[w]
    BY <1>4 DEF Arriving
  <2>6. QED
    BY <2>1, <2>4, <2>5 DEF Messaging, Leaving
<1>7. NotYet'
  <2>1. SUFFICES ASSUME ua'["callee"] = "idle" PROVE NotYet'
    BY DEF NotYet
  <2>2. u = "caller" /\ ua["callee"] = "idle"
    <3>1. CASE u = "callee"
      BY <1>4, <1>5, <2>1, <3>1 DEF Spoken
    <3>2. CASE u = "caller"
      BY <1>3, <1>4, <2>1, <3>2
    <3>3. QED
      BY <3>1, <3>2, TwoUsers
  <2>3. /\ ua["caller"] \in Early
        /\ up["callee"] = <<>>
        /\ AllOf(up["caller"], OnlyInvite) /\ AllOf(down["callee"], OnlyInvite)
        /\ AllOf(down["caller"], FromCscf)
    BY <1>2, <2>2 DEF NotYet
  <2>4. x.type = "INVITE" /\ to = "inviting"
    BY <1>5, <2>2, <2>3 DEF Spoken, Early
  <2>5. AllOf(Append(up["caller"], x), OnlyInvite)
    BY <1>5, <2>2, <2>3, <2>4, AllPut DEF OnlyInvite
  <2>6. QED
    BY <1>3, <1>4, <2>2, <2>3, <2>4, <2>5 DEF NotYet, AllOf, Early
<1>8. HasPair'
  <2>1. ua["callee"] # "idle" \/ ua'["callee"] = "idle"
    BY <1>3, <1>4, <1>5, TwoUsers DEF Spoken
  <2>2. ua'["caller"] \in Early \cup Connected
    <3>1. CASE u = "caller"
      BY <1>4, <1>5, <3>1 DEF Spoken, Early, Connected
    <3>2. CASE u = "callee"
      BY <1>2, <1>3, <1>4, <3>2 DEF HasPair
    <3>3. QED
      BY <3>1, <3>2, TwoUsers
  <2>3. QED
    BY <1>2, <1>4, <2>1, <2>2 DEF HasPair
<1>9. RingsFirst'
  <2> DEFINE d == down["caller"]
             s == up["callee"]
  <2>1. /\ d \in Seq(Messages) /\ s \in Seq(Messages) /\ InOrder(d) /\ InOrder(s)
        /\ CountIn(d, Pickups) > 0 => CountIn(s, Rings) = 0
        /\ ua["caller"] \in Connected => On("callee", Rings) = 0
    BY <1>2, <1>3 DEF Typed, RingsFirst
  <2>2. /\ CountIn(d, Pickups) \in Nat /\ CountIn(s, Rings) \in Nat /\ CountIn(s, Pickups) \in Nat
        /\ CountIn(d, Rings) \in Nat
        /\ On("callee", Rings) = CountIn(s, Rings) + CountIn(d, Rings)
        /\ On("callee", Pickups) = CountIn(s, Pickups) + CountIn(d, Pickups)
    BY <1>3, <2>1, CountInIsNat DEF On
  <2>3. /\ down'["caller"] = d
        /\ On("callee", Rings)' = CountIn(up'["callee"], Rings) + CountIn(d, Rings)
    BY <1>3, <1>4 DEF On
  <2> HIDE DEF d, s
  <2>4. CASE u = "caller"
    <3>1. up'["callee"] = s
      BY <1>3, <1>4, <2>4 DEF s
    <3>2. ua'["caller"] \in Connected => ua["caller"] \in Connected
      BY <1>4, <1>5, <2>4 DEF Spoken, Connected
    <3>3. QED
      BY <2>1, <2>2, <2>3, <3>1, <3>2 DEF RingsFirst, InOrder
  <2>5. CASE u = "callee"
    <3>1. up'["callee"] = Append(s, x) /\ ua'["caller"] = ua["caller"]
      BY <1>3, <1>4, <2>5 DEF s
    <3>2. x.type = "180" => On("callee", Pickups) = 0 /\ ua["caller"] \notin Connected
      BY <1>2, <1>5, <2>5 DEF Spoken, Unanswered, Unpicked, Early, Connected
    <3>3. x.type = "180" => CountIn(s, Pickups) = 0 /\ CountIn(d, Pickups) = 0
      BY <2>2, <3>2
    <3>4. InOrder(Append(s, x))
      BY <2>1, <3>3, InOrderPut
    <3>5. CountIn(Append(s, x), Rings) = CountIn(s, Rings) + IF x \in Rings THEN 1 ELSE 0
      BY <2>1, CountInAppend
    <3>6. x \in Rings <=> x.type = "180"
      BY KindsAre
    <3>7. CountIn(d, Pickups) > 0 => CountIn(Append(s, x), Rings) = 0
      BY <2>1, <2>2, <3>3, <3>5, <3>6
    <3>8. ASSUME ua["caller"] \in Connected PROVE On("callee", Rings)' = 0
      <4>1. x \notin Rings
        BY <3>2, <3>6, <3>8
      <4>2. CountIn(Append(s, x), Rings) = CountIn(s, Rings)
        BY <2>2, <3>5, <4>1
      <4>3. On("callee", Rings)' = On("callee", Rings)
        BY <2>2, <2>3, <3>1, <4>2
      <4>4. QED
        BY <2>1, <3>8, <4>3
    <3>9. /\ InOrder(down'["caller"]) /\ InOrder(up'["callee"])
          /\ CountIn(down'["caller"], Pickups) > 0 => CountIn(up'["callee"], Rings) = 0
          /\ ua'["caller"] \in Connected => On("callee", Rings)' = 0
      BY <2>1, <2>3, <3>1, <3>4, <3>7, <3>8
    <3>10. QED
      BY <3>9, Zenon DEF RingsFirst, InOrder
  <2>6. QED
    BY <2>4, <2>5, TwoUsers
<1>10. Agreeing'
  BY <1>1, SaidAgreeing
<1>11. QED
  BY <1>6, <1>7, <1>8, <1>9, <1>10 DEF Sharing

-----------------------------------------------------------------------------
(* The invariant. *)

(* The callee is out of reach: nothing but the INVITE was on its way. *)
LEMMA TimeoutKept ==
  ASSUME Calm, Timeout
  PROVE  Sharing'
<1>1. /\ Typed /\ Messaging /\ NotYet /\ HasPair /\ RingsFirst
      /\ down \in [Users -> Seq(Messages)]
  BY DEF Calm, Sharing, Typed
<1>2. /\ Other("caller") = "callee" /\ Other("callee") = "caller"
      /\ "caller" \in Users /\ "callee" \in Users
  BY TwoUsers
<1> DEFINE r == Msg("408", NoSdp)
<1>3. r \in Messages /\ r.type = "408" /\ r.sdp = NoSdp
  BY CscfMessages DEF Msg
<1>4. /\ ua["callee"] = "idle"
      /\ down' = [down EXCEPT !["callee"] = <<>>, !["caller"] = Append(@, r)]
      /\ UNCHANGED <<faults, pair, registered, ua, told, up>>
  BY DEF Timeout, port, party
<1> HIDE DEF r
<1>5. down'["callee"] = <<>> /\ down'["caller"] = Append(down["caller"], r)
  BY <1>1, <1>2, <1>4
<1>6. /\ ua["caller"] \in Early
      /\ up["callee"] = <<>>
      /\ AllOf(up["caller"], OnlyInvite) /\ AllOf(down["callee"], OnlyInvite)
      /\ AllOf(down["caller"], FromCscf)
      /\ down["callee"] \in Seq(Messages) /\ down["caller"] \in Seq(Messages)
      /\ up["caller"] \in Seq(Messages)
  BY <1>1, <1>2, <1>4 DEF NotYet, Typed
<1>7. r.type \in FromCscf /\ r.type # "180"
  BY <1>3 DEF FromCscf
<1>8. ASSUME NEW K \in {Offers, Replies, Acceptances, Acks, Rings, Pickups}
      PROVE  \A w \in Users : On(w, K)' = On(w, K)
  <2>1. ASSUME NEW x \in Messages, x.type \in OnlyInvite \cup {"408"} PROVE x \notin K
    BY <2>1, KindsAre DEF OnlyInvite
  <2>2. CountIn(down["callee"], K) = 0
    <3>1. \A i \in DOMAIN down["callee"] : down["callee"][i] \in Messages
                                           /\ down["callee"][i].type \in OnlyInvite
      BY <1>6 DEF AllOf
    <3>2. \A i \in DOMAIN down["callee"] : down["callee"][i] \notin K
      BY <2>1, <3>1
    <3>3. QED
      BY <1>6, <3>2, CountInIsNat
  <2>3. CountIn(down'["callee"], K) = 0
    BY <1>5, CountInNone
  <2>4. CountIn(down'["caller"], K) = CountIn(down["caller"], K)
    <3>1. CountIn(Append(down["caller"], r), K)
            = CountIn(down["caller"], K) + IF r \in K THEN 1 ELSE 0
      BY <1>3, <1>6, CountInAppend
    <3>2. CountIn(down["caller"], K) \in Nat
      BY <1>6, CountInIsNat
    <3>3. r \notin K
      BY <1>3, <2>1
    <3>4. QED
      BY <1>5, <3>1, <3>2, <3>3
  <2>5. On("caller", K)' = On("caller", K) /\ On("callee", K)' = On("callee", K)
    BY <1>2, <1>4, <2>2, <2>3, <2>4 DEF On
  <2>6. QED
    BY <2>5, TwoUsers
<1>9. Messaging'
  <2>1. \A w \in Users : up[w] \in Seq(Leaving(w)) /\ down[w] \in Seq(Arriving(w))
    BY <1>1 DEF Messaging
  <2>2. \A S : <<>> \in Seq(S)
    OBVIOUS
  <2>3. down'["callee"] \in Seq(Arriving("callee"))
    BY <1>5, <2>2, Zenon
  <2>4. r \in Arriving("caller")
    BY <1>3, <1>7 DEF Arriving, Carries, FromCscf
  <2>5. down'["caller"] \in Seq(Arriving("caller"))
    BY <1>2, <1>5, <2>1, <2>4
  <2>6. \A w \in Users : Arriving(w)' = Arriving(w) /\ up'[w] = up[w]
    BY <1>4 DEF Arriving
  <2>7. QED
    BY <2>1, <2>3, <2>5, <2>6, TwoUsers DEF Messaging, Leaving
<1>10. NotYet'
  <2>1. AllOf(Append(down["caller"], r), FromCscf)
    BY <1>3, <1>6, <1>7, AllPut
  <2>2. AllOf(<<>>, OnlyInvite)
    BY DEF AllOf
  <2>3. QED
    BY <1>4, <1>5, <1>6, <2>1, <2>2 DEF NotYet, AllOf
<1>11. HasPair'
  BY <1>1, <1>4, <1>5 DEF HasPair
<1>12. RingsFirst'
  <2>1. InOrder(Append(down["caller"], r))
    BY <1>1, <1>3, <1>6, <1>7, InOrderPut DEF RingsFirst
  <2>2. CountIn(up["callee"], Rings) = 0
    BY <1>6, CountInNone
  <2>3. InOrder(up["callee"]) /\ ua["caller"] \notin Connected
    BY <1>1, <1>6 DEF RingsFirst, Early, Connected
  <2>4. InOrder(down'["caller"]) /\ InOrder(up'["callee"]) /\ CountIn(up'["callee"], Rings) = 0
    BY <1>4, <1>5, <2>1, <2>2, <2>3
  <2>5. ua'["caller"] \notin Connected
    BY <1>4, <2>3
  <2>6. QED
    BY <2>4, <2>5 DEF RingsFirst, InOrder
<1>13. Agreeing'
  BY <1>4, <1>8, AgreeingKept
<1>14. QED
  BY <1>9, <1>10, <1>11, <1>12, <1>13 DEF Sharing

(* Nothing of the call changes. *)
LEMMA StillKept ==
  ASSUME Calm, UNCHANGED <<faults, pair, registered, ua, told, up, down>>
  PROVE  Sharing'
<1>1. Messaging /\ NotYet /\ HasPair /\ RingsFirst /\ Typed
  BY DEF Calm, Sharing
<1>2. \A w \in Users : \A K : On(w, K)' = On(w, K)
  BY DEF On
<1>3. Agreeing'
  BY <1>2, AgreeingKept
<1>4. Messaging'
  BY <1>1 DEF Messaging, Leaving, Arriving
<1>5. NotYet' /\ HasPair'
  BY <1>1 DEF NotYet, HasPair, AllOf
<1>6. RingsFirst'
  <2>1. up' = up /\ down' = down /\ ua' = ua
    OBVIOUS
  <2>2. On("callee", Rings)' = On("callee", Rings)
    BY <1>2, TwoUsers
  <2>3. QED
    BY <1>1, <2>1, <2>2 DEF RingsFirst, InOrder
<1>7. QED
  BY <1>3, <1>4, <1>5, <1>6 DEF Sharing

(* At the start there are no messages and neither party knows of a call. *)
LEMMA InitSharing == Init => Sharing
<1> SUFFICES ASSUME Init PROVE Sharing
  OBVIOUS
<1>1. /\ \A u \in Users : up[u] = <<>> /\ down[u] = <<>> /\ ua[u] = "idle"
      /\ ua["caller"] = "idle" /\ ua["callee"] = "idle"
      /\ down["callee"] = <<>> /\ down["caller"] = <<>>
      /\ up["callee"] = <<>> /\ up["caller"] = <<>>
  BY TwoUsers DEF Init
<1>2. ASSUME NEW K PROVE CountIn(<<>>, K) = 0
  BY CountInNone
<1>3. ASSUME NEW u \in Users, NEW K PROVE On(u, K) = 0
  BY <1>1, <1>2, TwoUsers DEF On
<1>4. \A u \in Users : \A K : On(u, K) = 0 /\ On(Other(u), K) = 0
  BY <1>3, TwoUsers
<1>5. Messaging
  <2>1. \A S : <<>> \in Seq(S)
    OBVIOUS
  <2>2. QED
    BY <1>1, <2>1, Zenon DEF Messaging
<1>6. NotYet /\ HasPair
  BY <1>1 DEF NotYet, HasPair, AllOf, Early
<1>7. RingsFirst
  <2>1. On("callee", Rings) = 0 /\ CountIn(<<>>, Rings) = 0
    BY <1>2, <1>4, TwoUsers
  <2>2. InOrder(<<>>)
    BY DEF InOrder
  <2>3. QED
    BY <1>1, <2>1, <2>2 DEF RingsFirst
<1>8. Agreeing
  <2>1. \A u \in Users : OneOffer(u) /\ Accepted(u) /\ OneAck(u)
    BY <1>4 DEF OneOffer, Accepted, OneAck
  <2>2. Unanswered /\ Invited /\ Told /\ NoOffers
    BY <1>1, <1>4, TwoUsers DEF Unanswered, Invited, Told, NoOffers, Connected, Early
  <2>3. QED
    BY <2>1, <2>2 DEF Agreeing
<1>9. QED
  BY <1>5, <1>6, <1>7, <1>8 DEF Sharing

(* Every step keeps the invariant. *)
LEMMA Step == IInv /\ [Next]_vars => IInv'
<1> SUFFICES ASSUME IInv, [Next]_vars PROVE IInv'
  OBVIOUS
<1>1. Typed /\ Typed'
  BY TypeStep DEF IInv
<1>2. ASSUME Settled', Live' PROVE Sharing'
  <2>1. Settled /\ Live /\ UNCHANGED <<faults, registered>>
    BY <1>1, <1>2, CalmBefore
  <2>2. Calm
    BY <1>1, <2>1 DEF Calm, IInv
  <2>3. CASE \E u \in Users : Cscf(u)
    BY <2>2, <2>3, CscfKept
  <2>4. CASE \E u \in Users : Hear(u)
    BY <1>2, <2>2, <2>4, HearKept
  <2>5. CASE Acts
    BY <1>2, <2>2, <2>5, ActsKept
  <2>6. CASE Timeout
    BY <2>2, <2>6, TimeoutKept
  <2>7. CASE OtherCall \/ (\E u \in Users : Register(u) \/ Expire(u)) \/ UNCHANGED vars
    <3>1. UNCHANGED <<faults, pair, registered, ua, told, up, down>>
      BY <2>1, <2>7 DEF OtherCall, Register, Expire, vars, port, party
    <3>2. QED
      BY <2>2, <3>1, StillKept
  <2>8. QED
    BY <2>3, <2>4, <2>5, <2>6, <2>7 DEF Next, Acts, Party
<1>3. QED
  BY <1>1, <1>2 DEF IInv

(***************************************************************************)
(* The invariant of a call that stays: from the INVITE to the hang-up each *)
(* message that is on its way carries the port its receiver is to use, and *)
(* is one that its receiver waits for.                                     *)
(***************************************************************************)
THEOREM Invariance == Spec => []IInv
<1>1. Init => IInv
  BY TypeInit, InitSharing DEF IInv
<1>2. IInv /\ [Next]_vars => IInv'
  BY Step
<1>3. QED
  BY <1>1, <1>2, PTL DEF Spec

(***************************************************************************)
(* The variables keep their types: what the CSCF and the parties make of   *)
(* any message is a message, and no SDP ever names a port that is not one  *)
(* of the relay's (module_rtpproxy.c:42-56).                               *)
(***************************************************************************)
THEOREM TypeCorrect == Spec => []TypeOK
<1>1. IInv => TypeOK
  BY DEF IInv, Typed
<1>2. QED
  BY <1>1, Invariance, PTL

(***************************************************************************)
(* Two parties that talk have been told the two ports of one pair, and it  *)
(* is the call's: whatever is repeated, refused, offered anew by either or *)
(* by both at once, and whatever ports other calls take and leave          *)
(* (module_rtpproxy.c:39-57).                                              *)
(***************************************************************************)
THEOREM TalkersShare == Spec => []TalkersShareARelay
<1>1. IInv => TalkersShareARelay
  <2>1. SUFFICES ASSUME IInv, Settled, \A u \in Users : ua[u] = "talking"
                 PROVE  /\ pair # NoPair
                        /\ {told[u] : u \in Users} = {Relay(pair, 1), Relay(pair, 2)}
    BY DEF TalkersShareARelay, Settled
  <2>2. ua["caller"] = "talking" /\ ua["callee"] = "talking"
    BY <2>1, TwoUsers
  <2>3. Sharing
    BY <2>1, <2>2 DEF IInv, Live
  <2>4. pair # NoPair
    BY <2>2, <2>3 DEF Sharing, HasPair
  <2>5. \A u \in Users : ~ (On(u, Acceptances) > 0)
    BY <2>1, <2>3 DEF Sharing, Agreeing, Accepted
  <2>6. Matched
    BY <2>2, <2>3, <2>5 DEF Sharing, Agreeing, Told, Connected
  <2>7. QED
    BY <2>4, <2>6 DEF Matched
<1>2. QED
  BY <1>1, Invariance, PTL

-----------------------------------------------------------------------------
(* Whether a queue has a message of a kind, one at most, or only as its    *)
(* last, and what becomes of that as messages are taken and put.           *)
Has(s, K)  == \E i \in DOMAIN s : s[i] \in K
One(s, K)  == \A i, j \in DOMAIN s : s[i] \in K /\ s[j] \in K => i = j
AtEnd(s, K) == \A i \in DOMAIN s : s[i] \in K => i = Len(s)

(* An empty sequence has none. *)
LEMMA NoneHas == \A K : ~Has(<<>>, K) /\ One(<<>>, K) /\ AtEnd(<<>>, K)
BY DEF Has, One, AtEnd

(* What is left of a sequence without its first element. *)
LEMMA TailHas ==
  ASSUME NEW M, NEW s \in Seq(M), s # <<>>, NEW K
  PROVE  /\ Has(s, K) <=> Head(s) \in K \/ Has(Tail(s), K)
         /\ One(s, K) => One(Tail(s), K) /\ (Head(s) \in K => ~Has(Tail(s), K))
         /\ AtEnd(s, K) => AtEnd(Tail(s), K) /\ (Head(s) \in K => Tail(s) = <<>>)
<1> DEFINE t == Tail(s)
<1>1. /\ t \in Seq(M) /\ Len(s) \in Nat /\ Len(s) >= 1 /\ Head(s) = s[1]
      /\ DOMAIN s = 1 .. Len(s) /\ DOMAIN t = 1 .. Len(s) - 1 /\ Len(t) = Len(s) - 1
      /\ \A i \in 1 .. Len(s) - 1 : t[i] = s[i + 1]
  BY TailIs
<1>2. Len(s) = 1 => t = <<>>
  BY <1>1
<1> HIDE DEF t
<1>3. \A i \in DOMAIN t : i \in Nat /\ i + 1 \in DOMAIN s /\ t[i] = s[i + 1] /\ i + 1 # 1
  BY <1>1
<1>4. \A j \in DOMAIN s : j = 1 \/ (j - 1 \in DOMAIN t /\ t[j - 1] = s[j])
  BY <1>1
<1>5. 1 \in DOMAIN s
  BY <1>1
<1>6. Has(s, K) <=> Head(s) \in K \/ Has(t, K)
  BY <1>1, <1>3, <1>4, <1>5 DEF Has
<1>7. ASSUME One(s, K)
      PROVE  One(t, K) /\ (Head(s) \in K => ~Has(t, K))
  <2>1. ASSUME NEW i \in DOMAIN t, NEW j \in DOMAIN t, t[i] \in K, t[j] \in K PROVE i = j
    <3>1. i + 1 = j + 1
      BY <1>3, <1>7, <2>1 DEF One
    <3>2. QED
      BY <1>3, <2>1, <3>1
  <2>2. Head(s) \in K => ~Has(t, K)
    BY <1>1, <1>3, <1>5, <1>7 DEF One, Has
  <2>3. QED
    BY <2>1, <2>2 DEF One
<1>8. ASSUME AtEnd(s, K)
      PROVE  AtEnd(t, K) /\ (Head(s) \in K => t = <<>>)
  <2>1. ASSUME NEW i \in DOMAIN t, t[i] \in K PROVE i = Len(t)
    <3>1. i + 1 = Len(s)
      BY <1>3, <1>8, <2>1 DEF AtEnd
    <3>2. QED
      BY <1>1, <1>3, <2>1, <3>1
  <2>2. Head(s) \in K => t = <<>>
    BY <1>1, <1>2, <1>5, <1>8 DEF AtEnd
  <2>3. QED
    BY <2>1, <2>2 DEF AtEnd
<1>9. QED
  BY <1>6, <1>7, <1>8 DEF t

(* A sequence with an element more. *)
LEMMA PutHas ==
  ASSUME NEW M, NEW s \in Seq(M), NEW x \in M, NEW K
  PROVE  /\ Has(Append(s, x), K) <=> Has(s, K) \/ x \in K
         /\ One(s, K) /\ (x \in K => ~Has(s, K)) => One(Append(s, x), K)
         /\ AtEnd(s, K) /\ ~Has(s, K) => AtEnd(Append(s, x), K)
<1> DEFINE t == Append(s, x)
<1>1. /\ Len(s) \in Nat /\ DOMAIN s = 1 .. Len(s) /\ DOMAIN t = 1 .. Len(s) + 1
      /\ Len(t) = Len(s) + 1
      /\ \A i \in 1 .. Len(s) : t[i] = s[i]
      /\ t[Len(s) + 1] = x
  OBVIOUS
<1> HIDE DEF t
<1>2. \A i \in DOMAIN t : (i \in DOMAIN s /\ t[i] = s[i]) \/ (i = Len(t) /\ t[i] = x)
  BY <1>1
<1>3. Len(t) \in DOMAIN t /\ t[Len(t)] = x /\ \A i \in DOMAIN s : i \in DOMAIN t /\ t[i] = s[i]
  BY <1>1
<1>4. Has(t, K) <=> Has(s, K) \/ x \in K
  BY <1>2, <1>3 DEF Has
<1>5. One(s, K) /\ (x \in K => ~Has(s, K)) => One(t, K)
  BY <1>2 DEF One, Has
<1>6. AtEnd(s, K) /\ ~Has(s, K) => AtEnd(t, K)
  BY <1>2 DEF AtEnd, Has
<1>7. QED
  BY <1>4, <1>5, <1>6 DEF t

-----------------------------------------------------------------------------
(***************************************************************************)
(* Ended calls hold nothing.  Nothing is repeated in these worlds, refused *)
(* otherwise than with Decline or offered anew.  Late offers and           *)
(* registrations that end are possible.                                    *)
(***************************************************************************)
Plain == faults \cap {"retransmit", "refusal", "reinvite"} = {}

Caller == ua["caller"]
Callee == ua["callee"]
Waiting == {"asking", "asked", "inviting", "proceeding", "cancelling"}

\* Messages by what they mean to the call.
Invites   == {m \in Messages : m.type = "INVITE"}
Cancels   == {m \in Messages : m.type = "CANCEL"}
Byes      == {m \in Messages : m.type = "BYE"}
Cancelled == {m \in Messages : m.type = "487"}
Farewells == {m \in Messages : m.type \in {"487", "603", "BYE"}}
Endings   == {m \in Messages : m.type \in Refusals \cup {"BYE"}}
Releases  == {m \in Messages : HangUp(m)}

FromCaller == {m \in Messages : m.type \in {"INVITE", "CANCEL", "ACK", "BYE"}}
FromCallee == {m \in Messages : m.type \in {"180", "200", "487", "603", "BYE"}}
ToCaller   == FromCallee \cup {m \in Messages : m.type \in {"100", "404", "486"}}

\* A message of u's is on its way; no more than one is.
Coming(u, K) == Has(up[u], K) \/ Has(down[Other(u)], K)
Single(u, K) ==
  One(up[u], K) /\ One(down[Other(u)], K) /\ ~(Has(up[u], K) /\ Has(down[Other(u)], K))

Words ==
  /\ up["caller"] \in Seq(FromCaller) /\ down["callee"] \in Seq(FromCaller)
  /\ up["callee"] \in Seq(FromCallee) /\ down["caller"] \in Seq(ToCaller)
  /\ Caller \notin {"reinviting", "reanswered"} /\ Callee \notin {"reinviting", "reanswered"}

\* Until the INVITE is at the CSCF nothing else has happened.
NewCall ==
  /\ Caller = "idle" \/ Has(up["caller"], Invites) =>
       /\ Caller \in {"idle", "asking", "inviting"} /\ Callee = "idle"
       /\ pair = NoPair /\ tsx = "none"
       /\ up["callee"] = <<>> /\ down["caller"] = <<>> /\ down["callee"] = <<>>
  /\ Caller = "idle" => up["caller"] = <<>>
  /\ Has(up["caller"], Invites) => Len(up["caller"]) = 1

\* The one 200 finds a caller that waits for it, the one ACK a callee that does.
OneAnswer ==
  /\ Single("callee", Pickups) /\ Single("caller", Acks)
  /\ Coming("callee", Pickups) => Callee = "answered" /\ Caller \in Waiting
  /\ Coming("caller", Acks) => Callee = "answered" /\ Caller \in {"talking", "over"}

\* The INVITE has never reached the callee, and will not.
NeverInvited == Callee = "idle" /\ ~Has(down["callee"], Invites)

\* A caller that has an answer has sent the ACK.
Answered ==
  Caller \in {"talking", "over"} =>
    \/ Callee \in {"talking", "over"}
    \/ Callee = "answered" /\ (tsx = "aborted" \/ Coming("caller", Acks))
    \/ Caller = "over" /\ NeverInvited

\* After its BYE the caller says nothing; it does not leave a call it has answered without one.
ByeIsLast ==
  /\ AtEnd(up["caller"], Byes) /\ AtEnd(down["callee"], Byes)
  /\ Has(down["callee"], Byes) => up["caller"] = <<>>
  /\ Coming("caller", Byes) => Caller = "over" /\ Callee \notin {"idle", "ringing", "rung"}
  /\ Caller = "over" /\ Has(up["caller"], Acks) => Has(up["caller"], Byes)

\* When an ACK has brought the CSCF down, the callee waits for it in vain.
NoAck ==
  tsx = "aborted" =>
    /\ Callee = "answered" /\ ~Coming("caller", Acks) /\ ~Coming("callee", Pickups)
    /\ ~Has(down["callee"], Byes)

\* What ends the call behind the CSCF has released the ports on its way.
Released ==
  /\ Has(down["caller"], Endings) => pair = NoPair /\ (Callee = "over" \/ NeverInvited)
  /\ Has(up["callee"], Farewells) => Callee = "over"
  /\ Has(up["callee"], Cancelled) => pair = NoPair /\ Callee = "over"
  /\ Has(down["callee"], Cancels) /\ Callee \in {"idle", "ringing", "rung"} => pair = NoPair

\* Ports that an ended call has are about to be released.
ToBeReleased ==
  Caller = "over" /\ pair # NoPair /\ tsx # "aborted" =>
    Has(up["caller"], Releases) \/ Has(up["callee"], Releases)

Ending ==
  /\ Words /\ NewCall /\ OneAnswer /\ Answered
  /\ ByeIsLast /\ NoAck /\ Released /\ ToBeReleased

EInv == Typed /\ (Plain => Ending)

(* The kinds of messages by their types. *)
LEMMA MeaningsAre ==
  \A m \in Messages :
    /\ m \in Invites <=> m.type = "INVITE"
    /\ m \in Cancels <=> m.type = "CANCEL"
    /\ m \in Byes <=> m.type = "BYE"
    /\ m \in Cancelled <=> m.type = "487"
    /\ m \in Farewells <=> m.type \in {"487", "603", "BYE"}
    /\ m \in Endings <=> m.type \in {"404", "408", "486", "487", "603", "BYE"}
    /\ m \in Releases <=> m.type \in {"BYE", "CANCEL", "603"}
    /\ m \in FromCaller <=> m.type \in {"INVITE", "CANCEL", "ACK", "BYE"}
    /\ m \in FromCallee <=> m.type \in {"180", "200", "487", "603", "BYE"}
    /\ m \in ToCaller <=> m.type \in {"180", "200", "487", "603", "BYE", "100", "404", "486"}
    /\ m \in Acks <=> m.type = "ACK"
    /\ m \in Pickups <=> m.type = "200"
BY DEF Invites, Cancels, Byes, Cancelled, Farewells, Endings, Releases, FromCaller, FromCallee,
       ToCaller, Acks, Pickups, HangUp, Refusals

\* The first message m is taken from s, and t is left.
Taking(s, t, m) == s \in Seq(Messages) /\ s # <<>> /\ m = Head(s) /\ t = Tail(s)

(* What is known of the rest. *)
LEMMA Taken ==
  ASSUME NEW s, NEW t, NEW m, Taking(s, t, m)
  PROVE  /\ m \in Messages /\ m.type \in Types /\ t \in Seq(Messages)
         /\ s # <<>> /\ (Len(s) = 1 => t = <<>> /\ ~Has(t, Invites))
         /\ Has(t, Byes) => Has(t, Releases)
         /\ Has(s, Invites) <=> m.type = "INVITE" \/ Has(t, Invites)
         /\ Has(s, Cancels) <=> m.type = "CANCEL" \/ Has(t, Cancels)
         /\ Has(s, Acks) <=> m.type = "ACK" \/ Has(t, Acks)
         /\ Has(s, Byes) <=> m.type = "BYE" \/ Has(t, Byes)
         /\ Has(s, Pickups) <=> m.type = "200" \/ Has(t, Pickups)
         /\ Has(s, Cancelled) <=> m.type = "487" \/ Has(t, Cancelled)
         /\ Has(s, Farewells) <=> m.type \in {"487", "603", "BYE"} \/ Has(t, Farewells)
         /\ Has(s, Releases) <=> m.type \in {"BYE", "CANCEL", "603"} \/ Has(t, Releases)
         /\ Has(s, Endings) <=>
              m.type \in {"404", "408", "486", "487", "603", "BYE"} \/ Has(t, Endings)
         /\ One(s, Acks) => One(t, Acks) /\ (m.type = "ACK" => ~Has(t, Acks))
         /\ One(s, Pickups) => One(t, Pickups) /\ (m.type = "200" => ~Has(t, Pickups))
         /\ AtEnd(s, Byes) => AtEnd(t, Byes) /\ (m.type = "BYE" => t = <<>>)
         /\ s \in Seq(FromCaller) =>
              t \in Seq(FromCaller) /\ m.type \in {"INVITE", "CANCEL", "ACK", "BYE"}
         /\ s \in Seq(FromCallee) =>
              t \in Seq(FromCallee) /\ m.type \in {"180", "200", "487", "603", "BYE"}
         /\ s \in Seq(ToCaller) =>
              /\ t \in Seq(ToCaller)
              /\ m.type \in {"180", "200", "487", "603", "BYE", "100", "404", "486"}
<1>1. s \in Seq(Messages) /\ s # <<>> /\ m = Head(s) /\ t = Tail(s)
  BY DEF Taking
<1>2. m \in Messages /\ t \in Seq(Messages)
  BY <1>1
<1>3. m.type \in Types
  BY <1>2, MessageIs
<1>4. \A K : /\ Has(s, K) <=> m \in K \/ Has(t, K)
             /\ One(s, K) => One(t, K) /\ (m \in K => ~Has(t, K))
             /\ AtEnd(s, K) => AtEnd(t, K) /\ (m \in K => t = <<>>)
  BY <1>1, TailHas
<1>5. \A F : s \in Seq(F) => t \in Seq(F) /\ m \in F
  BY <1>1
<1>6. Len(s) = 1 => t = <<>> /\ ~Has(t, Invites)
  <2>1. Len(s) = 1 => t = <<>>
    BY <1>1
  <2>2. QED
    BY <2>1, NoneHas
<1>7. Has(t, Byes) => Has(t, Releases)
  BY <1>2, MeaningsAre DEF Has
<1>8. QED
  BY <1>1, <1>2, <1>3, <1>4, <1>5, <1>6, <1>7, MeaningsAre

\* Message x is put behind s, which gives t.
Putting(s, t, x) == s \in Seq(Messages) /\ x \in Messages /\ t = Append(s, x)

(* What is known of the longer queue. *)
LEMMA Put ==
  ASSUME NEW s, NEW t, NEW x, Putting(s, t, x)
  PROVE  /\ t \in Seq(Messages) /\ (s = <<>> => Len(t) = 1)
         /\ Has(t, Invites) <=> x.type = "INVITE" \/ Has(s, Invites)
         /\ Has(t, Cancels) <=> x.type = "CANCEL" \/ Has(s, Cancels)
         /\ Has(t, Acks) <=> x.type = "ACK" \/ Has(s, Acks)
         /\ Has(t, Byes) <=> x.type = "BYE" \/ Has(s, Byes)
         /\ Has(t, Pickups) <=> x.type = "200" \/ Has(s, Pickups)
         /\ Has(t, Cancelled) <=> x.type = "487" \/ Has(s, Cancelled)
         /\ Has(t, Farewells) <=> x.type \in {"487", "603", "BYE"} \/ Has(s, Farewells)
         /\ Has(t, Releases) <=> x.type \in {"BYE", "CANCEL", "603"} \/ Has(s, Releases)
         /\ Has(t, Endings) <=>
              x.type \in {"404", "408", "486", "487", "603", "BYE"} \/ Has(s, Endings)
         /\ One(s, Acks) /\ (x.type = "ACK" => ~Has(s, Acks)) => One(t, Acks)
         /\ One(s, Pickups) /\ (x.type = "200" => ~Has(s, Pickups)) => One(t, Pickups)
         /\ AtEnd(s, Byes) /\ ~Has(s, Byes) => AtEnd(t, Byes)
         /\ s \in Seq(FromCaller) /\ x.type \in {"INVITE", "CANCEL", "ACK", "BYE"} =>
              t \in Seq(FromCaller)
         /\ s \in Seq(FromCallee) /\ x.type \in {"180", "200", "487", "603", "BYE"} =>
              t \in Seq(FromCallee)
         /\ /\ s \in Seq(ToCaller)
            /\ x.type \in {"180", "200", "487", "603", "BYE", "100", "404", "486"}
            => t \in Seq(ToCaller)
<1>1. s \in Seq(Messages) /\ x \in Messages /\ t = Append(s, x)
  BY DEF Putting
<1>2. t \in Seq(Messages) /\ (s = <<>> => Len(t) = 1)
  BY <1>1
<1>3. \A K : /\ Has(t, K) <=> x \in K \/ Has(s, K)
             /\ One(s, K) /\ (x \in K => ~Has(s, K)) => One(t, K)
             /\ AtEnd(s, K) /\ ~Has(s, K) => AtEnd(t, K)
  BY <1>1, PutHas
<1>4. \A F : s \in Seq(F) /\ x \in F => t \in Seq(F)
  BY <1>1
<1>5. QED
  BY <1>1, <1>2, <1>3, <1>4, MeaningsAre

-----------------------------------------------------------------------------
(* Moves of one message, whoever makes them, and what they leave true.     *)

(* The CSCF passes the INVITE on. *)
LEMMA InviteGoesOn ==
  ASSUME Typed, Ending, NEW m, NEW x, NEW y, m.type = "INVITE", x.type = "INVITE",
         y.type = "100", Taking(up["caller"], up'["caller"], m),
         Putting(down["callee"], down'["callee"], x),
         Putting(down["caller"], down'["caller"], y), up'["callee"] = up["callee"],
         ua' = ua, tsx' = "pending"
  PROVE  Ending'
<1>1. /\ Words /\ NewCall /\ OneAnswer /\ Answered
      /\ ByeIsLast /\ NoAck /\ Released /\ ToBeReleased
  BY DEF Ending
<1>2. /\ Other("caller") = "callee" /\ Other("callee") = "caller"
      /\ Caller' = Caller /\ Callee' = Callee
  BY TwoUsers DEF Caller, Callee
<1>3. Words'
  BY <1>1, <1>2, Taken, Put DEF Words
<1>4. NewCall'
  BY <1>1, <1>2, Taken, Put DEF NewCall
<1>5. OneAnswer'
  BY <1>1, <1>2, Taken, Put DEF OneAnswer, Single, Coming
<1>6. Answered'
  BY <1>1, <1>2, Taken, Put DEF Answered, NewCall
<1>7. ByeIsLast'
  BY <1>1, <1>2, Taken, Put DEF ByeIsLast, Coming
<1>8. NoAck'
  BY <1>1, <1>2, Taken, Put DEF NoAck, Coming
<1>9. Released'
  BY <1>1, <1>2, Taken, Put, NoneHas DEF Released, NewCall
<1>10. ToBeReleased'
  BY <1>1, <1>2, Taken DEF ToBeReleased, NewCall
<1>11. QED
  BY <1>3, <1>4, <1>5, <1>6, <1>7, <1>8, <1>9, <1>10 DEF Ending

(* The CSCF refuses the INVITE. *)
LEMMA InviteEnds ==
  ASSUME Typed, Ending, NEW m, NEW y, m.type = "INVITE", y.type \in {"404", "486"},
         Taking(up["caller"], up'["caller"], m),
         Putting(down["caller"], down'["caller"], y),
         up'["callee"] = up["callee"], down'["callee"] = down["callee"], ua' = ua,
         pair' = NoPair, tsx' = "completed"
  PROVE  Ending'
<1>1. /\ Words /\ NewCall /\ OneAnswer /\ Answered
      /\ ByeIsLast /\ NoAck /\ Released /\ ToBeReleased
  BY DEF Ending
<1>2. /\ Other("caller") = "callee" /\ Other("callee") = "caller"
      /\ Caller' = Caller /\ Callee' = Callee
  BY TwoUsers DEF Caller, Callee
<1>3. Words'
  BY <1>1, <1>2, Taken, Put DEF Words
<1>4. NewCall'
  BY <1>1, <1>2, Taken, Put DEF NewCall
<1>5. OneAnswer'
  BY <1>1, <1>2, Taken, Put DEF OneAnswer, Single, Coming
<1>6. Answered'
  BY <1>1, <1>2, Taken, Put DEF Answered, NewCall
<1>7. ByeIsLast'
  BY <1>1, <1>2, Taken, Put DEF ByeIsLast, Coming
<1>8. NoAck'
  BY <1>1, <1>2, Taken, Put DEF NoAck, Coming
<1>9. Released'
  BY <1>1, <1>2, Taken DEF Released, NeverInvited, NewCall
<1>10. ToBeReleased'
  BY <1>1, <1>2, Taken, Put DEF ToBeReleased
<1>11. QED
  BY <1>3, <1>4, <1>5, <1>6, <1>7, <1>8, <1>9, <1>10 DEF Ending

(* The ACK is passed on, with ports of its own or without. *)
LEMMA AckGoesOn ==
  ASSUME Typed, Ending, NEW m, NEW x, m.type = "ACK", x.type = "ACK", tsx # "aborted",
         Taking(up["caller"], up'["caller"], m),
         Putting(down["callee"], down'["callee"], x),
         up'["callee"] = up["callee"], down'["caller"] = down["caller"], ua' = ua,
         tsx' = tsx
  PROVE  Ending'
<1>1. /\ Words /\ NewCall /\ OneAnswer /\ Answered
      /\ ByeIsLast /\ NoAck /\ Released /\ ToBeReleased
  BY DEF Ending
<1>2. /\ Other("caller") = "callee" /\ Other("callee") = "caller"
      /\ Caller' = Caller /\ Callee' = Callee
  BY TwoUsers DEF Caller, Callee
<1>3. Words'
  BY <1>1, <1>2, Taken, Put DEF Words
<1>4. NewCall'
  BY <1>1, <1>2, Taken, Put DEF NewCall
<1>5. OneAnswer'
  BY <1>1, <1>2, Taken, Put DEF OneAnswer, Single, Coming
<1>6. Answered'
  BY <1>1, <1>2, Taken, Put DEF Answered, Coming, NeverInvited
<1>7. ByeIsLast'
  BY <1>1, <1>2, Taken, Put DEF ByeIsLast, Coming
<1>8. NoAck'
  BY <1>1, <1>2, Taken, Put DEF NoAck, Coming
<1>9. Released'
  BY <1>1, <1>2, Taken DEF Released, OneAnswer, Coming, NeverInvited
<1>10. ToBeReleased'
  BY <1>1, <1>2, Taken DEF ToBeReleased, ByeIsLast
<1>11. QED
  BY <1>3, <1>4, <1>5, <1>6, <1>7, <1>8, <1>9, <1>10 DEF Ending

(* The ACK is answered, which ends the CSCF. *)
LEMMA AckAborts ==
  ASSUME Typed, Ending, NEW m, m.type = "ACK", tsx # "aborted",
         Taking(up["caller"], up'["caller"], m),
         up'["callee"] = up["callee"], down'["callee"] = down["callee"],
         down'["caller"] = down["caller"],
         ua' = ua, tsx' = "aborted"
  PROVE  Ending'
<1>1. /\ Words /\ NewCall /\ OneAnswer /\ Answered
      /\ ByeIsLast /\ NoAck /\ Released /\ ToBeReleased
  BY DEF Ending
<1>2. /\ Other("caller") = "callee" /\ Other("callee") = "caller"
      /\ Caller' = Caller /\ Callee' = Callee
  BY TwoUsers DEF Caller, Callee
<1>3. Words'
  BY <1>1, <1>2, Taken DEF Words
<1>4. NewCall'
  BY <1>1, <1>2, Taken DEF NewCall
<1>5. OneAnswer'
  BY <1>1, <1>2, Taken DEF OneAnswer, Single, Coming
<1>6. Answered'
  BY <1>1, <1>2, Taken DEF Answered, Coming, NeverInvited
<1>7. ByeIsLast'
  BY <1>1, <1>2, Taken DEF ByeIsLast, Coming
<1>8. NoAck'
  BY <1>1, <1>2, Taken DEF NoAck, OneAnswer, Single, Coming, ByeIsLast, Waiting
<1>9. Released'
  BY <1>1, <1>2, Taken DEF Released, OneAnswer, Coming, NeverInvited
<1>10. ToBeReleased'
  BY <1>1, <1>2, Taken DEF ToBeReleased
<1>11. QED
  BY <1>3, <1>4, <1>5, <1>6, <1>7, <1>8, <1>9, <1>10 DEF Ending

(* The caller's CANCEL or BYE releases the ports, and is passed on or not. *)
LEMMA CallerReleases ==
  ASSUME Typed, Ending, NEW m, NEW x, m.type \in {"CANCEL", "BYE"}, x.type = m.type,
         tsx # "aborted", Taking(up["caller"], up'["caller"], m),
         Putting(down["callee"], down'["callee"], x) \/ down'["callee"] = down["callee"],
         up'["callee"] = up["callee"], down'["caller"] = down["caller"], ua' = ua,
         pair' = NoPair, tsx' = tsx
  PROVE  Ending'
<1>1. /\ Words /\ NewCall /\ OneAnswer /\ Answered
      /\ ByeIsLast /\ NoAck /\ Released /\ ToBeReleased
  BY DEF Ending
<1>2. /\ Other("caller") = "callee" /\ Other("callee") = "caller"
      /\ Caller' = Caller /\ Callee' = Callee
  BY TwoUsers DEF Caller, Callee
<1>3. Words'
  BY <1>1, <1>2, Taken, Put DEF Words
<1>4. NewCall'
  BY <1>1, <1>2, Taken, Put DEF NewCall
<1>5. OneAnswer'
  BY <1>1, <1>2, Taken, Put DEF OneAnswer, Single, Coming
<1>6. Answered'
  BY <1>1, <1>2, Taken, Put DEF Answered, Coming, NeverInvited
<1>7. ByeIsLast'
  BY <1>1, <1>2, Taken, Put, NoneHas DEF ByeIsLast, Coming
<1>8. NoAck'
  BY <1>1, <1>2, Taken, Put DEF NoAck, Coming
<1>9. Released'
  BY <1>1, <1>2, Taken, Put DEF Released, NeverInvited
<1>10. ToBeReleased'
  BY <1>1, <1>2, Taken, Put DEF ToBeReleased
<1>11. QED
  BY <1>3, <1>4, <1>5, <1>6, <1>7, <1>8, <1>9, <1>10 DEF Ending

(* What the callee says is passed on, or is a BYE; Decline and BYE release the ports. *)
LEMMA CalleeIsPassed ==
  ASSUME Typed, Ending, NEW m, NEW x, x.type = m.type, tsx # "aborted", tsx' # "aborted",
         Taking(up["callee"], up'["callee"], m),
         \/ Putting(down["caller"], down'["caller"], x)
         \/ m.type = "BYE" /\ down'["caller"] = down["caller"],
         up'["caller"] = up["caller"], down'["callee"] = down["callee"], ua' = ua,
         pair' = pair \/ pair' = NoPair, m.type \in {"603", "BYE"} => pair' = NoPair
  PROVE  Ending'
<1>1. /\ Words /\ NewCall /\ OneAnswer /\ Answered
      /\ ByeIsLast /\ NoAck /\ Released /\ ToBeReleased
  BY DEF Ending
<1>2. /\ Other("caller") = "callee" /\ Other("callee") = "caller"
      /\ Caller' = Caller /\ Callee' = Callee
  BY TwoUsers DEF Caller, Callee
<1>3. Words'
  BY <1>1, <1>2, Taken, Put DEF Words
<1>4. NewCall'
  BY <1>1, <1>2, Taken, Put DEF NewCall
<1>5. OneAnswer'
  BY <1>1, <1>2, Taken, Put DEF OneAnswer, Single, Coming
<1>6. Answered'
  BY <1>1, <1>2, Taken, Put DEF Answered, Coming, NeverInvited
<1>7. ByeIsLast'
  BY <1>1, <1>2, Taken, Put DEF ByeIsLast, Coming
<1>8. NoAck'
  BY <1>1, <1>2, Taken, Put DEF NoAck, Coming
<1>9. Released'
  BY <1>1, <1>2, Taken, Put DEF Released, NeverInvited, Words, NewCall
<1>10. ToBeReleased'
  BY <1>1, <1>2, Taken DEF ToBeReleased, Words
<1>11. QED
  BY <1>3, <1>4, <1>5, <1>6, <1>7, <1>8, <1>9, <1>10 DEF Ending

(* The caller hears something that ends nothing and is not the 200 it waits for. *)
LEMMA CallerWaits ==
  ASSUME Typed, Ending, NEW m, Taking(down["caller"], down'["caller"], m),
         up'["caller"] = up["caller"], up'["callee"] = up["callee"],
         down'["callee"] = down["callee"],
         pair' = pair, tsx' = tsx, Callee' = Callee,
         Caller' = Caller \/ (Caller \in Waiting /\ Caller' \in Waiting),
         m.type = "200" => Caller \notin Waiting
  PROVE  Ending'
<1>1. /\ Words /\ NewCall /\ OneAnswer /\ Answered
      /\ ByeIsLast /\ NoAck /\ Released /\ ToBeReleased
  BY DEF Ending
<1>2. Other("caller") = "callee" /\ Other("callee") = "caller"
  BY TwoUsers
<1>3. Words'
  BY <1>1, <1>2, Taken, NoneHas DEF Words, Waiting
<1>4. NewCall'
  BY <1>1, <1>2, Taken, NoneHas DEF NewCall, Waiting
<1>5. OneAnswer'
  BY <1>1, <1>2, Taken DEF OneAnswer, Single, Coming, Waiting
<1>6. Answered'
  BY <1>1, <1>2 DEF Answered, Coming, NeverInvited, Waiting
<1>7. ByeIsLast'
  BY <1>1, <1>2 DEF ByeIsLast, Coming, Waiting
<1>8. NoAck'
  BY <1>1, <1>2, Taken DEF NoAck, Coming
<1>9. Released'
  BY <1>1, <1>2, Taken DEF Released, NeverInvited
<1>10. ToBeReleased'
  BY <1>1, <1>2 DEF ToBeReleased, Waiting
<1>11. QED
  BY <1>3, <1>4, <1>5, <1>6, <1>7, <1>8, <1>9, <1>10 DEF Ending

(* The caller hears of the end. *)
LEMMA CallerEnds ==
  ASSUME Typed, Ending, NEW m, m.type \in {"404", "408", "486", "487", "603", "BYE"},
         Taking(down["caller"], down'["caller"], m),
         up'["caller"] = up["caller"], up'["callee"] = up["callee"],
         down'["callee"] = down["callee"],
         pair' = pair, tsx' = tsx, Callee' = Callee, Caller' = "over"
  PROVE  Ending'
<1>1. /\ Words /\ NewCall /\ OneAnswer /\ Answered
      /\ ByeIsLast /\ NoAck /\ Released /\ ToBeReleased
  BY DEF Ending
<1>2. Other("caller") = "callee" /\ Other("callee") = "caller"
  BY TwoUsers
<1>3. Words'
  BY <1>1, <1>2, Taken DEF Words
<1>4. NewCall'
  BY <1>1, <1>2, Taken DEF NewCall
<1>5. OneAnswer'
  BY <1>1, <1>2, Taken DEF OneAnswer, Single, Coming, NeverInvited, Released
<1>6. Answered'
  BY <1>1, <1>2, Taken DEF Answered, NeverInvited, Released
<1>7. ByeIsLast'
  BY <1>1, <1>2, Taken DEF ByeIsLast, OneAnswer, Coming, NeverInvited, Released
<1>8. NoAck'
  BY <1>1, <1>2, Taken DEF NoAck, Coming
<1>9. Released'
  BY <1>1, <1>2, Taken DEF Released, NeverInvited
<1>10. ToBeReleased'
  BY <1>1, <1>2, Taken DEF ToBeReleased, Released
<1>11. QED
  BY <1>3, <1>4, <1>5, <1>6, <1>7, <1>8, <1>9, <1>10 DEF Ending

(* The caller hears the 200 that it waits for. *)
LEMMA CallerAcks ==
  ASSUME Typed, Ending, NEW m, NEW x, m.type = "200", x.type = "ACK",
         Taking(down["caller"], down'["caller"], m),
         Putting(up["caller"], up'["caller"], x),
         up'["callee"] = up["callee"], down'["callee"] = down["callee"], pair' = pair,
         tsx' = tsx, Callee' = Callee, Caller \in Waiting, Caller' = "talking"
  PROVE  Ending'
<1>1. /\ Words /\ NewCall /\ OneAnswer /\ Answered
      /\ ByeIsLast /\ NoAck /\ Released /\ ToBeReleased
  BY DEF Ending
<1>2. Other("caller") = "callee" /\ Other("callee") = "caller"
  BY TwoUsers
<1>3. Words'
  BY <1>1, <1>2, Taken, Put DEF Words
<1>4. NewCall'
  BY <1>1, <1>2, Taken, Put DEF NewCall
<1>5. OneAnswer'
  BY <1>1, <1>2, Taken, Put DEF OneAnswer, Single, Coming, Waiting
<1>6. Answered'
  BY <1>1, <1>2, Taken, Put DEF Answered, OneAnswer, Coming
<1>7. ByeIsLast'
  BY <1>1, <1>2, Put DEF ByeIsLast, Coming, Waiting
<1>8. NoAck'
  BY <1>1, <1>2, Taken, Put DEF NoAck, Coming
<1>9. Released'
  BY <1>1, <1>2, Taken, Put DEF Released, NeverInvited
<1>10. ToBeReleased'
  BY <1>1, <1>2, Taken, Put DEF ToBeReleased
<1>11. QED
  BY <1>3, <1>4, <1>5, <1>6, <1>7, <1>8, <1>9, <1>10 DEF Ending

(* The caller hears the 200 after its CANCEL. *)
LEMMA CallerAcksAndLeaves ==
  ASSUME Typed, Ending, NEW m, NEW x, NEW y, NEW q, m.type = "200", x.type = "ACK",
         y.type = "BYE", Taking(down["caller"], down'["caller"], m),
         Putting(up["caller"], q, x), Putting(q, up'["caller"], y),
         up'["callee"] = up["callee"], down'["callee"] = down["callee"], pair' = pair,
         tsx' = tsx, Callee' = Callee, Caller = "cancelling", Caller' = "over"
  PROVE  Ending'
<1>1. /\ Words /\ NewCall /\ OneAnswer /\ Answered
      /\ ByeIsLast /\ NoAck /\ Released /\ ToBeReleased
  BY DEF Ending
<1>2. Other("caller") = "callee" /\ Other("callee") = "caller"
  BY TwoUsers
<1>3. Words'
  BY <1>1, <1>2, Taken, Put DEF Words
<1>4. NewCall'
  BY <1>1, <1>2, Taken, Put DEF NewCall
<1>5. OneAnswer'
  BY <1>1, <1>2, Taken, Put DEF OneAnswer, Single, Coming
<1>6. Answered'
  BY <1>1, <1>2, Taken, Put DEF Answered, OneAnswer, Coming
<1>7. ByeIsLast'
  BY <1>1, <1>2, Taken, Put DEF ByeIsLast, OneAnswer, Coming
<1>8. NoAck'
  BY <1>1, <1>2, Taken, Put DEF NoAck, Coming
<1>9. Released'
  BY <1>1, <1>2, Taken, Put DEF Released, NeverInvited
<1>10. ToBeReleased'
  BY <1>1, <1>2, Taken, Put DEF ToBeReleased
<1>11. QED
  BY <1>3, <1>4, <1>5, <1>6, <1>7, <1>8, <1>9, <1>10 DEF Ending

(* The callee hears something it does not go by. *)
LEMMA CalleeWaits ==
  ASSUME Typed, Ending, NEW m, ~ (m.type = "ACK" /\ Callee = "answered"),
         m.type = "INVITE" => Callee # "idle", Taking(down["callee"], down'["callee"], m),
         up'["caller"] = up["caller"], up'["callee"] = up["callee"],
         down'["caller"] = down["caller"],
         pair' = pair, tsx' = tsx, Caller' = Caller, Callee' = Callee
  PROVE  Ending'
<1>1. /\ Words /\ NewCall /\ OneAnswer /\ Answered
      /\ ByeIsLast /\ NoAck /\ Released /\ ToBeReleased
  BY DEF Ending
<1>2. Other("caller") = "callee" /\ Other("callee") = "caller"
  BY TwoUsers
<1>3. Words'
  BY <1>1, <1>2, Taken DEF Words
<1>4. NewCall'
  BY <1>1, <1>2, Taken DEF NewCall
<1>5. OneAnswer'
  BY <1>1, <1>2, Taken DEF OneAnswer, Single, Coming
<1>6. Answered'
  BY <1>1, <1>2, Taken DEF Answered, Coming, NeverInvited
<1>7. ByeIsLast'
  BY <1>1, <1>2, Taken DEF ByeIsLast, Coming
<1>8. NoAck'
  BY <1>1, <1>2, Taken DEF NoAck, Coming
<1>9. Released'
  BY <1>1, <1>2, Taken DEF Released, NeverInvited
<1>10. ToBeReleased'
  BY <1>1, <1>2, Taken DEF ToBeReleased
<1>11. QED
  BY <1>3, <1>4, <1>5, <1>6, <1>7, <1>8, <1>9, <1>10 DEF Ending

(* The callee hears the INVITE. *)
LEMMA CalleeRings ==
  ASSUME Typed, Ending, NEW m, m.type = "INVITE",
         Taking(down["callee"], down'["callee"], m),
         up'["caller"] = up["caller"], up'["callee"] = up["callee"],
         down'["caller"] = down["caller"],
         pair' = pair, tsx' = tsx, Caller' = Caller, Callee = "idle", Callee' = "ringing"
  PROVE  Ending'
<1>1. /\ Words /\ NewCall /\ OneAnswer /\ Answered
      /\ ByeIsLast /\ NoAck /\ Released /\ ToBeReleased
  BY DEF Ending
<1>2. Other("caller") = "callee" /\ Other("callee") = "caller"
  BY TwoUsers
<1>3. Words'
  BY <1>1, <1>2, Taken DEF Words
<1>4. NewCall'
  BY <1>1, <1>2, Taken DEF NewCall
<1>5. OneAnswer'
  BY <1>1, <1>2, Taken DEF OneAnswer, Single, Coming
<1>6. Answered'
  BY <1>1, <1>2, Taken DEF Answered, Coming, NeverInvited
<1>7. ByeIsLast'
  BY <1>1, <1>2, Taken DEF ByeIsLast, Coming
<1>8. NoAck'
  BY <1>1, <1>2, Taken DEF NoAck, Coming
<1>9. Released'
  BY <1>1, <1>2, Taken DEF Released, NeverInvited
<1>10. ToBeReleased'
  BY <1>1, <1>2, Taken DEF ToBeReleased
<1>11. QED
  BY <1>3, <1>4, <1>5, <1>6, <1>7, <1>8, <1>9, <1>10 DEF Ending

(* The callee hears the CANCEL before it has answered. *)
LEMMA CalleeIsCancelled ==
  ASSUME Typed, Ending, NEW m, NEW x, m.type = "CANCEL", x.type = "487",
         Taking(down["callee"], down'["callee"], m),
         Putting(up["callee"], up'["callee"], x),
         up'["caller"] = up["caller"], down'["caller"] = down["caller"], pair' = pair,
         tsx' = tsx, Caller' = Caller, Callee \in {"ringing", "rung"}, Callee' = "over"
  PROVE  Ending'
<1>1. /\ Words /\ NewCall /\ OneAnswer /\ Answered
      /\ ByeIsLast /\ NoAck /\ Released /\ ToBeReleased
  BY DEF Ending
<1>2. Other("caller") = "callee" /\ Other("callee") = "caller"
  BY TwoUsers
<1>3. Words'
  BY <1>1, <1>2, Taken, Put DEF Words
<1>4. NewCall'
  BY <1>1, <1>2, Taken, Put DEF NewCall
<1>5. OneAnswer'
  BY <1>1, <1>2, Taken, Put DEF OneAnswer, Single, Coming
<1>6. Answered'
  BY <1>1, <1>2, Taken, Put DEF Answered, Coming, NeverInvited
<1>7. ByeIsLast'
  BY <1>1, <1>2, Taken, Put DEF ByeIsLast, Coming
<1>8. NoAck'
  BY <1>1, <1>2, Taken, Put DEF NoAck, Coming
<1>9. Released'
  BY <1>1, <1>2, Taken, Put DEF Released, NeverInvited
<1>10. ToBeReleased'
  BY <1>1, <1>2, Taken, Put DEF ToBeReleased
<1>11. QED
  BY <1>3, <1>4, <1>5, <1>6, <1>7, <1>8, <1>9, <1>10 DEF Ending

(* The callee hears the ACK. *)
LEMMA CalleeTalks ==
  ASSUME Typed, Ending, NEW m, m.type = "ACK", Taking(down["callee"], down'["callee"], m),
         up'["caller"] = up["caller"], up'["callee"] = up["callee"],
         down'["caller"] = down["caller"],
         pair' = pair, tsx' = tsx, Caller' = Caller, Callee = "answered",
         Callee' = "talking"
  PROVE  Ending'
<1>1. /\ Words /\ NewCall /\ OneAnswer /\ Answered
      /\ ByeIsLast /\ NoAck /\ Released /\ ToBeReleased
  BY DEF Ending
<1>2. Other("caller") = "callee" /\ Other("callee") = "caller"
  BY TwoUsers
<1>3. Words'
  BY <1>1, <1>2, Taken DEF Words
<1>4. NewCall'
  BY <1>1, <1>2, Taken DEF NewCall
<1>5. OneAnswer'
  BY <1>1, <1>2, Taken DEF OneAnswer, Single, Coming, Waiting
<1>6. Answered'
  BY <1>1, <1>2, Taken DEF Answered, Coming, NeverInvited
<1>7. ByeIsLast'
  BY <1>1, <1>2, Taken DEF ByeIsLast, Coming
<1>8. NoAck'
  BY <1>1, <1>2, Taken DEF NoAck, Coming
<1>9. Released'
  BY <1>1, <1>2, Taken DEF Released, NeverInvited
<1>10. ToBeReleased'
  BY <1>1, <1>2, Taken DEF ToBeReleased
<1>11. QED
  BY <1>3, <1>4, <1>5, <1>6, <1>7, <1>8, <1>9, <1>10 DEF Ending

(* The callee hears a BYE. *)
LEMMA CalleeIsLeft ==
  ASSUME Typed, Ending, NEW m, m.type = "BYE", Taking(down["callee"], down'["callee"], m),
         up'["caller"] = up["caller"], up'["callee"] = up["callee"],
         down'["caller"] = down["caller"],
         pair' = pair, tsx' = tsx, Caller' = Caller, Callee' = "over"
  PROVE  Ending'
<1>1. /\ Words /\ NewCall /\ OneAnswer /\ Answered
      /\ ByeIsLast /\ NoAck /\ Released /\ ToBeReleased
  BY DEF Ending
<1>2. Other("caller") = "callee" /\ Other("callee") = "caller"
  BY TwoUsers
<1>3. Words'
  BY <1>1, <1>2, Taken DEF Words
<1>4. NewCall'
  BY <1>1, <1>2, Taken DEF NewCall
<1>5. OneAnswer'
  BY <1>1, <1>2, Taken DEF OneAnswer, Single, Coming, Answered, NeverInvited, ByeIsLast, NoAck
<1>6. Answered'
  BY <1>1, <1>2, Taken DEF Answered, Coming, NeverInvited
<1>7. ByeIsLast'
  BY <1>1, <1>2, Taken DEF ByeIsLast, Coming
<1>8. NoAck'
  BY <1>1, <1>2, Taken DEF NoAck, Coming
<1>9. Released'
  BY <1>1, <1>2, Taken DEF Released, NeverInvited
<1>10. ToBeReleased'
  BY <1>1, <1>2, Taken DEF ToBeReleased
<1>11. QED
  BY <1>3, <1>4, <1>5, <1>6, <1>7, <1>8, <1>9, <1>10 DEF Ending

(* The caller says INVITE. *)
LEMMA CallerCalls ==
  ASSUME Typed, Ending, NEW x, x.type = "INVITE", Putting(up["caller"], up'["caller"], x),
         up'["callee"] = up["callee"], down'["callee"] = down["callee"],
         down'["caller"] = down["caller"],
         pair' = pair, tsx' = tsx, Callee' = Callee, Caller = "idle",
         Caller' \in {"asking", "inviting"}
  PROVE  Ending'
<1>1. /\ Words /\ NewCall /\ OneAnswer /\ Answered
      /\ ByeIsLast /\ NoAck /\ Released /\ ToBeReleased
  BY DEF Ending
<1>2. Other("caller") = "callee" /\ Other("callee") = "caller"
  BY TwoUsers
<1>3. Words'
  BY <1>1, <1>2, Put DEF Words
<1>4. NewCall'
  BY <1>1, <1>2, Put DEF NewCall
<1>5. OneAnswer'
  BY <1>1, <1>2, Put DEF OneAnswer, Single, Coming, Waiting
<1>6. Answered'
  BY <1>1, <1>2, Put DEF Answered, Coming, NeverInvited
<1>7. ByeIsLast'
  BY <1>1, <1>2, Put DEF ByeIsLast, Coming
<1>8. NoAck'
  BY <1>1, <1>2, Put DEF NoAck, Coming
<1>9. Released'
  BY <1>1, <1>2, Put DEF Released, NeverInvited
<1>10. ToBeReleased'
  BY <1>1, <1>2, Put DEF ToBeReleased
<1>11. QED
  BY <1>3, <1>4, <1>5, <1>6, <1>7, <1>8, <1>9, <1>10 DEF Ending

(* The caller says CANCEL. *)
LEMMA CallerCancelsIt ==
  ASSUME Typed, Ending, NEW x, x.type = "CANCEL", Putting(up["caller"], up'["caller"], x),
         up'["callee"] = up["callee"], down'["callee"] = down["callee"],
         down'["caller"] = down["caller"],
         pair' = pair, tsx' = tsx, Callee' = Callee, Caller = "proceeding",
         Caller' = "cancelling"
  PROVE  Ending'
<1>1. /\ Words /\ NewCall /\ OneAnswer /\ Answered
      /\ ByeIsLast /\ NoAck /\ Released /\ ToBeReleased
  BY DEF Ending
<1>2. Other("caller") = "callee" /\ Other("callee") = "caller"
  BY TwoUsers
<1>3. Words'
  BY <1>1, <1>2, Put DEF Words
<1>4. NewCall'
  BY <1>1, <1>2, Put DEF NewCall
<1>5. OneAnswer'
  BY <1>1, <1>2, Put DEF OneAnswer, Single, Coming, Waiting
<1>6. Answered'
  BY <1>1, <1>2, Put DEF Answered, Coming, NeverInvited
<1>7. ByeIsLast'
  BY <1>1, <1>2, Put DEF ByeIsLast, Coming
<1>8. NoAck'
  BY <1>1, <1>2, Put DEF NoAck, Coming
<1>9. Released'
  BY <1>1, <1>2, Put DEF Released, NeverInvited
<1>10. ToBeReleased'
  BY <1>1, <1>2, Put DEF ToBeReleased
<1>11. QED
  BY <1>3, <1>4, <1>5, <1>6, <1>7, <1>8, <1>9, <1>10 DEF Ending

(* The caller says BYE. *)
LEMMA CallerLeaves ==
  ASSUME Typed, Ending, NEW x, x.type = "BYE", Putting(up["caller"], up'["caller"], x),
         up'["callee"] = up["callee"], down'["callee"] = down["callee"],
         down'["caller"] = down["caller"],
         pair' = pair, tsx' = tsx, Callee' = Callee, Caller = "talking", Caller' = "over"
  PROVE  Ending'
<1>1. /\ Words /\ NewCall /\ OneAnswer /\ Answered
      /\ ByeIsLast /\ NoAck /\ Released /\ ToBeReleased
  BY DEF Ending
<1>2. Other("caller") = "callee" /\ Other("callee") = "caller"
  BY TwoUsers
<1>3. Words'
  BY <1>1, <1>2, Put DEF Words
<1>4. NewCall'
  BY <1>1, <1>2, Put DEF NewCall
<1>5. OneAnswer'
  BY <1>1, <1>2, Put DEF OneAnswer, Single, Coming, Waiting
<1>6. Answered'
  BY <1>1, <1>2, Put DEF Answered, Coming, NeverInvited
<1>7. ByeIsLast'
  BY <1>1, <1>2, Put DEF ByeIsLast, Coming, Answered
<1>8. NoAck'
  BY <1>1, <1>2, Put DEF NoAck, Coming
<1>9. Released'
  BY <1>1, <1>2, Put DEF Released, NeverInvited
<1>10. ToBeReleased'
  BY <1>1, <1>2, Put DEF ToBeReleased
<1>11. QED
  BY <1>3, <1>4, <1>5, <1>6, <1>7, <1>8, <1>9, <1>10 DEF Ending

(* The callee rings, answers, declines or says BYE. *)
LEMMA CalleeSays ==
  ASSUME Typed, Ending, NEW x, Putting(up["callee"], up'["callee"], x),
         up'["caller"] = up["caller"], down'["callee"] = down["callee"],
         down'["caller"] = down["caller"],
         pair' = pair, tsx' = tsx, Caller' = Caller,
         \/ x.type = "180" /\ Callee = "ringing" /\ Callee' = "rung"
         \/ x.type = "200" /\ Callee \in {"ringing", "rung"} /\ Callee' = "answered"
         \/ x.type = "603" /\ Callee \in {"ringing", "rung"} /\ Callee' = "over"
         \/ x.type = "BYE" /\ Callee = "talking" /\ Callee' = "over"
  PROVE  Ending'
<1>1. /\ Words /\ NewCall /\ OneAnswer /\ Answered
      /\ ByeIsLast /\ NoAck /\ Released /\ ToBeReleased
  BY DEF Ending
<1>2. Other("caller") = "callee" /\ Other("callee") = "caller"
  BY TwoUsers
<1>3. Caller \in Talks \cup Waiting /\ Callee \in Talks \cup {"ringing", "rung", "answered"}
  BY DEF Typed, TypeOK, Caller, Callee, Waiting
<1>4. Words'
  BY <1>1, <1>2, Put DEF Words
<1>5. NewCall'
  BY <1>1, <1>2, Put DEF NewCall
<1>6. OneAnswer'
  BY <1>1, <1>2, <1>3, Put
  DEF OneAnswer, Words, NewCall, Single, Coming, Answered, NeverInvited, Talks
<1>7. Answered'
  BY <1>1, <1>2, Put DEF Answered, Coming, NeverInvited
<1>8. ByeIsLast'
  BY <1>1, <1>2, Put DEF ByeIsLast, Coming
<1>9. NoAck'
  BY <1>1, <1>2, Put DEF NoAck, Coming
<1>10. Released'
  BY <1>1, <1>2, Put DEF Released, NeverInvited
<1>11. ToBeReleased'
  BY <1>1, <1>2, Put DEF ToBeReleased
<1>12. QED
  BY <1>4, <1>5, <1>6, <1>7, <1>8, <1>9, <1>10, <1>11 DEF Ending

-----------------------------------------------------------------------------
(* The steps of the CSCF and of the parties are such moves.                *)

(* What a CANCEL or a BYE, a Decline or another response leaves to the call. *)
LEMMA ReleaseIs ==
  ASSUME NEW m \in Messages
  PROVE  /\ HangUp(m) <=> m.type \in {"BYE", "CANCEL", "603"}
         /\ HangUp(m) => change_sdp(m) # {} /\ \A out \in change_sdp(m) : out.pair = NoPair
         /\ ~HangUp(m) /\ m.type \notin Requests =>
              change_sdp(m) # {} /\ \A out \in change_sdp(m) : out.pair = pair
<1>1. HangUp(m) <=> m.type \in {"BYE", "CANCEL", "603"}
  BY DEF HangUp
<1>2. HangUp(m) => change_sdp(m) = {[pair |-> NoPair, sdp |-> m.sdp]}
  BY DEF change_sdp
<1>3. ~HangUp(m) /\ m.type \notin Requests =>
        \E sdp : change_sdp(m) = {[pair |-> pair, sdp |-> sdp]}
  BY DEF change_sdp
<1>4. \A q, sdp : \A out \in {[pair |-> q, sdp |-> sdp]} : out.pair = q
  OBVIOUS
<1>5. QED
  BY <1>1, <1>2, <1>3, <1>4

(* A message of the caller's on its way through the CSCF. *)
LEMMA CallerPasses ==
  ASSUME Typed, Ending, Cscf("caller")
  PROVE  Ending'
<1> DEFINE m == Head(up["caller"])
<1>1. Handle("caller", m) /\ Took("caller", m) /\ tsx # "aborted"
  BY DEF Cscf, Handle, NoPort, Absorb, NotFound, Invite, Cancel, InDialog, ToProxy, Response
<1> HIDE DEF m
<1>2. /\ "caller" \in Users /\ "callee" \in Users
      /\ Other("caller") = "callee" /\ Other("callee") = "caller"
  BY TwoUsers
<1>3. Taking(up["caller"], up'["caller"], m) /\ up'["callee"] = up["callee"]
  BY <1>1, <1>2, TookIs DEF Taking
<1>4. ua' = ua
  BY <1>1 DEF Handle, NoPort, Absorb, NotFound, Invite, Cancel, InDialog, ToProxy, Response, party
<1>5. down["caller"] \in Seq(Messages) /\ down["callee"] \in Seq(Messages)
  BY <1>2 DEF Typed
<1>6. /\ m \in Messages
      /\ m.type = "INVITE" \/ m.type = "ACK" \/ m.type \in {"CANCEL", "BYE"}
      /\ m.type = "INVITE" => pair = NoPair /\ tsx = "none"
  <2>1. Words /\ NewCall
    BY DEF Ending
  <2>2. QED
    BY <1>3, <2>1, Taken DEF Words, NewCall
<1>7. ASSUME NEW x \in Messages, NEW u \in Users, Sent(u, <<x>>)
      PROVE  Putting(down[u], down'[u], x) /\ down'[Other(u)] = down[Other(u)]
  BY <1>2, <1>5, <1>7, TwoUsers, SentIs DEF Putting
<1>8. CASE m.type = "INVITE"
  <2>1. ~Repeated(m)
    BY <1>6, <1>8 DEF Repeated
  <2>2. ASSUME NEW code \in {"404", "486"}, Respond("caller", m, code), pair' = NoPair
        PROVE  Ending'
    <3> DEFINE y == Msg(code, NoSdp)
    <3>1. y \in Messages /\ y.type = code
      BY CscfMessages DEF Msg
    <3>2. Sent("caller", <<y>>) /\ tsx' = "completed"
      BY <1>8, <2>1, <2>2 DEF Respond
    <3> HIDE DEF y
    <3>3. Putting(down["caller"], down'["caller"], y) /\ down'["callee"] = down["callee"]
      BY <1>2, <1>7, <3>1, <3>2
    <3>4. QED
      BY <1>3, <1>4, <1>8, <2>2, <3>1, <3>2, <3>3, InviteEnds
  <2>3. CASE NoPort("caller", m) \/ NotFound("caller", m)
    <3>1. \E code \in {"404", "486"} : Respond("caller", m, code) /\ pair' = NoPair
      BY <1>6, <1>8, <2>3 DEF NoPort, NotFound, port
    <3>2. QED
      BY <2>2, <3>1
  <2>4. CASE Invite("caller", m)
    <3>1. PICK out \in change_sdp(m) :
            down' = [down EXCEPT !["callee"] = Append(@, Msg("INVITE", out.sdp)),
                                 !["caller"] = Append(@, Msg("100", NoSdp))]
      BY <1>2, <2>4 DEF Invite
    <3> DEFINE x == Msg("INVITE", out.sdp)
               y == Msg("100", NoSdp)
    <3>2. x \in Messages /\ x.type = "INVITE" /\ y \in Messages /\ y.type = "100"
      <4>1. Msg(m.type, out.sdp) \in Messages
        BY <1>6, ChangeIs
      <4>2. QED
        BY <1>8, <4>1, CscfMessages DEF Msg
    <3>3. down' = [down EXCEPT !["callee"] = Append(@, x), !["caller"] = Append(@, y)]
      BY <3>1
    <3> HIDE DEF x, y
    <3>4. down \in [Users -> Seq(Messages)] /\ "caller" # "callee"
      BY DEF Typed
    <3>5. /\ Putting(down["callee"], down'["callee"], x)
          /\ Putting(down["caller"], down'["caller"], y)
      BY <1>2, <1>5, <3>2, <3>3, <3>4 DEF Putting
    <3>6. tsx' = "pending"
      BY <2>4 DEF Invite
    <3>7. QED
      BY <1>3, <1>4, <1>8, <3>2, <3>5, <3>6, InviteGoesOn
  <2>5. QED
    BY <1>1, <1>8, <2>1, <2>3, <2>4
    DEF Handle, Absorb, Cancel, InDialog, Response, Requests
<1>9. CASE m.type = "ACK"
  <2>1. CASE NoPort("caller", m) \/ NotFound("caller", m)
    <3>1. tsx' = "aborted" /\ down' = down
      BY <1>9, <2>1 DEF NoPort, NotFound, Respond, Repeated
    <3>2. QED
      BY <1>1, <1>3, <1>4, <1>9, <3>1, AckAborts
  <2>2. CASE InDialog("caller", m)
    <3>1. PICK out \in change_sdp(m) : Sent("callee", <<Msg("ACK", out.sdp)>>) /\ tsx' = tsx
      BY <1>2, <1>9, <2>2 DEF InDialog
    <3> DEFINE x == Msg("ACK", out.sdp)
    <3>2. x \in Messages /\ x.type = "ACK" /\ Sent("callee", <<x>>)
      <4>1. Msg(m.type, out.sdp) \in Messages
        BY <1>6, ChangeIs
      <4>2. QED
        BY <1>9, <3>1, <4>1 DEF Msg
    <3> HIDE DEF x
    <3>3. Putting(down["callee"], down'["callee"], x) /\ down'["caller"] = down["caller"]
      BY <1>2, <1>7, <3>2
    <3>4. QED
      BY <1>1, <1>3, <1>4, <1>9, <3>1, <3>2, <3>3, AckGoesOn
  <2>3. QED
    BY <1>1, <1>9, <2>1, <2>2
    DEF Handle, Absorb, Repeated, Invite, Cancel, Response, Requests
<1>10. CASE m.type \in {"CANCEL", "BYE"}
  <2>1. change_sdp(m) # {} /\ \A out \in change_sdp(m) : out.pair = NoPair
    BY <1>6, <1>10, ReleaseIs
  <2>2. ASSUME NEW x \in Messages, x.type = m.type, pair' = NoPair, tsx' = tsx,
               Sent("callee", <<x>>) \/ down' = down
        PROVE  Ending'
    <3>1. CASE Sent("callee", <<x>>)
      <4>1. Putting(down["callee"], down'["callee"], x) /\ down'["caller"] = down["caller"]
        BY <1>2, <1>7, <2>2, <3>1
      <4>2. QED
        BY <1>1, <1>3, <1>4, <1>10, <2>2, <4>1, CallerReleases
    <3>2. CASE down' = down
      BY <1>1, <1>3, <1>4, <1>10, <2>2, <3>2, CallerReleases
    <3>3. QED
      BY <2>2, <3>1, <3>2
  <2>3. CASE NotFound("caller", m)
    <3>1. pair' = NoPair /\ tsx' = tsx /\ down' = down
      BY <1>10, <2>3 DEF NotFound, Respond, Repeated
    <3>2. QED
      BY <1>6, <2>2, <3>1
  <2>4. CASE Cancel("caller", m)
    <3> DEFINE x == Msg("CANCEL", NoSdp)
    <3>1. x \in Messages /\ x.type = m.type
      BY <2>4, CscfMessages DEF Cancel, Msg
    <3>2. Sent("callee", <<x>>) \/ down' = down
      BY <1>2, <2>4 DEF Cancel
    <3> HIDE DEF x
    <3>3. pair' = NoPair /\ tsx' = tsx
      BY <2>1, <2>4 DEF Cancel, ToProxy
    <3>4. QED
      BY <2>2, <3>1, <3>2, <3>3
  <2>5. CASE InDialog("caller", m)
    <3>1. PICK out \in change_sdp(m) :
            pair' = out.pair /\ Sent("callee", <<Msg(m.type, out.sdp)>>) /\ tsx' = tsx
      BY <1>2, <2>5 DEF InDialog, ToProxy
    <3> DEFINE x == Msg(m.type, out.sdp)
    <3>2. x \in Messages /\ x.type = m.type /\ Sent("callee", <<x>>)
      BY <1>6, <3>1, ChangeIs DEF Msg
    <3> HIDE DEF x
    <3>3. QED
      BY <2>1, <2>2, <3>1, <3>2
  <2>6. QED
    BY <1>1, <1>10, <2>1, <2>3, <2>4, <2>5
    DEF Handle, NoPort, Absorb, Repeated, Invite, Response, Requests
<1>11. QED
  BY <1>6, <1>8, <1>9, <1>10

(* A message of the callee's on its way through the CSCF. *)
LEMMA CalleePasses ==
  ASSUME Typed, Ending, Cscf("callee")
  PROVE  Ending'
<1> DEFINE m == Head(up["callee"])
<1>1. Handle("callee", m) /\ Took("callee", m) /\ tsx # "aborted"
  BY DEF Cscf, Handle, NoPort, Absorb, NotFound, Invite, Cancel, InDialog, ToProxy, Response
<1> HIDE DEF m
<1>2. /\ "caller" \in Users /\ "callee" \in Users
      /\ Other("caller") = "callee" /\ Other("callee") = "caller"
  BY TwoUsers
<1>3. Taking(up["callee"], up'["callee"], m) /\ up'["caller"] = up["caller"]
  BY <1>1, <1>2, TookIs DEF Taking
<1>4. ua' = ua
  BY <1>1 DEF Handle, NoPort, Absorb, NotFound, Invite, Cancel, InDialog, ToProxy, Response, party
<1>5. m \in Messages /\ m.type \in {"180", "200", "487", "603", "BYE"}
  BY <1>3, Taken DEF Ending, Words
<1>6. /\ change_sdp(m) # {}
      /\ \A out \in change_sdp(m) :
           out.pair = IF m.type \in {"603", "BYE"} THEN NoPair ELSE pair
  BY <1>5, ReleaseIs DEF Requests
<1>7. CASE NotFound("callee", m)
  <2>1. /\ m.type = "BYE" /\ pair' = NoPair /\ tsx' = tsx /\ down' = down
    BY <1>5, <1>7 DEF NotFound, Respond, Repeated, Requests
  <2>2. QED
    BY <1>1, <1>3, <1>4, <1>5, <2>1, CalleeIsPassed
<1>8. CASE InDialog("callee", m) \/ Response("callee", m)
  <2>1. PICK out \in change_sdp(m) :
          pair' = out.pair /\ Sent("caller", <<Msg(m.type, out.sdp)>>)
    BY <1>2, <1>8 DEF InDialog, ToProxy, Response
  <2> DEFINE x == Msg(m.type, out.sdp)
  <2>2. x \in Messages /\ x.type = m.type /\ Sent("caller", <<x>>)
    BY <1>5, <2>1, ChangeIs DEF Msg
  <2> HIDE DEF x
  <2>3. Putting(down["caller"], down'["caller"], x) /\ down'["callee"] = down["callee"]
    BY <1>2, <2>2, SentIs DEF Putting, Typed
  <2>4. tsx' # "aborted"
    BY <1>1, <1>8 DEF InDialog, Response
  <2>5. (pair' = pair \/ pair' = NoPair) /\ (m.type \in {"603", "BYE"} => pair' = NoPair)
    BY <1>6, <2>1
  <2>6. QED
    BY <1>1, <1>3, <1>4, <2>2, <2>3, <2>4, <2>5, CalleeIsPassed
<1>9. ~NoPort("callee", m) /\ ~Absorb("callee", m)
  BY <1>5, <1>6 DEF NoPort, Absorb, Repeated
<1>10. ~Invite("callee", m) /\ ~Cancel("callee", m)
  BY <1>5 DEF Invite, Cancel
<1>11. QED
  BY <1>1, <1>7, <1>8, <1>9, <1>10 DEF Handle

(* What a party does with a message in these worlds. *)
LEMMA CallerDoes ==
  ASSUME NEW s, s \notin {"reinviting", "reanswered"}, NEW t
  PROVE  LET then == Hears("caller", s, t)
         IN  \/ /\ t = "BYE" \/ (t \in Refusals /\ s # "talking")
                /\ then.ua = "over" /\ then.says = <<>>
             \/ /\ t = "200" /\ s \in Waiting \ {"cancelling"}
                /\ then.ua = "talking"
                /\ \E sdp \in {NoSdp, Direct} : then.says = <<Msg("ACK", sdp)>>
             \/ /\ t = "200" /\ s = "cancelling" /\ then.ua = "over"
                /\ then.says = <<Msg("ACK", NoSdp), Msg("BYE", NoSdp)>>
             \/ /\ t # "BYE" /\ (t = "200" => s \notin Waiting) /\ then.says = <<>>
                /\ then.ua = s \/ (s \in Waiting /\ then.ua \in Waiting)
             \/ t \in {"re-INVITE"} \cup Answers
<1>1. CASE t = "BYE"
  BY <1>1 DEF Hears, EitherHears
<1>2. CASE t \notin {"BYE", "re-INVITE"} \cup Answers
  <2>1. Hears("caller", s, t) = CallerHears(s, t)
    BY <1>2 DEF Hears
  <2>2. CASE t = "200"
    <3>1. t \notin Refusals
      BY <2>2 DEF Refusals
    <3>2. QED
      BY <2>1, <2>2, <3>1 DEF CallerHears, Waiting
  <2>3. CASE t \in Refusals
    <3>1. t \notin {"100", "180", "200"}
      BY <2>3 DEF Refusals
    <3>2. QED
      BY <1>2, <2>1, <2>3, <3>1 DEF CallerHears
  <2>4. CASE t # "200" /\ t \notin Refusals
    BY <1>2, <2>1, <2>4 DEF CallerHears, Waiting
  <2>5. QED
    BY <2>2, <2>3, <2>4
<1>3. QED
  BY <1>1, <1>2

(* The same for the callee. *)
LEMMA CalleeDoes ==
  ASSUME NEW s, s \notin {"reinviting", "reanswered"}, NEW t
  PROVE  LET then == Hears("callee", s, t)
         IN  \/ t = "BYE" /\ then.ua = "over" /\ then.says = <<>>
             \/ t = "INVITE" /\ s = "idle" /\ then.ua = "ringing" /\ then.says = <<>>
             \/ /\ t = "CANCEL" /\ s \in {"ringing", "rung"} /\ then.ua = "over"
                /\ then.says = <<Msg("487", NoSdp)>>
             \/ t = "ACK" /\ s = "answered" /\ then.ua = "talking" /\ then.says = <<>>
             \/ /\ ~ (t = "ACK" /\ s = "answered") /\ (t = "INVITE" => s # "idle")
                /\ then.ua = s /\ then.says = <<>>
             \/ t \in {"re-INVITE"} \cup Answers
<1>1. CASE t = "BYE"
  BY <1>1 DEF Hears, EitherHears
<1>2. CASE t \notin {"BYE", "re-INVITE"} \cup Answers
  <2>1. Hears("callee", s, t) = CalleeHears(s, t)
    BY <1>2 DEF Hears
  <2>2. CASE t = "INVITE"
    BY <2>1, <2>2 DEF CalleeHears
  <2>3. CASE t = "CANCEL"
    BY <2>1, <2>3 DEF CalleeHears
  <2>4. CASE t = "ACK"
    BY <2>1, <2>4 DEF CalleeHears
  <2>5. CASE t \notin {"INVITE", "CANCEL", "ACK"}
    BY <2>1, <2>5 DEF CalleeHears
  <2>6. QED
    BY <2>2, <2>3, <2>4, <2>5
<1>3. QED
  BY <1>1, <1>2

(* The queues of a party that hears a message, and what it says. *)
LEMMA HearIs ==
  ASSUME Typed, NEW u \in Users, Hear(u)
  PROVE  LET m == Head(down[u])
             then == Hears(u, ua[u], m.type)
         IN  /\ Taking(down[u], down'[u], m) /\ down'[Other(u)] = down[Other(u)]
             /\ up'[Other(u)] = up[Other(u)] /\ ua'[Other(u)] = ua[Other(u)]
             /\ ua'[u] = then.ua /\ pair' = pair /\ tsx' = tsx
             /\ then.says = <<>> => up'[u] = up[u]
             /\ \A x \in Messages : then.says = <<x>> => Putting(up[u], up'[u], x)
             /\ \A x, y \in Messages : then.says = <<x, y>> =>
                  Putting(up[u], Append(up[u], x), x) /\ Putting(Append(up[u], x), up'[u], y)
<1> DEFINE m == Head(down[u])
           then == Hears(u, ua[u], m.type)
<1>1. /\ down[u] # <<>> /\ ua' = [ua EXCEPT ![u] = then.ua]
      /\ up' = [up EXCEPT ![u] = @ \o then.says] /\ down' = [down EXCEPT ![u] = Tail(@)]
      /\ UNCHANGED <<pair, tsx>>
  BY DEF Hear, port
<1> HIDE DEF then
<1>2. /\ up \in [Users -> Seq(Messages)] /\ down \in [Users -> Seq(Messages)]
      /\ ua \in [Users -> States] /\ Other(u) \in Users /\ Other(u) # u
  BY TwoUsers DEF Typed
<1>3. /\ ua'[u] = then.ua /\ ua'[Other(u)] = ua[Other(u)]
      /\ up'[u] = up[u] \o then.says /\ up'[Other(u)] = up[Other(u)]
      /\ down'[u] = Tail(down[u]) /\ down'[Other(u)] = down[Other(u)]
      /\ up[u] \in Seq(Messages) /\ down[u] \in Seq(Messages)
  BY <1>1, <1>2
<1>4. then.says = <<>> => up'[u] = up[u]
  BY <1>3
<1>5. ASSUME NEW x \in Messages, then.says = <<x>>
      PROVE  Putting(up[u], up'[u], x)
  BY <1>3, <1>5, ConcatOne DEF Putting
<1>6. ASSUME NEW x \in Messages, NEW y \in Messages, then.says = <<x, y>>
      PROVE  Putting(up[u], Append(up[u], x), x) /\ Putting(Append(up[u], x), up'[u], y)
  <2>1. \A s \in Seq(Messages) : /\ s \o <<x, y>> = Append(Append(s, x), y)
                                 /\ Append(s, x) \in Seq(Messages)
    OBVIOUS
  <2>2. QED
    BY <1>3, <1>6, <2>1 DEF Putting
<1>7. QED
  BY <1>1, <1>3, <1>4, <1>5, <1>6, Zenon DEF Taking, then

(* The caller hears a message. *)
LEMMA CallerHearsIt ==
  ASSUME Typed, Ending, Hear("caller")
  PROVE  Ending'
<1> DEFINE m == Head(down["caller"])
           then == Hears("caller", Caller, m.type)
<1>1. "caller" \in Users /\ Other("caller") = "callee"
  BY TwoUsers
<1>2. /\ Taking(down["caller"], down'["caller"], m) /\ down'["callee"] = down["callee"]
      /\ up'["callee"] = up["callee"] /\ Callee' = Callee
      /\ Caller' = then.ua /\ pair' = pair /\ tsx' = tsx
      /\ then.says = <<>> => up'["caller"] = up["caller"]
      /\ \A x \in Messages : then.says = <<x>> => Putting(up["caller"], up'["caller"], x)
      /\ \A x, y \in Messages : then.says = <<x, y>> =>
           /\ Putting(up["caller"], Append(up["caller"], x), x)
           /\ Putting(Append(up["caller"], x), up'["caller"], y)
  BY <1>1, HearIs DEF Caller, Callee
<1>3. Caller \notin {"reinviting", "reanswered"}
  BY DEF Ending, Words
<1>4. m.type \in {"180", "200", "487", "603", "BYE", "100", "404", "486"}
  BY <1>2, Taken DEF Ending, Words
<1> HIDE DEF m
<1>5. \/ /\ m.type \in {"404", "408", "486", "487", "603", "BYE"}
         /\ then.ua = "over" /\ then.says = <<>>
      \/ /\ m.type = "200" /\ Caller \in Waiting /\ then.ua = "talking"
         /\ \E sdp \in {NoSdp, Direct} : then.says = <<Msg("ACK", sdp)>>
      \/ /\ m.type = "200" /\ Caller = "cancelling" /\ then.ua = "over"
         /\ then.says = <<Msg("ACK", NoSdp), Msg("BYE", NoSdp)>>
      \/ /\ m.type = "200" => Caller \notin Waiting
         /\ then.says = <<>>
         /\ then.ua = Caller \/ (Caller \in Waiting /\ then.ua \in Waiting)
  <2>1. \A t : LET did == Hears("caller", Caller, t)
               IN  \/ /\ t = "BYE" \/ (t \in Refusals /\ Caller # "talking")
                      /\ did.ua = "over" /\ did.says = <<>>
                   \/ /\ t = "200" /\ Caller \in Waiting \ {"cancelling"}
                      /\ did.ua = "talking"
                      /\ \E sdp \in {NoSdp, Direct} : did.says = <<Msg("ACK", sdp)>>
                   \/ /\ t = "200" /\ Caller = "cancelling" /\ did.ua = "over"
                      /\ did.says = <<Msg("ACK", NoSdp), Msg("BYE", NoSdp)>>
                   \/ /\ t # "BYE" /\ (t = "200" => Caller \notin Waiting) /\ did.says = <<>>
                      /\ did.ua = Caller \/ (Caller \in Waiting /\ did.ua \in Waiting)
                   \/ t \in {"re-INVITE"} \cup Answers
    BY <1>3, CallerDoes
  <2> HIDE DEF then
  <2>2. QED
    BY <1>4, <2>1 DEF Refusals, Answers, then
<1> HIDE DEF then
<1>6. /\ \A sdp \in {NoSdp, Direct} : Msg("ACK", sdp) \in Messages
      /\ Msg("BYE", NoSdp) \in Messages
      /\ \A t, sdp : Msg(t, sdp).type = t
  BY PartyMessages DEF Msg
<1>7. CASE m.type \in {"404", "408", "486", "487", "603",
"BYE"} /\ then.ua = "over" /\ then.says = <<>>
  BY <1>2, <1>7, CallerEnds
<1>8. CASE m.type = "200" /\ Caller \in Waiting /\ then.ua = "talking"
             /\ \E sdp \in {NoSdp, Direct} : then.says = <<Msg("ACK", sdp)>>
  <2>1. PICK x \in Messages : x.type = "ACK" /\ then.says = <<x>>
    BY <1>6, <1>8
  <2>2. Putting(up["caller"], up'["caller"], x)
    BY <1>2, <2>1
  <2>3. QED
    BY <1>2, <1>8, <2>1, <2>2, CallerAcks
<1>9. CASE m.type = "200" /\ Caller = "cancelling" /\ then.ua = "over"
             /\ then.says = <<Msg("ACK", NoSdp), Msg("BYE", NoSdp)>>
  <2>1. PICK x \in Messages : x = Msg("ACK", NoSdp)
    BY <1>6
  <2>2. PICK y \in Messages : y = Msg("BYE", NoSdp)
    BY <1>6
  <2>3. x.type = "ACK" /\ y.type = "BYE" /\ then.says = <<x, y>>
    BY <1>6, <1>9, <2>1, <2>2
  <2>4. /\ Putting(up["caller"], Append(up["caller"], x), x)
        /\ Putting(Append(up["caller"], x), up'["caller"], y)
    BY <1>2, <2>3
  <2>5. QED
    BY <1>2, <1>9, <2>3, <2>4, CallerAcksAndLeaves
<1>10. CASE /\ m.type = "200" => Caller \notin Waiting
            /\ then.says = <<>>
            /\ then.ua = Caller \/ (Caller \in Waiting /\ then.ua \in Waiting)
  BY <1>2, <1>10, CallerWaits
<1>11. QED
  BY <1>5, <1>7, <1>8, <1>9, <1>10

(* The callee hears a message. *)
LEMMA CalleeHearsIt ==
  ASSUME Typed, Ending, Hear("callee")
  PROVE  Ending'
<1> DEFINE m == Head(down["callee"])
           then == Hears("callee", Callee, m.type)
<1>1. "callee" \in Users /\ Other("callee") = "caller"
  BY TwoUsers
<1>2. /\ Taking(down["callee"], down'["callee"], m) /\ down'["caller"] = down["caller"]
      /\ up'["caller"] = up["caller"] /\ Caller' = Caller
      /\ Callee' = then.ua /\ pair' = pair /\ tsx' = tsx
      /\ then.says = <<>> => up'["callee"] = up["callee"]
      /\ \A x \in Messages : then.says = <<x>> => Putting(up["callee"], up'["callee"], x)
  BY <1>1, HearIs DEF Caller, Callee
<1>3. Callee \notin {"reinviting", "reanswered"}
  BY DEF Ending, Words
<1>4. m.type \in {"INVITE", "CANCEL", "ACK", "BYE"}
  BY <1>2, Taken DEF Ending, Words
<1> HIDE DEF m
<1>5. \/ m.type = "BYE" /\ then.ua = "over" /\ then.says = <<>>
      \/ m.type = "INVITE" /\ Callee = "idle" /\ then.ua = "ringing" /\ then.says = <<>>
      \/ /\ m.type = "CANCEL" /\ Callee \in {"ringing", "rung"} /\ then.ua = "over"
         /\ then.says = <<Msg("487", NoSdp)>>
      \/ m.type = "ACK" /\ Callee = "answered" /\ then.ua = "talking" /\ then.says = <<>>
      \/ /\ ~ (m.type = "ACK" /\ Callee = "answered") /\ (m.type = "INVITE" => Callee # "idle")
         /\ then.ua = Callee /\ then.says = <<>>
  <2>1. \A t : LET did == Hears("callee", Callee, t)
               IN  \/ t = "BYE" /\ did.ua = "over" /\ did.says = <<>>
                   \/ t = "INVITE" /\ Callee = "idle" /\ did.ua = "ringing" /\ did.says = <<>>
                   \/ /\ t = "CANCEL" /\ Callee \in {"ringing", "rung"} /\ did.ua = "over"
                      /\ did.says = <<Msg("487", NoSdp)>>
                   \/ t = "ACK" /\ Callee = "answered" /\ did.ua = "talking" /\ did.says = <<>>
                   \/ /\ ~ (t = "ACK" /\ Callee = "answered")
                      /\ t = "INVITE" => Callee # "idle"
                      /\ did.ua = Callee /\ did.says = <<>>
                   \/ t \in {"re-INVITE"} \cup Answers
    BY <1>3, CalleeDoes
  <2> HIDE DEF then
  <2>2. QED
    BY <1>4, <2>1 DEF Answers, then
<1> HIDE DEF then
<1>6. Msg("487", NoSdp) \in Messages /\ Msg("487", NoSdp).type = "487"
  BY PartyMessages DEF Msg
<1>7. CASE /\ m.type = "CANCEL" /\ Callee \in {"ringing", "rung"} /\ then.ua = "over"
           /\ then.says = <<Msg("487", NoSdp)>>
  <2>1. PICK x \in Messages : x.type = "487" /\ then.says = <<x>>
    BY <1>6, <1>7
  <2>2. Putting(up["callee"], up'["callee"], x)
    BY <1>2, <2>1
  <2>3. QED
    BY <1>2, <1>7, <2>1, <2>2, CalleeIsCancelled
<1>8. CASE m.type = "BYE" /\ then.ua = "over" /\ then.says = <<>>
  BY <1>2, <1>8, CalleeIsLeft
<1>9. CASE m.type = "INVITE" /\ Callee = "idle" /\ then.ua = "ringing" /\ then.says = <<>>
  BY <1>2, <1>9, CalleeRings
<1>10. CASE m.type = "ACK" /\ Callee = "answered" /\ then.ua = "talking" /\ then.says = <<>>
  BY <1>2, <1>10, CalleeTalks
<1>11. CASE /\ ~ (m.type = "ACK" /\ Callee = "answered") /\ (m.type = "INVITE" => Callee # "idle")
            /\ then.ua = Callee /\ then.says = <<>>
  BY <1>2, <1>11, CalleeWaits
<1>12. QED
  BY <1>5, <1>7, <1>8, <1>9, <1>10, <1>11

(* The queues and the party that says something by itself. *)
LEMMA SpeechIs ==
  ASSUME Typed, NEW u \in Users, NEW from, NEW to, NEW x \in Messages, Says(u, from, to, <<x>>)
  PROVE  /\ Putting(up[u], up'[u], x) /\ up'[Other(u)] = up[Other(u)]
         /\ \A v \in Users : down'[v] = down[v]
         /\ ua[u] \in from /\ ua'[u] = to /\ ua'[Other(u)] = ua[Other(u)]
         /\ pair' = pair /\ tsx' = tsx
<1>1. /\ up \in [Users -> Seq(Messages)] /\ up[u] \in Seq(Messages) /\ ua \in [Users -> States]
      /\ Other(u) \in Users /\ Other(u) # u
  BY TwoUsers DEF Typed
<1>2. up[u] \o <<x>> = Append(up[u], x)
  BY <1>1, ConcatOne
<1>3. QED
  BY <1>1, <1>2 DEF Says, Putting, port

(* What a party does by itself. *)
LEMMA ActsEnding ==
  ASSUME Typed, Plain, Ending, Acts
  PROVE  Ending'
<1>1. /\ "caller" \in Users /\ "callee" \in Users
      /\ Other("caller") = "callee" /\ Other("callee") = "caller"
      /\ \A u \in Users : u = "caller" \/ u = "callee"
  BY TwoUsers
<1>2. \A u \in Users : ~Repeat(u) /\ ~Reinvite(u)
  BY DEF Plain, Repeat, Reinvite
<1>3. ASSUME NEW to, NEW t \in {"INVITE", "CANCEL", "BYE"}, NEW sdp, Msg(t, sdp) \in Messages,
             NEW from, Says("caller", from, to, <<Msg(t, sdp)>>),
             \/ t = "INVITE" /\ from = {"idle"} /\ to \in {"asking", "inviting"}
             \/ t = "CANCEL" /\ from = {"proceeding"} /\ to = "cancelling"
             \/ t = "BYE" /\ from = {"talking"} /\ to = "over"
      PROVE  Ending'
  <2>1. PICK x \in Messages : x = Msg(t, sdp) /\ x.type = t
    BY <1>3 DEF Msg
  <2>2. Says("caller", from, to, <<x>>)
    BY <1>3, <2>1
  <2>3. /\ Putting(up["caller"], up'["caller"], x) /\ up'["callee"] = up["callee"]
        /\ down'["callee"] = down["callee"] /\ down'["caller"] = down["caller"]
        /\ Caller \in from /\ Caller' = to /\ Callee' = Callee /\ pair' = pair /\ tsx' = tsx
    BY <1>1, <2>2, SpeechIs DEF Caller, Callee
  <2>4. QED
    BY <1>3, <2>1, <2>3, CallerCalls, CallerCancelsIt, CallerLeaves
<1>4. ASSUME NEW to, NEW t \in {"180", "200", "603", "BYE"}, NEW sdp, Msg(t, sdp) \in Messages,
             NEW from, Says("callee", from, to, <<Msg(t, sdp)>>),
             \/ t = "180" /\ from = {"ringing"} /\ to = "rung"
             \/ t = "200" /\ from = {"ringing", "rung"} /\ to = "answered"
             \/ t = "603" /\ from = {"ringing", "rung"} /\ to = "over"
             \/ t = "BYE" /\ from = {"talking"} /\ to = "over"
      PROVE  Ending'
  <2>1. PICK x \in Messages : x = Msg(t, sdp) /\ x.type = t
    BY <1>4 DEF Msg
  <2>2. Says("callee", from, to, <<x>>)
    BY <1>4, <2>1
  <2>3. /\ Putting(up["callee"], up'["callee"], x) /\ up'["caller"] = up["caller"]
        /\ down'["callee"] = down["callee"] /\ down'["caller"] = down["caller"]
        /\ Callee \in from /\ Callee' = to /\ Caller' = Caller /\ pair' = pair /\ tsx' = tsx
    BY <1>1, <2>2, SpeechIs DEF Caller, Callee
  <2>4. QED
    BY <1>4, <2>1, <2>3, CalleeSays
<1>5. CASE Call
  <2>1. PICK sdp \in {Direct, NoSdp} :
          Says("caller", {"idle"}, IF sdp = NoSdp THEN "asking" ELSE "inviting",
               <<Msg("INVITE", sdp)>>)
    BY <1>5 DEF Call
  <2>2. Msg("INVITE", sdp) \in Messages
    BY PartyMessages
  <2>3. QED
    BY <1>3, <2>1, <2>2
<1>6. CASE CallerCancels
  BY <1>3, <1>6, PartyMessages DEF CallerCancels
<1>7. CASE Bye("caller")
  BY <1>3, <1>7, PartyMessages DEF Bye
<1>8. CASE Bye("callee")
  BY <1>4, <1>8, PartyMessages DEF Bye
<1>9. CASE Ring
  BY <1>4, <1>9, PartyMessages DEF Ring
<1>10. CASE Answer
  BY <1>4, <1>10, PartyMessages DEF Answer
<1>11. CASE Refuse
  <2>1. Says("callee", {"ringing", "rung"}, "over", <<Msg("603", NoSdp)>>)
    BY <1>11 DEF Refuse, Plain
  <2>2. QED
    BY <1>4, <2>1, PartyMessages
<1>12. QED
  BY <1>1, <1>2, <1>5, <1>6, <1>7, <1>8, <1>9, <1>10, <1>11 DEF Acts, Party

(* Nothing else of the call's changes. *)
LEMMA FrameEnding ==
  ASSUME Ending, UNCHANGED <<pair, tsx, ua, up, down>>
  PROVE  Ending'
<1>1. /\ Words /\ NewCall /\ OneAnswer /\ Answered
      /\ ByeIsLast /\ NoAck /\ Released /\ ToBeReleased
  BY DEF Ending
<1>2. Words' /\ NewCall' /\ OneAnswer' /\ Answered'
  BY <1>1 DEF Words, NewCall, OneAnswer, Single, Coming, Answered, NeverInvited, Caller, Callee
<1>3. ByeIsLast' /\ NoAck' /\ Released' /\ ToBeReleased'
  BY <1>1
  DEF ByeIsLast, NoAck, Released, ToBeReleased, Coming, NeverInvited, Caller, Callee
<1>4. QED
  BY <1>2, <1>3 DEF Ending

-----------------------------------------------------------------------------
(* The invariant and the theorem.                                          *)

(* A new call. *)
LEMMA InitEnding ==
  ASSUME Init
  PROVE  Ending
<1>1. /\ Caller = "idle" /\ Callee = "idle" /\ pair = NoPair /\ tsx = "none"
      /\ up["caller"] = <<>> /\ up["callee"] = <<>>
      /\ down["caller"] = <<>> /\ down["callee"] = <<>>
  BY TwoUsers DEF Init, Caller, Callee
<1>2. /\ Other("caller") = "callee" /\ Other("callee") = "caller"
      /\ \A S : <<>> \in Seq(S)
  BY TwoUsers
<1>3. Words
  BY <1>1, <1>2 DEF Words
<1>4. NewCall
  BY <1>1, NoneHas DEF NewCall
<1>5. OneAnswer
  BY <1>1, <1>2, NoneHas DEF OneAnswer, Single, Coming
<1>6. Answered /\ ByeIsLast
  BY <1>1, <1>2, NoneHas DEF Answered, ByeIsLast, Coming
<1>7. NoAck /\ Released /\ ToBeReleased
  BY <1>1, NoneHas DEF NoAck, Released, ToBeReleased
<1>8. QED
  BY <1>3, <1>4, <1>5, <1>6, <1>7 DEF Ending

(* What may happen to a call does not change. *)
LEMMA FaultsStay ==
  ASSUME Typed, [Next]_vars
  PROVE  faults' = faults
<1>1. ASSUME NEW u \in Users, Cscf(u) PROVE faults' = faults
  BY <1>1 DEF Cscf, Handle, NoPort, Absorb, NotFound, Invite, Cancel, InDialog, ToProxy, Response
<1>2. ASSUME NEW u \in Users, Hear(u) PROVE faults' = faults
  BY <1>2 DEF Hear
<1>3. CASE Acts
  BY <1>3, ActsAre DEF Says
<1>4. CASE Timeout \/ OtherCall \/ (\E u \in Users : Register(u) \/ Expire(u)) \/ UNCHANGED vars
  BY <1>4 DEF Timeout, OtherCall, Register, Expire, vars
<1>5. QED
  BY <1>1, <1>2, <1>3, <1>4 DEF Next, Acts, Party

(* Every step keeps the invariant. *)
LEMMA EndingStep == EInv /\ [Next]_vars => EInv'
<1> SUFFICES ASSUME EInv, [Next]_vars PROVE EInv'
  OBVIOUS
<1>1. Typed /\ Typed' /\ faults' = faults
  BY TypeStep, FaultsStay DEF EInv
<1>2. ASSUME Plain' PROVE Ending'
  <2>1. Plain /\ Ending
    BY <1>1, <1>2 DEF Plain, EInv
  <2>2. CASE \E u \in Users : Cscf(u)
    BY <1>1, <2>1, <2>2, CallerPasses, CalleePasses, TwoUsers
  <2>3. CASE \E u \in Users : Hear(u)
    BY <1>1, <2>1, <2>3, CallerHearsIt, CalleeHearsIt, TwoUsers
  <2>4. CASE Acts
    BY <1>1, <2>1, <2>4, ActsEnding
  <2>5. CASE OtherCall \/ (\E u \in Users : Register(u) \/ Expire(u)) \/ UNCHANGED vars
    <3>1. UNCHANGED <<pair, tsx, ua, up, down>>
      BY <2>5 DEF OtherCall, Register, Expire, vars, port, party
    <3>2. QED
      BY <2>1, <3>1, FrameEnding
  <2>6. ~Timeout
    BY <2>1 DEF Timeout, Plain
  <2>7. QED
    BY <2>2, <2>3, <2>4, <2>5, <2>6 DEF Next, Acts, Party
<1>3. QED
  BY <1>1, <1>2 DEF EInv

(***************************************************************************)
(* The invariant of a call that ends: a call whose caller has left and     *)
(* that has a pair is still to be passed a message that releases it, and   *)
(* no INVITE and no ACK that could take a pair comes after that message.   *)
(***************************************************************************)
THEOREM EndingInvariance == Spec => []EInv
<1>1. Init => EInv
  BY TypeInit, InitEnding DEF EInv
<1>2. EInv /\ [Next]_vars => EInv'
  BY EndingStep
<1>3. QED
  BY <1>1, <1>2, PTL DEF Spec

(***************************************************************************)
(* A call that has ended by BYE, CANCEL, Decline or 404 has given its      *)
(* ports back, with late offers, answers that cross a CANCEL and           *)
(* registrations that end during the call (module_rtpproxy.c:21-28,        *)
(* module_cscf_hss_IPC.c:93).                                              *)
(***************************************************************************)
THEOREM EndedCallsAreFree == Spec => []EndedCallsHoldNothing
<1>1. EInv => EndedCallsHoldNothing
  <2>1. SUFFICES ASSUME EInv, Plain, Over PROVE pair = NoPair
    BY DEF EndedCallsHoldNothing, Plain
  <2>2. /\ Caller = "over" /\ Callee \in {"idle", "over"}
        /\ ~Has(up["caller"], Releases) /\ ~Has(up["callee"], Releases)
    BY <2>1, NoneHas, TwoUsers DEF Over, Caller, Callee
  <2>3. NoAck /\ ToBeReleased
    BY <2>1 DEF EInv, Ending
  <2>4. QED
    BY <2>2, <2>3 DEF NoAck, ToBeReleased
<1>2. QED
  BY <1>1, EndingInvariance, PTL
=============================================================================
