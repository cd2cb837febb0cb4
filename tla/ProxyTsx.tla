------------------------------ MODULE ProxyTsx ------------------------------
(***************************************************************************)
(* One request through the stateful proxy (module_proxy.c): the server     *)
(* transaction (UAS) towards the caller, the client transaction (UAC)      *)
(* towards the callee, and the two structures that point from each to the  *)
(* other.  The handlers are the proxy's; the transactions themselves are   *)
(* pjsip's (version 2.7, a library) and are modelled as the handlers see   *)
(* them: their states, the callback tu_on_tsx_state inside the state       *)
(* change, and which timer is running.                                     *)
(*                                                                         *)
(* The CSCF has one worker thread, so a handler and the callbacks inside   *)
(* it are one step.  They are written as functions of the whole pair p.    *)
(*                                                                         *)
(* A definition whose name starts with Slip is a bug the code might have   *)
(* had instead of the definition that follows; no specification uses it.   *)
(***************************************************************************)
EXTENDS Integers, FiniteSets, Sequences

CONSTANTS
  Methods,           \* of {"INVITE", "OTHER"}: the methods of the request
  Provisionals,      \* provisional responses of a callee: 100 and, say, 180
  Finals,            \* final responses of a callee: say, 200 and 487
  Faults             \* what may go wrong, see below

(***************************************************************************)
(* "transport"  sending a message can fail                                 *)
(* "late_ack"   an ACK can come in the last 5 of the 32 s it has           *)
(* "rejection"  a module before the proxy may answer the request itself    *)
(***************************************************************************)
AllFaults == {"transport", "late_ack", "rejection"}

ASSUME ProxyAssumption ==
  /\ Methods \subseteq {"INVITE", "OTHER"}
  /\ Provisionals \subseteq 100 .. 199
  /\ Finals \subseteq 200 .. 699 \ {408, 500}
  /\ Faults \subseteq AllFaults

VARIABLES
  method,   \* of the request
  faults,   \* what may go wrong with this one
  p         \* the pair of transactions
vars == <<method, faults, p>>

(***************************************************************************)
(* p.uas, p.uac          states of the transactions                        *)
(* p.uas_data            the UAS has a struct uas_data                     *)
(* p.uac_tsx             uas_data->uac_tsx is not NULL                     *)
(* p.uas_tsx             uac_data->uas_tsx is not NULL                     *)
(* p.last                status code of the UAS's last_tx, 0 if none       *)
(* p.status              status_code of the UAC                            *)
(* p.timers              the running timers, by their names in RFC 3261    *)
(* p.sent                final responses the UAS has sent                  *)
(* p.cancels             CANCELs sent to the callee                        *)
(* p.ended               the transactions that have ended, in the order    *)
(*                       their timers of no delay were set                 *)
(* p.up                  the process has not crashed                       *)
(***************************************************************************)
UasStates == {"none", "trying", "proceeding", "completed", "confirmed", "terminated",
              "destroyed"}
UacStates == {"none", "calling", "proceeding", "completed", "terminated", "destroyed"}

Nobody == [uas |-> "none", uac |-> "none", uas_data |-> FALSE, uac_tsx |-> FALSE,
           uas_tsx |-> FALSE, last |-> 0, status |-> 0, timers |-> {}, sent |-> {},
           cancels |-> 0, ended |-> <<>>, up |-> TRUE]

Init == method \in Methods /\ faults \in SUBSET Faults /\ p = Nobody

Invite == method = "INVITE"
Sends  == IF "transport" \in faults THEN BOOLEAN ELSE {TRUE}   \* how a send may go

Crash(t) == [t EXCEPT !.up = FALSE]

-----------------------------------------------------------------------------
(***************************************************************************)
(* The UAS half of tu_on_tsx_state (534-547): a UAS that has ended is      *)
(* forgotten by its peer.  A UAS without data has no user to be told.      *)
(***************************************************************************)
SlipTuUasTerminated(t) == t
TuUasTerminated(t) == IF t.uas_data /\ t.uac_tsx THEN [t EXCEPT !.uas_tsx = FALSE] ELSE t

\* Every end of the UAS: the user is told, then the timer is set that destroys it.
UasTerminate(t) ==
  LET u == TuUasTerminated([t EXCEPT !.uas = "terminated", !.timers = @ \ {"H", "I", "J"}])
  IN  [u EXCEPT !.ended = Append(@, "uas")]

(***************************************************************************)
(* pjsip_tsx_send_msg on the UAS, by its state.  A completed UAS takes     *)
(* only the message it has sent last (whose text the proxy may have        *)
(* changed); any other there, and any message in the confirmed state,      *)
(* fails an assertion.  A terminated UAS refuses the message.              *)
(***************************************************************************)
UasSend(t, code, again, ok) ==
  CASE t.uas \in {"trying", "proceeding"} /\ ~ok -> UasTerminate([t EXCEPT !.last = code])
    [] t.uas \in {"trying", "proceeding"} /\ ok /\ code < 200 ->
         [t EXCEPT !.uas = "proceeding", !.last = code]
    [] t.uas \in {"trying", "proceeding"} /\ ok /\ code >= 200 ->
         [t EXCEPT !.uas = "completed", !.last = code, !.sent = @ \cup {code},
                   !.timers = @ \cup {IF Invite THEN "H" ELSE "J"}]
    [] t.uas = "completed" /\ again ->
         [t EXCEPT !.last = code, !.sent = @ \cup {code}]
    [] (t.uas = "completed" /\ ~again) \/ t.uas = "confirmed" -> Crash(t)
    [] OTHER -> t

(***************************************************************************)
(* The UAC half of tu_on_tsx_state.  A response other than the 100 of an   *)
(* INVITE is passed to pjsip_tsx_send_msg with uac_data->uas_tsx (566-616),*)
(* which dereferences it.  Then, if the UAC has terminated and still has   *)
(* its peer (625-675): after a timer, an INVITE's last_tx becomes a 408    *)
(* and is sent, and another UAS is destroyed; after a response the UAS is  *)
(* terminated; after anything else, nothing.                               *)
(***************************************************************************)
ForwardResponse(t, code, ok) ==
  IF t.uas_tsx THEN UasSend(t, code, FALSE, ok) ELSE Crash(t)

SlipTimedOutInvite(t, ok) == UasTerminate(t)
SlipTimedOutOther(t, ok)  == IF Invite THEN UasSend(t, 408, TRUE, ok) ELSE t

TimedOut(t, ok) ==
  IF Invite THEN (IF t.last = 0 THEN Crash(t) ELSE UasSend(t, 408, TRUE, ok))
            ELSE UasTerminate(t)

SlipUacTerminated(t, event, ok) ==
  IF t.uac # "terminated" \/ ~t.uas_tsx THEN t
  ELSE IF event = "TRANSPORT_ERROR" THEN [t EXCEPT !.uac_tsx = FALSE]
  ELSE TimedOut([t EXCEPT !.uac_tsx = FALSE], ok)

UacTerminated(t, event, ok) ==
  IF t.uac # "terminated" \/ ~t.uas_tsx THEN t
  ELSE LET u == [t EXCEPT !.uac_tsx = FALSE]
       IN  CASE event = "TIMER" -> TimedOut(u, ok)
             [] event = "RX_MSG" /\ t.uas \notin {"terminated", "destroyed"} ->
                  UasTerminate([u EXCEPT !.uas_tsx = FALSE])
             [] OTHER -> u

\* What pjsip does once the user has been told that the UAC has ended.
UacEnded(t) == [t EXCEPT !.ended = Append(@, "uac")]

TuUacRx(t, code, ok) ==
  IF Invite /\ code = 100 THEN t
  ELSE LET u == ForwardResponse(t, code, ok)
       IN  IF u.up THEN UacTerminated(u, "RX_MSG", ok) ELSE u

-----------------------------------------------------------------------------
(***************************************************************************)
(* proxy_on_rx_request for a request that is verified and has a target:    *)
(* both transactions, their data, the request sent to the callee.  If that *)
(* fails, the UAC has ended in pjsip_tsx_send_msg already, telling         *)
(* tu_on_tsx_state of a transport error, and the caller is sent a 500.     *)
(***************************************************************************)
Linked == [Nobody EXCEPT !.uas = "trying", !.uas_data = TRUE, !.uac_tsx = TRUE,
                         !.uas_tsx = TRUE]

slip_proxy_on_rx_request(sent, answered) ==
  /\ p = Nobody
  /\ sent
  /\ p' = [Linked EXCEPT !.uac = "calling", !.timers = {"B"}]
  /\ UNCHANGED <<method, faults>>

proxy_on_rx_request(sent, answered) ==
  /\ p = Nobody
  /\ p' = IF sent
            THEN LET t == [Linked EXCEPT !.uac = "calling", !.timers = {"B"}]
                 IN  IF Invite THEN UasSend(t, 100, FALSE, answered) ELSE t
            ELSE UasSend(UacEnded(UacTerminated(
                           [Linked EXCEPT !.uac = "terminated", !.status = 503],
                           "TRANSPORT_ERROR", TRUE)),
                         500, FALSE, answered)
  /\ UNCHANGED <<method, faults>>

(***************************************************************************)
(* pjsip_tsx_create_uas fails (337-343): the UAC, which has no data yet,   *)
(* is terminated and the caller is answered without a transaction.         *)
(***************************************************************************)
NoUas ==
  /\ p = Nobody
  /\ p' = UacEnded([Nobody EXCEPT !.uac = "terminated", !.status = 500])
  /\ UNCHANGED <<method, faults>>

(***************************************************************************)
(* change_sdp answers an INVITE with 486, or route_on_rx_msg with 404,     *)
(* through pjsip_endpt_respond: a UAS with no user and no data.            *)
(***************************************************************************)
Rejected ==
  /\ "rejection" \in faults
  /\ p = Nobody
  /\ p' = [Nobody EXCEPT !.uas = "completed", !.last = 486, !.sent = {486},
                         !.timers = {IF Invite THEN "H" ELSE "J"}]
  /\ UNCHANGED <<method, faults>>

SlipRxCancel ==
  /\ p.up /\ Invite /\ p.cancels = 0
  /\ p.uas \notin {"none", "destroyed"}
  /\ p' = IF p.uac_tsx THEN [p EXCEPT !.cancels = 1] ELSE p
  /\ UNCHANGED <<method, faults>>

(***************************************************************************)
(* The CANCEL branch of proxy_on_rx_request (400-444).  The transaction is *)
(* found until it is destroyed; its data is used without a check.          *)
(***************************************************************************)
RxCancel ==
  /\ p.up /\ Invite /\ p.cancels = 0
  /\ p.uas \notin {"none", "destroyed"}
  /\ p' = IF ~p.uas_data THEN Crash(p)
          ELSE IF p.uac_tsx /\ p.status < 200 THEN [p EXCEPT !.cancels = 1]
          ELSE p
  /\ UNCHANGED <<method, faults>>

\* The caller's ACK of a final response other than 2xx.
RxAck ==
  /\ p.up /\ Invite
  /\ p.uas = "completed"
  /\ p.last >= 300
  /\ p' = [p EXCEPT !.uas = "confirmed", !.timers = (@ \ {"H"}) \cup {"I"}]
  /\ UNCHANGED <<method, faults>>

-----------------------------------------------------------------------------
(***************************************************************************)
(* pjsip's client transaction.  A provisional response stops timer B of an *)
(* INVITE for good.  The timer of the completed state is started after the *)
(* callback.                                                               *)
(***************************************************************************)
UacWaits == p.up /\ p.uac \in {"calling", "proceeding"}

UacProvisional(code, ok) ==
  /\ UacWaits
  /\ p' = TuUacRx([p EXCEPT !.uac = "proceeding", !.status = code,
                            !.timers = IF Invite THEN @ \ {"B"} ELSE @], code, ok)
  /\ UNCHANGED <<method, faults>>

UacFinal(code, ok) ==
  /\ UacWaits
  /\ LET t == [p EXCEPT !.status = code, !.timers = @ \ {"B"},
                        !.uac = IF Invite /\ code < 300 THEN "terminated" ELSE "completed"]
         u == TuUacRx(t, code, ok)
     IN  p' = IF t.uac = "completed"
                THEN [u EXCEPT !.timers = @ \cup {IF Invite THEN "D" ELSE "K"}]
                ELSE UacEnded(u)
  /\ UNCHANGED <<method, faults>>

UacEnds(status, event, ok) ==
  p' = UacEnded(UacTerminated([p EXCEPT !.uac = "terminated", !.status = status,
                                        !.timers = @ \ {"B", "D", "K"}], event, ok))

Fires(timer) == p.up /\ timer \in p.timers /\ UNCHANGED <<method, faults>>

TimerB(ok) == Fires("B") /\ UacEnds(408, "TIMER", ok)

(***************************************************************************)
(* D and H both take 32 s and H is started first; I takes 5 s from the ACK *)
(* and outlasts D only if the ACK is late.                                 *)
(***************************************************************************)
TimerD(ok) ==
  /\ Fires("D")
  /\ "H" \notin p.timers
  /\ "late_ack" \in faults \/ "I" \notin p.timers
  /\ UacEnds(p.status, "TIMER", ok)

TimerK(ok) == Fires("K") /\ UacEnds(p.status, "TIMER", ok)

TimerH == Fires("H") /\ p' = UasTerminate(p)
TimerI == Fires("I") /\ p' = UasTerminate(p)

\* J takes 32 s, K 5 s.
TimerJ == Fires("J") /\ "K" \notin p.timers /\ p' = UasTerminate(p)

\* A retransmission of the request, or of the final response, fails.
UacTransportError ==
  /\ "transport" \in faults
  /\ UacWaits
  /\ p.uac = "calling" \/ ~Invite
  /\ UacEnds(503, "TRANSPORT_ERROR", TRUE)
  /\ UNCHANGED <<method, faults>>

UasTransportError ==
  /\ "transport" \in faults
  /\ p.up /\ p.uas_data
  /\ p.uas = "completed"
  /\ p' = UasTerminate(p)
  /\ UNCHANGED <<method, faults>>

\* The timer of no delay: the transaction is unregistered and freed.
Destroy ==
  /\ p.up
  /\ p.ended # <<>>
  /\ p' = [p EXCEPT ![Head(p.ended)] = "destroyed", !.ended = Tail(@)]
  /\ UNCHANGED <<method, faults>>

Timers ==
  \/ \E ok \in Sends : TimerB(ok) \/ TimerD(ok) \/ TimerK(ok)
  \/ TimerH \/ TimerI \/ TimerJ

FinalResponse == \E code \in Finals, ok \in Sends : UacFinal(code, ok)

Next ==
  \/ \E sent, answered \in Sends : proxy_on_rx_request(sent, answered)
  \/ NoUas
  \/ Rejected
  \/ RxCancel
  \/ RxAck
  \/ \E code \in Provisionals, ok \in Sends : UacProvisional(code, ok)
  \/ FinalResponse
  \/ Timers
  \/ UacTransportError
  \/ UasTransportError
  \/ Destroy

Spec == Init /\ [][Next]_vars

(***************************************************************************)
(* pjsip's timers expire.  A callee that has shown itself with a           *)
(* provisional response answers in the end: the proxy has no timer that    *)
(* would end its waiting, so nothing better can be said of it.             *)
(***************************************************************************)
FairSpec ==
  /\ Spec
  /\ WF_vars(Timers)
  /\ WF_vars(Destroy)
  /\ WF_vars(p.uac = "proceeding" /\ FinalResponse)

-----------------------------------------------------------------------------
Codes  == {0, 100, 408, 486, 500, 503} \cup Provisionals \cup Finals
Orders == {<<>>, <<"uas">>, <<"uac">>, <<"uas", "uac">>, <<"uac", "uas">>}

PairOf(orders) ==
  [uas : UasStates, uac : UacStates, uas_data : BOOLEAN, uac_tsx : BOOLEAN, uas_tsx : BOOLEAN,
   last : Codes, status : Codes, timers : SUBSET {"B", "D", "H", "I", "J", "K"},
   sent : SUBSET Codes, cancels : 0 .. 1, ended : orders, up : BOOLEAN]

\* The model's variables keep their types.
TypeOK ==
  /\ method \in Methods /\ faults \subseteq Faults
  /\ p \in PairOf(Orders)
  /\ p.sent \subseteq {408, 486, 500} \cup Finals

(***************************************************************************)
(* Neither transaction's data leads a handler to one that has been freed:  *)
(* while a UAS that can still be found names the UAC, the UAC is there;    *)
(* while a UAC that can still call tu_on_tsx_state names the UAS, the UAS  *)
(* has not ended (module_proxy.c:539-542, 625-634).                        *)
(***************************************************************************)
NoDanglingPeer ==
  p.up =>
    /\ p.uac_tsx => p.uac \notin {"none", "destroyed"} \/ p.uas = "destroyed"
    /\ p.uas_tsx /\ p.uac \notin {"terminated", "destroyed"} =>
         p.uas \notin {"terminated", "destroyed"}

(***************************************************************************)
(* The caller is sent at most one final response by the UAS: the 408 that  *)
(* the proxy makes of last_tx (module_proxy.c:643-652) never follows       *)
(* another.                                                                *)
(***************************************************************************)
OneFinal == Cardinality(p.sent) <= 1

(***************************************************************************)
(* What the caller is told is what happened: a final response other than   *)
(* the proxy's own is the callee's, a 408 means that the callee gave none, *)
(* a 500 that it was never reached (module_proxy.c:379-384, 616, 645).     *)
(***************************************************************************)
FinalIsTrue ==
  p.uas_data =>
    \A code \in p.sent :
      \/ code \in Finals /\ p.status = code
      \/ code = 408 /\ p.status = 408
      \/ code = 500 /\ p.status = 503

(***************************************************************************)
(* No handler dereferences NULL and none gives pjsip a response that the   *)
(* transaction cannot take (module_proxy.c:425, 616, 643-652): as long as  *)
(* no send fails, no ACK is late and no module before the proxy has        *)
(* answered the INVITE.  With each of the three the model crashes.         *)
(***************************************************************************)
NoCrash == faults = {} => p.up

(***************************************************************************)
(* A CANCEL goes to the callee only while the callee's answer is open      *)
(* (module_proxy.c:426), whatever has happened to the UAS.                 *)
(***************************************************************************)
CancelOnlyPending ==
  [][p'.cancels > p.cancels => p.uac \in {"calling", "proceeding"}]_vars

(***************************************************************************)
(* A caller whose INVITE was taken on is sent a final response: the        *)
(* callee's, or the 408 of module_proxy.c:645.                             *)
(***************************************************************************)
CallerIsAnswered ==
  (Invite /\ faults = {} /\ p.uas \in {"trying", "proceeding"}) ~> p.sent # {}

(***************************************************************************)
(* Both transactions come to their end whichever ends first: none is left  *)
(* behind (module_proxy.c:620-675).                                        *)
(***************************************************************************)
BothDestroyed ==
  (faults = {} /\ p.uas # "none") ~> (p.uas = "destroyed" /\ p.uac \in {"none", "destroyed"})

(***************************************************************************)
(* module_proxy.c:615, "Forward response with the UAS transaction": a      *)
(* response to the waiting UAC is handed to a UAS, never to NULL.          *)
(***************************************************************************)
ResponseForwarded ==
  [][UacWaits /\ p'.uac # p.uac /\ p'.status \in Provisionals \cup Finals => p'.up]_vars
=============================================================================
