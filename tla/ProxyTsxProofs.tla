--------------------------- MODULE ProxyTsxProofs ---------------------------
(***************************************************************************)
(* Proofs about ProxyTsx: what the two transactions can be in together,    *)
(* for any sets of responses and any faults, and from it that a handler    *)
(* never follows a freed transaction, that the caller is told once and     *)
(* told the truth, and that nothing crashes while nothing fails.           *)
(***************************************************************************)
EXTENDS ProxyTsx, FiniteSetTheorems, TLAPS

-----------------------------------------------------------------------------
(* The inductive invariant: the situations of a pair t that has not        *)
(* crashed, seen from the two structures that link it.                     *)
Gone == {"terminated", "destroyed"}

Waits(t) == t.uac \in {"calling", "proceeding"}

Alone(t) == ~t.uas_data /\ ~t.uac_tsx /\ ~t.uas_tsx

\* pjsip could not make a UAS.
NeverStarted(t) == Alone(t) /\ t.uas = "none" /\ t.uac \in Gone /\ t.sent = {}

\* Another module has answered.
Turned(t) ==
  /\ Alone(t) /\ t.uac = "none" /\ t.uas \in {"completed", "confirmed"} \cup Gone
  /\ t.sent = {486} /\ "rejection" \in faults

\* Both are linked, and the callee has yet to answer.
Open(t) ==
  /\ t.uas_data /\ t.uac_tsx /\ t.uas_tsx
  /\ t.uas \in {"trying", "proceeding"} /\ Waits(t)
  /\ t.status \in {0} \cup Provisionals /\ t.sent = {}
  /\ Invite => t.last # 0

\* Both are linked, and the callee's answer has been passed on.
Answered(t) ==
  /\ t.uas_data /\ t.uac_tsx /\ t.uas_tsx
  /\ t.uas \in {"completed", "confirmed"} /\ t.uac = "completed"
  /\ t.status \in Finals /\ t.sent = {t.status}
  /\ Invite /\ t.uas = "completed" => "H" \in t.timers
  /\ t.uas = "confirmed" => "I" \in t.timers

\* The UAS has ended first, and the UAC knows.
UasFirst(t) ==
  /\ t.uas_data /\ t.uac_tsx /\ ~t.uas_tsx
  /\ t.uas \in Gone /\ t.uac # "none"
  /\ t.sent = {} \/ (t.status \in Finals /\ t.sent = {t.status})
  /\ IF Waits(t) THEN t.status \in {0} \cup Provisionals /\ faults # {}
                 ELSE t.status \in Finals \cup {408, 503}
  /\ t.uac = "destroyed" => t.uas = "destroyed"
  /\ t.uas = "terminated" /\ t.uac = "terminated" => t.ended = <<"uas", "uac">>

\* The UAC has ended, and the UAS does not know it any more.
UacFirst(t) ==
  /\ t.uas_data /\ ~t.uac_tsx /\ t.uac \in Gone /\ t.uas # "none"
  /\ \/ t.sent = {}
     \/ t.status \in Finals /\ t.sent = {t.status}
     \/ t.status = 408 /\ t.sent = {408}
     \/ t.status = 503 /\ t.sent = {500}

Situation(t) ==
  t = Nobody \/ NeverStarted(t) \/ Turned(t) \/ Open(t) \/ Answered(t) \/ UasFirst(t) \/ UacFirst(t)

\* A timer runs only in the state that it ends.
TimersMatch(t) ==
  /\ "B" \in t.timers => Waits(t)
  /\ "D" \in t.timers => t.uac = "completed" /\ Invite
  /\ "K" \in t.timers => t.uac = "completed" /\ ~Invite
  /\ "H" \in t.timers => t.uas = "completed"
  /\ "I" \in t.timers => t.uas = "confirmed"
  /\ "J" \in t.timers => t.uas = "completed" /\ ~Invite
  /\ t.uas = "confirmed" => Invite

\* A transaction is on its way to be destroyed just when it has terminated.
EndedMatch(t) ==
  LET a == t.uas = "terminated"
      c == t.uac = "terminated"
  IN  /\ a /\ c   => t.ended \in {<<"uas", "uac">>, <<"uac", "uas">>}
      /\ a /\ ~c  => t.ended = <<"uas">>
      /\ ~a /\ c  => t.ended = <<"uac">>
      /\ ~a /\ ~c => t.ended = << >>

\* What the caller has been told.
Told(t) ==
  \/ t.sent = {}
  \/ t.sent = {486} /\ ~t.uas_data
  \/ t.status \in Finals /\ t.sent = {t.status}
  \/ t.status = 408 /\ t.sent = {408}
  \/ t.status = 503 /\ t.sent = {500}

IInv ==
  /\ TypeOK
  /\ Told(p)
  /\ IF p.up THEN Situation(p) /\ TimersMatch(p) /\ EndedMatch(p) ELSE faults # {}

Rec == PairOf(Seq({"uas", "uac"}))

Good(t) == t \in Rec /\ t.up /\ Situation(t) /\ TimersMatch(t) /\ EndedMatch(t)

-----------------------------------------------------------------------------
(* Responses by their numbers. *)
LEMMA Numbers ==
  /\ \A c \in Finals : c \in Int /\ c >= 200 /\ c # 408 /\ c # 500 /\ c \in Codes
  /\ \A c \in Provisionals : c \in Int /\ c >= 100 /\ c < 200 /\ c \in Codes
  /\ \A c \in Codes : c \in Int
  /\ {0, 100, 408, 486, 500, 503} \subseteq Codes
BY ProxyAssumption DEF Codes

(* One more after the first. *)
LEMMA AppendOne ==
  ASSUME NEW M, NEW a \in M, NEW b \in M
  PROVE  Append(<<a>>, b) = <<a, b>>
<1> DEFINE u == Append(<<a>>, b)
           v == <<a, b>>
<1>1. <<a>> \in Seq(M) /\ Len(<<a>>) = 1 /\ <<a>>[1] = a
  OBVIOUS
<1>2. u \in Seq(M) /\ Len(u) = 2 /\ u[1] = a /\ u[2] = b
  BY <1>1
<1>3. v \in Seq(M) /\ Len(v) = 2 /\ v[1] = a /\ v[2] = b
  OBVIOUS
<1> HIDE DEF u, v
<1>4. u = v
  <2>1. \A i \in 1 .. 2 : u[i] = v[i]
    BY <1>2, <1>3
  <2>2. QED
    BY <1>2, <1>3, <2>1
<1>5. QED
  BY <1>4 DEF u, v

(* Transactions that end in order. *)
LEMMA EndedOrders ==
  /\ \A s \in Orders : s \in Seq({"uas", "uac"})
  /\ Append(<< >>, "uas") = <<"uas">> /\ Append(<< >>, "uac") = <<"uac">>
  /\ Append(<<"uas">>, "uac") = <<"uas", "uac">> /\ Append(<<"uac">>, "uas") = <<"uac", "uas">>
  /\ Head(<<"uas">>) = "uas" /\ Tail(<<"uas">>) = << >>
  /\ Head(<<"uac">>) = "uac" /\ Tail(<<"uac">>) = << >>
  /\ Head(<<"uas", "uac">>) = "uas" /\ Tail(<<"uas", "uac">>) = <<"uac">>
  /\ Head(<<"uac", "uas">>) = "uac" /\ Tail(<<"uac", "uas">>) = <<"uas">>
  /\ << >> # <<"uas">> /\ << >> # <<"uac">> /\ << >> # <<"uas", "uac">> /\ << >> # <<"uac", "uas">>
<1>1. \A s \in Orders : s \in Seq({"uas", "uac"})
  <2> DEFINE E == {"uas", "uac"}
  <2>1. \A a, b \in E : << >> \in Seq(E) /\ <<a>> \in Seq(E) /\ <<a, b>> \in Seq(E)
    OBVIOUS
  <2>2. "uas" \in E /\ "uac" \in E
    OBVIOUS
  <2> HIDE DEF E
  <2>3. \A s \in Orders : s \in Seq(E)
    BY <2>1, <2>2 DEF Orders
  <2>4. QED
    BY <2>3 DEF E
<1>2. /\ Append(<< >>, "uas") = <<"uas">> /\ Append(<< >>, "uac") = <<"uac">>
      /\ Append(<<"uas">>, "uac") = <<"uas", "uac">> /\ Append(<<"uac">>, "uas") = <<"uac", "uas">>
  <2>1. Append(<< >>, "uas") = <<"uas">>
    OBVIOUS
  <2>2. Append(<< >>, "uac") = <<"uac">>
    OBVIOUS
  <2>3. "uas" \in {"uas", "uac"} /\ "uac" \in {"uas", "uac"}
    OBVIOUS
  <2>4. QED
    BY <2>1, <2>2, <2>3, AppendOne, Zenon
<1>3. /\ Head(<<"uas">>) = "uas" /\ Head(<<"uac">>) = "uac"
      /\ Head(<<"uas", "uac">>) = "uas" /\ Head(<<"uac", "uas">>) = "uac"
  OBVIOUS
<1>4. Tail(<<"uas">>) = << >> /\ Tail(<<"uac">>) = << >>
  OBVIOUS
<1>5. Tail(<<"uas", "uac">>) = <<"uac">> /\ Tail(<<"uac", "uas">>) = <<"uas">>
  OBVIOUS
<1>6. << >> # <<"uas">> /\ << >> # <<"uac">> /\ << >> # <<"uas", "uac">> /\ << >> # <<"uac", "uas">>
  OBVIOUS
<1>7. QED
  BY <1>1, <1>2, <1>3, <1>4, <1>5, <1>6

(* A good pair has its type and tells the truth. *)
LEMMA GoodIs ==
  ASSUME NEW t, Good(t)
  PROVE  /\ t \in PairOf(Orders) /\ t.sent \subseteq {408, 486, 500} \cup Finals
         /\ Told(t)
<1>1. t.ended \in Orders
  BY DEF Good, EndedMatch, Orders
<1>2. t \in PairOf(Orders)
  BY <1>1 DEF Good, Rec, PairOf
<1>3. Told(t) /\ t.sent \subseteq {408, 486, 500} \cup Finals
  BY DEF Good, Situation, NeverStarted, Turned, Open, Answered, UasFirst, UacFirst, Told,
         Nobody, Alone
<1>4. QED
  BY <1>2, <1>3

(* A pair that has not crashed is good. *)
LEMMA GoodNow == IInv /\ p.up => Good(p)
<1> SUFFICES ASSUME IInv, p.up PROVE Good(p)
  OBVIOUS
<1>1. p \in PairOf(Orders)
  BY DEF IInv, TypeOK
<1>2. p \in Rec
  BY <1>1, EndedOrders DEF Rec, PairOf
<1>3. QED
  BY <1>2 DEF IInv, Good

(* A step to a good pair keeps the invariant. *)
LEMMA GoodNext ==
  ASSUME IInv, UNCHANGED <<method, faults>>, Good(p')
  PROVE  IInv'
<1>1. /\ p' \in PairOf(Orders) /\ p'.sent \subseteq {408, 486, 500} \cup Finals /\ Told(p')
  BY GoodIs
<1>2. TypeOK'
  BY <1>1 DEF IInv, TypeOK, PairOf
<1>3. Told(p)'
  BY <1>1 DEF Told
<1>4. Situation(p)' /\ TimersMatch(p)' /\ EndedMatch(p)'
  BY DEF Good, Situation, NeverStarted, Turned, Open, Answered, UasFirst, UacFirst, Alone, Waits,
         TimersMatch, EndedMatch, Invite
<1>5. QED
  BY <1>2, <1>3, <1>4 DEF IInv, Good

(* So does a crash, where something may fail and what was sent was true. *)
LEMMA CrashNext ==
  ASSUME IInv, UNCHANGED <<method, faults>>, p' \in PairOf(Orders), ~p'.up, faults # {},
         p'.sent \subseteq {408, 486, 500} \cup Finals, Told(p')
  PROVE  IInv'
<1>1. TypeOK'
  BY DEF IInv, TypeOK, PairOf
<1>2. Told(p)'
  BY DEF Told
<1>3. QED
  BY <1>1, <1>2 DEF IInv

-----------------------------------------------------------------------------
(* What pjsip and the callback do with a pair, field by field. *)
Others(t, u) ==
  /\ u \in Rec
  /\ u.uac = t.uac /\ u.uas_data = t.uas_data /\ u.uac_tsx = t.uac_tsx /\ u.status = t.status
  /\ u.cancels = t.cancels /\ u.up = t.up

UasHasEnded(t, u, last) ==
  /\ Others(t, u)
  /\ u.sent = t.sent /\ u.last = last
  /\ u.uas = "terminated" /\ u.timers = t.timers \ {"H", "I", "J"}
  /\ u.ended = Append(t.ended, "uas")
  /\ u.uas_tsx = IF t.uas_data /\ t.uac_tsx THEN FALSE ELSE t.uas_tsx

UasHasSent(t, u, code) ==
  /\ Others(t, u)
  /\ u.last = code /\ u.ended = t.ended /\ u.uas_tsx = t.uas_tsx
  /\ code < 200 => u.uas = "proceeding" /\ u.sent = t.sent /\ u.timers = t.timers
  /\ code >= 200 => /\ u.uas = "completed" /\ u.sent = t.sent \cup {code}
                    /\ u.timers = t.timers \cup {IF Invite THEN "H" ELSE "J"}

(* Ending a UAS, by its timer or by an error, has the effect UasHasEnded describes. *)
LEMMA UasTerminateIs ==
  ASSUME NEW t \in Rec
  PROVE  UasHasEnded(t, UasTerminate(t), t.last)
<1> DEFINE v == [t EXCEPT !.uas = "terminated", !.timers = @ \ {"H", "I", "J"}]
           w == TuUasTerminated(v)
<1>1. /\ Others(t, v) /\ v.uas = "terminated" /\ v.timers = t.timers \ {"H", "I", "J"}
      /\ v.ended = t.ended /\ v.uas_tsx = t.uas_tsx /\ v.last = t.last /\ v.sent = t.sent
  BY DEF Others, Rec, PairOf, UasStates
<1> HIDE DEF v
<1>2. /\ Others(t, w) /\ w.uas = "terminated" /\ w.timers = t.timers \ {"H", "I", "J"}
      /\ w.ended = t.ended /\ w.last = t.last /\ w.sent = t.sent
      /\ w.uas_tsx = IF t.uas_data /\ t.uac_tsx THEN FALSE ELSE t.uas_tsx
  BY <1>1 DEF TuUasTerminated, Others, Rec, PairOf
<1> HIDE DEF w
<1>3. UasTerminate(t) = [w EXCEPT !.ended = Append(@, "uas")]
  BY Zenon DEF UasTerminate, v, w
<1>4. Append(w.ended, "uas") \in Seq({"uas", "uac"})
  BY <1>2 DEF Others, Rec, PairOf
<1> DEFINE u == UasTerminate(t)
<1>5. /\ u.ended = Append(t.ended, "uas") /\ u.uas = "terminated"
      /\ u.timers = t.timers \ {"H", "I", "J"} /\ u.uas_tsx = w.uas_tsx
      /\ u.sent = t.sent /\ u.last = t.last
  BY <1>2, <1>3 DEF Others, Rec, PairOf
<1>6. Others(t, u)
  <2> HIDE DEF u
  <2>1. u = [w EXCEPT !.ended = Append(w.ended, "uas")]
    BY <1>2, <1>3 DEF Others, Rec, PairOf, u
  <2> DEFINE e == Append(w.ended, "uas")
  <2> HIDE DEF e
  <2>2. u = [w EXCEPT !.ended = e] /\ e \in Seq({"uas", "uac"})
    BY <1>4, <2>1 DEF e
  <2>3. u \in Rec
    BY <1>2, <2>2 DEF Others, Rec, PairOf
  <2>4. QED
    BY <1>2, <2>2, <2>3 DEF Others, Rec, PairOf
<1> HIDE DEF u
<1>7. UasHasEnded(t, u, t.last)
  BY <1>2, <1>5, <1>6 DEF UasHasEnded
<1>8. QED
  BY <1>7 DEF u

(* A crash of the process changes nothing but up. *)
LEMMA CrashIs ==
  ASSUME NEW t \in Rec
  PROVE  /\ Crash(t) \in Rec /\ ~Crash(t).up
         /\ Crash(t).uas = t.uas /\ Crash(t).uac = t.uac /\ Crash(t).status = t.status
         /\ Crash(t).sent = t.sent /\ Crash(t).ended = t.ended /\ Crash(t).uas_data = t.uas_data
BY DEF Crash, Rec, PairOf

(* pjsip_tsx_send_msg of a UAS, by the state it finds the UAS in. *)
LEMMA UasSendIs ==
  ASSUME NEW t \in Rec, NEW code \in Codes, NEW again, NEW ok \in BOOLEAN
  PROVE  LET u    == UasSend(t, code, again, ok)
             open == t.uas \in {"trying", "proceeding"}
         IN  /\ open => UasHasSent(t, u, code) \/ (ok = FALSE /\ UasHasEnded(t, u, code))
             /\ t.uas = "confirmed" => u = Crash(t)
             /\ t.uas = "completed" /\ ~again => u = Crash(t)
             /\ t.uas \in Gone => u = t
<1> DEFINE u == UasSend(t, code, again, ok)
<1>0. code \in Int
  BY Numbers
<1>1. CASE t.uas \in {"trying", "proceeding"} /\ ok = FALSE
  <2> DEFINE v == [t EXCEPT !.last = code]
  <2>1. /\ Others(t, v) /\ v.last = code /\ v.sent = t.sent /\ v.timers = t.timers
        /\ v.ended = t.ended /\ v.uas_tsx = t.uas_tsx
    BY DEF Others, Rec, PairOf
  <2>2. u = UasTerminate(v)
    BY <1>1 DEF UasSend
  <2> HIDE DEF v, u
  <2>3. UasHasEnded(v, u, v.last)
    BY <2>1, <2>2, UasTerminateIs DEF Others
  <2>4. UasHasEnded(t, u, code)
    BY <2>1, <2>3 DEF UasHasEnded, Others
  <2>5. QED
    BY <1>1, <2>4 DEF u, Gone
<1>2. CASE t.uas \in {"trying", "proceeding"} /\ ok = TRUE /\ code < 200
  <2>1. u = [t EXCEPT !.uas = "proceeding", !.last = code]
    BY <1>2, <1>0 DEF UasSend
  <2> HIDE DEF u
  <2>2. /\ Others(t, u) /\ u.last = code /\ u.ended = t.ended /\ u.uas_tsx = t.uas_tsx
        /\ u.uas = "proceeding" /\ u.sent = t.sent /\ u.timers = t.timers
    BY <2>1 DEF Others, Rec, PairOf, UasStates
  <2>3. UasHasSent(t, u, code)
    BY <1>0, <1>2, <2>2 DEF UasHasSent
  <2>4. QED
    BY <1>2, <2>3 DEF u, Gone
<1>3. CASE t.uas \in {"trying", "proceeding"} /\ ok = TRUE /\ code >= 200
  <2> DEFINE timer == IF Invite THEN "H" ELSE "J"
  <2>1. u = [t EXCEPT !.uas = "completed", !.last = code, !.sent = @ \cup {code},
                      !.timers = @ \cup {timer}]
    BY <1>3, <1>0 DEF UasSend
  <2>2. timer \in {"H", "J"}
    OBVIOUS
  <2> HIDE DEF u, timer
  <2>3. t.sent \cup {code} \in SUBSET Codes
    BY DEF Rec, PairOf
  <2>4. t.timers \cup {timer} \in SUBSET {"B", "D", "H", "I", "J", "K"}
    BY <2>2 DEF Rec, PairOf
  <2>5. /\ Others(t, u) /\ u.last = code /\ u.ended = t.ended /\ u.uas_tsx = t.uas_tsx
        /\ u.uas = "completed" /\ u.sent = t.sent \cup {code}
        /\ u.timers = t.timers \cup {timer}
    BY <2>1, <2>3, <2>4 DEF Others, Rec, PairOf, UasStates
  <2>6. UasHasSent(t, u, code)
    BY <1>0, <1>3, <2>5 DEF UasHasSent, timer
  <2>7. QED
    BY <1>3, <2>6 DEF u, Gone
<1>4. CASE t.uas \notin {"trying", "proceeding"}
  BY <1>4 DEF UasSend, Gone
<1>5. (ok = TRUE \/ ok = FALSE) /\ (code < 200 \/ code >= 200)
  BY <1>0
<1>6. QED
  BY <1>1, <1>2, <1>3, <1>4, <1>5, Zenon

\* With the proxy's own 408 it says that this may be the last message again.
LEMMA SendAgain ==
  ASSUME NEW t \in Rec, NEW code \in Codes, NEW ok \in BOOLEAN
  PROVE  /\ t.uas \in {"trying", "proceeding"} =>
              \/ UasHasSent(t, UasSend(t, code, TRUE, ok), code)
              \/ UasHasEnded(t, UasSend(t, code, TRUE, ok), code)
         /\ t.uas = "confirmed" => UasSend(t, code, TRUE, ok) = Crash(t)
<1> DEFINE again == TRUE
<1> HIDE DEF again
<1>1. /\ t.uas \in {"trying", "proceeding"} => \/ UasHasSent(t, UasSend(t, code, again, ok), code)
                                              \/ UasHasEnded(t, UasSend(t, code, again, ok), code)
      /\ t.uas = "confirmed" => UasSend(t, code, again, ok) = Crash(t)
  BY UasSendIs
<1>2. QED
  BY <1>1 DEF again

(* A response sent by an open UAS goes out, or ends it when the transport fails. *)
LEMMA SendNew ==
  ASSUME NEW t \in Rec, NEW code \in Codes, NEW ok \in BOOLEAN,
         t.uas \in {"trying", "proceeding"}
  PROVE  \/ UasHasSent(t, UasSend(t, code, FALSE, ok), code)
         \/ ok = FALSE /\ UasHasEnded(t, UasSend(t, code, FALSE, ok), code)
<1> DEFINE again == FALSE
<1> HIDE DEF again
<1>1. \/ UasHasSent(t, UasSend(t, code, again, ok), code)
      \/ ok = FALSE /\ UasHasEnded(t, UasSend(t, code, again, ok), code)
  BY UasSendIs
<1>2. QED
  BY <1>1 DEF again

(* The destruction of a UAC is put off, behind what waits already. *)
LEMMA UacEndedIs ==
  ASSUME NEW t \in Rec
  PROVE  /\ UacEnded(t) \in Rec /\ UacEnded(t).ended = Append(t.ended, "uac")
         /\ UacEnded(t) = [t EXCEPT !.ended = UacEnded(t).ended]
<1>1. Append(t.ended, "uac") \in Seq({"uas", "uac"})
  BY DEF Rec, PairOf
<1>2. QED
  BY <1>1 DEF UacEnded, Rec, PairOf

Cut(t) == [t EXCEPT !.uac_tsx = FALSE]

IsCut(t, u) ==
  /\ u \in Rec /\ ~u.uac_tsx
  /\ u.uas = t.uas /\ u.uac = t.uac /\ u.uas_data = t.uas_data /\ u.uas_tsx = t.uas_tsx
  /\ u.last = t.last /\ u.status = t.status /\ u.timers = t.timers /\ u.sent = t.sent
  /\ u.cancels = t.cancels /\ u.ended = t.ended /\ u.up = t.up

(* The UAC that ends is taken out of uas_data (module_proxy.c:620-676). *)
LEMMA CutIs ==
  ASSUME NEW t \in Rec
  PROVE  IsCut(t, Cut(t))
BY DEF Cut, IsCut, Rec, PairOf

(* What the callback does at the end of a UAC, by what has ended it. *)
LEMMA EndsUntold ==
  ASSUME NEW t \in Rec, NEW event, NEW ok, ~t.uas_tsx
  PROVE  UacTerminated(t, event, ok) = t
BY DEF UacTerminated

(* Timer B, D or K: the UAS is answered 408 unless its last response was a final one. *)
LEMMA EndsByTimer ==
  ASSUME NEW t \in Rec, NEW ok, t.uac = "terminated", t.uas_tsx
  PROVE  UacTerminated(t, "TIMER", ok) = TimedOut(Cut(t), ok)
BY DEF UacTerminated, Cut

(* A transport error: the pair is cut and nobody is answered. *)
LEMMA EndsByError ==
  ASSUME NEW t \in Rec, NEW ok, t.uac = "terminated", t.uas_tsx
  PROVE  UacTerminated(t, "TRANSPORT_ERROR", ok) = Cut(t)
BY DEF UacTerminated, Cut

(* A final response: the UAS is ended with the UAC, unless it has ended. *)
LEMMA EndsByResponse ==
  ASSUME NEW t \in Rec, NEW ok, t.uac = "terminated", t.uas_tsx, t.uas \notin Gone
  PROVE  UacTerminated(t, "RX_MSG", ok) = UasTerminate([Cut(t) EXCEPT !.uas_tsx = FALSE])
BY DEF UacTerminated, Cut, Gone

(* The fields of a pair whose UAC has just terminated. *)
UacStops(t, v, status) ==
  /\ v \in Rec
  /\ v.uac = "terminated" /\ v.status = status /\ v.timers = t.timers \ {"B", "D", "K"}
  /\ v.uas = t.uas /\ v.uas_data = t.uas_data /\ v.uac_tsx = t.uac_tsx /\ v.uas_tsx = t.uas_tsx
  /\ v.last = t.last /\ v.sent = t.sent /\ v.cancels = t.cancels /\ v.ended = t.ended
  /\ v.up = t.up

Stopped(t, status) ==
  [t EXCEPT !.uac = "terminated", !.status = status, !.timers = @ \ {"B", "D", "K"}]

(* Stopped is the end of a UAC as UacStops describes it. *)
LEMMA UacStopsIs ==
  ASSUME NEW t \in Rec, NEW status \in Codes
  PROVE  UacStops(t, Stopped(t, status), status)
BY DEF UacStops, Stopped, Rec, PairOf, UacStates

(* The fields of a pair whose UAC is to be destroyed. *)
UacHasEnded(t, u) ==
  /\ u \in Rec /\ u.ended = Append(t.ended, "uac")
  /\ u.uas = t.uas /\ u.uac = t.uac /\ u.uas_data = t.uas_data /\ u.uac_tsx = t.uac_tsx
  /\ u.uas_tsx = t.uas_tsx /\ u.last = t.last /\ u.status = t.status
  /\ u.timers = t.timers /\ u.sent = t.sent /\ u.cancels = t.cancels /\ u.up = t.up

(* Putting off the destruction of a UAC leaves everything else alone. *)
LEMMA UacEndedFields ==
  ASSUME NEW t \in Rec
  PROVE  UacHasEnded(t, UacEnded(t))
<1> DEFINE u == UacEnded(t)
           e == u.ended
<1>1. u \in Rec /\ e = Append(t.ended, "uac") /\ u = [t EXCEPT !.ended = e]
  BY UacEndedIs
<1> HIDE DEF u, e
<1>2. /\ u.uas = t.uas /\ u.uac = t.uac /\ u.uas_data = t.uas_data /\ u.uac_tsx = t.uac_tsx
      /\ u.uas_tsx = t.uas_tsx /\ u.last = t.last /\ u.status = t.status
      /\ u.timers = t.timers /\ u.sent = t.sent /\ u.cancels = t.cancels /\ u.up = t.up
  BY <1>1 DEF Rec, PairOf
<1>3. QED
  BY <1>1, <1>2 DEF u, e, UacHasEnded

-----------------------------------------------------------------------------
(* Each step keeps the invariant.  First the end of the UAC by a timer or  *)
(* a failure of the transport: the UAS has ended before.                   *)
LEMMA EndsAfterUas ==
  ASSUME NEW t, Good(t), UasFirst(t), t.uac \in {"calling", "proceeding", "completed"},
         NEW status \in Codes, NEW v, UacStops(t, v, status),
         IF Waits(t) THEN status \in {408, 503} ELSE status = t.status,
         NEW u, UacHasEnded(v, u)
  PROVE  Good(u)
<1>0. t.uac # "terminated" /\ u.uas = t.uas /\ u.ended = Append(t.ended, "uac")
  BY DEF UacStops, UacHasEnded
<1>1. u.uas = "terminated" => u.ended = <<"uas", "uac">>
  BY <1>0, EndedOrders DEF Good, EndedMatch
<1>2. u.uas # "terminated" => u.ended = <<"uac">>
  BY <1>0, EndedOrders DEF Good, EndedMatch
<1>3. EndedMatch(u)
  BY <1>1, <1>2 DEF UacStops, UacHasEnded, EndedMatch
<1>4. TimersMatch(u)
  BY DEF UacStops, UacHasEnded, Good, TimersMatch, UasFirst, Gone
<1>5. UasFirst(u)
  <2>1. Waits(t) => t.sent = {}
    BY Numbers DEF UasFirst
  <2>2. ~Waits(u)
    BY DEF UacStops, UacHasEnded, Waits
  <2>3. u.status \in Finals \cup {408, 503}
    BY DEF UacStops, UacHasEnded, UasFirst
  <2>4. u.sent = {} \/ (u.status \in Finals /\ u.sent = {u.status})
    BY <2>1 DEF UacStops, UacHasEnded, UasFirst
  <2>5. QED
    BY <1>1, <2>2, <2>3, <2>4 DEF UacStops, UacHasEnded, UasFirst
<1>6. QED
  BY <1>3, <1>4, <1>5 DEF Good, Situation, UacStops, UacHasEnded

(* The callee has not answered, and there is no way to it any more. *)
LEMMA EndsUnreached ==
  ASSUME NEW t, Good(t), Open(t), NEW v, UacStops(t, v, 503), NEW w, IsCut(v, w),
         NEW u, UacHasEnded(w, u)
  PROVE  Good(u)
<1>1. u.uas # "terminated" /\ t.uac # "terminated" /\ t.uas # "terminated" /\ u.uac = "terminated"
  BY DEF UacStops, UacHasEnded, IsCut, Open, Waits
<1>2. w.ended = << >>
  BY <1>1 DEF UacStops, UacHasEnded, IsCut, Good, EndedMatch
<1>3. EndedMatch(u)
  BY <1>1, <1>2, EndedOrders DEF EndedMatch, UacHasEnded
<1>4. TimersMatch(u)
  BY DEF UacStops, UacHasEnded, IsCut, Good, TimersMatch, Open
<1>5. UacFirst(u)
  BY DEF UacStops, UacHasEnded, IsCut, UacFirst, Open, Gone
<1>6. QED
  BY <1>3, <1>4, <1>5 DEF Good, Situation, UacStops, UacHasEnded, IsCut

(* The callee has not answered in time: the UAS ends, or sends the 408. *)
LEMMA EndsUnanswered ==
  ASSUME NEW t, Good(t), Open(t), NEW v, UacStops(t, v, 408), NEW w, IsCut(v, w),
         NEW x, UasHasEnded(w, x, x.last) \/ (Invite /\ UasHasSent(w, x, 408)),
         NEW u, UacHasEnded(x, u)
  PROVE  Good(u)
<1>1. t.uac # "terminated" /\ t.uas # "terminated" /\ u.uac = "terminated"
  <2>1. t.uac # "terminated" /\ t.uas # "terminated"
    BY DEF Open, Waits
  <2>2. x.uac = w.uac
    BY DEF UasHasEnded, UasHasSent, Others
  <2>3. QED
    BY <2>1, <2>2 DEF UacStops, UacHasEnded, IsCut
<1>2. w.ended = << >> /\ w.timers \cap {"B", "D", "K", "H", "I", "J"} = {}
  <2>1. t.ended = << >> /\ t.timers \cap {"H", "I", "J"} = {}
    BY <1>1 DEF Good, EndedMatch, TimersMatch, Open
  <2>2. QED
    BY <2>1 DEF UacStops, IsCut
<1>3. CASE UasHasEnded(w, x, x.last)
  <2>1. u.uas = "terminated" /\ u.ended = <<"uas", "uac">>
    BY <1>2, <1>3, EndedOrders DEF UasHasEnded, UacHasEnded
  <2>2. EndedMatch(u)
    BY <1>1, <2>1 DEF EndedMatch
  <2>3. u.timers \cap {"B", "D", "K", "H", "I", "J"} = {}
    BY <1>2, <1>3 DEF UasHasEnded, UacHasEnded
  <2>4. TimersMatch(u)
    BY <2>1, <2>3 DEF TimersMatch
  <2>5. UacFirst(u)
    BY <1>3, <2>1 DEF UacStops, UacHasEnded, IsCut, UasHasEnded, Others, UacFirst, Open, Gone
  <2>6. QED
    BY <1>3, <2>2, <2>4, <2>5
       DEF Good, Situation, UacStops, UacHasEnded, IsCut, UasHasEnded, Others
<1>4. CASE Invite /\ UasHasSent(w, x, 408)
  <2>1. u.uas = "completed" /\ u.ended = <<"uac">>
    BY <1>2, <1>4, EndedOrders DEF UasHasSent, UacHasEnded
  <2>2. EndedMatch(u)
    BY <1>1, <2>1 DEF EndedMatch
  <2>3. u.timers \cap {"B", "D", "K", "I", "J"} = {}
    BY <1>2, <1>4 DEF UasHasSent, UacHasEnded
  <2>4. TimersMatch(u)
    BY <2>1, <2>3 DEF TimersMatch
  <2>5. u.sent = {408} /\ u.status = 408
    BY <1>4 DEF UacStops, UacHasEnded, IsCut, UasHasSent, Others, Open
  <2>6. UacFirst(u)
    BY <1>4, <2>1, <2>5 DEF UacStops, UacHasEnded, IsCut, UasHasSent, Others, UacFirst, Open, Gone
  <2>7. QED
    BY <1>4, <2>2, <2>4, <2>6
       DEF Good, Situation, UacStops, UacHasEnded, IsCut, UasHasSent, Others
<1>5. QED
  BY <1>3, <1>4

(* The callee's answer to another request than INVITE was passed on long ago. *)
LEMMA EndsAnswered ==
  ASSUME NEW t, Good(t), Answered(t), NEW v, UacStops(t, v, t.status), NEW w, IsCut(v, w),
         NEW x, UasHasEnded(w, x, x.last), NEW u, UacHasEnded(x, u)
  PROVE  Good(u)
<1>1. t.uac # "terminated" /\ t.uas # "terminated" /\ u.uac = "terminated"
  BY DEF UacStops, UacHasEnded, IsCut, Answered, UasHasEnded, Others
<1>2. w.ended = << >>
  BY <1>1 DEF UacStops, IsCut, Good, EndedMatch
<1>3. u.uas = "terminated" /\ u.ended = <<"uas", "uac">>
  BY <1>2, EndedOrders DEF UasHasEnded, UacHasEnded
<1>4. EndedMatch(u)
  BY <1>1, <1>3 DEF EndedMatch
<1>5. u.timers \cap {"B", "D", "K", "H", "I", "J"} = {}
  BY DEF UasHasEnded, UacHasEnded, UacStops, IsCut
<1>6. TimersMatch(u)
  BY <1>3, <1>5 DEF TimersMatch
<1>7. UacFirst(u)
  BY <1>3 DEF UacStops, UacHasEnded, IsCut, UasHasEnded, Others, UacFirst, Answered, Gone
<1>8. QED
  BY <1>4, <1>6, <1>7 DEF Good, Situation, UacStops, UacHasEnded, IsCut, UasHasEnded, Others

(* The steps that end the UAC. *)
LEMMA TimerBStep ==
  ASSUME IInv, NEW ok \in BOOLEAN, TimerB(ok)
  PROVE  IInv'
<1> DEFINE v == Stopped(p, 408)
           x == UacTerminated(v, "TIMER", ok)
           w == Cut(v)
<1>1. /\ p.up /\ "B" \in p.timers /\ UNCHANGED <<method, faults>> /\ p' = UacEnded(x)
  BY DEF TimerB, Fires, UacEnds, Stopped
<1>2. Good(p) /\ Waits(p) /\ p \in Rec /\ 408 \in Codes
  BY <1>1, GoodNow, Numbers DEF Good, TimersMatch
<1>3. UacStops(p, v, 408)
  BY <1>2, UacStopsIs
<1> HIDE DEF v
<1>4. v \in Rec /\ v.uac = "terminated" /\ v.uas_tsx = p.uas_tsx
  BY <1>3 DEF UacStops
<1>5. Open(p) \/ UasFirst(p)
  BY <1>2 DEF Good, Situation, Waits, Nobody, NeverStarted, Turned, Answered, UacFirst, Gone
<1>6. CASE UasFirst(p)
  <2>1. x = v
    BY <1>4, <1>6, EndsUntold DEF UasFirst
  <2>2. UacHasEnded(v, p')
    BY <1>1, <1>4, <2>1, UacEndedFields
  <2>3. Good(p')
    BY <1>2, <1>3, <1>6, <2>2, EndsAfterUas DEF Waits
  <2>4. QED
    BY <1>1, <2>3, GoodNext
<1>7. CASE Open(p)
  <2>1. x = TimedOut(w, ok)
    BY <1>4, <1>7, EndsByTimer DEF Open
  <2>2. IsCut(v, w)
    BY <1>4, CutIs
  <2> HIDE DEF w
  <2>3. w \in Rec /\ w.uas \in {"trying", "proceeding"} /\ (Invite => w.last # 0)
    BY <1>3, <1>7, <2>2 DEF UacStops, IsCut, Open
  <2>4. UasHasEnded(w, x, x.last) \/ (Invite /\ UasHasSent(w, x, 408))
    <3> HIDE DEF x
    <3>1. CASE ~Invite
      BY <2>1, <2>3, <3>1, UasTerminateIs DEF TimedOut, UasHasEnded
    <3>2. CASE Invite
      <4>1. x = UasSend(w, 408, TRUE, ok)
        BY <2>1, <2>3, <3>2 DEF TimedOut
      <4> DEFINE code == 408
                 z == UasSend(w, code, TRUE, ok)
      <4>2. x = z /\ code \in Codes
        BY <1>2, <4>1
      <4> HIDE DEF code
      <4>3. UasHasSent(w, z, code) \/ UasHasEnded(w, z, code)
        BY <2>3, <4>2, SendAgain
      <4> HIDE DEF z
      <4>4. CASE UasHasSent(w, z, code)
        BY <3>2, <4>2, <4>4 DEF code
      <4>5. CASE UasHasEnded(w, z, code)
        <5>1. UasHasEnded(w, x, code)
          BY <4>2, <4>5
        <5>2. x.last = code
          BY <5>1 DEF UasHasEnded
        <5>3. QED
          BY <5>1, <5>2
      <4>6. QED
        BY <4>3, <4>4, <4>5
    <3>3. QED
      BY <3>1, <3>2
  <2>5. UacHasEnded(x, p')
    BY <1>1, <2>4, UacEndedFields DEF UasHasEnded, UasHasSent, Others
  <2>6. Good(p')
    BY <1>2, <1>3, <1>7, <2>2, <2>4, <2>5, EndsUnanswered
  <2>7. QED
    BY <1>1, <2>6, GoodNext
<1>8. QED
  BY <1>5, <1>6, <1>7

(* Timer D, the end of an INVITE's UAC after a refusal. *)
LEMMA TimerDStep ==
  ASSUME IInv, NEW ok \in BOOLEAN, TimerD(ok)
  PROVE  IInv'
<1> DEFINE v == Stopped(p, p.status)
           x == UacTerminated(v, "TIMER", ok)
           w == Cut(v)
<1>1. /\ p.up /\ "D" \in p.timers /\ UNCHANGED <<method, faults>> /\ p' = UacEnded(x)
      /\ "H" \notin p.timers /\ ("late_ack" \in faults \/ "I" \notin p.timers)
  BY DEF TimerD, Fires, UacEnds, Stopped
<1>2. Good(p) /\ p.uac = "completed" /\ Invite /\ p \in Rec
  BY <1>1, GoodNow DEF Good, TimersMatch
<1>3. UacStops(p, v, p.status)
  <2>1. p.status \in Codes
    BY <1>2 DEF Rec, PairOf
  <2>2. QED
    BY <1>2, <2>1, UacStopsIs
<1> HIDE DEF v
<1>4. v \in Rec /\ v.uac = "terminated" /\ v.uas_tsx = p.uas_tsx
  BY <1>3 DEF UacStops
<1>5. Answered(p) \/ UasFirst(p)
  BY <1>2 DEF Good, Situation, Waits, Nobody, NeverStarted, Turned, Open, UacFirst, Gone
<1>6. CASE UasFirst(p)
  <2>1. x = v
    BY <1>4, <1>6, EndsUntold DEF UasFirst
  <2>2. UacHasEnded(v, p') /\ p.status \in Codes
    BY <1>1, <1>2, <1>4, <2>1, UacEndedFields DEF Rec, PairOf
  <2>3. Good(p')
    BY <1>2, <1>3, <1>6, <2>2, EndsAfterUas DEF Waits
  <2>4. QED
    BY <1>1, <2>3, GoodNext
<1>7. CASE Answered(p)
  <2>1. x = TimedOut(w, ok)
    BY <1>4, <1>7, EndsByTimer DEF Answered
  <2>2. IsCut(v, w)
    BY <1>4, CutIs
  <2> HIDE DEF w
  <2>3. w \in Rec /\ w.uas = "confirmed" /\ faults # {}
    BY <1>1, <1>2, <1>3, <1>7, <2>2 DEF UacStops, IsCut, Answered
  <2>4. x = Crash(w)
    <3> HIDE DEF x
    <3> DEFINE code == 408
    <3>1. code \in Codes
      BY Numbers
    <3> HIDE DEF code
    <3>2. UasSend(w, code, TRUE, ok) = Crash(w)
      BY <2>3, <3>1, SendAgain
    <3>3. QED
      BY <1>2, <2>1, <3>2 DEF TimedOut, code
  <2>5. /\ x \in Rec /\ ~x.up /\ x.sent = p.sent /\ x.status = p.status /\ x.ended = p.ended
    BY <1>3, <2>2, <2>3, <2>4, CrashIs DEF IsCut, UacStops
  <2>6. UacHasEnded(x, p')
    BY <1>1, <2>5, UacEndedFields
  <2>7. p.ended = << >>
    BY <1>2, <1>7 DEF Good, EndedMatch, Answered
  <2>8. p' \in PairOf(Orders)
    <3>1. p'.ended \in Orders
      BY <2>5, <2>6, <2>7, EndedOrders DEF UacHasEnded, Orders
    <3>2. QED
      BY <2>6, <3>1 DEF UacHasEnded, Rec, PairOf
  <2>9. ~p'.up /\ Told(p') /\ p'.sent \subseteq {408, 486, 500} \cup Finals
    BY <1>7, <2>5, <2>6 DEF UacHasEnded, Told, Answered
  <2>10. QED
    BY <1>1, <2>3, <2>8, <2>9, CrashNext
<1>8. QED
  BY <1>5, <1>6, <1>7

(* Timer K, the end of the UAC of another request. *)
LEMMA TimerKStep ==
  ASSUME IInv, NEW ok \in BOOLEAN, TimerK(ok)
  PROVE  IInv'
<1> DEFINE v == Stopped(p, p.status)
           x == UacTerminated(v, "TIMER", ok)
           w == Cut(v)
<1>1. p.up /\ "K" \in p.timers /\ UNCHANGED <<method, faults>> /\ p' = UacEnded(x)
  BY DEF TimerK, Fires, UacEnds, Stopped
<1>2. Good(p) /\ p.uac = "completed" /\ ~Invite /\ p \in Rec
  BY <1>1, GoodNow DEF Good, TimersMatch
<1>3. UacStops(p, v, p.status) /\ p.status \in Codes
  <2>1. p.status \in Codes
    BY <1>2 DEF Rec, PairOf
  <2>2. QED
    BY <1>2, <2>1, UacStopsIs
<1> HIDE DEF v
<1>4. v \in Rec /\ v.uac = "terminated" /\ v.uas_tsx = p.uas_tsx
  BY <1>3 DEF UacStops
<1>5. Answered(p) \/ UasFirst(p)
  BY <1>2 DEF Good, Situation, Waits, Nobody, NeverStarted, Turned, Open, UacFirst, Gone
<1>6. CASE UasFirst(p)
  <2>1. x = v
    BY <1>4, <1>6, EndsUntold DEF UasFirst
  <2>2. UacHasEnded(v, p')
    BY <1>1, <1>4, <2>1, UacEndedFields
  <2>3. Good(p')
    BY <1>2, <1>3, <1>6, <2>2, EndsAfterUas DEF Waits
  <2>4. QED
    BY <1>1, <2>3, GoodNext
<1>7. CASE Answered(p)
  <2>1. x = TimedOut(w, ok)
    BY <1>4, <1>7, EndsByTimer DEF Answered
  <2>2. IsCut(v, w)
    BY <1>4, CutIs
  <2> HIDE DEF w
  <2>3. x = UasTerminate(w) /\ w \in Rec
    BY <1>2, <2>1, <2>2 DEF TimedOut, IsCut
  <2> HIDE DEF x
  <2>4. UasHasEnded(w, x, x.last)
    BY <2>3, UasTerminateIs DEF UasHasEnded
  <2>5. UacHasEnded(x, p')
    BY <1>1, <2>4, UacEndedFields DEF UasHasEnded, Others, x
  <2>6. Good(p')
    BY <1>2, <1>3, <1>7, <2>2, <2>4, <2>5, EndsAnswered
  <2>7. QED
    BY <1>1, <2>6, GoodNext
<1>8. QED
  BY <1>5, <1>6, <1>7

(* The transport of the UAC fails while it waits. *)
LEMMA UacTransportErrorStep ==
  ASSUME IInv, UacTransportError
  PROVE  IInv'
<1> DEFINE v == Stopped(p, 503)
           yes == TRUE
           x == UacTerminated(v, "TRANSPORT_ERROR", yes)
           w == Cut(v)
<1>1. p.up /\ Waits(p) /\ UNCHANGED <<method, faults>> /\ p' = UacEnded(x)
  BY DEF UacTransportError, UacWaits, UacEnds, Waits, Stopped
<1>2. Good(p) /\ Waits(p) /\ p \in Rec /\ 503 \in Codes
  BY <1>1, GoodNow, Numbers DEF Good
<1>3. UacStops(p, v, 503)
  BY <1>2, UacStopsIs
<1> HIDE DEF v, yes
<1>4. v \in Rec /\ v.uac = "terminated" /\ v.uas_tsx = p.uas_tsx
  BY <1>3 DEF UacStops
<1>5. Open(p) \/ UasFirst(p)
  BY <1>1, <1>2 DEF Good, Situation, Waits, Nobody, NeverStarted, Turned, Answered, UacFirst, Gone
<1>6. CASE UasFirst(p)
  <2>1. x = v
    BY <1>4, <1>6, EndsUntold DEF UasFirst
  <2>2. UacHasEnded(v, p')
    BY <1>1, <1>4, <2>1, UacEndedFields
  <2>3. Good(p')
    BY <1>2, <1>3, <1>6, <2>2, EndsAfterUas DEF Waits
  <2>4. QED
    BY <1>1, <2>3, GoodNext
<1>7. CASE Open(p)
  <2>1. x = w
    BY <1>4, <1>7, EndsByError DEF Open
  <2>2. IsCut(v, w)
    BY <1>4, CutIs
  <2> HIDE DEF w, x
  <2>3. UacHasEnded(w, p')
    BY <1>1, <2>1, <2>2, UacEndedFields DEF IsCut, x
  <2>4. Good(p')
    BY <1>2, <1>3, <1>7, <2>2, <2>3, EndsUnreached
  <2>5. QED
    BY <1>1, <2>4, GoodNext
<1>8. QED
  BY <1>5, <1>6, <1>7

(* The steps that end the UAS. *)
LEMMA UasEnds ==
  ASSUME NEW t, Good(t), t.uas \in {"completed", "confirmed"}, NEW u, UasHasEnded(t, u, t.last)
  PROVE  Good(u)
<1>1. Turned(t) \/ Answered(t) \/ UacFirst(t)
  BY DEF Good, Situation, Nobody, NeverStarted, Open, UasFirst, Gone
<1>2. u.uas = "terminated" /\ u.uac = t.uac /\ u.ended = Append(t.ended, "uas")
  BY DEF UasHasEnded, Others
<1>3. EndedMatch(u) /\ (u.uac = "terminated" => u.ended = <<"uac", "uas">>)
  <2>1. CASE t.uac = "terminated"
    BY <1>2, <2>1, EndedOrders DEF Good, EndedMatch
  <2>2. CASE t.uac # "terminated"
    BY <1>2, <2>2, EndedOrders DEF Good, EndedMatch
  <2>3. QED
    BY <2>1, <2>2
<1>4. TimersMatch(u)
  BY <1>2 DEF Good, TimersMatch, UasHasEnded, Waits
<1>5. Situation(u)
  <2>1. CASE Turned(t)
    BY <1>2, <2>1 DEF Situation, Turned, Alone, UasHasEnded, Others, Gone
  <2>2. CASE Answered(t)
    <3>1. UasFirst(u)
      BY <1>2, <2>2 DEF UasFirst, Answered, UasHasEnded, Others, Gone, Waits
    <3>2. QED
      BY <3>1 DEF Situation
  <2>3. CASE UacFirst(t)
    BY <1>2, <2>3 DEF Situation, UacFirst, UasHasEnded, Others, Gone
  <2>4. QED
    BY <1>1, <2>1, <2>2, <2>3
<1>6. QED
  BY <1>3, <1>4, <1>5 DEF Good, UasHasEnded, Others

(* The three timers of a UAS and the failure of its transport. *)
LEMMA UasEndsStep ==
  ASSUME IInv, TimerH \/ TimerI \/ TimerJ \/ UasTransportError
  PROVE  IInv'
<1>1. p.up /\ UNCHANGED <<method, faults>> /\ p' = UasTerminate(p)
  BY DEF TimerH, TimerI, TimerJ, UasTransportError, Fires
<1>2. Good(p) /\ p \in Rec
  BY <1>1, GoodNow DEF Good
<1>3. p.uas \in {"completed", "confirmed"}
  BY <1>2 DEF TimerH, TimerI, TimerJ, UasTransportError, Fires, Good, TimersMatch
<1>4. UasHasEnded(p, p', p.last)
  BY <1>1, <1>2, UasTerminateIs
<1>5. Good(p')
  BY <1>2, <1>3, <1>4, UasEnds
<1>6. QED
  BY <1>1, <1>5, GoodNext

(* The first of the ended transactions is destroyed. *)
LEMMA DestroyStep ==
  ASSUME IInv, Destroy
  PROVE  IInv'
<1> DEFINE f == Head(p.ended)
           e == Tail(p.ended)
<1>1. /\ p.up /\ p.ended # << >> /\ UNCHANGED <<method, faults>>
      /\ p' = [p EXCEPT ![f] = "destroyed", !.ended = e]
  BY DEF Destroy
<1>2. Good(p) /\ p \in Rec
  BY <1>1, GoodNow DEF Good
<1>3. \/ p.uas = "terminated" /\ p.uac # "terminated" /\ f = "uas" /\ e = << >>
      \/ p.uas # "terminated" /\ p.uac = "terminated" /\ f = "uac" /\ e = << >>
      \/ p.uas = "terminated" /\ p.uac = "terminated" /\ f = "uas" /\ e = <<"uac">>
      \/ /\ p.uas = "terminated" /\ p.uac = "terminated" /\ f = "uac" /\ e = <<"uas">>
         /\ p.ended # <<"uas", "uac">>
  <2>1. CASE p.uas = "terminated" /\ p.uac # "terminated"
    BY <1>2, <2>1, EndedOrders DEF Good, EndedMatch
  <2>2. CASE p.uas # "terminated" /\ p.uac = "terminated"
    BY <1>2, <2>2, EndedOrders DEF Good, EndedMatch
  <2>3. CASE p.uas = "terminated" /\ p.uac = "terminated"
    <3>1. p.ended = <<"uas", "uac">> \/ p.ended = <<"uac", "uas">>
      BY <1>2, <2>3 DEF Good, EndedMatch
    <3>2. CASE p.ended = <<"uas", "uac">>
      <4>1. f = "uas" /\ e = <<"uac">>
        BY <3>2, EndedOrders
      <4>2. QED
        BY <2>3, <4>1
    <3>3. CASE p.ended = <<"uac", "uas">>
      <4>1. f = "uac" /\ e = <<"uas">>
        BY <3>3, EndedOrders
      <4>2. p.ended # <<"uas", "uac">>
        BY <4>1, EndedOrders
      <4>3. QED
        BY <2>3, <4>1, <4>2
    <3>4. QED
      BY <3>1, <3>2, <3>3
  <2>4. QED
    BY <1>1, <1>2, <2>1, <2>2, <2>3 DEF Good, EndedMatch
<1>4. e \in Seq({"uas", "uac"})
  BY <1>3, EndedOrders DEF Orders
<1> HIDE DEF f, e
<1> DEFINE q == p'
<1>5. q = [p EXCEPT !.uas = IF f = "uas" THEN "destroyed" ELSE @,
                    !.uac = IF f = "uac" THEN "destroyed" ELSE @, !.ended = e]
  <2>1. CASE f = "uas"
    BY <1>1, <1>2, <2>1 DEF Rec, PairOf
  <2>2. CASE f = "uac"
    BY <1>1, <1>2, <2>2 DEF Rec, PairOf
  <2>3. QED
    BY <1>3, <2>1, <2>2
<1> HIDE DEF q
<1>6. /\ q \in Rec /\ q.ended = e /\ q.uas_data = p.uas_data /\ q.uac_tsx = p.uac_tsx
      /\ q.uas_tsx = p.uas_tsx /\ q.last = p.last /\ q.status = p.status
      /\ q.timers = p.timers /\ q.sent = p.sent /\ q.cancels = p.cancels /\ q.up = p.up
      /\ q.uas = (IF f = "uas" THEN "destroyed" ELSE p.uas)
      /\ q.uac = (IF f = "uac" THEN "destroyed" ELSE p.uac)
  BY <1>2, <1>4, <1>5 DEF Rec, PairOf, UasStates, UacStates
<1>7. EndedMatch(q)
  BY <1>3, <1>6 DEF EndedMatch
<1>8. TimersMatch(q)
  BY <1>2, <1>3, <1>6 DEF Good, TimersMatch, Waits
<1>9. Situation(q)
  <2>1. CASE NeverStarted(p)
    BY <1>3, <1>6, <2>1 DEF Situation, NeverStarted, Alone, Gone
  <2>2. CASE Turned(p)
    BY <1>3, <1>6, <2>2 DEF Situation, Turned, Alone, Gone
  <2>3. CASE UasFirst(p)
    <3>1. UasFirst(q)
      BY <1>3, <1>6, <2>3 DEF UasFirst, Gone, Waits
    <3>2. QED
      BY <3>1 DEF Situation
  <2>4. CASE UacFirst(p)
    BY <1>3, <1>6, <2>4 DEF Situation, UacFirst, Gone
  <2>5. ~Open(p) /\ ~Answered(p) /\ p # Nobody
    BY <1>3 DEF Open, Answered, Nobody, Waits
  <2>6. QED
    BY <1>2, <2>1, <2>2, <2>3, <2>4, <2>5 DEF Good, Situation
<1>10. Good(p')
  BY <1>1, <1>6, <1>7, <1>8, <1>9 DEF Good, q
<1>11. QED
  BY <1>1, <1>10, GoodNext

(* A CANCEL and an ACK. *)
LEMMA RxCancelStep ==
  ASSUME IInv, RxCancel
  PROVE  IInv'
<1>1. p.up /\ UNCHANGED <<method, faults>> /\ p.uas \notin {"none", "destroyed"}
  BY DEF RxCancel
<1>2. Good(p) /\ p \in Rec
  BY <1>1, GoodNow DEF Good
<1>3. CASE ~p.uas_data /\ p' = Crash(p)
  <2>1. Turned(p)
    BY <1>1, <1>2, <1>3
       DEF Good, Situation, Nobody, NeverStarted, Open, Answered, UasFirst, UacFirst
  <2>2. faults # {}
    BY <2>1 DEF Turned
  <2>3. /\ p' \in Rec /\ ~p'.up /\ p'.sent = p.sent /\ p'.status = p.status /\ p'.ended = p.ended
        /\ ~p'.uas_data
    BY <1>2, <1>3, CrashIs
  <2>4. p' \in PairOf(Orders)
    <3>1. p.ended \in Orders
      BY DEF IInv, TypeOK, PairOf
    <3>2. QED
      BY <2>3, <3>1 DEF Rec, PairOf
  <2>5. Told(p') /\ p'.sent \subseteq {408, 486, 500} \cup Finals
    BY <2>1, <2>3 DEF Told, Turned
  <2>6. QED
    BY <1>1, <2>2, <2>3, <2>4, <2>5, CrashNext
<1>4. CASE p' = [p EXCEPT !.cancels = 1]
  <2> DEFINE q == p'
  <2>1. /\ q \in Rec /\ q.ended = p.ended /\ q.uas_data = p.uas_data /\ q.uac_tsx = p.uac_tsx
        /\ q.uas_tsx = p.uas_tsx /\ q.last = p.last /\ q.status = p.status
        /\ q.timers = p.timers /\ q.sent = p.sent /\ q.up = p.up /\ q.uas = p.uas /\ q.uac = p.uac
    BY <1>2, <1>4 DEF Rec, PairOf
  <2> HIDE DEF q
  <2>2. TimersMatch(q) /\ EndedMatch(q)
    BY <1>2, <2>1 DEF Good, TimersMatch, EndedMatch, Waits
  <2>3. Situation(q)
    BY <1>1, <1>2, <2>1
       DEF Good, Situation, NeverStarted, Turned, Open, Answered, UasFirst, UacFirst, Alone, Waits,
           Nobody
  <2>4. Good(p')
    BY <1>1, <2>1, <2>2, <2>3 DEF Good, q
  <2>5. QED
    BY <1>1, <2>4, GoodNext
<1>5. CASE p' = p
  BY <1>1, <1>2, <1>5, GoodNext
<1>6. QED
  BY <1>3, <1>4, <1>5 DEF RxCancel

(* The caller's ACK of a refusal. *)
LEMMA RxAckStep ==
  ASSUME IInv, RxAck
  PROVE  IInv'
<1> DEFINE q == p'
           timers == (p.timers \ {"H"}) \cup {"I"}
<1>1. /\ p.up /\ Invite /\ UNCHANGED <<method, faults>> /\ p.uas = "completed"
      /\ q = [p EXCEPT !.uas = "confirmed", !.timers = timers]
  BY DEF RxAck
<1>2. Good(p) /\ p \in Rec
  BY <1>1, GoodNow DEF Good
<1> HIDE DEF q, timers
<1>3. timers \in SUBSET {"B", "D", "H", "I", "J", "K"}
  BY <1>2 DEF Rec, PairOf, timers
<1>4. /\ q \in Rec /\ q.ended = p.ended /\ q.uas_data = p.uas_data /\ q.uac_tsx = p.uac_tsx
      /\ q.uas_tsx = p.uas_tsx /\ q.last = p.last /\ q.status = p.status
      /\ q.timers = timers /\ q.sent = p.sent /\ q.up = p.up /\ q.uas = "confirmed"
      /\ q.uac = p.uac
  BY <1>1, <1>2, <1>3 DEF Rec, PairOf, UasStates
<1>5. TimersMatch(q)
  BY <1>1, <1>2, <1>4 DEF Good, TimersMatch, Waits, timers
<1>6. EndedMatch(q)
  BY <1>1, <1>2, <1>4 DEF Good, EndedMatch
<1>7. Situation(q)
  <2>1. CASE Turned(p)
    BY <1>4, <2>1 DEF Situation, Turned, Alone
  <2>2. CASE Answered(p)
    <3>1. "I" \in timers
      BY DEF timers
    <3>2. Answered(q)
      BY <1>4, <2>2, <3>1 DEF Answered
    <3>3. QED
      BY <3>2 DEF Situation
  <2>3. CASE UacFirst(p)
    BY <1>4, <2>3 DEF Situation, UacFirst
  <2>4. QED
    BY <1>1, <1>2, <2>1, <2>2, <2>3
       DEF Good, Situation, Nobody, NeverStarted, Open, UasFirst, Gone
<1>8. Good(p')
  BY <1>1, <1>2, <1>4, <1>5, <1>6, <1>7 DEF Good, q
<1>9. QED
  BY <1>1, <1>8, GoodNext

(* A request is taken on, or is not. *)
LEMMA NobodyIs ==
  /\ Nobody \in Rec /\ Nobody.uas = "none" /\ Nobody.uac = "none" /\ ~Nobody.uas_data
  /\ ~Nobody.uac_tsx /\ ~Nobody.uas_tsx /\ Nobody.last = 0 /\ Nobody.status = 0
  /\ Nobody.timers = {} /\ Nobody.sent = {} /\ Nobody.cancels = 0 /\ Nobody.ended = << >>
  /\ Nobody.up
<1>1. << >> \in Seq({"uas", "uac"})
  OBVIOUS
<1>2. 0 \in Codes
  BY Numbers
<1>3. QED
  BY <1>1, <1>2 DEF Nobody, Rec, PairOf, UasStates, UacStates

(* The pair as proxy_on_rx_request has linked it, before anything is sent. *)
LEMMA LinkedIs ==
  /\ Linked \in Rec /\ Linked.uas = "trying" /\ Linked.uac = "none" /\ Linked.uas_data
  /\ Linked.uac_tsx /\ Linked.uas_tsx /\ Linked.last = 0 /\ Linked.status = 0
  /\ Linked.timers = {} /\ Linked.sent = {} /\ Linked.cancels = 0 /\ Linked.ended = << >>
  /\ Linked.up
BY NobodyIs DEF Linked, Rec, PairOf, UasStates

(* A send fails only in a world with that fault. *)
LEMMA FailsSometimes ==
  ASSUME NEW ok \in Sends, ok = FALSE
  PROVE  faults # {}
BY DEF Sends

(* A request that is forwarded: timer B runs, and an INVITE is answered 100. *)
LEMMA TakenOnStep ==
  ASSUME IInv, NEW answered \in Sends, proxy_on_rx_request(TRUE, answered)
  PROVE  IInv'
<1> DEFINE t == [Linked EXCEPT !.uac = "calling", !.timers = {"B"}]
           q == p'
<1>1. /\ UNCHANGED <<method, faults>> /\ answered \in BOOLEAN
      /\ q = IF Invite THEN UasSend(t, 100, FALSE, answered) ELSE t
  BY DEF proxy_on_rx_request, Sends
<1> HIDE DEF q
<1>2. /\ t \in Rec /\ t.uas = "trying" /\ t.uac = "calling" /\ t.uas_data
      /\ t.uac_tsx /\ t.uas_tsx /\ t.last = 0 /\ t.status = 0
      /\ t.timers = {"B"} /\ t.sent = {} /\ t.ended = << >> /\ t.up
  BY LinkedIs DEF Rec, PairOf, UacStates
<1> HIDE DEF t
<1>3. CASE ~Invite
  <2>1. q = t
    BY <1>1, <1>3
  <2>2. Open(t) /\ TimersMatch(t) /\ EndedMatch(t)
    BY <1>2, <1>3 DEF Open, TimersMatch, EndedMatch, Waits
  <2>3. QED
    BY <1>1, <1>2, <2>1, <2>2, GoodNext DEF Good, Situation, q
<1>4. CASE Invite
  <2> DEFINE code == 100
             z == UasSend(t, code, FALSE, answered)
  <2>2. q = z
    BY <1>1, <1>4
  <2>0. code \in Codes
    BY Numbers
  <2> HIDE DEF code
  <2>1. UasHasSent(t, z, code) \/ (answered = FALSE /\ UasHasEnded(t, z, code))
    BY <1>1, <1>2, <2>0, SendNew
  <2> HIDE DEF z
  <2>3. CASE UasHasSent(t, z, code)
    <3>1. /\ q \in Rec /\ q.up /\ q.uas = "proceeding" /\ q.uac = "calling" /\ q.last = 100
          /\ q.uas_data /\ q.uac_tsx /\ q.uas_tsx /\ q.status = 0 /\ q.sent = {}
          /\ q.timers = {"B"} /\ q.ended = << >>
      <4>1. UasHasSent(t, q, code)
        BY <2>2, <2>3
      <4>2. QED
        BY <1>2, <4>1 DEF UasHasSent, Others, code
    <3>2. Open(q) /\ TimersMatch(q) /\ EndedMatch(q)
      BY <3>1 DEF Open, TimersMatch, EndedMatch, Waits
    <3>3. QED
      BY <1>1, <3>1, <3>2, GoodNext DEF Good, Situation, q
  <2>4. CASE answered = FALSE /\ UasHasEnded(t, z, code)
    <3>1. /\ q \in Rec /\ q.up /\ q.uas = "terminated" /\ q.uac = "calling" /\ q.last = 100
          /\ q.uas_data /\ q.uac_tsx /\ ~q.uas_tsx /\ q.status = 0 /\ q.sent = {}
          /\ q.timers = {"B"} /\ q.ended = <<"uas">>
      BY <1>2, <2>2, <2>4, EndedOrders DEF UasHasEnded, Others, code
    <3>2. faults # {}
      BY <2>4, FailsSometimes
    <3>3. UasFirst(q) /\ TimersMatch(q) /\ EndedMatch(q)
      BY <3>1, <3>2 DEF UasFirst, TimersMatch, EndedMatch, Waits, Gone
    <3>4. QED
      BY <1>1, <3>1, <3>3, GoodNext DEF Good, Situation, q
  <2>5. QED
    BY <2>1, <2>3, <2>4
<1>5. QED
  BY <1>3, <1>4

(* A request whose next hop cannot be reached: 500 at once. *)
LEMMA UnreachedStep ==
  ASSUME IInv, NEW answered \in Sends, proxy_on_rx_request(FALSE, answered)
  PROVE  IInv'
<1> DEFINE status == 503
           code == 500
           v == [Linked EXCEPT !.uac = "terminated", !.status = status]
           w == UacTerminated(v, "TRANSPORT_ERROR", TRUE)
           x == UacEnded(w)
           z == UasSend(x, code, FALSE, answered)
           q == p'
<1>1. UNCHANGED <<method, faults>> /\ q = z /\ answered \in BOOLEAN
  BY DEF proxy_on_rx_request, Sends
<1>2. status \in Codes /\ code \in Codes
  BY Numbers
<1> HIDE DEF q, status, code
<1>3. /\ v \in Rec /\ v.uas = "trying" /\ v.uac = "terminated" /\ v.uas_data
      /\ v.uac_tsx /\ v.uas_tsx /\ v.last = 0 /\ v.status = status
      /\ v.timers = {} /\ v.sent = {} /\ v.ended = << >> /\ v.up
  BY <1>2, LinkedIs DEF Rec, PairOf, UacStates
<1> HIDE DEF v
<1>4. w = Cut(v)
  BY <1>3 DEF UacTerminated, Cut
<1> HIDE DEF w
<1>5. IsCut(v, w)
  BY <1>3, <1>4, CutIs
<1>6. UacHasEnded(w, x)
  BY <1>5, UacEndedFields DEF IsCut
<1> HIDE DEF x
<1>7. /\ x \in Rec /\ x.uas = "trying" /\ x.uac = "terminated" /\ x.uas_data
      /\ ~x.uac_tsx /\ x.uas_tsx /\ x.last = 0 /\ x.status = status
      /\ x.timers = {} /\ x.sent = {} /\ x.ended = <<"uac">> /\ x.up
  BY <1>3, <1>5, <1>6, EndedOrders DEF IsCut, UacHasEnded
<1>8. UasHasSent(x, z, code) \/ UasHasEnded(x, z, code)
  <2>1. answered \in BOOLEAN
    BY <1>1
  <2>2. QED
    BY <1>2, <1>7, <2>1, SendNew
<1> HIDE DEF z
<1>9. CASE UasHasSent(x, z, code)
  <2>1. /\ q \in Rec /\ q.up /\ q.uas = "completed" /\ q.uac = "terminated"
        /\ q.uas_data /\ ~q.uac_tsx /\ q.status = 503 /\ q.sent = {500}
        /\ q.timers = {IF Invite THEN "H" ELSE "J"} /\ q.ended = <<"uac">>
    <3>1. UasHasSent(x, q, code)
      BY <1>1, <1>9
    <3>2. QED
      BY <1>7, <3>1 DEF UasHasSent, Others, status, code
  <2>2. UacFirst(q) /\ TimersMatch(q) /\ EndedMatch(q)
    BY <2>1 DEF UacFirst, TimersMatch, EndedMatch, Waits, Gone
  <2>3. QED
    BY <1>1, <2>1, <2>2, GoodNext DEF Good, Situation, q
<1>10. CASE UasHasEnded(x, z, code)
  <2>1. /\ q \in Rec /\ q.up /\ q.uas = "terminated" /\ q.uac = "terminated"
        /\ q.uas_data /\ ~q.uac_tsx /\ q.status = 503 /\ q.sent = {}
        /\ q.timers = {} /\ q.ended = <<"uac", "uas">>
    <3>1. UasHasEnded(x, q, code)
      BY <1>1, <1>10
    <3>2. QED
      BY <1>7, <3>1, EndedOrders DEF UasHasEnded, Others, status, code
  <2>2. UacFirst(q) /\ TimersMatch(q) /\ EndedMatch(q)
    BY <2>1 DEF UacFirst, TimersMatch, EndedMatch, Waits, Gone
  <2>3. QED
    BY <1>1, <2>1, <2>2, GoodNext DEF Good, Situation, q
<1>11. QED
  BY <1>8, <1>9, <1>10

(* A request without a UAS, or answered by a module before the proxy. *)
LEMMA NotTakenOnStep ==
  ASSUME IInv, NoUas \/ Rejected
  PROVE  IInv'
<1> DEFINE q == p'
<1>1. UNCHANGED <<method, faults>>
  BY DEF NoUas, Rejected
<1>3. CASE NoUas
  <2> DEFINE status == 500
             v == [Nobody EXCEPT !.uac = "terminated", !.status = status]
  <2>1. q = UacEnded(v) /\ status \in Codes
    BY <1>3, Numbers DEF NoUas
  <2> HIDE DEF status
  <2>2. /\ v \in Rec /\ v.uas = "none" /\ v.uac = "terminated" /\ ~v.uas_data
        /\ ~v.uac_tsx /\ ~v.uas_tsx /\ v.timers = {} /\ v.sent = {} /\ v.ended = << >> /\ v.up
    BY <2>1, NobodyIs DEF Rec, PairOf, UacStates
  <2> HIDE DEF v
  <2>3. UacHasEnded(v, q)
    BY <2>1, <2>2, UacEndedFields
  <2> HIDE DEF q
  <2>4. q.ended = <<"uac">>
    BY <2>2, <2>3, EndedOrders DEF UacHasEnded
  <2>5. NeverStarted(q) /\ TimersMatch(q) /\ EndedMatch(q)
    BY <2>2, <2>3, <2>4
       DEF UacHasEnded, NeverStarted, Alone, TimersMatch, EndedMatch, Waits, Gone
  <2>6. q \in Rec /\ q.up
    BY <2>2, <2>3 DEF UacHasEnded
  <2>7. QED
    BY <1>1, <2>5, <2>6, GoodNext DEF Good, Situation, q
<1>4. CASE Rejected
  <2> DEFINE timer == IF Invite THEN "H" ELSE "J"
             code  == 486
  <2>1. /\ q = [Nobody EXCEPT !.uas = "completed", !.last = code, !.sent = {code},
                              !.timers = {timer}]
        /\ "rejection" \in faults /\ code \in Codes
    BY <1>4, Numbers DEF Rejected
  <2>2. timer \in {"H", "J"} /\ (timer = "H" => Invite) /\ (timer = "J" => ~Invite)
    OBVIOUS
  <2> HIDE DEF q, timer, code
  <2>3. /\ q \in Rec /\ q.uas = "completed" /\ q.uac = "none" /\ ~q.uas_data
        /\ ~q.uac_tsx /\ ~q.uas_tsx /\ q.timers = {timer} /\ q.sent = {code} /\ q.ended = << >>
        /\ q.up
    BY <2>1, <2>2, NobodyIs DEF Rec, PairOf, UasStates
  <2>4. Turned(q) /\ TimersMatch(q) /\ EndedMatch(q)
    BY <2>1, <2>2, <2>3 DEF Turned, Alone, TimersMatch, EndedMatch, Waits, Gone, code
  <2>5. QED
    BY <1>1, <2>3, <2>4, GoodNext DEF Good, Situation, q
<1>5. QED
  BY <1>3, <1>4

(* A response to a UAC that has its UAS is sent on there. *)
LEMMA ResponseIs ==
  ASSUME NEW t \in Rec, NEW code \in Codes, NEW ok \in BOOLEAN, ~(Invite /\ code = 100), t.uas_tsx,
         UasSend(t, code, FALSE, ok).up
  PROVE  TuUacRx(t, code, ok) = UacTerminated(UasSend(t, code, FALSE, ok), "RX_MSG", ok)
BY DEF TuUacRx, ForwardResponse

(* A response to one whose UAS has ended: the handler follows NULL. *)
LEMMA ResponseCrashes ==
  ASSUME NEW t \in Rec, NEW code \in Codes, NEW ok \in BOOLEAN, ~(Invite /\ code = 100), ~t.uas_tsx
  PROVE  TuUacRx(t, code, ok) = Crash(t)
<1>1. ~Crash(t).up
  BY CrashIs
<1>2. QED
  BY <1>1 DEF TuUacRx, ForwardResponse

(* A provisional response. *)
LEMMA UacProvisionalStep ==
  ASSUME IInv, NEW code \in Provisionals, NEW ok \in Sends, UacProvisional(code, ok)
  PROVE  IInv'
<1> DEFINE timers == IF Invite THEN p.timers \ {"B"} ELSE p.timers
           t == [p EXCEPT !.uac = "proceeding", !.status = code, !.timers = timers]
           z == UasSend(t, code, FALSE, ok)
           q == p'
<1>1. p.up /\ Waits(p) /\ UNCHANGED <<method, faults>>
  BY DEF UacProvisional, UacWaits, Waits
<1>2. Good(p) /\ p \in Rec /\ ok \in BOOLEAN
  BY <1>1, GoodNow DEF Good, Sends
<1>3. q = TuUacRx(t, code, ok)
  BY DEF UacProvisional
<1>4. code \in Codes /\ code \in Int /\ code < 200
  BY Numbers
<1>5. timers \in SUBSET {"B", "D", "H", "I", "J", "K"}
  BY <1>2 DEF Rec, PairOf
<1> HIDE DEF q, timers
<1>6. /\ t \in Rec /\ t.uas = p.uas /\ t.uac = "proceeding" /\ t.status = code
      /\ t.timers = timers /\ t.uas_data = p.uas_data /\ t.uac_tsx = p.uac_tsx
      /\ t.uas_tsx = p.uas_tsx /\ t.last = p.last /\ t.sent = p.sent /\ t.ended = p.ended /\ t.up
  BY <1>1, <1>2, <1>4, <1>5 DEF Rec, PairOf, UacStates
<1> HIDE DEF t
<1>7. Open(p) \/ UasFirst(p)
  BY <1>1, <1>2 DEF Good, Situation, Waits, Nobody, NeverStarted, Turned, Answered, UacFirst, Gone
<1>8. TimersMatch(t) /\ EndedMatch(t) /\ p.uac # "terminated"
  <2>1. p.uac # "terminated" /\ Waits(t)
    BY <1>1, <1>6 DEF Waits
  <2>2. EndedMatch(t)
    BY <1>2, <1>6, <2>1 DEF Good, EndedMatch
  <2>3. TimersMatch(t)
    BY <1>1, <1>2, <1>6, <2>1 DEF Good, TimersMatch, Waits, timers
  <2>4. QED
    BY <2>1, <2>2, <2>3
<1>9. CASE UasFirst(p)
  <2>1. faults # {} /\ t.sent = {} /\ UasFirst(t)
    <3>1. faults # {} /\ t.sent = {}
      BY <1>1, <1>6, <1>9, Numbers DEF UasFirst
    <3>2. UasFirst(t)
      BY <1>6, <1>9, <3>1 DEF UasFirst, Waits
    <3>3. QED
      BY <3>1, <3>2
  <2>2. CASE Invite /\ code = 100
    <3>1. q = t
      BY <1>3, <2>2 DEF TuUacRx
    <3>2. QED
      BY <1>1, <1>6, <1>8, <2>1, <3>1, GoodNext DEF Good, Situation, q
  <2>3. CASE ~(Invite /\ code = 100)
    <3>0. ~t.uas_tsx
      BY <1>6, <1>9 DEF UasFirst
    <3>1. q = Crash(t)
      BY <1>2, <1>3, <1>4, <1>6, <2>3, <3>0, ResponseCrashes
    <3>2. /\ q \in Rec /\ ~q.up /\ q.sent = {} /\ q.ended = p.ended
      BY <1>6, <2>1, <3>1, CrashIs
    <3>3. q \in PairOf(Orders)
      <4>1. p.ended \in Orders
        BY DEF IInv, TypeOK, PairOf
      <4>2. QED
        BY <3>2, <4>1 DEF Rec, PairOf
    <3>4. QED
      BY <1>1, <2>1, <3>2, <3>3, CrashNext DEF q, Told
  <2>4. QED
    BY <2>2, <2>3
<1>10. CASE Open(p)
  <2>1. Open(t)
    BY <1>6, <1>10 DEF Open, Waits
  <2>2. CASE Invite /\ code = 100
    <3>1. q = t
      BY <1>3, <2>2 DEF TuUacRx
    <3>2. QED
      BY <1>1, <1>6, <1>8, <2>1, <3>1, GoodNext DEF Good, Situation, q
  <2>3. CASE ~(Invite /\ code = 100)
    <3>1. UasHasSent(t, z, code) \/ (ok = FALSE /\ UasHasEnded(t, z, code))
      <4>1. t.uas \in {"trying", "proceeding"}
        BY <2>1 DEF Open
      <4>2. QED
        BY <1>2, <1>4, <1>6, <4>1, SendNew
    <3>2. z.up /\ z.uac = "proceeding"
      BY <1>6, <3>1 DEF UasHasSent, UasHasEnded, Others
    <3>3. q = UacTerminated(z, "RX_MSG", ok)
      BY <1>2, <1>3, <1>4, <1>6, <2>1, <2>3, <3>2, ResponseIs DEF Open
    <3> HIDE DEF z
    <3>4. q = z
      BY <3>2, <3>3 DEF UacTerminated
    <3>5. CASE UasHasSent(t, z, code)
      <4>1. /\ q \in Rec /\ q.uas = "proceeding" /\ q.uac = "proceeding" /\ q.status = code
            /\ q.timers = t.timers /\ q.uas_data /\ q.uac_tsx /\ q.uas_tsx /\ q.last = code
            /\ q.sent = {} /\ q.ended = t.ended /\ q.up
        BY <1>4, <1>6, <2>1, <3>4, <3>5 DEF UasHasSent, Others, Open
      <4>2. Open(q)
        BY <1>4, <4>1, Numbers DEF Open, Waits
      <4>3. TimersMatch(q)
        BY <1>6, <1>8, <2>1, <4>1 DEF TimersMatch, Open, Waits
      <4>4. EndedMatch(q)
        BY <1>6, <1>8, <2>1, <4>1 DEF EndedMatch, Open
      <4>5. QED
        BY <1>1, <4>1, <4>2, <4>3, <4>4, GoodNext DEF Good, Situation, q
    <3>6. CASE ok = FALSE /\ UasHasEnded(t, z, code)
      <4>1. t.ended = << >>
        BY <1>6, <1>8, <2>1 DEF EndedMatch, Open
      <4>2. /\ q \in Rec /\ q.uas = "terminated" /\ q.uac = "proceeding" /\ q.status = code
            /\ q.timers = t.timers \ {"H", "I", "J"} /\ q.uas_data /\ q.uac_tsx /\ ~q.uas_tsx
            /\ q.sent = {} /\ q.ended = <<"uas">> /\ q.up
        BY <1>6, <2>1, <3>4, <3>6, <4>1, EndedOrders DEF UasHasEnded, Others, Open
      <4>3. UasFirst(q)
        BY <3>6, <4>2, FailsSometimes DEF UasFirst, Waits, Gone
      <4>4. TimersMatch(q)
        BY <1>6, <1>8, <4>2 DEF TimersMatch, Waits
      <4>5. EndedMatch(q)
        BY <4>2 DEF EndedMatch
      <4>6. QED
        BY <1>1, <4>2, <4>3, <4>4, <4>5, GoodNext DEF Good, Situation, q
    <3>7. QED
      BY <3>1, <3>5, <3>6
  <2>4. QED
    BY <2>2, <2>3
<1>11. QED
  BY <1>7, <1>9, <1>10

(* A final response that the UAS has ended too early for: the handler follows NULL. *)
LEMMA FinalAfterUas ==
  ASSUME NEW t, Good(t), UasFirst(t), Waits(t), NEW q \in Rec,
         ~q.up, q.sent = t.sent, q.ended = t.ended \/ q.ended = Append(t.ended, "uac")
  PROVE  /\ q \in PairOf(Orders) /\ Told(q) /\ faults # {}
         /\ q.sent \subseteq {408, 486, 500} \cup Finals
<1>1. faults # {} /\ t.sent = {}
  BY Numbers DEF UasFirst
<1>2. t.ended = << >> \/ t.ended = <<"uas">>
  BY DEF Good, EndedMatch, Waits
<1>3. q.ended \in Orders
  BY <1>2, EndedOrders DEF Orders
<1>4. QED
  BY <1>1, <1>3 DEF Rec, PairOf, Told

(* One that completes the UAC, in a pair u on which only its timer is missing. *)
LEMMA FinalCompletes ==
  ASSUME NEW t \in Rec, NEW z, NEW code \in Finals, t.up, t.uac = "completed", t.status = code,
         t.uas_data, t.uac_tsx, t.uas_tsx, t.sent = {}, t.ended = << >>,
         t.timers \cap {"B", "D", "H", "I", "J", "K"} = {},
         UasHasSent(t, z, code) \/ (faults # {} /\ UasHasEnded(t, z, code)),
         NEW q, q = [z EXCEPT !.timers = @ \cup {IF Invite THEN "D" ELSE "K"}]
  PROVE  Good(q)
<1> DEFINE timer  == IF Invite THEN "D" ELSE "K"
           timers == z.timers \cup {timer}
<1>0. code \in Int /\ code >= 200
  BY Numbers
<1>1. z \in Rec
  BY DEF UasHasSent, UasHasEnded, Others
<1>2. q = [z EXCEPT !.timers = timers] /\ timers \in SUBSET {"B", "D", "H", "I", "J", "K"}
  BY <1>1 DEF Rec, PairOf
<1> HIDE DEF timers
<1>3. /\ q \in Rec /\ q.timers = timers /\ q.uas = z.uas /\ q.uac = z.uac /\ q.status = z.status
      /\ q.uas_data = z.uas_data /\ q.uac_tsx = z.uac_tsx /\ q.uas_tsx = z.uas_tsx
      /\ q.sent = z.sent /\ q.ended = z.ended /\ q.up = z.up
  BY <1>1, <1>2 DEF Rec, PairOf
<1>4. /\ q.uac = "completed" /\ q.status = code /\ q.uas_data /\ q.uac_tsx /\ q.up
  BY <1>3 DEF UasHasSent, UasHasEnded, Others
<1>5. CASE UasHasSent(t, z, code)
  <2>1. /\ q.uas = "completed" /\ q.uas_tsx /\ q.sent = {code} /\ q.ended = << >>
        /\ q.timers = t.timers \cup {IF Invite THEN "H" ELSE "J"} \cup {timer}
    BY <1>0, <1>3, <1>5 DEF UasHasSent, timers
  <2>2. Answered(q)
    BY <1>4, <2>1 DEF Answered
  <2>3. TimersMatch(q)
    <3>1. CASE Invite
      BY <1>4, <2>1, <3>1 DEF TimersMatch
    <3>2. CASE ~Invite
      BY <1>4, <2>1, <3>2 DEF TimersMatch
    <3>3. QED
      BY <3>1, <3>2
  <2>4. EndedMatch(q)
    BY <1>4, <2>1 DEF EndedMatch
  <2>5. QED
    BY <1>3, <1>4, <2>2, <2>3, <2>4 DEF Good, Situation
<1>6. CASE faults # {} /\ UasHasEnded(t, z, code)
  <2>1. /\ q.uas = "terminated" /\ ~q.uas_tsx /\ q.sent = {} /\ q.ended = <<"uas">>
        /\ q.timers = (t.timers \ {"H", "I", "J"}) \cup {timer}
    <3>1. /\ z.uas = "terminated" /\ ~z.uas_tsx /\ z.sent = {}
          /\ z.timers = t.timers \ {"H", "I", "J"}
      BY <1>6 DEF UasHasEnded
    <3>2. z.ended = <<"uas">>
      BY <1>6, EndedOrders DEF UasHasEnded
    <3>3. QED
      BY <1>3, <3>1, <3>2 DEF timers
  <2>2. UasFirst(q)
    <3>1. ~Waits(q) /\ q.uas \in Gone /\ q.status \in Finals
      BY <1>4, <2>1 DEF Waits, Gone
    <3>2. QED
      BY <1>4, <2>1, <3>1 DEF UasFirst
  <2>3. TimersMatch(q)
    BY <1>4, <2>1 DEF TimersMatch
  <2>4. EndedMatch(q)
    BY <1>4, <2>1 DEF EndedMatch
  <2>5. QED
    BY <1>3, <1>4, <2>2, <2>3, <2>4 DEF Good, Situation
<1>7. QED
  BY <1>5, <1>6

(* One that ends the UAC at once: the 2xx of an INVITE. *)
LEMMA FinalEnds ==
  ASSUME NEW t \in Rec, NEW z, NEW code \in Finals, NEW ok, t.up, t.uac = "terminated",
         t.status = code, t.uas_data, t.uac_tsx, t.uas_tsx, t.sent = {}, t.ended = << >>,
         t.timers \cap {"B", "D", "H", "I", "J", "K"} = {},
         UasHasSent(t, z, code) \/ UasHasEnded(t, z, code),
         NEW q, q = UacEnded(UacTerminated(z, "RX_MSG", ok))
  PROVE  Good(q)
<1> DEFINE u == UacTerminated(z, "RX_MSG", ok)
           v == [Cut(z) EXCEPT !.uas_tsx = FALSE]
           w == Cut(z)
<1>0. code \in Int /\ code >= 200
  BY Numbers
<1>1. z \in Rec /\ z.uac = "terminated"
  BY DEF UasHasSent, UasHasEnded, Others
<1>2. CASE UasHasSent(t, z, code)
  <2>1. u = UasTerminate(v)
    <3>1. z.uas_tsx /\ z.uas \notin Gone
      BY <1>0, <1>2 DEF UasHasSent, Gone
    <3>2. QED
      BY <1>1, <3>1, EndsByResponse
  <2>2. IsCut(z, w)
    BY <1>1, CutIs
  <2> HIDE DEF w
  <2>3. /\ v \in Rec /\ v.uas = w.uas /\ v.uac = w.uac /\ v.status = w.status /\ v.sent = w.sent
        /\ v.timers = w.timers /\ v.uas_data = w.uas_data /\ ~v.uac_tsx /\ v.ended = w.ended
        /\ v.up = w.up
    <3>1. v = [w EXCEPT !.uas_tsx = FALSE]
      BY DEF w
    <3> HIDE DEF v
    <3>2. QED
      BY <2>2, <3>1 DEF IsCut, Rec, PairOf
  <2> HIDE DEF u, v
  <2>4. UasHasEnded(v, u, v.last)
    BY <2>1, <2>3, UasTerminateIs
  <2>5. UacHasEnded(u, q)
    BY <2>4, UacEndedFields DEF UasHasEnded, Others, u
  <2>6. /\ q \in Rec /\ q.uas = "terminated" /\ q.uac = "terminated" /\ q.status = code
        /\ q.uas_data /\ ~q.uac_tsx /\ q.up /\ q.sent = {code}
    <3>1. /\ z.uac = "terminated" /\ z.status = code /\ z.uas_data /\ z.up /\ z.sent = {code}
      BY <1>0, <1>2 DEF UasHasSent, Others
    <3>2. /\ v.uac = "terminated" /\ v.status = code /\ v.uas_data /\ ~v.uac_tsx /\ v.up
          /\ v.sent = {code}
      BY <2>2, <2>3, <3>1 DEF IsCut
    <3>3. QED
      BY <2>4, <2>5, <3>2 DEF UasHasEnded, UacHasEnded, Others
  <2>7. q.timers \cap {"B", "D", "H", "I", "J", "K"} = {}
    BY <1>0, <1>2, <2>2, <2>3, <2>4, <2>5 DEF UasHasSent, UasHasEnded, UacHasEnded, IsCut
  <2>8. q.ended = <<"uas", "uac">>
    BY <1>2, <2>2, <2>3, <2>4, <2>5, EndedOrders DEF UasHasSent, UasHasEnded, UacHasEnded, IsCut
  <2>9. UacFirst(q)
    BY <2>6 DEF UacFirst, Gone
  <2>10. TimersMatch(q)
    BY <2>6, <2>7 DEF TimersMatch
  <2>11. EndedMatch(q)
    BY <2>6, <2>8 DEF EndedMatch
  <2>12. QED
    BY <2>6, <2>9, <2>10, <2>11 DEF Good, Situation
<1>3. CASE UasHasEnded(t, z, code)
  <2>1. u = z
    <3>1. ~z.uas_tsx
      BY <1>3 DEF UasHasEnded
    <3>2. QED
      BY <1>1, <3>1, EndsUntold
  <2>2. UacHasEnded(z, q)
    BY <1>1, <2>1, UacEndedFields
  <2>3. /\ q \in Rec /\ q.uas = "terminated" /\ q.uac = "terminated" /\ q.status = code
        /\ q.uas_data /\ q.uac_tsx /\ ~q.uas_tsx /\ q.up /\ q.sent = {}
        /\ q.ended = <<"uas", "uac">>
    <3>1. /\ z.uas = "terminated" /\ z.uac = "terminated" /\ z.status = code
          /\ z.uas_data /\ z.uac_tsx /\ ~z.uas_tsx /\ z.up /\ z.sent = {}
      BY <1>3 DEF UasHasEnded, Others
    <3>2. z.ended = <<"uas">>
      BY <1>3, EndedOrders DEF UasHasEnded
    <3>3. q.ended = <<"uas", "uac">>
      BY <2>2, <3>2, EndedOrders DEF UacHasEnded
    <3>4. QED
      BY <2>2, <3>1, <3>3 DEF UacHasEnded
  <2>4. q.timers \cap {"B", "D", "H", "I", "J", "K"} = {}
    BY <1>3, <2>2 DEF UasHasEnded, UacHasEnded
  <2>5. UasFirst(q)
    <3>1. ~Waits(q) /\ q.uas \in Gone /\ q.status \in Finals
      BY <2>3 DEF Waits, Gone
    <3>2. QED
      BY <2>3, <3>1 DEF UasFirst
  <2>6. TimersMatch(q)
    BY <2>3, <2>4 DEF TimersMatch
  <2>7. EndedMatch(q)
    BY <2>3 DEF EndedMatch
  <2>8. QED
    BY <2>3, <2>5, <2>6, <2>7 DEF Good, Situation
<1>4. QED
  BY <1>2, <1>3

(* A final response of the callee, forwarded to the caller (module_proxy.c:549-618). *)
LEMMA UacFinalStep ==
  ASSUME IInv, NEW code \in Finals, NEW ok \in Sends, UacFinal(code, ok)
  PROVE  IInv'
<1> DEFINE state == IF Invite /\ code < 300 THEN "terminated" ELSE "completed"
           timer == IF Invite THEN "D" ELSE "K"
           t == [p EXCEPT !.status = code, !.timers = @ \ {"B"}, !.uac = state]
           u == TuUacRx(t, code, ok)
           z == UasSend(t, code, FALSE, ok)
           q == p'
<1>1. /\ p.up /\ Waits(p) /\ UNCHANGED <<method, faults>>
      /\ q = IF t.uac = "completed" THEN [u EXCEPT !.timers = @ \cup {timer}] ELSE UacEnded(u)
  BY DEF UacFinal, UacWaits, Waits
<1>2. Good(p) /\ p \in Rec /\ ok \in BOOLEAN
  BY <1>1, GoodNow DEF Good, Sends
<1>3. code \in Codes /\ code \in Int /\ code >= 200 /\ ~(Invite /\ code = 100)
  BY Numbers
<1>4. state \in {"terminated", "completed"} /\ timer \in {"D", "K"}
  OBVIOUS
<1> HIDE DEF q, state, timer
<1>5. p.timers \ {"B"} \in SUBSET {"B", "D", "H", "I", "J", "K"}
  BY <1>2 DEF Rec, PairOf
<1>6. /\ t \in Rec /\ t.uas = p.uas /\ t.uac = state /\ t.status = code
      /\ t.timers = p.timers \ {"B"} /\ t.uas_data = p.uas_data /\ t.uac_tsx = p.uac_tsx
      /\ t.uas_tsx = p.uas_tsx /\ t.last = p.last /\ t.sent = p.sent /\ t.ended = p.ended /\ t.up
  BY <1>1, <1>2, <1>3, <1>4, <1>5 DEF Rec, PairOf, UacStates
<1> HIDE DEF t
<1>7. Open(p) \/ UasFirst(p)
  BY <1>1, <1>2 DEF Good, Situation, Waits, Nobody, NeverStarted, Turned, Answered, UacFirst, Gone
<1>8. CASE UasFirst(p)
  <2>1. u = Crash(t)
    <3>1. ~t.uas_tsx
      BY <1>6, <1>8 DEF UasFirst
    <3>2. QED
      BY <1>2, <1>3, <1>6, <3>1, ResponseCrashes
  <2> HIDE DEF u
  <2>2. u \in Rec /\ ~u.up /\ u.sent = p.sent /\ u.ended = p.ended
    BY <1>6, <2>1, CrashIs
  <2>3. /\ q \in Rec /\ ~q.up /\ q.sent = p.sent
        /\ q.ended = p.ended \/ q.ended = Append(p.ended, "uac")
    <3>1. CASE t.uac = "completed"
      <4>1. u.timers \cup {timer} \in SUBSET {"B", "D", "H", "I", "J", "K"}
        BY <1>4, <2>2 DEF Rec, PairOf
      <4>2. QED
        BY <1>1, <2>2, <3>1, <4>1 DEF Rec, PairOf
    <3>2. CASE t.uac # "completed"
      <4>1. UacHasEnded(u, q)
        BY <1>1, <2>2, <3>2, UacEndedFields
      <4>2. QED
        BY <2>2, <4>1 DEF UacHasEnded
    <3>3. QED
      BY <3>1, <3>2
  <2>4. /\ q \in PairOf(Orders) /\ Told(q) /\ faults # {}
        /\ q.sent \subseteq {408, 486, 500} \cup Finals
    <3>1. Waits(p) /\ Good(p)
      BY <1>1, <1>2
    <3>2. QED
      BY <1>8, <2>3, <3>1, FinalAfterUas
  <2>5. QED
    BY <1>1, <2>3, <2>4, CrashNext DEF q
<1>9. CASE Open(p)
  <2>1. p.uas \in {"trying", "proceeding"} /\ p.uas_data /\ p.uac_tsx /\ p.uas_tsx /\ p.sent = {}
    BY <1>9 DEF Open
  <2>2. UasHasSent(t, z, code) \/ (ok = FALSE /\ UasHasEnded(t, z, code))
    BY <1>2, <1>3, <1>6, <2>1, SendNew
  <2>3. z.up /\ z.uac = t.uac
    BY <1>6, <2>2 DEF UasHasSent, UasHasEnded, Others
  <2>4. u = UacTerminated(z, "RX_MSG", ok)
    <3>1. t.uas_tsx
      BY <1>6, <2>1
    <3>2. QED
      BY <1>2, <1>3, <1>6, <2>3, <3>1, ResponseIs
  <2>5. t.ended = << >> /\ t.timers \cap {"B", "D", "H", "I", "J", "K"} = {}
    BY <1>1, <1>2, <1>6, <2>1 DEF Good, EndedMatch, TimersMatch, Waits
  <2> HIDE DEF z
  <2>6. CASE t.uac = "completed"
    <3>1. u = z
      BY <2>3, <2>4, <2>6 DEF UacTerminated
    <3>2. q = [z EXCEPT !.timers = @ \cup {IF Invite THEN "D" ELSE "K"}]
      BY <1>1, <2>6, <3>1 DEF timer
    <3>3. UasHasSent(t, z, code) \/ (faults # {} /\ UasHasEnded(t, z, code))
      BY <2>2, FailsSometimes
    <3>4. Good(q)
      BY <1>6, <2>1, <2>5, <2>6, <3>2, <3>3, FinalCompletes
    <3>5. QED
      BY <1>1, <3>4, GoodNext DEF q
  <2>7. CASE t.uac = "terminated"
    <3>1. q = UacEnded(UacTerminated(z, "RX_MSG", ok))
      BY <1>1, <2>4, <2>7
    <3>2. Good(q)
      BY <1>6, <2>1, <2>2, <2>5, <2>7, <3>1, FinalEnds
    <3>3. QED
      BY <1>1, <3>2, GoodNext DEF q
  <2>8. QED
    BY <1>4, <1>6, <2>6, <2>7
<1>10. QED
  BY <1>7, <1>8, <1>9

-----------------------------------------------------------------------------
(* The pair starts with nothing. *)
LEMMA Starts == Init => IInv
<1> SUFFICES ASSUME Init PROVE IInv
  OBVIOUS
<1>1. p = Nobody /\ method \in Methods /\ faults \subseteq Faults
  BY DEF Init
<1>2. Good(p)
  BY <1>1, NobodyIs DEF Good, Situation, TimersMatch, EndedMatch
<1>3. TypeOK /\ Told(p)
  BY <1>1, <1>2, GoodIs DEF TypeOK
<1>4. QED
  BY <1>2, <1>3 DEF IInv, Good

(* Each step keeps the invariant, and so does a stutter. *)
LEMMA StepKeeps == IInv /\ [Next]_vars => IInv'
<1> SUFFICES ASSUME IInv, [Next]_vars PROVE IInv'
  OBVIOUS
<1>1. CASE \E sent, answered \in Sends : proxy_on_rx_request(sent, answered)
  <2>1. PICK sent \in Sends, answered \in Sends : proxy_on_rx_request(sent, answered)
    BY <1>1
  <2>2. sent = TRUE \/ sent = FALSE
    BY DEF Sends
  <2>3. CASE sent = TRUE
    <3>1. proxy_on_rx_request(TRUE, answered)
      BY <2>1, <2>3
    <3>2. QED
      BY <3>1, TakenOnStep
  <2>4. CASE sent = FALSE
    <3>1. proxy_on_rx_request(FALSE, answered)
      BY <2>1, <2>4
    <3>2. QED
      BY <3>1, UnreachedStep
  <2>5. QED
    BY <2>2, <2>3, <2>4
<1>2. CASE NoUas \/ Rejected
  BY <1>2, NotTakenOnStep
<1>3. CASE RxCancel
  BY <1>3, RxCancelStep
<1>4. CASE RxAck
  BY <1>4, RxAckStep
<1>5. CASE \E code \in Provisionals, ok \in Sends : UacProvisional(code, ok)
  BY <1>5, UacProvisionalStep
<1>6. CASE FinalResponse
  BY <1>6, UacFinalStep DEF FinalResponse
<1>7. CASE Timers
  <2>1. \A ok \in Sends : ok \in BOOLEAN
    BY DEF Sends
  <2>2. QED
    BY <1>7, <2>1, TimerBStep, TimerDStep, TimerKStep, UasEndsStep DEF Timers
<1>8. CASE UacTransportError
  BY <1>8, UacTransportErrorStep
<1>9. CASE UasTransportError
  BY <1>9, UasEndsStep
<1>10. CASE Destroy
  BY <1>10, DestroyStep
<1>11. CASE UNCHANGED vars
  <2>1. UNCHANGED <<method, faults>> /\ p' = p
    BY <1>11 DEF vars
  <2>2. TypeOK' /\ Told(p)'
    BY <2>1 DEF IInv, TypeOK, Told
  <2>3. p.up => Situation(p)' /\ TimersMatch(p)' /\ EndedMatch(p)'
    BY <2>1
       DEF IInv, Situation, NeverStarted, Turned, Open, Answered, UasFirst, UacFirst, Alone, Waits,
           TimersMatch, EndedMatch, Invite
  <2>4. QED
    BY <2>1, <2>2, <2>3 DEF IInv
<1>12. QED
  BY <1>1, <1>2, <1>3, <1>4, <1>5, <1>6, <1>7, <1>8, <1>9, <1>10, <1>11 DEF Next

(***************************************************************************)
(* The invariant holds of every behaviour.                                 *)
(***************************************************************************)
THEOREM Invariance == Spec => []IInv
<1>1. Init => IInv
  BY Starts
<1>2. IInv /\ [Next]_vars => IInv'
  BY StepKeeps
<1>3. QED
  BY <1>1, <1>2, PTL DEF Spec

(***************************************************************************)
(* The variables keep their types, whatever the responses and the faults.  *)
(***************************************************************************)
THEOREM TypeCorrect == Spec => []TypeOK
<1>1. IInv => TypeOK
  BY DEF IInv
<1>2. QED
  BY <1>1, Invariance, PTL

(***************************************************************************)
(* A transaction that a handler can reach through its peer has not been    *)
(* freed (module_proxy.c:534-547, 625-675).                                *)
(***************************************************************************)
THEOREM PeersAreThere == Spec => []NoDanglingPeer
<1>1. IInv => NoDanglingPeer
  <2> SUFFICES ASSUME IInv, p.up PROVE NoDanglingPeer
    BY DEF NoDanglingPeer
  <2>1. Situation(p)
    BY DEF IInv
  <2>2. QED
    BY <2>1, NobodyIs
       DEF Situation, NeverStarted, Turned, Open, Answered, UasFirst, UacFirst, Alone, Waits, Gone,
           NoDanglingPeer
<1>2. QED
  BY <1>1, Invariance, PTL

(***************************************************************************)
(* The caller gets one final response at most (module_proxy.c:643-652).    *)
(***************************************************************************)
THEOREM OneAnswer == Spec => []OneFinal
<1>1. IInv => OneFinal
  <2> SUFFICES ASSUME IInv PROVE Cardinality(p.sent) <= 1
    BY DEF OneFinal
  <2>1. p.sent = {} \/ \E code : p.sent = {code}
    BY DEF IInv, Told
  <2>2. CASE p.sent = {}
    BY <2>2, FS_EmptySet
  <2>3. CASE \E code : p.sent = {code}
    BY <2>3, FS_Singleton
  <2>4. QED
    BY <2>1, <2>2, <2>3
<1>2. QED
  BY <1>1, Invariance, PTL

(***************************************************************************)
(* What the caller is told is what has happened to the callee.             *)
(***************************************************************************)
THEOREM TheAnswerIsTrue == Spec => []FinalIsTrue
<1>1. IInv => FinalIsTrue
  <2> SUFFICES ASSUME IInv, p.uas_data, NEW code \in p.sent
               PROVE  \/ code \in Finals /\ p.status = code
                      \/ code = 408 /\ p.status = 408
                      \/ code = 500 /\ p.status = 503
    BY DEF FinalIsTrue
  <2>1. QED
    BY DEF IInv, Told
<1>2. QED
  BY <1>1, Invariance, PTL

(***************************************************************************)
(* While nothing fails underneath, no handler crashes.                     *)
(***************************************************************************)
THEOREM Survives == Spec => []NoCrash
<1>1. IInv => NoCrash
  BY DEF IInv, NoCrash
<1>2. QED
  BY <1>1, Invariance, PTL

-----------------------------------------------------------------------------
(* Nothing but the CANCEL branch counts a CANCEL. *)
Kept(t, u) == u \in Rec /\ u.cancels = t.cancels

(* The end of a UAS and what is sent on it. *)
LEMMA UasKeeps ==
  ASSUME NEW t \in Rec
  PROVE  /\ Kept(t, UasTerminate(t)) /\ Kept(t, Crash(t)) /\ Kept(t, UacEnded(t)) /\ Kept(t, Cut(t))
         /\ \A code \in Codes, again, ok \in BOOLEAN : Kept(t, UasSend(t, code, again, ok))
<1>1. Kept(t, UasTerminate(t)) /\ Kept(t, UacEnded(t)) /\ Kept(t, Cut(t))
  BY UasTerminateIs, UacEndedFields, CutIs DEF UasHasEnded, Others, UacHasEnded, IsCut, Kept
<1>2. Kept(t, Crash(t))
  BY DEF Crash, Rec, PairOf, Kept
<1>3. ASSUME NEW code \in Codes, NEW again \in BOOLEAN, NEW ok \in BOOLEAN
      PROVE  Kept(t, UasSend(t, code, again, ok))
  <2> DEFINE u == UasSend(t, code, again, ok)
  <2>1. CASE t.uas \in {"trying", "proceeding"}
    <3>1. UasHasSent(t, u, code) \/ UasHasEnded(t, u, code)
      BY <2>1, UasSendIs
    <3>2. QED
      BY <3>1 DEF UasHasSent, UasHasEnded, Others, Kept
  <2>2. CASE t.uas = "completed" /\ again = TRUE
    <3>1. u = [t EXCEPT !.last = code, !.sent = @ \cup {code}]
      BY <2>2 DEF UasSend
    <3>2. t.sent \cup {code} \in SUBSET Codes
      BY DEF Rec, PairOf
    <3>3. QED
      BY <3>1, <3>2 DEF Rec, PairOf, Kept
  <2>3. CASE (t.uas = "completed" /\ again = FALSE) \/ t.uas = "confirmed"
    <3>1. u = Crash(t)
      BY <2>3 DEF UasSend
    <3>2. QED
      BY <1>2, <3>1
  <2>4. CASE t.uas \notin {"trying", "proceeding", "completed", "confirmed"}
    <3>1. u = t
      BY <2>4 DEF UasSend
    <3>2. QED
      BY <3>1 DEF Kept
  <2>5. QED
    BY <2>1, <2>2, <2>3, <2>4
<1>4. QED
  BY <1>1, <1>2, <1>3

(* The end of a UAC, and a response that it takes. *)
LEMMA UacKeeps ==
  ASSUME NEW t \in Rec, NEW ok \in BOOLEAN
  PROVE  /\ \A event : Kept(t, UacTerminated(t, event, ok))
         /\ \A code \in Codes : Kept(t, TuUacRx(t, code, ok))
<1> DEFINE again == TRUE
           anew  == FALSE
           code408 == 408
<1>0. again \in BOOLEAN /\ anew \in BOOLEAN /\ code408 \in Codes
  BY Numbers
<1>1. ASSUME NEW w \in Rec
      PROVE  Kept(w, TimedOut(w, ok))
  <2> DEFINE u == UasSend(w, code408, again, ok)
  <2>1. Kept(w, u)
    <3> HIDE DEF again, code408
    <3>1. QED
      BY <1>0, UasKeeps
  <2>2. \/ TimedOut(w, ok) = Crash(w)
        \/ TimedOut(w, ok) = u
        \/ TimedOut(w, ok) = UasTerminate(w)
    BY DEF TimedOut
  <2> HIDE DEF u
  <2>3. QED
    BY <2>1, <2>2, UasKeeps
<1>2. ASSUME NEW s \in Rec, NEW event
      PROVE  Kept(s, UacTerminated(s, event, ok))
  <2> DEFINE w == Cut(s)
             v == [Cut(s) EXCEPT !.uas_tsx = FALSE]
             u == UacTerminated(s, event, ok)
  <2>1. u = s \/ u = TimedOut(w, ok) \/ u = UasTerminate(v) \/ u = w
    BY DEF UacTerminated, Cut
  <2>2. Kept(s, w)
    BY UasKeeps
  <2> HIDE DEF u, w
  <2>3. v = [w EXCEPT !.uas_tsx = FALSE]
    BY DEF w
  <2> HIDE DEF v
  <2>4. Kept(s, v)
    BY <2>2, <2>3 DEF Kept, Rec, PairOf
  <2>5. Kept(w, TimedOut(w, ok)) /\ Kept(v, UasTerminate(v))
    BY <1>1, <2>2, <2>4, UasKeeps DEF Kept
  <2>6. Kept(s, s)
    BY DEF Kept
  <2>7. Kept(s, u)
    BY <2>1, <2>2, <2>4, <2>5, <2>6 DEF Kept
  <2>8. QED
    BY <2>7 DEF u
<1>3. ASSUME NEW code \in Codes
      PROVE  Kept(t, TuUacRx(t, code, ok))
  <2> DEFINE z == UasSend(t, code, anew, ok)
  <2>1. Kept(t, z)
    <3> HIDE DEF anew
    <3>1. QED
      BY <1>0, UasKeeps
  <2>2. \/ TuUacRx(t, code, ok) = t
        \/ TuUacRx(t, code, ok) = z
        \/ TuUacRx(t, code, ok) = UacTerminated(z, "RX_MSG", ok)
        \/ TuUacRx(t, code, ok) = Crash(t)
        \/ TuUacRx(t, code, ok) = UacTerminated(Crash(t), "RX_MSG", ok)
    BY DEF TuUacRx, ForwardResponse
  <2> HIDE DEF z
  <2>3. Kept(z, UacTerminated(z, "RX_MSG", ok))
    BY <1>2, <2>1 DEF Kept
  <2> DEFINE c == Crash(t)
  <2>4. Kept(t, c)
    BY UasKeeps
  <2> HIDE DEF c
  <2>5. Kept(c, UacTerminated(c, "RX_MSG", ok))
    BY <1>2, <2>4 DEF Kept
  <2>6. Kept(t, t)
    BY DEF Kept
  <2>7. QED
    BY <2>1, <2>2, <2>3, <2>4, <2>5, <2>6 DEF Kept, c
<1>4. QED
  BY <1>2, <1>3

(* The steps that end the UAC count no CANCEL. *)
LEMMA EndsKeep ==
  ASSUME p \in Rec, NEW status \in Codes, NEW event, NEW ok \in BOOLEAN, UacEnds(status, event, ok)
  PROVE  p'.cancels = p.cancels
<1> DEFINE v == Stopped(p, status)
           x == UacTerminated(v, event, ok)
<1>1. p' = UacEnded(x)
  BY DEF UacEnds, Stopped
<1>2. v \in Rec /\ v.cancels = p.cancels
  BY UacStopsIs DEF UacStops
<1> HIDE DEF v
<1>3. Kept(v, x)
  BY <1>2, UacKeeps
<1> HIDE DEF x
<1>4. Kept(x, p')
  BY <1>1, <1>3, UasKeeps DEF Kept
<1>5. QED
  BY <1>2, <1>3, <1>4 DEF Kept

(* A request that comes counts no CANCEL. *)
LEMMA RequestKeeps ==
  ASSUME NEW sent \in Sends, NEW answered \in Sends, proxy_on_rx_request(sent, answered)
  PROVE  p'.cancels = p.cancels
<1> DEFINE code100 == 100
           code500 == 500
           status  == 503
           anew    == FALSE
           yes     == TRUE
           t == [Linked EXCEPT !.uac = "calling", !.timers = {"B"}]
           v == [Linked EXCEPT !.uac = "terminated", !.status = status]
           w == UacTerminated(v, "TRANSPORT_ERROR", yes)
           x == UacEnded(w)
<1>1. /\ p.cancels = 0 /\ answered \in BOOLEAN /\ anew \in BOOLEAN /\ yes \in BOOLEAN
      /\ code100 \in Codes /\ code500 \in Codes /\ status \in Codes
  <2>1. p.cancels = 0
    BY NobodyIs DEF proxy_on_rx_request
  <2>2. answered \in BOOLEAN /\ anew \in BOOLEAN /\ yes \in BOOLEAN
    BY DEF Sends
  <2>3. code100 \in Codes /\ code500 \in Codes /\ status \in Codes
    BY Numbers
  <2>4. QED
    BY <2>1, <2>2, <2>3
<1>2. \/ p' = UasSend(t, code100, anew, answered)
      \/ p' = t
      \/ p' = UasSend(x, code500, anew, answered)
  BY ZenonT(40) DEF proxy_on_rx_request
<1> HIDE DEF code100, code500, status, anew, yes
<1>3. t \in Rec /\ t.cancels = 0 /\ v \in Rec /\ v.cancels = 0
  BY <1>1, LinkedIs DEF Rec, PairOf, UacStates
<1> HIDE DEF t, v
<1>4. Kept(v, w)
  BY <1>1, <1>3, UacKeeps
<1> HIDE DEF w
<1>5. Kept(w, x)
  BY <1>4, UasKeeps DEF Kept
<1> HIDE DEF x
<1>6. Kept(t, UasSend(t, code100, anew, answered)) /\ Kept(x, UasSend(x, code500, anew, answered))
  <2>1. Kept(t, UasSend(t, code100, anew, answered))
    BY <1>1, <1>3, UasKeeps
  <2>2. x \in Rec
    BY <1>5 DEF Kept
  <2>3. Kept(x, UasSend(x, code500, anew, answered))
    BY <1>1, <2>2, UasKeeps
  <2>4. QED
    BY <2>1, <2>3
<1>7. QED
  BY <1>1, <1>2, <1>3, <1>4, <1>5, <1>6 DEF Kept

(* Nor does a response that comes. *)
LEMMA ResponseKeeps ==
  ASSUME p \in Rec, NEW code \in Codes, NEW ok \in BOOLEAN,
         UacProvisional(code, ok) \/ UacFinal(code, ok)
  PROVE  p'.cancels = p.cancels
<1>1. CASE UacProvisional(code, ok)
  <2> DEFINE timers == IF Invite THEN p.timers \ {"B"} ELSE p.timers
             t == [p EXCEPT !.uac = "proceeding", !.status = code, !.timers = timers]
  <2>1. p' = TuUacRx(t, code, ok)
    BY <1>1 DEF UacProvisional
  <2>2. timers \in SUBSET {"B", "D", "H", "I", "J", "K"}
    BY DEF Rec, PairOf
  <2> HIDE DEF timers
  <2>3. t \in Rec /\ t.cancels = p.cancels
    BY <2>2 DEF Rec, PairOf, UacStates
  <2> HIDE DEF t
  <2>4. Kept(t, p')
    BY <2>1, <2>3, UacKeeps
  <2>5. QED
    BY <2>3, <2>4 DEF Kept
<1>2. CASE UacFinal(code, ok)
  <2> DEFINE state == IF Invite /\ code < 300 THEN "terminated" ELSE "completed"
             timer == IF Invite THEN "D" ELSE "K"
             t == [p EXCEPT !.status = code, !.timers = @ \ {"B"}, !.uac = state]
             u == TuUacRx(t, code, ok)
  <2>1. p' = IF t.uac = "completed" THEN [u EXCEPT !.timers = @ \cup {timer}] ELSE UacEnded(u)
    BY <1>2 DEF UacFinal
  <2>2. state \in UacStates /\ timer \in {"D", "K"}
    BY DEF UacStates
  <2> HIDE DEF state, timer
  <2>3. t \in Rec /\ t.cancels = p.cancels
    BY <2>2 DEF Rec, PairOf
  <2> HIDE DEF t
  <2>4. Kept(t, u)
    BY <2>3, UacKeeps
  <2> HIDE DEF u
  <2>5. p' = [u EXCEPT !.timers = u.timers \cup {timer}] \/ p' = UacEnded(u)
    BY <2>1, <2>4 DEF Kept, Rec, PairOf
  <2>6. p'.cancels = u.cancels
    <3>1. Kept(u, UacEnded(u))
      BY <2>4, UasKeeps DEF Kept
    <3>2. QED
      BY <2>4, <2>5, <3>1 DEF Kept, Rec, PairOf
  <2>7. QED
    BY <2>3, <2>4, <2>6 DEF Kept
<1>3. QED
  BY <1>1, <1>2

(***************************************************************************)
(* A CANCEL goes to the callee only while its answer is open               *)
(* (module_proxy.c:400-444): of the pair that names the UAC, only one in   *)
(* which the UAC waits has a status below 200.                             *)
(***************************************************************************)
THEOREM CancelsArePending == Spec => CancelOnlyPending
<1>1. IInv /\ [Next]_vars =>
        [p'.cancels > p.cancels => p.uac \in {"calling", "proceeding"}]_vars
  <2> SUFFICES ASSUME IInv, Next, p'.cancels > p.cancels
               PROVE  p.uac \in {"calling", "proceeding"}
    OBVIOUS
  <2> DEFINE more == p'.cancels > p.cancels
  <2>1. p \in Rec
    BY EndedOrders DEF IInv, TypeOK, Rec, PairOf
  <2>2. p.cancels \in Int /\ more
    BY <2>1 DEF Rec, PairOf
  <2>3. p'.cancels # p.cancels
    BY <2>2
  <2> HIDE DEF more
  <2>4. \A ok \in Sends : ok \in BOOLEAN
    BY DEF Sends
  <2>5. CASE \E sent, answered \in Sends : proxy_on_rx_request(sent, answered)
    BY <2>3, <2>5, RequestKeeps
  <2>6. CASE NoUas \/ Rejected
    <3> DEFINE status == 500
               v == [Nobody EXCEPT !.uac = "terminated", !.status = status]
               code == 486
               timer == IF Invite THEN "H" ELSE "J"
               w == [Nobody EXCEPT !.uas = "completed", !.last = code, !.sent = {code},
                                   !.timers = {timer}]
    <3>1. p.cancels = 0 /\ status \in Codes /\ code \in Codes /\ timer \in {"H", "J"}
      BY <2>6, NobodyIs, Numbers DEF NoUas, Rejected
    <3>2. p' = UacEnded(v) \/ p' = w
      BY <2>6 DEF NoUas, Rejected
    <3> HIDE DEF status, code, timer
    <3>3. v \in Rec /\ v.cancels = 0 /\ w.cancels = 0
      BY <3>1, NobodyIs DEF Rec, PairOf, UacStates
    <3> HIDE DEF v, w
    <3>4. Kept(v, UacEnded(v))
      BY <3>3, UasKeeps
    <3>5. QED
      BY <2>3, <3>1, <3>2, <3>3, <3>4 DEF Kept
  <2>7. CASE RxCancel
    <3>1. p.up /\ p.uac_tsx /\ p.status < 200
      <4>1. Crash(p).cancels = p.cancels
        BY <2>1, UasKeeps DEF Kept
      <4>2. QED
        BY <2>3, <2>7, <4>1 DEF RxCancel
    <3>2. Open(p) \/ Answered(p) \/ UasFirst(p)
      BY <3>1, NobodyIs DEF IInv, Situation, NeverStarted, Turned, UacFirst, Alone
    <3>3. p.status \notin Finals \cup {408, 503}
      BY <3>1, Numbers
    <3>4. QED
      BY <3>2, <3>3 DEF Open, Answered, UasFirst, Waits
  <2>8. CASE RxAck
    BY <2>1, <2>3, <2>8 DEF RxAck, Rec, PairOf
  <2>9. CASE \E code \in Provisionals, ok \in Sends : UacProvisional(code, ok)
    BY <2>1, <2>3, <2>4, <2>9, Numbers, ResponseKeeps
  <2>10. CASE FinalResponse
    BY <2>1, <2>3, <2>4, <2>10, Numbers, ResponseKeeps DEF FinalResponse
  <2>11. CASE \E ok \in Sends : TimerB(ok) \/ TimerD(ok) \/ TimerK(ok)
    <3> DEFINE status == 408
    <3>1. PICK ok \in BOOLEAN : UacEnds(status, "TIMER", ok) \/ UacEnds(p.status, "TIMER", ok)
      BY <2>4, <2>11 DEF TimerB, TimerD, TimerK
    <3>2. status \in Codes /\ p.status \in Codes
      BY <2>1, Numbers DEF Rec, PairOf
    <3> HIDE DEF status
    <3>3. QED
      BY <2>1, <2>3, <3>1, <3>2, EndsKeep
  <2>12. CASE TimerH \/ TimerI \/ TimerJ \/ UasTransportError
    <3>1. p' = UasTerminate(p)
      BY <2>12 DEF TimerH, TimerI, TimerJ, UasTransportError
    <3>2. QED
      BY <2>1, <2>3, <3>1, UasKeeps DEF Kept
  <2>13. CASE UacTransportError
    <3> DEFINE status == 503
               yes == TRUE
    <3>1. UacEnds(status, "TRANSPORT_ERROR", yes) /\ status \in Codes /\ yes \in BOOLEAN
      <4>1. UacEnds(status, "TRANSPORT_ERROR", yes)
        BY <2>13 DEF UacTransportError
      <4>2. status \in Codes /\ yes \in BOOLEAN
        BY Numbers
      <4>3. QED
        BY <4>1, <4>2
    <3> HIDE DEF status, yes
    <3>2. QED
      BY <2>1, <2>3, <3>1, EndsKeep
  <2>14. CASE Destroy
    <3> DEFINE f == Head(p.ended)
               e == Tail(p.ended)
    <3>1. p' = [p EXCEPT ![f] = "destroyed", !.ended = e] /\ p.ended # << >>
      BY <2>14 DEF Destroy
    <3>2. f # "cancels"
      <4>1. \A s \in Orders : s # << >> => Head(s) # "cancels"
        BY EndedOrders DEF Orders
      <4>2. QED
        <5>1. p.ended \in Orders
          BY DEF IInv, TypeOK, PairOf
        <5>2. p.ended # << >>
          BY <3>1
        <5>3. QED
          BY <4>1, <5>1, <5>2, Zenon
    <3> HIDE DEF f, e
    <3>3. QED
      BY <2>1, <2>3, <3>1, <3>2 DEF Rec, PairOf
  <2>15. QED
    BY <2>5, <2>6, <2>7, <2>8, <2>9, <2>10, <2>11, <2>12, <2>13, <2>14 DEF Next, Timers
<1>2. QED
  BY <1>1, Invariance, PTL DEF Spec, CancelOnlyPending
=============================================================================
