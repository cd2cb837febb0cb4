--------------------------- MODULE RtpRelayProofs ---------------------------
(***************************************************************************)
(* Proofs about RtpRelay, for every set of addresses and every number of   *)
(* packets.                                                                *)
(***************************************************************************)
EXTENDS RtpRelay, TLAPS

USE RelayAssumption

-----------------------------------------------------------------------------
(***************************************************************************)
(* The inductive invariant, part by part.                                  *)
(***************************************************************************)
\* What a thread or a client writes at i is a value of a function of Sides.
Functions ==
  DOMAIN n = Sides /\ DOMAIN rx = Sides /\ DOMAIN arrived = Sides /\ DOMAIN out = Sides

\* A relay thread that `call' has yet to create has not run.
NotYet == /\ callpc = "create0" => pc[0] = "none"
          /\ callpc \in {"create0", "create1"} => pc[1] = "none"

\* How many packets have been taken off socket i.
Taken(i) == arrived[i] - Len(rx[i])

\* The queue holds the packets that have come and have not been taken, in order.
QueueInOrder ==
  \A i \in Sides : /\ Len(rx[i]) <= arrived[i]
                   /\ \A k \in 1 .. Len(rx[i]) : rx[i][k].seq = Taken(i) + k

\* From the forwarding loop on the other client's address is known, and the
\* socket blocks: what is sent is the packet taken last.
Forwarding ==
  \A i \in Sides :
    /\ pc[i] \in {"setblocking", "loop", "recv", "send"} => Known(Oppo(i))
    /\ pc[i] \in {"loop", "recv", "send"} => blocking[i]
    /\ pc[i] = "send" => n[i] # Nothing /\ n[i] = Taken(i)

\* What has been forwarded ends with the packet before the one in hand.
Forwarded ==
  \A i \in Sides :
    /\ out[i] # <<>> => pc[i] \in {"loop", "recv", "send", "ended"}
    /\ \A k \in 1 .. Len(out[i]) :
         out[i][k].seq = Taken(i) - (IF pc[i] = "send" THEN 1 ELSE 0) - Len(out[i]) + k

\* A thread that has dropped a packet late is on its way out of its first two loops.
Dropping ==
  \A i \in Sides :
    /\ late[i].drops <= 1
    /\ late[i].drops = 1 =>
         /\ Known(Oppo(i))
         /\ pc[i] \notin {"none", "start", "first", "droprecv"}
         /\ pc[i] = "firstcheck" => n[i] # Nothing

\* A thread that has sent a packet late is on its way out of the third.
Sending ==
  \A i \in Sides :
    /\ late[i].sends <= 1
    /\ late[i].sends = 1 => shut /\ pc[i] \in {"loop", "ended"}

IInv ==
  TypeOK /\ Functions /\ NotYet /\ QueueInOrder /\ Forwarding /\ Forwarded /\ Dropping /\ Sending

-----------------------------------------------------------------------------
(* Queues of packets. *)

(* A packet is put at the end of the queue; the others stay where they are. *)
LEMMA PutPacket ==
  ASSUME NEW i \in Sides, NEW s \in Seq(Packet(i)), NEW m \in Packet(i)
  PROVE  /\ Append(s, m) \in Seq(Packet(i))
         /\ Len(Append(s, m)) = Len(s) + 1
         /\ \A k \in 1 .. Len(s) : Append(s, m)[k] = s[k]
         /\ Append(s, m)[Len(s) + 1] = m
<1> DEFINE S == Packet(i)
<1> HIDE DEF S
<1>1. s \in Seq(S) /\ m \in S
  BY DEF S
<1>2. /\ Append(s, m) \in Seq(S)
      /\ Len(Append(s, m)) = Len(s) + 1
      /\ \A k \in 1 .. Len(s) : Append(s, m)[k] = s[k]
      /\ Append(s, m)[Len(s) + 1] = m
  BY <1>1
<1>3. QED
  BY <1>2 DEF S

(* The first packet is taken; the others move up. *)
LEMMA TakePacket ==
  ASSUME NEW i \in Sides, NEW s \in Seq(Packet(i)), s # <<>>
  PROVE  /\ Head(s) \in Packet(i) /\ Head(s) = s[1]
         /\ Tail(s) \in Seq(Packet(i))
         /\ Len(s) >= 1 /\ Len(Tail(s)) = Len(s) - 1
         /\ \A k \in 1 .. Len(s) - 1 : Tail(s)[k] = s[k + 1]
<1> DEFINE S == Packet(i)
<1> HIDE DEF S
<1>1. s \in Seq(S) /\ s # <<>>
  BY DEF S
<1>2. /\ Head(s) \in S /\ Head(s) = s[1]
      /\ Tail(s) \in Seq(S)
      /\ Len(s) >= 1 /\ Len(Tail(s)) = Len(s) - 1
      /\ \A k \in 1 .. Len(s) - 1 : Tail(s)[k] = s[k + 1]
  BY <1>1
<1>3. QED
  BY <1>2 DEF S

(***************************************************************************)
(* What recvfrom does (udpproxy.h:74, 84, 100): it takes one packet of its *)
(* own queue, or finds it empty and leaves everything as it is.            *)
(***************************************************************************)
LEMMA RecvfromEffect ==
  ASSUME TypeOK, Functions, NEW i \in Sides, Recvfrom(i)
  PROVE  /\ DOMAIN n' = Sides /\ DOMAIN rx' = Sides
         /\ client_addr' \in [Sides -> Addrs \cup {NoAddr}]
         /\ n'[i] \in {Nothing} \cup Seqs(i)
         /\ rx'[i] \in Seq(Packet(i))
         /\ \A j \in Sides \ {i} :
               n'[j] = n[j] /\ rx'[j] = rx[j] /\ client_addr'[j] = client_addr[j]
         /\ Known(i) => Known(i)'
         /\ rx[i] # <<>> => /\ n'[i] = rx[i][1].seq /\ n'[i] # Nothing
                            /\ Len(rx[i]) >= 1 /\ Len(rx'[i]) = Len(rx[i]) - 1
                            /\ \A k \in 1 .. Len(rx[i]) - 1 : rx'[i][k] = rx[i][k + 1]
         /\ rx[i] = <<>> => ~blocking[i] /\ n'[i] = Nothing /\ rx'[i] = rx[i]
<1>1. rx[i] \in Seq(Packet(i)) /\ n[i] \in {Nothing} \cup Seqs(i)
  BY DEF TypeOK
<1>2. CASE rx[i] # <<>>
  <2>1. /\ Head(rx[i]) \in Packet(i) /\ Head(rx[i]) = rx[i][1]
        /\ Tail(rx[i]) \in Seq(Packet(i))
        /\ Len(rx[i]) >= 1 /\ Len(Tail(rx[i])) = Len(rx[i]) - 1
        /\ \A k \in 1 .. Len(rx[i]) - 1 : Tail(rx[i])[k] = rx[i][k + 1]
    BY <1>1, <1>2, TakePacket
  <2>2. Head(rx[i]).seq \in Seqs(i) /\ Head(rx[i]).from \in Addrs /\ Head(rx[i]).seq # Nothing
    BY <2>1 DEF Packet, Seqs, Nothing
  <2>3. /\ n' = [n EXCEPT ![i] = Head(rx[i]).seq]
        /\ client_addr' = [client_addr EXCEPT ![i] = Head(rx[i]).from]
        /\ rx' = [rx EXCEPT ![i] = Tail(rx[i])]
    BY <1>2 DEF Recvfrom
  <2>4. rx'[i] = Tail(rx[i]) /\ n'[i] = Head(rx[i]).seq /\ client_addr'[i] = Head(rx[i]).from
    BY <2>3 DEF Functions, TypeOK
  <2>5. QED
    BY <1>2, <2>1, <2>2, <2>3, <2>4 DEF Functions, TypeOK, Known
<1>3. CASE rx[i] = <<>>
  BY <1>1, <1>3 DEF Recvfrom, Functions, TypeOK, Known
<1>4. QED
  BY <1>2, <1>3
-----------------------------------------------------------------------------
(* Every state is well typed. *)
LEMMA TypeInit == Init => TypeOK /\ Functions
<1> SUFFICES ASSUME Init PROVE TypeOK /\ Functions
  OBVIOUS
<1>1. Functions
  BY DEF Init, Functions
<1>2. \A i \in Sides : /\ n[i] \in {Nothing} \cup Seqs(i)
                       /\ rx[i] \in Seq(Packet(i))
                       /\ arrived[i] \in {0} \cup Seqs(i)
                       /\ out[i] \in Seq([seq : Seqs(i), to : Addrs])
  BY DEF Init, Nothing
<1>3. QED
  BY <1>1, <1>2 DEF Init, TypeOK, RelayPcs

(* A thread goes on to one of its program counters and no other thread moves. *)
LEMMA GotoEffect ==
  ASSUME TypeOK, NEW i \in Sides, NEW from, NEW to \in RelayPcs, Goto(i, from, to)
  PROVE  /\ pc' \in [Sides -> RelayPcs]
         /\ pc[i] = from /\ pc'[i] = to
         /\ \A j \in Sides \ {i} : pc'[j] = pc[j]
  BY DEF TypeOK, Goto

\* The steps of a relay thread that move it, set the mode of its socket, and nothing else.
Quiet(i) == SetNonblocking(i) \/ FirstCheck(i) \/ Drop(i) \/ DropCheck(i) \/ SetBlocking(i)
            \/ Loop(i)

(* A quiet step goes to a program counter, for a reason (udpproxy.h:72-98). *)
LEMMA QuietEffect ==
  ASSUME TypeOK, NEW i \in Sides, Quiet(i)
  PROVE  /\ pc' \in [Sides -> RelayPcs] /\ \A j \in Sides \ {i} : pc'[j] = pc[j]
         /\ blocking' \in [Sides -> BOOLEAN] /\ \A j \in Sides \ {i} : blocking'[j] = blocking[j]
         /\ \/ pc[i] \in {"firstcheck", "dropcheck", "loop"} /\ shut /\ pc'[i] = "ended"
            \/ pc[i] = "start" /\ pc'[i] = "first"
            \/ pc[i] = "firstcheck" /\ n[i] = Nothing /\ pc'[i] = "first"
            \/ pc[i] = "firstcheck" /\ n[i] # Nothing /\ pc'[i] = "drop"
            \/ pc[i] = "drop" /\ ~Known(Oppo(i)) /\ pc'[i] = "droprecv"
            \/ pc[i] = "drop" /\ Known(Oppo(i)) /\ pc'[i] = "setblocking"
            \/ pc[i] = "dropcheck" /\ pc'[i] = "drop"
            \/ pc[i] = "setblocking" /\ pc'[i] = "loop" /\ blocking'[i]
            \/ pc[i] = "loop" /\ ~shut /\ pc'[i] = "recv" /\ blocking'[i] = blocking[i]
         /\ UNCHANGED <<mainpc, callpc, n, shut, client_addr, rx, arrived, out, late>>
<1>1. CASE SetNonblocking(i)
  BY <1>1, GotoEffect, ZenonT(40) DEF SetNonblocking, RelayPcs, TypeOK
<1>2. CASE FirstCheck(i)
  BY <1>2, GotoEffect DEF FirstCheck, RelayPcs, TypeOK
<1>3. CASE Drop(i)
  BY <1>3, GotoEffect DEF Drop, RelayPcs, TypeOK
<1>4. CASE DropCheck(i)
  BY <1>4, GotoEffect DEF DropCheck, RelayPcs, TypeOK
<1>5. CASE SetBlocking(i)
  BY <1>5, GotoEffect, ZenonT(40) DEF SetBlocking, RelayPcs, TypeOK
<1>6. CASE Loop(i)
  BY <1>6, GotoEffect DEF Loop, RelayPcs, TypeOK
<1>7. QED
  BY <1>1, <1>2, <1>3, <1>4, <1>5, <1>6 DEF Quiet

(* A client's packet is the last of its queue and has the next number. *)
LEMMA ArriveEffect ==
  ASSUME TypeOK, Functions, NEW i \in Sides, NEW a \in Addrs, Arrive(i, a)
  PROVE  /\ DOMAIN rx' = Sides /\ DOMAIN arrived' = Sides
         /\ arrived[i] \in Nat /\ arrived'[i] = arrived[i] + 1 /\ arrived'[i] \in Seqs(i)
         /\ rx'[i] \in Seq(Packet(i)) /\ Len(rx'[i]) = Len(rx[i]) + 1
         /\ \A k \in 1 .. Len(rx[i]) : rx'[i][k] = rx[i][k]
         /\ rx'[i][Len(rx[i]) + 1].seq = arrived'[i]
         /\ \A j \in Sides \ {i} : rx'[j] = rx[j] /\ arrived'[j] = arrived[j]
         /\ UNCHANGED <<mainpc, callpc, pc, n, shut, client_addr, blocking, out, late>>
<1> DEFINE m == [seq |-> arrived[i] + 1, from |-> a]
<1>1. rx[i] \in Seq(Packet(i)) /\ arrived[i] \in {0} \cup Seqs(i)
  BY DEF TypeOK
<1>2. arrived[i] \in Nat /\ arrived[i] + 1 \in Seqs(i) /\ arrived[i] < MaxPackets[i]
  BY <1>1 DEF Arrive, Seqs, Sides
<1>3. m \in Packet(i)
  BY <1>2 DEF Packet
<1>4. /\ rx' = [rx EXCEPT ![i] = Append(rx[i], m)]
      /\ arrived' = [arrived EXCEPT ![i] = arrived[i] + 1]
  BY DEF Arrive
<1>5. rx'[i] = Append(rx[i], m) /\ arrived'[i] = arrived[i] + 1
  BY <1>4 DEF Functions
<1> HIDE DEF m
<1>6. /\ Append(rx[i], m) \in Seq(Packet(i))
      /\ Len(Append(rx[i], m)) = Len(rx[i]) + 1
      /\ \A k \in 1 .. Len(rx[i]) : Append(rx[i], m)[k] = rx[i][k]
      /\ Append(rx[i], m)[Len(rx[i]) + 1] = m
  BY <1>1, <1>3, PutPacket
<1>7. m.seq = arrived[i] + 1
  BY DEF m
<1>8. QED
  BY <1>2, <1>4, <1>5, <1>6, <1>7 DEF Functions, Arrive

(* Counting one more late packet leaves the other count alone. *)
LEMMA CountLate ==
  ASSUME NEW r \in [drops : Nat, sends : Nat]
  PROVE  LET d == [r EXCEPT !.drops = @ + 1]
             s == [r EXCEPT !.sends = @ + 1]
         IN  /\ d \in [drops : Nat, sends : Nat] /\ d.drops = r.drops + 1 /\ d.sends = r.sends
             /\ s \in [drops : Nat, sends : Nat] /\ s.drops = r.drops /\ s.sends = r.sends + 1
  OBVIOUS

(* A packet that a thread reads in one of its first two loops is dropped. *)
LEMMA TakeEffect ==
  ASSUME TypeOK, NEW i \in Sides, Take(i)
  PROVE  /\ late' \in [Sides -> [drops : Nat, sends : Nat]]
         /\ \A j \in Sides \ {i} : late'[j] = late[j]
         /\ late'[i].sends = late[i].sends
         /\ late'[i].drops = late[i].drops + IF rx[i] # <<>> /\ Known(Oppo(i)) THEN 1 ELSE 0
<1>1. CASE rx[i] # <<>> /\ Known(Oppo(i))
  <2> DEFINE d == [late[i] EXCEPT !.drops = @ + 1]
  <2>1. late[i] \in [drops : Nat, sends : Nat]
    BY DEF TypeOK
  <2>2. late' = [late EXCEPT ![i] = d]
    BY <1>1 DEF Take
  <2>3. /\ d \in [drops : Nat, sends : Nat]
        /\ d.drops = late[i].drops + 1 /\ d.sends = late[i].sends
    BY <2>1, CountLate
  <2> HIDE DEF d
  <2>4. QED
    BY <1>1, <2>2, <2>3 DEF TypeOK
<1>2. CASE ~(rx[i] # <<>> /\ Known(Oppo(i)))
  BY <1>2 DEF TypeOK, Take
<1>3. QED
  BY <1>1, <1>2

(* What a thread forwards is put at the end of what it has forwarded. *)
LEMMA ForwardEffect ==
  ASSUME TypeOK, Functions, Forwarding, NEW i \in Sides, Forward(i)
  PROVE  /\ DOMAIN out' = Sides
         /\ out'[i] \in Seq([seq : Seqs(i), to : Addrs])
         /\ Len(out'[i]) = Len(out[i]) + 1
         /\ \A k \in 1 .. Len(out[i]) : out'[i][k] = out[i][k]
         /\ out'[i][Len(out[i]) + 1].seq = n[i]
         /\ \A j \in Sides \ {i} : out'[j] = out[j]
         /\ late' \in [Sides -> [drops : Nat, sends : Nat]]
         /\ \A j \in Sides \ {i} : late'[j] = late[j]
         /\ late'[i].drops = late[i].drops
         /\ late'[i].sends = late[i].sends + IF shut THEN 1 ELSE 0
<1> DEFINE m == [seq |-> n[i], to |-> client_addr[Oppo(i)]]
           S == [seq : Seqs(i), to : Addrs]
<1>1. pc[i] = "send"
  BY DEF Forward, Goto
<1>2. Oppo(i) \in Sides
  BY DEF Oppo, Sides
<1>3. m \in S
  BY <1>1, <1>2 DEF Forwarding, Known, TypeOK
<1>4. out[i] \in Seq(S)
  BY DEF TypeOK
<1>5. out' = [out EXCEPT ![i] = Append(out[i], m)]
  BY DEF Forward
<1>6. m.seq = n[i]
  OBVIOUS
<1>7. /\ late' \in [Sides -> [drops : Nat, sends : Nat]]
      /\ \A j \in Sides \ {i} : late'[j] = late[j]
      /\ late'[i].drops = late[i].drops
      /\ late'[i].sends = late[i].sends + IF shut THEN 1 ELSE 0
  <2>1. CASE shut
    <3> DEFINE d == [late[i] EXCEPT !.sends = @ + 1]
    <3>1. late[i] \in [drops : Nat, sends : Nat]
      BY DEF TypeOK
    <3>2. late' = [late EXCEPT ![i] = d]
      BY <2>1 DEF Forward
    <3>3. /\ d \in [drops : Nat, sends : Nat]
          /\ d.drops = late[i].drops /\ d.sends = late[i].sends + 1
      BY <3>1, CountLate
    <3> HIDE DEF d
    <3>4. QED
      BY <2>1, <3>2, <3>3 DEF TypeOK
  <2>2. CASE ~shut
    BY <2>2 DEF Forward, TypeOK
  <2>3. QED
    BY <2>1, <2>2
<1> HIDE DEF m, S
<1>8. /\ Append(out[i], m) \in Seq(S)
      /\ Len(Append(out[i], m)) = Len(out[i]) + 1
      /\ \A k \in 1 .. Len(out[i]) : Append(out[i], m)[k] = out[i][k]
      /\ Append(out[i], m)[Len(out[i]) + 1] = m
  BY <1>3, <1>4
<1>9. QED
  BY <1>5, <1>6, <1>7, <1>8 DEF Functions, S
(* The next-state relation, by what its steps do. *)
LEMMA NextCases ==
  ASSUME [Next]_vars
  PROVE  \/ \E i \in Sides, a \in Addrs : Arrive(i, a)
         \/ KillThread
         \/ Joined
         \/ CallSpin
         \/ \E i \in Sides : \/ CallCreate(i) \/ Quiet(i)
                             \/ First(i) \/ DropRecv(i) \/ Recv(i) \/ Forward(i)
         \/ UNCHANGED vars
  BY DEF Next, CallStep, Relay, Quiet

(* Every step keeps the types; Forwarding gives that what is sent was received. *)
LEMMA TypeStep == TypeOK /\ Functions /\ Forwarding /\ [Next]_vars => TypeOK' /\ Functions'
<1> SUFFICES ASSUME TypeOK, Functions, Forwarding, [Next]_vars PROVE TypeOK' /\ Functions'
  OBVIOUS
<1>1. ASSUME NEW i \in Sides, NEW a \in Addrs, Arrive(i, a) PROVE TypeOK' /\ Functions'
  <2>1. \A j \in Sides : /\ n'[j] \in {Nothing} \cup Seqs(j)
                         /\ rx'[j] \in Seq(Packet(j))
                         /\ arrived'[j] \in {0} \cup Seqs(j)
                         /\ out'[j] \in Seq([seq : Seqs(j), to : Addrs])
    BY <1>1, ArriveEffect DEF TypeOK
  <2>2. QED
    BY <1>1, <2>1, ArriveEffect DEF TypeOK, Functions
<1>2. CASE KillThread
  BY <1>2 DEF KillThread, TypeOK, Functions
<1>3. CASE Joined
  BY <1>3 DEF Joined, TypeOK, Functions
<1>4. CASE CallSpin
  BY <1>4 DEF CallSpin, TypeOK, Functions
<1>5. ASSUME NEW i \in Sides, CallCreate(i) PROVE TypeOK' /\ Functions'
  BY <1>5 DEF CallCreate, TypeOK, Functions, RelayPcs
<1>6. ASSUME NEW i \in Sides, Quiet(i) PROVE TypeOK' /\ Functions'
  BY <1>6, QuietEffect DEF TypeOK, Functions
<1>7. ASSUME NEW i \in Sides, First(i) PROVE TypeOK' /\ Functions'
  <2>1. pc' \in [Sides -> RelayPcs]
    BY <1>7, GotoEffect DEF First, RelayPcs
  <2>2. Recvfrom(i) /\ Take(i)
    BY <1>7 DEF First, Take
  <2>3. \A j \in Sides : n'[j] \in {Nothing} \cup Seqs(j) /\ rx'[j] \in Seq(Packet(j))
    BY <2>2, RecvfromEffect DEF TypeOK
  <2>4. QED
    BY <1>7, <2>1, <2>2, <2>3, RecvfromEffect, TakeEffect DEF First, TypeOK, Functions
<1>8. ASSUME NEW i \in Sides, DropRecv(i) PROVE TypeOK' /\ Functions'
  <2>1. pc' \in [Sides -> RelayPcs]
    BY <1>8, GotoEffect DEF DropRecv, RelayPcs
  <2>2. Recvfrom(i) /\ Take(i)
    BY <1>8 DEF DropRecv, Take
  <2>3. \A j \in Sides : n'[j] \in {Nothing} \cup Seqs(j) /\ rx'[j] \in Seq(Packet(j))
    BY <2>2, RecvfromEffect DEF TypeOK
  <2>4. QED
    BY <1>8, <2>1, <2>2, <2>3, RecvfromEffect, TakeEffect DEF DropRecv, TypeOK, Functions
<1>9. ASSUME NEW i \in Sides, Recv(i) PROVE TypeOK' /\ Functions'
  <2>1. pc' \in [Sides -> RelayPcs]
    BY <1>9, GotoEffect DEF Recv, RelayPcs
  <2>2. Recvfrom(i)
    BY <1>9 DEF Recv
  <2>3. \A j \in Sides : n'[j] \in {Nothing} \cup Seqs(j) /\ rx'[j] \in Seq(Packet(j))
    BY <2>2, RecvfromEffect DEF TypeOK
  <2>4. QED
    BY <1>9, <2>1, <2>2, <2>3, RecvfromEffect DEF Recv, TypeOK, Functions
<1>10. ASSUME NEW i \in Sides, Forward(i) PROVE TypeOK' /\ Functions'
  <2>1. pc' \in [Sides -> RelayPcs]
    BY <1>10, GotoEffect DEF Forward, RelayPcs
  <2>2. \A j \in Sides : out'[j] \in Seq([seq : Seqs(j), to : Addrs])
    BY <1>10, ForwardEffect DEF TypeOK
  <2>3. QED
    BY <1>10, <2>1, <2>2, ForwardEffect DEF Forward, TypeOK, Functions
<1>11. CASE UNCHANGED vars
  BY <1>11 DEF vars, TypeOK, Functions
<1>12. QED
  BY <1>1, <1>2, <1>3, <1>4, <1>5, <1>6, <1>7, <1>8, <1>9, <1>10, <1>11, NextCases

-----------------------------------------------------------------------------
(* Where the three reading steps are, and what they leave alone. *)
LEMMA ReadEffect ==
  ASSUME TypeOK, NEW i \in Sides, First(i) \/ DropRecv(i) \/ Recv(i)
  PROVE  /\ Recvfrom(i)
         /\ \A j \in Sides \ {i} : pc'[j] = pc[j]
         /\ \/ pc[i] = "first" /\ pc'[i] = "firstcheck" /\ Take(i)
            \/ pc[i] = "droprecv" /\ pc'[i] = "dropcheck" /\ Take(i)
            \/ pc[i] = "recv" /\ pc'[i] = "send" /\ late' = late
         /\ UNCHANGED <<mainpc, callpc, shut, blocking, arrived, out>>
<1>1. CASE First(i)
  BY <1>1, GotoEffect DEF First, Take, RelayPcs
<1>2. CASE DropRecv(i)
  BY <1>2, GotoEffect DEF DropRecv, Take, RelayPcs
<1>3. CASE Recv(i)
  BY <1>3, GotoEffect DEF Recv, RelayPcs
<1>4. QED
  BY <1>1, <1>2, <1>3

(* The steps that touch neither packets nor relay threads beyond starting one. *)
LEMMA OtherEffect ==
  ASSUME TypeOK, NotYet, \/ KillThread \/ Joined \/ CallSpin \/ UNCHANGED vars
                         \/ \E i \in Sides : CallCreate(i)
  PROVE  /\ UNCHANGED <<n, client_addr, blocking, rx, arrived, out, late>>
         /\ shut => shut'
         /\ \A i \in Sides : pc'[i] = pc[i] \/ (pc[i] = "none" /\ pc'[i] = "start")
<1>1. CASE KillThread \/ Joined \/ CallSpin \/ UNCHANGED vars
  BY <1>1 DEF KillThread, Joined, CallSpin, vars
<1>2. ASSUME NEW i \in Sides, CallCreate(i)
      PROVE  /\ UNCHANGED <<n, shut, client_addr, blocking, rx, arrived, out, late>>
             /\ \A j \in Sides : pc'[j] = pc[j] \/ (pc[j] = "none" /\ pc'[j] = "start")
  BY <1>2 DEF CallCreate, TypeOK, NotYet, Sides
<1>3. QED
  BY <1>1, <1>2

(* No relay thread exists before its CallCreate, and call makes them in order. *)
LEMMA NotYetStep == TypeOK /\ NotYet /\ [Next]_vars => NotYet'
<1> SUFFICES ASSUME TypeOK, NotYet, [Next]_vars PROVE NotYet'
  OBVIOUS
<1>1. ASSUME NEW i \in Sides, CallCreate(i) PROVE NotYet'
  BY <1>1 DEF CallCreate, NotYet, TypeOK, Sides
<1>2. ASSUME NEW i \in Sides, First(i) \/ DropRecv(i) \/ Recv(i) PROVE NotYet'
  BY <1>2, ReadEffect DEF NotYet, Sides
<1>3. ASSUME NEW i \in Sides, Quiet(i) PROVE NotYet'
  BY <1>3, QuietEffect DEF NotYet, Sides
<1>4. ASSUME NEW i \in Sides, Forward(i) PROVE NotYet'
  BY <1>4, GotoEffect DEF NotYet, Forward, RelayPcs, Sides
<1>5. CASE \/ KillThread \/ Joined \/ CallSpin \/ UNCHANGED vars
           \/ \E i \in Sides, a \in Addrs : Arrive(i, a)
  BY <1>5 DEF NotYet, KillThread, Joined, CallSpin, vars, Arrive
<1>6. QED
  BY <1>1, <1>2, <1>3, <1>4, <1>5, NextCases

(* The lengths of the queues are numbers, and so is how much has been taken. *)
LEMMA Lengths ==
  ASSUME TypeOK, NEW i \in Sides
  PROVE  Len(rx[i]) \in Nat /\ Len(out[i]) \in Nat /\ arrived[i] \in Nat /\ Taken(i) \in Int
<1>1. rx[i] \in Seq(Packet(i)) /\ out[i] \in Seq([seq : Seqs(i), to : Addrs])
  BY DEF TypeOK
<1>2. Len(rx[i]) \in Nat /\ Len(out[i]) \in Nat
  BY <1>1
<1>3. arrived[i] \in Nat
  BY DEF TypeOK, Seqs, Sides
<1>4. QED
  BY <1>2, <1>3 DEF Taken

(* A packet that arrives is not taken. *)
LEMMA ArriveTaken ==
  ASSUME TypeOK, Functions, NEW i \in Sides, NEW a \in Addrs, Arrive(i, a)
  PROVE  \A j \in Sides : Taken(j)' = Taken(j)
<1>1. /\ arrived'[i] = arrived[i] + 1 /\ Len(rx'[i]) = Len(rx[i]) + 1
      /\ \A j \in Sides \ {i} : rx'[j] = rx[j] /\ arrived'[j] = arrived[j]
  BY ArriveEffect
<1>2. Len(rx[i]) \in Nat /\ arrived[i] \in Nat
  BY Lengths
<1>3. arrived'[i] - Len(rx'[i]) = arrived[i] - Len(rx[i])
  BY <1>1, <1>2
<1>4. QED
  BY <1>1, <1>3 DEF Taken

(* A thread that has read in the forwarding loop has a packet in hand: the last one taken. *)
LEMMA RecvTaken ==
  ASSUME TypeOK, Functions, QueueInOrder, Forwarding, NEW i \in Sides, Recvfrom(i),
         pc[i] = "recv", arrived' = arrived
  PROVE  n'[i] # Nothing /\ n'[i] = Taken(i)' /\ Taken(i)' = Taken(i) + 1
<1>1. rx[i] # <<>>
  BY RecvfromEffect DEF Forwarding
<1>2. /\ n'[i] = rx[i][1].seq /\ n'[i] # Nothing
      /\ Len(rx[i]) >= 1 /\ Len(rx'[i]) = Len(rx[i]) - 1
  BY <1>1, RecvfromEffect
<1>3. Len(rx[i]) \in Nat /\ arrived[i] \in Nat
  BY Lengths
<1>4. rx[i][1].seq = arrived[i] - Len(rx[i]) + 1
  BY <1>2, <1>3 DEF QueueInOrder, Taken
<1>5. QED
  BY <1>2, <1>3, <1>4 DEF Taken

(* One packet more that came, was taken or was forwarded moves the other numbers by one. *)
LEMMA Shift ==
  ASSUME NEW t \in Int, NEW l \in Int, NEW k \in Int
  PROVE  /\ t - 0 - (l + 1) + k = t - 1 - l + k
         /\ (t + 1) - (l + 1) + k = t - l + k
         /\ t - (l - 1) + k = t - l + (k + 1)
  OBVIOUS

(* No packet has arrived at the start. *)
LEMMA QueueInit == Init => QueueInOrder
  BY DEF Init, QueueInOrder, Taken

(* Packets join a receive queue at its end and leave it at its head. *)
LEMMA QueueStep ==
  TypeOK /\ Functions /\ NotYet /\ Forwarding /\ QueueInOrder /\ [Next]_vars => QueueInOrder'
<1> SUFFICES ASSUME TypeOK, Functions, NotYet, Forwarding, QueueInOrder, [Next]_vars
             PROVE  QueueInOrder'
  OBVIOUS
<1> USE DEF QueueInOrder, Taken
<1>1. ASSUME NEW i \in Sides, NEW a \in Addrs, Arrive(i, a) PROVE QueueInOrder'
  <2>1. /\ arrived'[i] = arrived[i] + 1 /\ Len(rx'[i]) = Len(rx[i]) + 1
        /\ \A k \in 1 .. Len(rx[i]) : rx'[i][k] = rx[i][k]
        /\ rx'[i][Len(rx[i]) + 1].seq = arrived'[i]
        /\ \A j \in Sides \ {i} : rx'[j] = rx[j] /\ arrived'[j] = arrived[j]
    BY <1>1, ArriveEffect
  <2>2. Len(rx[i]) \in Nat /\ arrived[i] \in Nat
    BY Lengths
  <2>3. /\ Len(rx[i]) <= arrived[i]
        /\ \A k \in 1 .. Len(rx[i]) : rx[i][k].seq = arrived[i] - Len(rx[i]) + k
    OBVIOUS
  <2>4. Len(rx'[i]) <= arrived'[i]
    BY <2>1, <2>2, <2>3
  <2>5. ASSUME NEW k \in 1 .. Len(rx'[i]) PROVE rx'[i][k].seq = arrived'[i] - Len(rx'[i]) + k
    <3>1. CASE k = Len(rx[i]) + 1
      BY <2>1, <2>2, <3>1
    <3>2. CASE k \in 1 .. Len(rx[i])
      <4>1. rx'[i][k].seq = arrived[i] - Len(rx[i]) + k
        BY <2>1, <2>3, <3>2
      <4>2. k \in Int
        OBVIOUS
      <4>3. (arrived[i] + 1) - (Len(rx[i]) + 1) + k = arrived[i] - Len(rx[i]) + k
        BY <2>2, <4>2
      <4>4. QED
        BY <2>1, <4>1, <4>3
    <3>3. QED
      BY <2>1, <2>2, <3>1, <3>2
  <2>6. QED
    BY <2>1, <2>4, <2>5
<1>2. ASSUME NEW i \in Sides, First(i) \/ DropRecv(i) \/ Recv(i) PROVE QueueInOrder'
  <2>1. Recvfrom(i) /\ arrived' = arrived
    BY <1>2, ReadEffect
  <2>2. CASE rx[i] # <<>>
    <3>1. /\ Len(rx[i]) >= 1 /\ Len(rx'[i]) = Len(rx[i]) - 1
          /\ \A k \in 1 .. Len(rx[i]) - 1 : rx'[i][k] = rx[i][k + 1]
          /\ \A j \in Sides \ {i} : rx'[j] = rx[j]
      BY <2>1, <2>2, RecvfromEffect
    <3>2. Len(rx[i]) \in Nat /\ arrived[i] \in Nat
      BY Lengths
    <3>3. /\ Len(rx[i]) <= arrived[i]
          /\ \A k \in 1 .. Len(rx[i]) : rx[i][k].seq = arrived[i] - Len(rx[i]) + k
      OBVIOUS
    <3>4. ASSUME NEW k \in 1 .. Len(rx'[i]) PROVE rx'[i][k].seq = arrived[i] - Len(rx'[i]) + k
      <4>1. k \in Int /\ k \in 1 .. Len(rx[i]) - 1 /\ k + 1 \in 1 .. Len(rx[i])
        BY <3>1, <3>2
      <4>2. rx'[i][k] = rx[i][k + 1] /\ rx[i][k + 1].seq = arrived[i] - Len(rx[i]) + (k + 1)
        BY <3>1, <3>3, <4>1
      <4>3. arrived[i] \in Int /\ Len(rx[i]) \in Int
        BY <3>2
      <4>4. arrived[i] - (Len(rx[i]) - 1) + k = arrived[i] - Len(rx[i]) + (k + 1)
        BY <4>1, <4>3, Shift, ZenonT(40)
      <4>5. QED
        BY <3>1, <4>2, <4>4
    <3>5. Len(rx'[i]) <= arrived[i]
      BY <3>1, <3>2, <3>3
    <3>6. \A j \in Sides \ {i} : rx'[j] = rx[j] /\ arrived'[j] = arrived[j]
      BY <2>1, <3>1
    <3>7. QED
      BY <2>1, <3>4, <3>5, <3>6
  <2>3. CASE rx[i] = <<>>
    BY <2>1, <2>3, RecvfromEffect
  <2>4. QED
    BY <2>2, <2>3
<1>3. ASSUME NEW i \in Sides, Quiet(i) \/ Forward(i) PROVE QueueInOrder'
  BY <1>3, QuietEffect DEF Forward
<1>4. CASE \/ KillThread \/ Joined \/ CallSpin \/ UNCHANGED vars
           \/ \E i \in Sides : CallCreate(i)
  BY <1>4, OtherEffect
<1>5. QED
  BY <1>1, <1>2, <1>3, <1>4, NextCases

(* No thread forwards at the start. *)
LEMMA ForwardingInit == Init => Forwarding
  BY DEF Init, Forwarding

(* A thread that is about to send has the last packet it took, and not an empty one. *)
LEMMA ForwardingStep ==
  TypeOK /\ Functions /\ NotYet /\ QueueInOrder /\ Forwarding /\ [Next]_vars => Forwarding'
<1> SUFFICES ASSUME TypeOK, Functions, NotYet, QueueInOrder, Forwarding, [Next]_vars
             PROVE  Forwarding'
  OBVIOUS
<1> USE DEF Forwarding, Taken
<1>1. ASSUME NEW i \in Sides, NEW a \in Addrs, Arrive(i, a) PROVE Forwarding'
  <2>1. \A j \in Sides : Taken(j)' = Taken(j)
    BY <1>1, ArriveTaken
  <2>2. UNCHANGED <<pc, n, client_addr, blocking>>
    BY <1>1, ArriveEffect
  <2> HIDE DEF Taken
  <2>3. QED
    BY <2>1, <2>2 DEF Known
<1>2. ASSUME NEW i \in Sides, First(i) \/ DropRecv(i) \/ Recv(i) PROVE Forwarding'
  <2>1. /\ Recvfrom(i) /\ blocking' = blocking /\ arrived' = arrived
        /\ \A j \in Sides \ {i} : pc'[j] = pc[j]
    BY <1>2, ReadEffect
  <2>2. \A j \in Sides : Known(j) => Known(j)'
    BY <2>1, RecvfromEffect DEF Known
  <2>3. \A j \in Sides : Oppo(j) \in Sides
    BY DEF Oppo, Sides
  <2>4. ASSUME pc'[i] = "send" PROVE pc[i] = "recv" /\ n'[i] # Nothing /\ n'[i] = Taken(i)'
    <3>1. pc[i] = "recv" /\ blocking[i]
      BY <1>2, <2>4, ReadEffect
    <3>2. QED
      BY <2>1, <3>1, RecvTaken
  <2>5. pc'[i] \in {"firstcheck", "dropcheck", "send"}
    BY <1>2, ReadEffect
  <2>6. ASSUME NEW j \in Sides \ {i} PROVE n'[j] = n[j] /\ Taken(j)' = Taken(j)
    BY <2>1, RecvfromEffect
  <2>7. QED
    BY <2>1, <2>2, <2>3, <2>4, <2>5, <2>6
<1>3. ASSUME NEW i \in Sides, Quiet(i) PROVE Forwarding'
  BY <1>3, QuietEffect DEF Known
<1>4. ASSUME NEW i \in Sides, Forward(i) PROVE Forwarding'
  BY <1>4, GotoEffect DEF Forward, RelayPcs, Known
<1>5. CASE \/ KillThread \/ Joined \/ CallSpin \/ UNCHANGED vars
           \/ \E i \in Sides : CallCreate(i)
  BY <1>5, OtherEffect DEF Known
<1>6. QED
  BY <1>1, <1>2, <1>3, <1>4, <1>5, NextCases

(* Nothing has been forwarded at the start. *)
LEMMA ForwardedInit == Init => Forwarded
  BY DEF Init, Forwarded

(* Each packet sent continues the run of those sent before. *)
LEMMA ForwardedStep ==
  TypeOK /\ Functions /\ NotYet /\ QueueInOrder /\ Forwarding /\ Forwarded /\ [Next]_vars
    => Forwarded'
<1> SUFFICES ASSUME TypeOK, Functions, NotYet, QueueInOrder, Forwarding, Forwarded, [Next]_vars
             PROVE  Forwarded'
  OBVIOUS
<1> USE DEF Forwarded, Taken
<1>1. ASSUME NEW i \in Sides, NEW a \in Addrs, Arrive(i, a) PROVE Forwarded'
  <2>1. \A j \in Sides : Taken(j)' = Taken(j)
    BY <1>1, ArriveTaken
  <2>2. pc' = pc /\ out' = out
    BY <1>1, ArriveEffect
  <2> HIDE DEF Taken
  <2>3. QED
    BY <2>1, <2>2
<1>2. ASSUME NEW i \in Sides, First(i) \/ DropRecv(i) \/ Recv(i) PROVE Forwarded'
  <2>1. /\ Recvfrom(i) /\ arrived' = arrived /\ out' = out
        /\ \A j \in Sides \ {i} : pc'[j] = pc[j]
    BY <1>2, ReadEffect
  <2>2. \A j \in Sides \ {i} : Taken(j)' = Taken(j)
    BY <2>1, RecvfromEffect
  <2>3. CASE pc[i] # "recv"
    <3>1. out[i] = <<>>
      BY <1>2, <2>3, ReadEffect
    <3> HIDE DEF Taken
    <3>2. QED
      BY <2>1, <2>2, <3>1
  <2>4. CASE pc[i] = "recv"
    <3>1. pc'[i] = "send"
      BY <1>2, <2>4, ReadEffect
    <3>2. Taken(i)' = Taken(i) + 1
      BY <2>1, <2>4, RecvTaken
    <3>3. Taken(i) \in Int /\ Len(out[i]) \in Nat
      BY Lengths
    <3> HIDE DEF Taken
    <3>4. ASSUME NEW k \in 1 .. Len(out[i])
          PROVE  out'[i][k].seq = Taken(i)' - 1 - Len(out'[i]) + k
      <4>1. out[i][k].seq = Taken(i) - 0 - Len(out[i]) + k
        BY <2>4
      <4>2. k \in Int
        OBVIOUS
      <4>3. QED
        BY <2>1, <3>2, <3>3, <4>1, <4>2
    <3>5. QED
      BY <2>1, <2>2, <2>4, <3>1, <3>4
  <2>5. QED
    BY <2>3, <2>4
<1>3. ASSUME NEW i \in Sides, Quiet(i) PROVE Forwarded'
  BY <1>3, QuietEffect
<1>4. ASSUME NEW i \in Sides, Forward(i) PROVE Forwarded'
  <2>1. /\ pc[i] = "send" /\ pc'[i] = "loop" /\ \A j \in Sides \ {i} : pc'[j] = pc[j]
    BY <1>4, GotoEffect DEF Forward, RelayPcs
  <2>2. \A j \in Sides : Taken(j)' = Taken(j)
    BY <1>4 DEF Forward
  <2>3. n[i] = Taken(i) /\ Taken(i) \in Int /\ Len(out[i]) \in Nat
    BY <2>1, Lengths DEF Forwarding
  <2>0. \A k \in 1 .. Len(out[i]) : out[i][k].seq = Taken(i) - 1 - Len(out[i]) + k
    BY <2>1
  <2>4. /\ Len(out'[i]) = Len(out[i]) + 1
        /\ \A k \in 1 .. Len(out[i]) : out'[i][k] = out[i][k]
        /\ out'[i][Len(out[i]) + 1].seq = n[i]
        /\ \A j \in Sides \ {i} : out'[j] = out[j]
    BY <1>4, ForwardEffect
  <2> HIDE DEF Taken
  <2>5. ASSUME NEW k \in 1 .. Len(out'[i])
        PROVE  out'[i][k].seq = Taken(i) - 0 - Len(out'[i]) + k
    <3>1. CASE k = Len(out[i]) + 1
      <4>1. Taken(i) - 0 - (Len(out[i]) + 1) + (Len(out[i]) + 1) = Taken(i)
        BY <2>3
      <4>2. QED
        BY <2>3, <2>4, <3>1, <4>1
    <3>2. CASE k \in 1 .. Len(out[i])
      <4>1. out'[i][k].seq = Taken(i) - 1 - Len(out[i]) + k
        BY <2>0, <2>4, <3>2
      <4>2. k \in Int
        OBVIOUS
      <4>3. Taken(i) - 0 - (Len(out[i]) + 1) + k = Taken(i) - 1 - Len(out[i]) + k
        BY <2>3, <4>2, Shift, SMTT(40)
      <4>4. QED
        BY <2>4, <4>1, <4>3
    <3>3. QED
      BY <2>3, <2>4, <2>5, <3>1, <3>2, SMTT(40)
  <2>6. ASSUME NEW j \in Sides
        PROVE  /\ out'[j] # <<>> => pc'[j] \in {"loop", "recv", "send", "ended"}
               /\ \A k \in 1 .. Len(out'[j]) :
                    out'[j][k].seq =
                      Taken(j)' - (IF pc'[j] = "send" THEN 1 ELSE 0) - Len(out'[j]) + k
    <3>1. CASE j = i
      BY <2>1, <2>2, <2>5, <3>1
    <3>2. CASE j # i
      BY <2>1, <2>2, <2>4, <3>2
    <3>3. QED
      BY <3>1, <3>2
  <2>7. QED
    BY <2>6
<1>5. CASE \/ KillThread \/ Joined \/ CallSpin \/ UNCHANGED vars
           \/ \E i \in Sides : CallCreate(i)
  <2>1. /\ out' = out /\ \A j \in Sides : Taken(j)' = Taken(j)
        /\ \A j \in Sides : pc'[j] = pc[j] \/ (pc[j] = "none" /\ pc'[j] = "start")
    BY <1>5, OtherEffect
  <2> HIDE DEF Taken
  <2>2. ASSUME NEW j \in Sides
        PROVE  /\ out'[j] # <<>> => pc'[j] \in {"loop", "recv", "send", "ended"}
               /\ \A k \in 1 .. Len(out'[j]) :
                    out'[j][k].seq =
                      Taken(j)' - (IF pc'[j] = "send" THEN 1 ELSE 0) - Len(out'[j]) + k
    <3>1. CASE out[j] = <<>>
      BY <2>1, <3>1
    <3>2. CASE out[j] # <<>>
      BY <2>1, <3>2
    <3>3. QED
      BY <3>1, <3>2
  <2>3. QED
    BY <2>2
<1>6. QED
  BY <1>1, <1>2, <1>3, <1>4, <1>5, NextCases

(* No packet has been dropped or sent late at the start. *)
LEMMA DroppingInit == Init => Dropping /\ Sending
  BY DEF Init, Dropping, Sending

(***************************************************************************)
(* A thread that drops a packet although it knows the other's address has  *)
(* only to find that it does (udpproxy.h:76-84).                           *)
(***************************************************************************)
LEMMA DroppingStep ==
  TypeOK /\ Functions /\ NotYet /\ Dropping /\ [Next]_vars => Dropping'
<1> SUFFICES ASSUME TypeOK, Functions, NotYet, Dropping, [Next]_vars PROVE Dropping'
  OBVIOUS
<1> USE DEF Dropping
<1>1. ASSUME NEW i \in Sides, NEW a \in Addrs, Arrive(i, a) PROVE Dropping'
  BY <1>1, ArriveEffect DEF Known
<1>2. ASSUME NEW i \in Sides, First(i) \/ DropRecv(i) \/ Recv(i) PROVE Dropping'
  <2>1. /\ Recvfrom(i) /\ \A j \in Sides \ {i} : pc'[j] = pc[j]
        /\ \/ pc[i] = "first" /\ pc'[i] = "firstcheck" /\ Take(i)
           \/ pc[i] = "droprecv" /\ pc'[i] = "dropcheck" /\ Take(i)
           \/ pc[i] = "recv" /\ pc'[i] = "send" /\ late' = late
    BY <1>2, ReadEffect
  <2>2. \A j \in Sides : Oppo(j) \in Sides /\ (Known(j) => Known(j)')
    BY <2>1, RecvfromEffect DEF Known, Oppo, Sides
  <2>3. \A j \in Sides \ {i} : n'[j] = n[j] /\ late'[j] = late[j]
    BY <2>1, RecvfromEffect, TakeEffect
  <2>4. CASE pc[i] = "recv"
    BY <2>1, <2>2, <2>3, <2>4
  <2>5. CASE pc[i] # "recv"
    <3>1. late[i].drops = 0
      BY <2>1, <2>5 DEF TypeOK
    <3>2. late'[i].drops = 0 + IF rx[i] # <<>> /\ Known(Oppo(i)) THEN 1 ELSE 0
      BY <2>1, <2>5, <3>1, TakeEffect
    <3>3. rx[i] # <<>> => n'[i] # Nothing
      BY <2>1, RecvfromEffect
    <3>4. QED
      BY <2>1, <2>2, <2>3, <2>5, <3>2, <3>3
  <2>6. QED
    BY <2>4, <2>5
<1>3. ASSUME NEW i \in Sides, Quiet(i) PROVE Dropping'
  BY <1>3, QuietEffect DEF Known
<1>4. ASSUME NEW i \in Sides, Forward(i) PROVE Dropping'
  <2>1. /\ pc[i] = "send" /\ pc'[i] = "loop" /\ \A j \in Sides \ {i} : pc'[j] = pc[j]
    BY <1>4, GotoEffect DEF Forward, RelayPcs
  <2>2. \A j \in Sides : late'[j].drops = late[j].drops
    BY <1>4 DEF Forward, TypeOK
  <2>3. n' = n /\ client_addr' = client_addr
    BY <1>4 DEF Forward
  <2>4. QED
    BY <2>1, <2>2, <2>3 DEF Known
<1>5. CASE \/ KillThread \/ Joined \/ CallSpin \/ UNCHANGED vars
           \/ \E i \in Sides : CallCreate(i)
  BY <1>5, OtherEffect DEF Known
<1>6. QED
  BY <1>1, <1>2, <1>3, <1>4, <1>5, NextCases

(***************************************************************************)
(* A thread that sends a packet although the call is shut has only to find *)
(* that it is (udpproxy.h:98-102).                                         *)
(***************************************************************************)
LEMMA SendingStep ==
  TypeOK /\ Functions /\ NotYet /\ Forwarding /\ Sending /\ [Next]_vars => Sending'
<1> SUFFICES ASSUME TypeOK, Functions, NotYet, Forwarding, Sending, [Next]_vars PROVE Sending'
  OBVIOUS
<1> USE DEF Sending
<1>1. ASSUME NEW i \in Sides, NEW a \in Addrs, Arrive(i, a) PROVE Sending'
  BY <1>1, ArriveEffect
<1>2. ASSUME NEW i \in Sides, First(i) \/ DropRecv(i) \/ Recv(i) PROVE Sending'
  <2>1. \A j \in Sides : late'[j].sends = late[j].sends
    BY <1>2, ReadEffect, TakeEffect
  <2>2. /\ pc[i] \notin {"loop", "ended"} /\ (shut => shut')
        /\ \A j \in Sides \ {i} : pc'[j] = pc[j]
    BY <1>2, ReadEffect
  <2>3. \A j \in Sides : late'[j].sends <= 1
    BY <2>1
  <2>4. ASSUME NEW j \in Sides, late[j].sends = 1
        PROVE  shut' /\ pc'[j] \in {"loop", "ended"}
    <3>1. shut /\ pc[j] \in {"loop", "ended"}
      BY <2>4
    <3>2. QED
      BY <2>2, <3>1
  <2>5. QED
    BY <2>1, <2>3, <2>4
<1>3. ASSUME NEW i \in Sides, Quiet(i) PROVE Sending'
  BY <1>3, QuietEffect
<1>4. ASSUME NEW i \in Sides, Forward(i) PROVE Sending'
  <2>1. /\ pc[i] = "send" /\ pc'[i] = "loop" /\ \A j \in Sides \ {i} : pc'[j] = pc[j]
    BY <1>4, GotoEffect DEF Forward, RelayPcs
  <2>2. late[i].sends = 0
    <3>1. late[i].sends \in Nat /\ late[i].sends <= 1 /\ late[i].sends # 1
      BY <2>1 DEF TypeOK
    <3>2. QED
      BY <3>1
  <2>3. /\ late'[i].sends = 0 + IF shut THEN 1 ELSE 0
        /\ \A j \in Sides \ {i} : late'[j] = late[j]
    BY <1>4, <2>2, ForwardEffect
  <2>4. shut' = shut
    BY <1>4 DEF Forward
  <2>5. QED
    BY <2>1, <2>3, <2>4
<1>5. CASE \/ KillThread \/ Joined \/ CallSpin \/ UNCHANGED vars
           \/ \E i \in Sides : CallCreate(i)
  BY <1>5, OtherEffect
<1>6. QED
  BY <1>1, <1>2, <1>3, <1>4, <1>5, NextCases

-----------------------------------------------------------------------------
(***************************************************************************)
(* The inductive invariant holds in every state: two relay threads without *)
(* a lock between them, whatever packets come and whenever the call is     *)
(* shut (udpproxy.h:70-104).                                               *)
(***************************************************************************)
THEOREM Invariance == Spec => []IInv
<1>1. Init => IInv
  <2>1. Init => NotYet
    BY DEF Init, NotYet, Sides
  <2>2. QED
    BY <2>1, TypeInit, QueueInit, ForwardingInit, ForwardedInit, DroppingInit DEF IInv
<1>2. IInv /\ [Next]_vars => IInv'
  BY TypeStep, NotYetStep, QueueStep, ForwardingStep, ForwardedStep, DroppingStep, SendingStep
     DEF IInv
<1>3. QED
  BY <1>1, <1>2, PTL DEF Spec

(***************************************************************************)
(* The variables keep their types; in particular a packet is sent to a     *)
(* client's address only, never to the zeroed one (udpproxy.h:82, 101).    *)
(***************************************************************************)
THEOREM TypeCorrect == Spec => []TypeOK
<1>1. IInv => TypeOK
  BY DEF IInv
<1>2. QED
  BY <1>1, Invariance, PTL

(***************************************************************************)
(* Each thread forwards a run of its client's packets: no gap, no          *)
(* repetition, no change of order, up to the last one taken                *)
(* (udpproxy.h:74-102).                                                    *)
(***************************************************************************)
THEOREM ARunIsForwarded == Spec => []ForwardsARun
<1>1. ASSUME IInv, NEW i \in Sides
      PROVE  /\ \A k \in 1 .. Len(out[i]) : /\ out[i][k].seq = out[i][1].seq + k - 1
                                            /\ out[i][k].seq # Nothing
             /\ out[i] # <<>> =>
                  out[i][Len(out[i])].seq + (IF pc[i] = "send" THEN 1 ELSE 0) + Len(rx[i])
                    = arrived[i]
  <2> DEFINE hand == IF pc[i] = "send" THEN 1 ELSE 0
             l == Len(out[i])
             t == Taken(i)
  <2>1. TypeOK /\ Forwarded
    BY <1>1 DEF IInv
  <2>2. out[i] \in Seq([seq : Seqs(i), to : Addrs])
    BY <2>1 DEF TypeOK
  <2>3. l \in Nat /\ t \in Int /\ hand \in Int /\ Len(rx[i]) \in Int /\ arrived[i] \in Int
    BY <2>1, Lengths
  <2>4. \A k \in 1 .. l : out[i][k].seq = t - hand - l + k
    BY <2>1 DEF Forwarded
  <2>5. \A k \in 1 .. l : out[i][k].seq # Nothing
    <3> DEFINE S == [seq : Seqs(i), to : Addrs]
    <3>1. \A m \in S : m.seq # Nothing
      BY DEF Seqs, Nothing
    <3>2. out[i] \in Seq(S)
      BY <2>2
    <3> HIDE DEF S
    <3>3. \A k \in 1 .. Len(out[i]) : out[i][k] \in S
      BY <3>2
    <3>4. QED
      BY <3>1, <3>3
  <2>6. t = arrived[i] - Len(rx[i])
    BY DEF Taken
  <2>7. out[i] # <<>> => l >= 1
    BY <2>2
  <2> HIDE DEF hand, l, t
  <2>8. ASSUME NEW k \in 1 .. l PROVE out[i][k].seq = out[i][1].seq + k - 1
    <3>1. out[i][k].seq = t - hand - l + k /\ out[i][1].seq = t - hand - l + 1
      BY <2>3, <2>4
    <3>2. t - hand - l + k = (t - hand - l + 1) + k - 1
      BY <2>3
    <3>3. QED
      BY <3>1, <3>2
  <2>9. ASSUME out[i] # <<>> PROVE out[i][l].seq + hand + Len(rx[i]) = arrived[i]
    <3>1. out[i][l].seq = t - hand - l + l
      BY <2>3, <2>4, <2>7, <2>9
    <3>2. (t - hand - l + l) + hand + Len(rx[i]) = arrived[i]
      BY <2>3, <2>6
    <3>3. QED
      BY <3>1, <3>2
  <2>10. QED
    BY <2>5, <2>8, <2>9 DEF l, hand
<1>2. IInv => ForwardsARun
  BY <1>1 DEF ForwardsARun
<1>3. QED
  BY <1>2, Invariance, PTL

(***************************************************************************)
(* Once the other client's address is known a thread drops at most one     *)
(* packet more, however the loops interleave (udpproxy.h:76-94).           *)
(***************************************************************************)
THEOREM OneLateDrop == Spec => []AtMostOneLateDrop
<1>1. IInv => AtMostOneLateDrop
  BY DEF IInv, Dropping, AtMostOneLateDrop
<1>2. QED
  BY <1>1, Invariance, PTL

(***************************************************************************)
(* After the call is shut each thread forwards at most one packet more     *)
(* (udpproxy.h:98-102).                                                    *)
(***************************************************************************)
THEOREM OneLateSend == Spec => []AtMostOneLateSend
<1>1. IInv => AtMostOneLateSend
  BY DEF IInv, Sending, AtMostOneLateSend
<1>2. QED
  BY <1>1, Invariance, PTL
=============================================================================
