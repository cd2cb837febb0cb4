------------------------------ MODULE RtpRelay ------------------------------
(***************************************************************************)
(* The relay of one call (udpproxy.h, threadcontrol.cpp): the thread       *)
(* `call' starts two relay threads rtp_proxy<0> and rtp_proxy<1> and spins *)
(* until the server thread shuts the call.  Thread i reads socket i, where *)
(* client i sends, and forwards to client 1-i, whose address it knows from *)
(* what thread 1-i received.  The flag, the addresses and the sockets are  *)
(* shared without a lock.                                                  *)
(*                                                                         *)
(* shut is read from memory every time, as the build of the project does   *)
(* (configure.ac sets CFLAGS to -g, the solution builds Debug).            *)
(*                                                                         *)
(* A definition whose name starts with Slip is a bug the code might have   *)
(* had instead of the definition that follows; no specification uses it.   *)
(***************************************************************************)
EXTENDS Integers, Sequences, FiniteSets

CONSTANTS Addrs,       \* where a client may send from; it may move
          NoAddr,      \* the zeroed sockaddr_in of the constructor
          MaxPackets   \* how many packets each of the two clients sends at most

ASSUME RelayAssumption == NoAddr \notin Addrs /\ MaxPackets \in [{0, 1} -> Nat \ {0}]

Sides   == {0, 1}
Oppo(i) == 1 - i
Nothing == 0                           \* recvfrom returned -1

VARIABLES
  mainpc,       \* server thread: "up", in "join", or "done" with kill_thread
  callpc,       \* thread `call'
  pc,           \* relay threads
  n,            \* the packet in each relay thread's buffer
  shut,         \* pcon->shut
  client_addr,  \* pcon->client_addr
  blocking,     \* mode of each socket
  rx,           \* each socket's receive queue
  arrived,      \* how many packets have reached each socket
  out,          \* what each relay thread has forwarded, and where
  late          \* packets each thread handled late: see Take and Forward

vars == <<mainpc, callpc, pc, n, shut, client_addr, blocking, rx, arrived, out, late>>

Seqs(i) == 1 .. MaxPackets[i]
Packet(i) == [seq : Seqs(i), from : Addrs]

Init ==
  /\ mainpc = "up"
  /\ callpc = "create0"
  /\ pc = [i \in Sides |-> "none"]
  /\ n = [i \in Sides |-> Nothing]
  /\ shut = FALSE
  /\ client_addr = [i \in Sides |-> NoAddr]
  /\ blocking = [i \in Sides |-> TRUE]
  /\ rx = [i \in Sides |-> <<>>]
  /\ arrived = [i \in Sides |-> 0]
  /\ out = [i \in Sides |-> <<>>]
  /\ late = [i \in Sides |-> [drops |-> 0, sends |-> 0]]

-----------------------------------------------------------------------------
\* A client's packet reaches its socket; a client may change its address.
Arrive(i, from) ==
  /\ arrived[i] < MaxPackets[i]
  /\ arrived' = [arrived EXCEPT ![i] = @ + 1]
  /\ rx' = [rx EXCEPT ![i] = Append(@, [seq |-> arrived[i] + 1, from |-> from])]
  /\ UNCHANGED <<mainpc, callpc, pc, n, shut, client_addr, blocking, out, late>>

\* kill_thread sets the flag and joins `call'.
KillThread ==
  /\ mainpc = "up"
  /\ shut' = TRUE
  /\ mainpc' = "join"
  /\ UNCHANGED <<callpc, pc, n, client_addr, blocking, rx, arrived, out, late>>

Joined ==
  /\ mainpc = "join"
  /\ callpc = "ended"
  /\ mainpc' = "done"
  /\ UNCHANGED <<callpc, pc, n, shut, client_addr, blocking, rx, arrived, out, late>>

\* call(): two detached threads, then the spin.
CallCreate(i) ==
  /\ callpc = (IF i = 0 THEN "create0" ELSE "create1")
  /\ callpc' = (IF i = 0 THEN "create1" ELSE "spin")
  /\ pc' = [pc EXCEPT ![i] = "start"]
  /\ UNCHANGED <<mainpc, n, shut, client_addr, blocking, rx, arrived, out, late>>

SlipCallSpin ==
  /\ callpc = "spin"
  /\ \A i \in Sides : pc[i] = "ended"
  /\ callpc' = "ended"
  /\ UNCHANGED <<mainpc, pc, n, shut, client_addr, blocking, rx, arrived, out, late>>

CallSpin ==
  /\ callpc = "spin"
  /\ shut
  /\ callpc' = "ended"
  /\ UNCHANGED <<mainpc, pc, n, shut, client_addr, blocking, rx, arrived, out, late>>

-----------------------------------------------------------------------------
Goto(i, from, to) == pc[i] = from /\ pc' = [pc EXCEPT ![i] = to]

Known(i) == client_addr[i] # NoAddr

(***************************************************************************)
(* recvfrom on socket i.  A packet leaves the queue and its source becomes *)
(* client_addr[i]; from an empty queue, a blocking socket does not return  *)
(* and another returns -1, the address untouched.                          *)
(***************************************************************************)
Recvfrom(i) ==
  IF rx[i] # <<>>
    THEN /\ n' = [n EXCEPT ![i] = Head(rx[i]).seq]
         /\ client_addr' = [client_addr EXCEPT ![i] = Head(rx[i]).from]
         /\ rx' = [rx EXCEPT ![i] = Tail(@)]
    ELSE /\ ~blocking[i]
         /\ n' = [n EXCEPT ![i] = Nothing]
         /\ UNCHANGED <<client_addr, rx>>

\* A packet taken before the forwarding loop is dropped: late if the other
\* side's address was known by then.
Take(i) ==
  /\ Recvfrom(i)
  /\ late' = IF rx[i] # <<>> /\ Known(Oppo(i)) THEN [late EXCEPT ![i].drops = @ + 1] ELSE late

SlipSetNonblocking(i) ==
  /\ Goto(i, "start", "first")
  /\ UNCHANGED <<mainpc, callpc, n, shut, client_addr, blocking, rx, arrived, out, late>>

SetNonblocking(i) ==
  /\ Goto(i, "start", "first")
  /\ blocking' = [blocking EXCEPT ![i] = FALSE]
  /\ UNCHANGED <<mainpc, callpc, n, shut, client_addr, rx, arrived, out, late>>

\* First loop: until a packet of client i shows its address.
First(i) ==
  /\ Goto(i, "first", "firstcheck")
  /\ Take(i)
  /\ UNCHANGED <<mainpc, callpc, shut, blocking, arrived, out>>

SlipFirstCheckDeaf(i) ==
  /\ \/ n[i] = Nothing /\ Goto(i, "firstcheck", "first")
     \/ n[i] # Nothing /\ Goto(i, "firstcheck", "drop")
  /\ UNCHANGED <<mainpc, callpc, n, shut, client_addr, blocking, rx, arrived, out, late>>

SlipFirstCheckDo(i) ==
  /\ \/ shut /\ Goto(i, "firstcheck", "ended")
     \/ ~shut /\ n[i] = Nothing /\ Goto(i, "firstcheck", "first")
     \/ ~shut /\ n[i] # Nothing /\ Goto(i, "firstcheck", "droprecv")
  /\ UNCHANGED <<mainpc, callpc, n, shut, client_addr, blocking, rx, arrived, out, late>>

FirstCheck(i) ==
  /\ \/ shut /\ Goto(i, "firstcheck", "ended")
     \/ ~shut /\ n[i] = Nothing /\ Goto(i, "firstcheck", "first")
     \/ ~shut /\ n[i] # Nothing /\ Goto(i, "firstcheck", "drop")
  /\ UNCHANGED <<mainpc, callpc, n, shut, client_addr, blocking, rx, arrived, out, late>>

SlipDrop(i) ==
  /\ Goto(i, "drop", "setblocking")
  /\ UNCHANGED <<mainpc, callpc, n, shut, client_addr, blocking, rx, arrived, out, late>>

\* Second loop: drop what comes while the other address is unknown.
Drop(i) ==
  /\ \/ ~Known(Oppo(i)) /\ Goto(i, "drop", "droprecv")
     \/ Known(Oppo(i)) /\ Goto(i, "drop", "setblocking")
  /\ UNCHANGED <<mainpc, callpc, n, shut, client_addr, blocking, rx, arrived, out, late>>

DropRecv(i) ==
  /\ Goto(i, "droprecv", "dropcheck")
  /\ Take(i)
  /\ UNCHANGED <<mainpc, callpc, shut, blocking, arrived, out>>

DropCheck(i) ==
  /\ \/ shut /\ Goto(i, "dropcheck", "ended")
     \/ ~shut /\ Goto(i, "dropcheck", "drop")
  /\ UNCHANGED <<mainpc, callpc, n, shut, client_addr, blocking, rx, arrived, out, late>>

SlipSetBlocking(i) ==
  /\ Goto(i, "setblocking", "loop")
  /\ UNCHANGED <<mainpc, callpc, n, shut, client_addr, blocking, rx, arrived, out, late>>

SetBlocking(i) ==
  /\ Goto(i, "setblocking", "loop")
  /\ blocking' = [blocking EXCEPT ![i] = TRUE]
  /\ UNCHANGED <<mainpc, callpc, n, shut, client_addr, rx, arrived, out, late>>

SlipLoop(i) ==
  /\ Goto(i, "loop", "recv")
  /\ UNCHANGED <<mainpc, callpc, n, shut, client_addr, blocking, rx, arrived, out, late>>

\* Third loop: forward.
Loop(i) ==
  /\ \/ shut /\ Goto(i, "loop", "ended")
     \/ ~shut /\ Goto(i, "loop", "recv")
  /\ UNCHANGED <<mainpc, callpc, n, shut, client_addr, blocking, rx, arrived, out, late>>

Recv(i) ==
  /\ Goto(i, "recv", "send")
  /\ Recvfrom(i)
  /\ UNCHANGED <<mainpc, callpc, shut, blocking, arrived, out, late>>

\* sendto through the other side's socket; late once the call is shut.
Forward(i) ==
  /\ Goto(i, "send", "loop")
  /\ out' = [out EXCEPT ![i] = Append(@, [seq |-> n[i], to |-> client_addr[Oppo(i)]])]
  /\ late' = IF shut THEN [late EXCEPT ![i].sends = @ + 1] ELSE late
  /\ UNCHANGED <<mainpc, callpc, n, shut, client_addr, blocking, rx, arrived>>

Relay(i) ==
  SetNonblocking(i) \/ First(i) \/ FirstCheck(i) \/ Drop(i) \/ DropRecv(i)
  \/ DropCheck(i) \/ SetBlocking(i) \/ Loop(i) \/ Recv(i) \/ Forward(i)

CallStep == CallSpin \/ \E i \in Sides : CallCreate(i)

Next ==
  \/ \E i \in Sides, a \in Addrs : Arrive(i, a)
  \/ KillThread
  \/ Joined
  \/ CallStep
  \/ \E i \in Sides : Relay(i)

Spec == Init /\ [][Next]_vars

\* Threads run; nothing says that packets come or that the call is shut.
FairSpec ==
  /\ Spec
  /\ WF_vars(Joined)
  /\ WF_vars(CallStep)
  /\ \A i \in Sides : WF_vars(Relay(i))

-----------------------------------------------------------------------------
RelayPcs == {"none", "start", "first", "firstcheck", "drop", "droprecv", "dropcheck",
             "setblocking", "loop", "recv", "send", "ended"}

\* Every variable has its type; a packet goes to a client's address only (udpproxy.h:101).
TypeOK ==
  /\ mainpc \in {"up", "join", "done"}
  /\ callpc \in {"create0", "create1", "spin", "ended"}
  /\ pc \in [Sides -> RelayPcs]
  /\ shut \in BOOLEAN
  /\ client_addr \in [Sides -> Addrs \cup {NoAddr}]
  /\ blocking \in [Sides -> BOOLEAN]
  /\ \A i \in Sides : /\ n[i] \in {Nothing} \cup Seqs(i)
                     /\ rx[i] \in Seq(Packet(i))
                     /\ arrived[i] \in {0} \cup Seqs(i)
                     /\ out[i] \in Seq([seq : Seqs(i), to : Addrs])
  /\ late \in [Sides -> [drops : Nat, sends : Nat]]

(***************************************************************************)
(* Each relay thread forwards a run of its client's packets without a gap, *)
(* a repetition or a change of order, ending with the last one taken, and  *)
(* never an empty receive (udpproxy.h:74-102).                             *)
(***************************************************************************)
ForwardsARun ==
  \A i \in Sides :
    /\ \A k \in 1 .. Len(out[i]) : /\ out[i][k].seq = out[i][1].seq + k - 1
                                   /\ out[i][k].seq # Nothing
    /\ out[i] # <<>> =>
         out[i][Len(out[i])].seq + (IF pc[i] = "send" THEN 1 ELSE 0) + Len(rx[i])
           = arrived[i]

(***************************************************************************)
(* Once the other client's address is known a thread drops at most one     *)
(* more packet, however its two loops before the forwarding one interleave *)
(* with the other thread (udpproxy.h:76-94).                               *)
(***************************************************************************)
AtMostOneLateDrop == \A i \in Sides : late[i].drops <= 1

(***************************************************************************)
(* After the call is shut each thread forwards at most one more packet     *)
(* (udpproxy.h:98-102).                                                    *)
(***************************************************************************)
AtMostOneLateSend == \A i \in Sides : late[i].sends <= 1

Connected(i) == pc[i] \in {"loop", "recv", "send"}

(***************************************************************************)
(* When both clients have sent something, both threads get to the          *)
(* forwarding loop, unless the call is shut first (udpproxy.h:74-96): no   *)
(* packet but the first of each is needed for it.                          *)
(***************************************************************************)
BothConnect ==
  (\A i \in Sides : arrived[i] > 0) ~> (shut \/ \A i \in Sides : Connected(i))

(***************************************************************************)
(* kill_thread returns: its join() of `call' (threadcontrol.cpp:37) is not *)
(* for ever, whatever the relay threads wait for.                          *)
(***************************************************************************)
KillReturns == mainpc = "join" ~> mainpc = "done"

(***************************************************************************)
(* After a shut every relay thread ends, but for one that is waiting in    *)
(* the forwarding loop for a packet that does not come (udpproxy.h:98-100):*)
(* that one outlives its call, against what threadcontrol.cpp:31 says.     *)
(***************************************************************************)
EndsUnlessWaiting ==
  \A i \in Sides :
    shut ~> (pc[i] = "ended" \/ (pc[i] = "recv" /\ rx[i] = <<>>))
=============================================================================
