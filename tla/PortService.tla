----------------------------- MODULE PortService -----------------------------
(***************************************************************************)
(* What get_port (module_rtpproxy.c) promises its callers: a sequential    *)
(* service that gives each call a pair of neighbouring ports, one call     *)
(* after another, as if there were no other process; and what a caller     *)
(* that is killed leaves to the next one.                                  *)
(***************************************************************************)
EXTENDS Integers, Sequences

CONSTANTS CallIds, FirstPort, PairCount

NoPair   == <<0, 0>>
AllPairs == {<<FirstPort + 2 * i, FirstPort + 2 * i + 1>> : i \in 0 .. PairCount - 1}

None    == "none"
Nothing == [key |-> None, port |-> 0]

VARIABLES
  alloc,     \* the pair of each call
  answers,   \* the answers that nobody has collected yet, in order
  caller,    \* the call whose request is under way
  got        \* the last answer the caller had, and for which call

vars == <<alloc, answers, caller, got>>

Init ==
  /\ alloc = [k \in CallIds |-> NoPair]
  /\ answers = <<>>
  /\ caller = None
  /\ got = Nothing

Free == {pair \in AllPairs : \A k \in CallIds : alloc[k] # pair}

\* Call k is owed an answer.
Owe(k) == caller = None /\ caller' = k /\ UNCHANGED got

\* get_port(1): the caller's port; a call that has none gets a free pair.
Apply(k) ==
  /\ Owe(k)
  /\ \/ /\ alloc[k] # NoPair
        /\ answers' = Append(answers, alloc[k][1])
        /\ UNCHANGED alloc
     \/ /\ alloc[k] = NoPair
        /\ \E pair \in Free :
             answers' = Append(answers, pair[1]) /\ alloc' = [alloc EXCEPT ![k] = pair]
     \/ /\ alloc[k] = NoPair /\ Free = {}
        /\ answers' = Append(answers, 0)
        /\ UNCHANGED alloc

\* get_port(2): the callee's port, 0 for no call.
Query(k) ==
  /\ Owe(k)
  /\ answers' = Append(answers, alloc[k][2])
  /\ UNCHANGED alloc

\* get_port(3): nothing is owed.
Release(k) ==
  /\ caller = None
  /\ UNCHANGED <<caller, got>>
  /\ alloc' = [alloc EXCEPT ![k] = NoPair]
  /\ UNCHANGED answers

\* The first answer is taken: the caller's own, if no caller has been killed.
Return ==
  /\ caller # None
  /\ caller' = None
  /\ got' = [key |-> caller, port |-> Head(answers)]
  /\ answers' = Tail(answers)
  /\ UNCHANGED alloc

\* The caller is killed; what it is owed stays.
Kill ==
  /\ caller' = None
  /\ got' = Nothing
  /\ UNCHANGED <<alloc, answers>>

Next == Return \/ Kill \/ \E k \in CallIds : Apply(k) \/ Query(k) \/ Release(k)

Spec == Init /\ [][Next]_vars
=============================================================================
