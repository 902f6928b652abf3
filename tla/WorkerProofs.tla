----------------------------- MODULE WorkerProofs -----------------------------
(***************************************************************************)
(* Theorems about CryptoWorker: what travels between the client and the     *)
(* workers it has started is followed by the places where a call, or its    *)
(* proof, can be found; there is never more than one.                       *)
(***************************************************************************)
EXTENDS CryptoWorker, TLAPS

(* The proof of a call is its own and no other's, also in the program's bytes. *)
LEMMA ProofsDiffer ==
    /\ \A c, d : Proof(c) = Proof(d) => c = d
    /\ \A c, d : verifyProof(Proof(c).proof, d) <=> c = d
    /\ \A c : Proof(c).kind = "proof" /\ Proof(c) \notin {Unsettled, Rejected}
<1>1. \A c : Proof(c).proof[1] = <<c, "ax">>
  BY DEF Proof, serializeProof, FullProve
<1>2. \A c, d : Proof(c) = Proof(d) => c = d
  BY <1>1
<1>3. \A c : ParseProof(Proof(c).proof) = FullProve(c)
  BY DEF Proof, serializeProof, ParseProof, FullProve
<1>4. \A c, d : FullProve(c) = FullProve(d) => c = d
  BY DEF FullProve
<1>5. \A c : Proof(c).kind = "proof"
  BY DEF Proof
<1>6. \A c : Proof(c) \notin {Unsettled, Rejected}
  BY <1>5 DEF Unsettled, Rejected
<1> QED
  BY <1>2, <1>3, <1>4, <1>5, <1>6 DEF verifyProof

-----------------------------------------------------------------------------
(* Where a call or its proof can be. *)

(* Request b of worker a, attempt b of worker (or main thread) a, message b   *)
(* from worker a, and the promise of call a; call 0 stands for a failure,     *)
(* which a worker reports without saying whose.                              *)
Answers(e) == IF e = 0 THEN {Rejected, [kind |-> "onerror"]} ELSE {Proof(e)}

At(k, a, b, e) ==
    \/ /\ k = "asked" /\ a \in Workers /\ b \in 1..Len(inbox[a])
       /\ inbox[a][b] = [type |-> "prove", call |-> e]
    \/ k = "runs" /\ [at |-> a, call |-> e, attempt |-> b] \in jobs
    \/ /\ k = "answered" /\ a \in Workers /\ b \in 1..Len(outbox[a])
       /\ outbox[a][b] \in Answers(e)
    \/ k = "got" /\ a \in Calls /\ b = 0 /\ e # 0 /\ outcome[a] = Proof(e)

CallsOrNone == Calls \cup {0}

Running(w) == state[w] \in {"Loading", "Ready"}

(* A worker is told to start before anything else, answers nothing before it  *)
(* has, and proves nothing unless it could; one that stopped is silent.      *)
ShapeOf(w) ==
    /\ w > started => state[w] = "Absent"
    /\ state[w] \in {"Absent", "Terminated"} => inbox[w] = <<>> /\ outbox[w] = <<>>
    /\ state[w] \in {"Loading", "LoadingBroken"} =>
          /\ outbox[w] = <<>> /\ inbox[w] # <<>>
          /\ \A i \in 2..Len(inbox[w]) : inbox[w][i] \in [type: {"prove"}, call: Calls]
    /\ state[w] \in {"Ready", "Broken"} =>
          \A i \in 1..Len(inbox[w]) : inbox[w][i] \in [type: {"prove"}, call: Calls]
    /\ state[w] # "Ready" =>
          /\ \A i \in 1..Len(outbox[w]) : outbox[w][i].kind # "proof"
          /\ \A j \in jobs : j.at # w

Shape ==
    /\ \A w \in Workers : ShapeOf(w)
    /\ worker # 0 => state[worker] \notin {"Absent", "Terminated"}
    /\ overlapped \subseteq 1..calls

Base == TypeOK /\ Shape

(* The state machine of one worker reads and writes what is the worker's.    *)
LEMMA QueueFacts ==
    ASSUME NEW S, NEW s \in Seq(S)
    PROVE  /\ Len(s) \in Nat
           /\ \A i \in 1..Len(s) : s[i] \in S
           /\ \A x \in S : /\ Append(s, x) \in Seq(S) /\ Len(Append(s, x)) = Len(s) + 1
                           /\ Append(s, x)[Len(s) + 1] = x
                           /\ \A i \in 1..Len(s) : Append(s, x)[i] = s[i]
           /\ s # <<>> => /\ Len(s) > 0 /\ Head(s) = s[1]
                          /\ Tail(s) \in Seq(S) /\ Len(Tail(s)) = Len(s) - 1
                          /\ \A i \in 1..Len(s) - 1 : Tail(s)[i] = s[i + 1]
OBVIOUS

(* A step that leaves a worker's queues, state and attempts alone.            *)
LEMMA ShapeKept ==
    ASSUME NEW w \in Workers, ShapeOf(w), started \in Nat, started' \in Nat,
           started' >= started,
           state'[w] = state[w], inbox'[w] = inbox[w], outbox'[w] = outbox[w],
           \A j \in jobs' : j.at = w => \E i \in jobs : i.at = w
    PROVE  ShapeOf(w)'
<1>1. w > started' => w > started
  BY BoundsAssumption DEF Workers
<1> QED
  BY <1>1 DEF ShapeOf

LEMMA WorkerIsOne ==
    ASSUME TypeOK
    PROVE  /\ started \in Nat /\ calls \in Nat
           /\ worker # 0 => worker \in Workers
<1>1. MaxWorkers \in Nat /\ MaxCalls \in Nat
  BY BoundsAssumption
<1> QED
  BY <1>1 DEF TypeOK, Workers

LEMMA InitBase == Init => Base
<1> SUFFICES ASSUME Init
             PROVE  Base
  OBVIOUS
<1>1. TypeOK
  BY BoundsAssumption DEF Init, TypeOK, Calls, Workers
<1>2. Shape
  BY BoundsAssumption DEF Init, Shape, ShapeOf, Workers
<1> QED
  BY <1>1, <1>2 DEF Base

LEMMA StartBase ==
    ASSUME Base, StartWorker
    PROVE  Base'
<1> DEFINE n == started + 1
<1>1. n \in Workers /\ started \in Nat /\ n \in 0..MaxWorkers /\ n \in 0..n
  BY BoundsAssumption DEF Base, TypeOK, StartWorker, Workers
<1>2. <<[type |-> "init"]>> \in Seq(Requests) /\ <<[type |-> "init"]>> # <<>>
      /\ Len(<<[type |-> "init"]>>) = 1
  BY DEF Requests
<1>3. PICK s \in {"Loading", "LoadingBroken"} :
         /\ state' = [state EXCEPT ![n] = s]
         /\ inbox' = [inbox EXCEPT ![n] = <<[type |-> "init"]>>]
         /\ worker' = n /\ started' = n
         /\ UNCHANGED <<pending, calls, outcome, outbox, jobs, overlapped>>
  BY DEF StartWorker
<1>4. state[n] = "Absent"
  BY <1>1 DEF Base, Shape, ShapeOf, TypeOK
<1>5. TypeOK'
  BY <1>1, <1>2, <1>3 DEF Base, TypeOK
<1>6. Shape'
  <2>1. \A w \in Workers : w # n =>
           /\ state'[w] = state[w] /\ inbox'[w] = inbox[w] /\ outbox'[w] = outbox[w]
    BY <1>3 DEF Base, TypeOK
  <2>2. state'[n] = s /\ inbox'[n] = <<[type |-> "init"]>> /\ outbox'[n] = <<>>
    BY <1>1, <1>3, <1>4 DEF Base, TypeOK, Shape, ShapeOf
  <2>3. started' \in Nat /\ started' >= started
    BY <1>1, <1>3
  <2>4. \A j \in jobs : j.at # n
    BY <1>1, <1>4 DEF Base, Shape, ShapeOf
  <2>5. \A w \in Workers : w # n => ShapeOf(w)'
    BY <1>1, <1>3, <2>1, <2>3, ShapeKept DEF Base, Shape
  <2>6. \A w \in Workers : w = n => ShapeOf(w)'
    <3>1. ~(n > n) /\ 1..0 = {} /\ 2..1 = {} /\ Len(<<>>) = 0
      BY <1>1
    <3>2. jobs' = jobs /\ started' = n /\ s \in {"Loading", "LoadingBroken"}
      BY <1>3
    <3> HIDE DEF n
    <3> QED
      BY <1>2, <2>2, <2>4, <3>1, <3>2 DEF ShapeOf
  <2>7. overlapped' \subseteq 1..calls' /\ state'[worker'] \in {"Loading", "LoadingBroken"}
    BY <1>3, <2>2 DEF Base, Shape
  <2> QED
    BY <2>5, <2>6, <2>7 DEF Shape
<1> QED
  BY <1>5, <1>6 DEF Base

LEMMA NoWorkersBase ==
    ASSUME Base, NoWorkers
    PROVE  Base'
BY DEF Base, TypeOK, Shape, ShapeOf, NoWorkers

LEMMA GenerateBase ==
    ASSUME Base, GenerateProof
    PROVE  Base'
<1> DEFINE c == calls + 1
<1>1. c \in Calls /\ calls \in Nat /\ c \in 0..MaxCalls /\ 1..calls \subseteq 1..c /\ c \in 1..c
  BY BoundsAssumption DEF Base, TypeOK, GenerateProof, Calls
<1>2. overlapped' \subseteq 1..c /\ overlapped' \subseteq Calls
  BY <1>1 DEF Base, TypeOK, Shape, GenerateProof, Calls
<1>3. CASE worker # 0
  <2> DEFINE req == [type |-> "prove", call |-> c]
  <2>1. req \in Requests /\ req \in [type: {"prove"}, call: Calls]
    BY <1>1 DEF Requests
  <2>2. /\ inbox' = [inbox EXCEPT ![worker] = Append(@, req)]
        /\ pending' = c /\ calls' = c
        /\ UNCHANGED <<worker, started, outcome, outbox, state, jobs>>
    BY <1>3 DEF GenerateProof
  <2>3. worker \in Workers
    BY <1>3, WorkerIsOne DEF Base
  <2> DEFINE q == inbox[worker]
  <2>4. /\ q \in Seq(Requests) /\ Len(q) \in Nat
        /\ Append(q, req) \in Seq(Requests) /\ Len(Append(q, req)) = Len(q) + 1
        /\ Append(q, req)[Len(q) + 1] = req
        /\ \A i \in 1..Len(q) : Append(q, req)[i] = q[i]
    <3>1. q \in Seq(Requests)
      BY <2>3 DEF Base, TypeOK
    <3> HIDE DEF q, req
    <3> QED
      BY <3>1, <2>1, QueueFacts
  <2>5. /\ inbox'[worker] = Append(q, req) /\ inbox' \in [Workers -> Seq(Requests)]
        /\ \A w \in Workers : w # worker => inbox'[w] = inbox[w]
    BY <2>2, <2>3, <2>4 DEF Base, TypeOK
  <2>6. TypeOK'
    BY <1>1, <1>2, <2>2, <2>5 DEF Base, TypeOK
  <2> HIDE DEF req, q
  <2>7. /\ Append(q, req) # <<>>
        /\ \A i \in 1..Len(Append(q, req)) : i \in 1..Len(q) \/ (i = Len(q) + 1)
        /\ Len(q) > 0 => \A i \in 2..Len(Append(q, req)) : i \in 2..Len(q) \/ (i = Len(q) + 1)
    BY <2>4
  <2>8. q # <<>> => Len(q) > 0
    BY <2>4
  <2>9. state[worker] \notin {"Absent", "Terminated"}
    BY <1>3 DEF Base, Shape
  <2>10. \A w \in Workers : w # worker => ShapeOf(w)'
    BY <2>2, <2>5, WorkerIsOne, ShapeKept DEF Base, Shape
  <2>11. ShapeOf(worker)'
    <3>1. state[worker] \in {"Loading", "LoadingBroken"} => q # <<>>
      BY <2>3 DEF Base, Shape, ShapeOf, q
    <3> QED
      BY <3>1, <2>1, <2>2, <2>3, <2>4, <2>5, <2>7, <2>8, <2>9 DEF Base, Shape, ShapeOf, q
  <2>12. Shape'
    BY <1>2, <2>2, <2>9, <2>10, <2>11 DEF Shape
  <2> QED
    BY <2>6, <2>12 DEF Base
<1>4. CASE worker = 0
  <2>1. /\ jobs' = jobs \cup {[at |-> 0, call |-> c, attempt |-> 0]}
        /\ calls' = c
        /\ UNCHANGED <<worker, started, pending, outcome, inbox, outbox, state>>
    BY <1>4 DEF GenerateProof
  <2>2. [at |-> 0, call |-> c, attempt |-> 0] \in [at: 0..MaxWorkers, call: Calls, attempt: 0..maxRetries]
    BY <1>1, BoundsAssumption
  <2>3. TypeOK'
    BY <1>1, <1>2, <2>1, <2>2 DEF Base, TypeOK
  <2>4. \A w \in Workers : \A j \in jobs' : j.at = w => j \in jobs
    BY <2>1, BoundsAssumption DEF Workers
  <2>5. \A w \in Workers : ShapeOf(w)'
    BY <2>1, <2>4, WorkerIsOne, ShapeKept DEF Base, Shape
  <2>6. Shape'
    BY <1>2, <1>4, <2>1, <2>5 DEF Base, Shape
  <2> QED
    BY <2>3, <2>6 DEF Base
<1> QED
  BY <1>3, <1>4

LEMMA TerminateBase ==
    ASSUME Base, Terminate
    PROVE  Base'
<1>1. worker \in Workers /\ worker # 0
  BY WorkerIsOne DEF Base, Terminate
<1>2. /\ inbox' = [inbox EXCEPT ![worker] = <<>>]
      /\ outbox' = [outbox EXCEPT ![worker] = <<>>]
      /\ state' = [state EXCEPT ![worker] = "Terminated"]
      /\ jobs' = {j \in jobs : j.at # worker}
      /\ worker' = 0
      /\ UNCHANGED <<pending, started, calls, outcome, overlapped>>
  BY DEF Terminate
<1>3. TypeOK'
  <2>1. <<>> \in Seq(Requests) /\ <<>> \in Seq(Responses)
    OBVIOUS
  <2> QED
    BY <1>1, <1>2, <2>1 DEF Base, TypeOK
<1>4. \A w \in Workers : w # worker => ShapeOf(w)'
  <2>1. \A w \in Workers : w # worker =>
           /\ state'[w] = state[w] /\ inbox'[w] = inbox[w] /\ outbox'[w] = outbox[w]
    BY <1>2 DEF Base, TypeOK
  <2> QED
    BY <1>2, <2>1, WorkerIsOne, ShapeKept DEF Base, Shape
<1>5. ShapeOf(worker) /\ state[worker] # "Absent"
  BY <1>1 DEF Base, Shape
<1>6. /\ state'[worker] = "Terminated" /\ inbox'[worker] = <<>> /\ outbox'[worker] = <<>>
      /\ \A j \in jobs' : j.at # worker
  BY <1>1, <1>2 DEF Base, TypeOK
<1>7. \A w \in Workers : w = worker => ShapeOf(w)'
  BY <1>2, <1>5, <1>6 DEF ShapeOf
<1>8. Shape'
  BY <1>2, <1>4, <1>7 DEF Base, Shape
<1> QED
  BY <1>3, <1>8 DEF Base

(* What a response does to the pending call.                                 *)
LEMMA SettleTypes ==
    ASSUME TypeOK, NEW r \in Responses, Settle(r)
    PROVE  /\ pending' \in {pending, NoCall}
           /\ outcome' \in [Calls -> {Unsettled, Rejected} \cup {Proof(c) : c \in Calls}]
<1>1. r.kind = "proof" => r \in {Proof(c) : c \in Calls}
  BY DEF Responses, Rejected, Proof
<1>2. pending # NoCall => pending \in Calls
  <2>1. calls \in Nat /\ calls <= MaxCalls /\ MaxCalls \in Nat
    BY BoundsAssumption DEF TypeOK
  <2>2. 1..calls \subseteq 1..MaxCalls
    BY <2>1
  <2> QED
    BY <2>2 DEF TypeOK, Calls
<1> QED
  BY <1>1, <1>2 DEF Settle, TypeOK

LEMMA DeliverBase ==
    ASSUME Base, NEW w \in Workers, Deliver(w)
    PROVE  Base'
<1> DEFINE q == outbox[w]
<1>1. q \in Seq(Responses) /\ q # <<>>
  BY DEF Base, TypeOK, Deliver
<1>2. /\ Head(q) = q[1] /\ q[1] \in Responses /\ Tail(q) \in Seq(Responses)
      /\ Len(Tail(q)) = Len(q) - 1 /\ Len(q) \in Nat /\ Len(q) > 0
      /\ \A i \in 1..Len(q) - 1 : Tail(q)[i] = q[i + 1]
  <2> HIDE DEF q
  <2>1. Len(q) \in Nat /\ Len(q) > 0
    BY <1>1, QueueFacts
  <2>2. 1 \in 1..Len(q)
    BY <2>1
  <2> QED
    BY <1>1, <2>1, <2>2, QueueFacts
<1>3. /\ outbox' = [outbox EXCEPT ![w] = Tail(q)]
      /\ UNCHANGED <<worker, started, calls, inbox, state, jobs, overlapped>>
      /\ Settle(Head(q))
  BY DEF Deliver
<1>4. /\ pending' \in {pending, NoCall}
      /\ outcome' \in [Calls -> {Unsettled, Rejected} \cup {Proof(c) : c \in Calls}]
  BY <1>2, <1>3, SettleTypes DEF Base
<1>5. TypeOK'
  <2>1. outbox' \in [Workers -> Seq(Responses)]
    BY <1>2, <1>3 DEF Base, TypeOK
  <2> QED
    BY <1>3, <1>4, <2>1 DEF Base, TypeOK
<1>6. outbox'[w] = Tail(q) /\ \A v \in Workers : v # w => outbox'[v] = outbox[v]
  BY <1>3 DEF Base, TypeOK
<1>7. \A v \in Workers : v # w => ShapeOf(v)'
  BY <1>3, <1>6, WorkerIsOne, ShapeKept DEF Base, Shape
<1>8. ShapeOf(w)'
  <2>1. ShapeOf(w) /\ outbox[w] # <<>>
    BY <1>1 DEF Base, Shape
  <2>2. \A i \in 1..Len(Tail(q)) : i \in 1..Len(q) - 1 /\ i + 1 \in 1..Len(q)
    BY <1>2
  <2>3. \A i \in 1..Len(Tail(q)) : Tail(q)[i] = q[i + 1]
    BY <1>2, <2>2
  <2>4. UNCHANGED <<started, inbox[w], state[w], jobs>> /\ outbox'[w] = Tail(q)
    BY <1>3, <1>6
  <2> QED
    BY <2>1, <2>2, <2>3, <2>4 DEF ShapeOf
<1>9. Shape'
  BY <1>3, <1>7, <1>8 DEF Base, Shape
<1> QED
  BY <1>5, <1>9 DEF Base

LEMMA LoadFailsBase ==
    ASSUME Base, NEW w \in Workers, LoadFails(w)
    PROVE  Base'
<1> DEFINE x == [kind |-> "onerror"]
<1>1. /\ state[w] \in {"Loading", "LoadingBroken"}
      /\ state' = [state EXCEPT ![w] = "Dead"]
      /\ inbox' = [inbox EXCEPT ![w] = <<>>]
      /\ outbox' = [outbox EXCEPT ![w] = Append(@, x)]
      /\ UNCHANGED <<worker, pending, started, calls, overlapped, outcome, jobs>>
  BY DEF LoadFails, client
<1>2. ShapeOf(w) /\ outbox[w] = <<>>
  BY <1>1 DEF Base, Shape, ShapeOf
<1>3. x \in Responses /\ x.kind # "proof" /\ Append(<<>>, x) = <<x>>
      /\ <<x>> \in Seq(Responses) /\ <<>> \in Seq(Requests)
  BY DEF Responses
<1>4. TypeOK'
  BY <1>1, <1>2, <1>3 DEF Base, TypeOK
<1>5. /\ state'[w] = "Dead" /\ inbox'[w] = <<>> /\ outbox'[w] = <<x>>
      /\ \A v \in Workers : v # w =>
            state'[v] = state[v] /\ inbox'[v] = inbox[v] /\ outbox'[v] = outbox[v]
  BY <1>1, <1>2, <1>3 DEF Base, TypeOK
<1>6. \A v \in Workers : v # w => ShapeOf(v)'
  BY <1>1, <1>5, WorkerIsOne, ShapeKept DEF Base, Shape
<1>7. ShapeOf(w)'
  <2>1. \A i \in 1..Len(<<x>>) : <<x>>[i] = x
    OBVIOUS
  <2> HIDE DEF x
  <2> QED
    BY <1>1, <1>2, <1>3, <1>5, <2>1 DEF ShapeOf
<1>8. Shape'
  BY <1>1, <1>5, <1>6, <1>7 DEF Base, Shape
<1> QED
  BY <1>4, <1>8 DEF Base

(* A worker that takes a message off its queue.                              *)
LEMMA TakeRequest ==
    ASSUME TypeOK, NEW w \in Workers, inbox[w] # <<>>
    PROVE  /\ Tail(inbox[w]) \in Seq(Requests) /\ Head(inbox[w]) = inbox[w][1]
           /\ Head(inbox[w]) \in Requests /\ 1 \in 1..Len(inbox[w]) /\ Len(inbox[w]) \in Nat
           /\ Len(Tail(inbox[w])) = Len(inbox[w]) - 1
           /\ \A i \in 1..Len(Tail(inbox[w])) :
                 i + 1 \in 2..Len(inbox[w]) /\ i + 1 \in 1..Len(inbox[w])
                   /\ Tail(inbox[w])[i] = inbox[w][i + 1]
<1> DEFINE q == inbox[w]
<1>1. q \in Seq(Requests) /\ q # <<>>
  BY DEF TypeOK
<1> HIDE DEF q
<1>2. Len(q) \in Nat /\ Len(q) > 0 /\ Len(Tail(q)) = Len(q) - 1
      /\ Tail(q) \in Seq(Requests) /\ Head(q) = q[1]
  BY <1>1, QueueFacts
<1>3. 1 \in 1..Len(q)
  BY <1>2
<1>4. q[1] \in Requests
  BY <1>1, <1>3, QueueFacts
<1>5. \A i \in 1..Len(q) - 1 : Tail(q)[i] = q[i + 1]
  BY <1>1, QueueFacts
<1>6. \A i \in 1..Len(Tail(q)) : /\ i \in 1..Len(q) - 1
                                 /\ i + 1 \in 2..Len(q) /\ i + 1 \in 1..Len(q)
  BY <1>2
<1> QED
  BY <1>2, <1>3, <1>4, <1>5, <1>6 DEF q

(* A worker that posts a message.                                            *)
LEMMA PostAnswer ==
    ASSUME TypeOK, NEW w \in Workers, NEW x \in Responses
    PROVE  /\ Append(outbox[w], x) \in Seq(Responses) /\ Len(outbox[w]) \in Nat
           /\ Len(Append(outbox[w], x)) = Len(outbox[w]) + 1
           /\ \A i \in 1..Len(Append(outbox[w], x)) :
                 \/ i \in 1..Len(outbox[w]) /\ Append(outbox[w], x)[i] = outbox[w][i]
                 \/ i = Len(outbox[w]) + 1 /\ Append(outbox[w], x)[i] = x
<1> DEFINE q == outbox[w]
<1>1. q \in Seq(Responses)
  BY DEF TypeOK
<1> HIDE DEF q
<1>2. /\ Len(q) \in Nat /\ Append(q, x) \in Seq(Responses)
      /\ Len(Append(q, x)) = Len(q) + 1
      /\ Append(q, x)[Len(q) + 1] = x
      /\ \A i \in 1..Len(q) : Append(q, x)[i] = q[i]
  BY <1>1, QueueFacts
<1>3. \A i \in 1..Len(q) + 1 : i \in 1..Len(q) \/ i = Len(q) + 1
  BY <1>2
<1> QED
  BY <1>2, <1>3 DEF q

LEMMA ReceiveInitBase ==
    ASSUME Base, NEW w \in Workers, ReceiveInit(w)
    PROVE  Base'
<1>1. PICK s \in {"Ready", "Broken"}, x \in {[kind |-> "ready"], Rejected} :
         /\ state[w] \in {"Loading", "LoadingBroken"}
         /\ state' = [state EXCEPT ![w] = s]
         /\ inbox' = [inbox EXCEPT ![w] = Tail(@)]
         /\ outbox' = [outbox EXCEPT ![w] = Append(@, x)]
         /\ UNCHANGED <<worker, pending, started, calls, overlapped, outcome, jobs>>
  BY Zenon DEF ReceiveInit, client
<1>2. ShapeOf(w) /\ outbox[w] = <<>> /\ inbox[w] # <<>>
  BY <1>1 DEF Base, Shape, ShapeOf
<1>3. x \in Responses /\ x.kind # "proof"
  BY DEF Responses, Rejected
<1>4. Append(<<>>, x) = <<x>> /\ <<x>> \in Seq(Responses)
      /\ \A i \in 1..Len(<<x>>) : <<x>>[i] = x
  BY <1>3
<1>5. TypeOK'
  <2>1. Tail(inbox[w]) \in Seq(Requests)
    BY <1>2, TakeRequest DEF Base
  <2>2. inbox' \in [Workers -> Seq(Requests)] /\ outbox' \in [Workers -> Seq(Responses)]
    BY <1>1, <1>2, <1>4, <2>1 DEF Base, TypeOK
  <2> QED
    BY <1>1, <2>2 DEF Base, TypeOK
<1>6. /\ state'[w] = s /\ inbox'[w] = Tail(inbox[w]) /\ outbox'[w] = <<x>>
      /\ \A v \in Workers : v # w =>
            state'[v] = state[v] /\ inbox'[v] = inbox[v] /\ outbox'[v] = outbox[v]
  BY <1>1, <1>2, <1>4 DEF Base, TypeOK
<1>7. \A v \in Workers : v # w => ShapeOf(v)'
  BY <1>1, <1>6, WorkerIsOne, ShapeKept DEF Base, Shape
<1>8. ShapeOf(w)'
  <2>1. \A i \in 1..Len(Tail(inbox[w])) :
           i + 1 \in 2..Len(inbox[w]) /\ Tail(inbox[w])[i] = inbox[w][i + 1]
    BY <1>2, TakeRequest DEF Base
  <2>2. \A i \in 1..Len(Tail(inbox[w])) :
           Tail(inbox[w])[i] \in [type: {"prove"}, call: Calls]
    BY <1>1, <1>2, <2>1 DEF ShapeOf
  <2> QED
    BY <1>1, <1>2, <1>3, <1>4, <1>6, <2>2 DEF ShapeOf
<1>9. Shape'
  BY <1>1, <1>6, <1>7, <1>8 DEF Base, Shape
<1> QED
  BY <1>5, <1>9 DEF Base

LEMMA ReceiveProveBase ==
    ASSUME Base, NEW w \in Workers, ReceiveProve(w)
    PROVE  Base'
<1>1. /\ state[w] \in {"Ready", "Broken"} /\ inbox[w] # <<>>
      /\ inbox' = [inbox EXCEPT ![w] = Tail(@)]
      /\ UNCHANGED <<worker, pending, started, calls, overlapped, outcome, state>>
  BY DEF ReceiveProve, client
<1>2. ShapeOf(w) /\ inbox[w][1] \in [type: {"prove"}, call: Calls]
  <2>1. ShapeOf(w)
    BY DEF Base, Shape
  <2> QED
    BY <1>1, <2>1, TakeRequest DEF Base, ShapeOf
<1> DEFINE j == [at |-> w, call |-> Head(inbox[w]).call, attempt |-> 0]
<1>3. j \in [at: 0..MaxWorkers, call: Calls, attempt: 0..maxRetries] /\ j.at = w
  <2>1. Head(inbox[w]).call \in Calls
    BY <1>1, <1>2, TakeRequest DEF Base
  <2>2. w \in 0..MaxWorkers /\ 0 \in 0..maxRetries
    BY BoundsAssumption DEF Workers
  <2> QED
    BY <2>1, <2>2
<1>4. \/ state[w] = "Ready" /\ jobs' = jobs \cup {j} /\ outbox' = outbox
      \/ /\ state[w] = "Broken" /\ jobs' = jobs
         /\ outbox' = [outbox EXCEPT ![w] = Append(@, Rejected)]
  BY <1>1 DEF ReceiveProve, ProverInit
<1>5. Rejected \in Responses /\ Rejected.kind # "proof"
  BY DEF Responses, Rejected
<1>6. TypeOK'
  <2>1. inbox' \in [Workers -> Seq(Requests)]
    BY <1>1, TakeRequest DEF Base, TypeOK
  <2>2. outbox' \in [Workers -> Seq(Responses)]
    <3>1. Append(outbox[w], Rejected) \in Seq(Responses)
      BY <1>5, PostAnswer DEF Base
    <3>2. outbox \in [Workers -> Seq(Responses)]
      BY DEF Base, TypeOK
    <3> QED
      BY <1>4, <3>1, <3>2
  <2> HIDE DEF j
  <2>3. jobs' \subseteq [at: 0..MaxWorkers, call: Calls, attempt: 0..maxRetries]
    BY <1>3, <1>4 DEF Base, TypeOK
  <2> QED
    BY <1>1, <2>1, <2>2, <2>3 DEF Base, TypeOK
<1>7. /\ inbox'[w] = Tail(inbox[w])
      /\ outbox'[w] = outbox[w] \/ (state[w] = "Broken" /\ outbox'[w] = Append(outbox[w], Rejected))
      /\ \A v \in Workers : v # w => inbox'[v] = inbox[v] /\ outbox'[v] = outbox[v]
  BY <1>1, <1>4 DEF Base, TypeOK
<1>8. \A v \in Workers : v # w => \A i \in jobs' : i.at = v => i \in jobs
  BY <1>3, <1>4
<1>9. \A v \in Workers : v # w => ShapeOf(v)'
  BY <1>1, <1>7, <1>8, WorkerIsOne, ShapeKept DEF Base, Shape
<1>10. ShapeOf(w)'
  <2>1. \A i \in 1..Len(inbox'[w]) : inbox'[w][i] \in [type: {"prove"}, call: Calls]
    BY <1>1, <1>2, <1>7, TakeRequest DEF Base, ShapeOf
  <2>2. state[w] = "Broken" => /\ \A i \in 1..Len(outbox'[w]) : outbox'[w][i].kind # "proof"
                               /\ \A i \in jobs' : i.at # w
    <3> SUFFICES ASSUME state[w] = "Broken"
                 PROVE  /\ \A i \in 1..Len(outbox'[w]) : outbox'[w][i].kind # "proof"
                        /\ \A i \in jobs' : i.at # w
      OBVIOUS
    <3>1. /\ \A i \in 1..Len(outbox[w]) : outbox[w][i].kind # "proof"
          /\ \A i \in jobs : i.at # w
      BY <1>2 DEF ShapeOf
    <3>2. \A i \in 1..Len(Append(outbox[w], Rejected)) :
             \/ i \in 1..Len(outbox[w]) /\ Append(outbox[w], Rejected)[i] = outbox[w][i]
             \/ Append(outbox[w], Rejected)[i] = Rejected
      BY <1>5, PostAnswer DEF Base
    <3>3. jobs' = jobs
      BY <1>4
    <3> QED
      BY <1>5, <1>7, <3>1, <3>2, <3>3
  <2> QED
    BY <1>1, <1>2, <2>1, <2>2 DEF ShapeOf
<1>11. Shape'
  BY <1>1, <1>9, <1>10 DEF Base, Shape
<1> QED
  BY <1>6, <1>11 DEF Base

(* How an attempt of a job ends: with its proof, with an error, or in another *)
(* attempt.                                                                  *)
LEMMA AttemptEffect ==
    ASSUME Base, NEW j \in jobs, Attempt(j)
    PROVE  /\ j \in [at: 0..MaxWorkers, call: Calls, attempt: 0..maxRetries]
           /\ j.at # 0 => j.at \in Workers /\ state[j.at] = "Ready"
           /\ UNCHANGED <<worker, pending, started, calls, overlapped, inbox, state>>
           /\ \/ \E x \in {Proof(j.call), Rejected} :
                    /\ jobs' = jobs \ {j} /\ x \in Responses
                    /\ \/ j.at = 0 /\ outcome' = [outcome EXCEPT ![j.call] = x] /\ outbox' = outbox
                       \/ /\ j.at # 0 /\ outbox' = [outbox EXCEPT ![j.at] = Append(@, x)]
                          /\ outcome' = outcome
              \/ \E i \in [at: {j.at}, call: {j.call}, attempt: 0..maxRetries] :
                    /\ jobs' = (jobs \ {j}) \cup {i}
                    /\ i.attempt = j.attempt + 1
                    /\ outcome' = outcome /\ outbox' = outbox
<1>1. j \in [at: 0..MaxWorkers, call: Calls, attempt: 0..maxRetries]
  BY DEF Base, TypeOK
<1>2. j.at # 0 => j.at \in Workers /\ state[j.at] = "Ready"
  <2>1. j.at # 0 => j.at \in Workers
    BY <1>1, BoundsAssumption DEF Workers
  <2> QED
    BY <2>1 DEF Base, Shape, ShapeOf
<1>3. UNCHANGED <<worker, pending, started, calls, overlapped, inbox, state>>
  BY DEF Attempt, client
<1>4. Proof(j.call) \in Responses /\ Rejected \in Responses
  BY <1>1 DEF Responses
<1>5. ASSUME NEW x \in {Proof(j.call), Rejected}, Answer(j, x), jobs' = jobs \ {j}
      PROVE  /\ jobs' = jobs \ {j} /\ x \in Responses
             /\ \/ j.at = 0 /\ outcome' = [outcome EXCEPT ![j.call] = x] /\ outbox' = outbox
                \/ /\ j.at # 0 /\ outbox' = [outbox EXCEPT ![j.at] = Append(@, x)]
                   /\ outcome' = outcome
  BY <1>4, <1>5 DEF Answer
<1>6. ASSUME j.attempt < maxRetries
      PROVE  \E i \in [at: {j.at}, call: {j.call}, attempt: 0..maxRetries] :
                i = [j EXCEPT !.attempt = @ + 1] /\ i.attempt = j.attempt + 1
  <2>1. j.attempt + 1 \in 0..maxRetries
    BY <1>1, <1>6, BoundsAssumption
  <2> DEFINE i == [at |-> j.at, call |-> j.call, attempt |-> j.attempt + 1]
  <2>2. i = [j EXCEPT !.attempt = @ + 1]
    BY <1>1
  <2>3. i \in [at: {j.at}, call: {j.call}, attempt: 0..maxRetries] /\ i.attempt = j.attempt + 1
    BY <2>1
  <2> HIDE DEF i
  <2> QED
    BY <2>2, <2>3
<1>7. \/ Answer(j, Proof(j.call)) /\ jobs' = jobs \ {j}
      \/ Answer(j, Rejected) /\ jobs' = jobs \ {j}
      \/ /\ j.attempt < maxRetries
         /\ jobs' = (jobs \ {j}) \cup {[j EXCEPT !.attempt = @ + 1]}
         /\ UNCHANGED <<outcome, outbox>>
  BY DEF Attempt, AttemptSucceeds, AttemptFails
<1> QED
  BY <1>1, <1>2, <1>3, <1>5, <1>6, <1>7

LEMMA AttemptBase ==
    ASSUME Base, NEW j \in jobs, Attempt(j)
    PROVE  Base'
<1>1. /\ j \in [at: 0..MaxWorkers, call: Calls, attempt: 0..maxRetries]
      /\ j.at # 0 => j.at \in Workers /\ state[j.at] = "Ready"
      /\ UNCHANGED <<worker, pending, started, calls, overlapped, inbox, state>>
  BY AttemptEffect
<1>2. /\ jobs' \subseteq [at: 0..MaxWorkers, call: Calls, attempt: 0..maxRetries]
      /\ \A i \in jobs' : i \in jobs \/ i.at = j.at
  BY <1>1, AttemptEffect DEF Base, TypeOK
<1>3. outcome' \in [Calls -> {Unsettled, Rejected} \cup {Proof(c) : c \in Calls}]
  <2>1. j.call \in Calls
    BY <1>1
  <2>2. \A x \in {Proof(j.call), Rejected} : x \in {Unsettled, Rejected} \cup {Proof(c) : c \in Calls}
    BY <2>1
  <2>3. \/ outcome' = outcome
        \/ \E x \in {Proof(j.call), Rejected} : outcome' = [outcome EXCEPT ![j.call] = x]
    BY AttemptEffect
  <2> QED
    BY <2>1, <2>2, <2>3 DEF Base, TypeOK
<1>4. /\ outbox' \in [Workers -> Seq(Responses)]
      /\ \A v \in Workers : v # j.at => outbox'[v] = outbox[v]
  <2>1. ASSUME NEW x \in Responses, j.at # 0, outbox' = [outbox EXCEPT ![j.at] = Append(@, x)]
        PROVE  /\ outbox' \in [Workers -> Seq(Responses)]
               /\ \A v \in Workers : v # j.at => outbox'[v] = outbox[v]
    BY <1>1, <2>1, PostAnswer DEF Base, TypeOK
  <2> QED
    BY <2>1, AttemptEffect DEF Base, TypeOK
<1>5. TypeOK'
  BY <1>1, <1>2, <1>3, <1>4 DEF Base, TypeOK
<1>6. \A v \in Workers : v # j.at => ShapeOf(v)'
  BY <1>1, <1>2, <1>4, WorkerIsOne, ShapeKept DEF Base, Shape
<1>7. \A v \in Workers : v = j.at => ShapeOf(v)'
  <2>1. \A v \in Workers : v = j.at => ShapeOf(v) /\ v # 0
    BY BoundsAssumption DEF Base, Shape, Workers
  <2> QED
    BY <1>1, <2>1 DEF ShapeOf
<1>8. Shape'
  BY <1>1, <1>6, <1>7 DEF Base, Shape
<1> QED
  BY <1>5, <1>8 DEF Base

LEMMA NextBase ==
    ASSUME Base, [Next]_vars
    PROVE  Base'
<1>1. CASE UNCHANGED vars
  BY <1>1 DEF Base, TypeOK, Shape, ShapeOf, vars
<1> QED
  BY <1>1, StartBase, NoWorkersBase, GenerateBase, TerminateBase, DeliverBase, LoadFailsBase,
     ReceiveInitBase, ReceiveProveBase, AttemptBase DEF Next

(* Type correctness, for any number of calls, workers and retries.           *)
THEOREM WorkerTypesCorrect == Spec => []TypeOK
<1>1. Base /\ [Next]_vars => Base'
  BY NextBase
<1>2. Base => TypeOK
  BY DEF Base
<1> QED
  BY <1>1, <1>2, InitBase, PTL DEF Spec

-----------------------------------------------------------------------------
(* How the steps move what they do not create. *)

(* Every place a step leaves was one before: the queue kq of aq is one message *)
(* shorter, and what was at s is at d, where it may have become a failure.    *)
(* Only a worker that cannot prove reports failures of its own.              *)
Moves(kq, aq, s, d) ==
    /\ d[4] \in {s[4], 0}
    /\ \A k, a, b : \A e \in CallsOrNone : At(k, a, b, e)' =>
          \/ <<k, a, b, e>> = d /\ At(s[1], s[2], s[3], s[4])
          \/ k = kq /\ a = aq /\ b \in Nat \ {0} /\ At(k, a, b + 1, e)
          \/ ~(k = kq /\ a = aq) /\ <<k, a, b, e>> # s /\ At(k, a, b, e)
          \/ k = "answered" /\ e = 0 /\ ~Running(a)'

(* Where nothing is.                                                         *)
Nowhere == <<"none", 0, 1, 0>>

(* A place is of one of four kinds, and says where it is.                    *)
LEMMA PlaceTypes ==
    ASSUME Base, NEW k, NEW a, NEW b, NEW e \in CallsOrNone, At(k, a, b, e)
    PROVE  /\ k \in {"asked", "runs", "answered", "got"}
           /\ k \in {"asked", "runs"} => e \in Calls
           /\ k = "runs" => a \in 0..MaxWorkers /\ b \in Nat
           /\ k = "got" => e \in Calls
           /\ k \in {"asked", "answered"} => a \in Workers /\ b \in Nat \ {0}
<1>1. CASE k = "asked"
  <2>1. a \in Workers /\ b \in 1..Len(inbox[a]) /\ inbox[a][b] = [type |-> "prove", call |-> e]
    BY <1>1 DEF At
  <2>2. inbox[a] \in Seq(Requests)
    BY <2>1 DEF Base, TypeOK
  <2>3. inbox[a][b] \in Requests /\ Len(inbox[a]) \in Nat
    BY <2>1, <2>2, QueueFacts
  <2>4. [type |-> "prove", call |-> e] \in [type: {"prove"}, call: Calls]
    BY <2>1, <2>3 DEF Requests
  <2>5. e \in Calls
    BY <2>4
  <2> QED
    BY <1>1, <2>1, <2>3, <2>5
<1>2. CASE k = "runs"
  <2>1. [at |-> a, call |-> e, attempt |-> b]
           \in [at: 0..MaxWorkers, call: Calls, attempt: 0..maxRetries]
    BY <1>2 DEF At, Base, TypeOK
  <2> QED
    BY <1>2, <2>1
<1>3. CASE k = "answered"
  <2>1. a \in Workers /\ b \in 1..Len(outbox[a]) /\ outbox[a] \in Seq(Responses)
    BY <1>3 DEF At, Base, TypeOK
  <2>2. Len(outbox[a]) \in Nat
    BY <2>1
  <2> QED
    BY <1>3, <2>1, <2>2
<1>4. CASE k = "got"
  BY <1>4 DEF At, CallsOrNone
<1> QED
  BY <1>1, <1>2, <1>3, <1>4 DEF At

(* The client starts, forgets or stops a worker, or a script does not load.   *)
LEMMA ClientMoves ==
    ASSUME Base, StartWorker \/ NoWorkers \/ Terminate
    PROVE  \A k, a, b : \A e \in CallsOrNone :
              At(k, a, b, e)' => At(k, a, b, e) /\ (Terminate => k = "got" \/ a # worker)
<1> SUFFICES ASSUME NEW k, NEW a, NEW b, NEW e \in CallsOrNone, At(k, a, b, e)'
             PROVE  At(k, a, b, e) /\ (Terminate => k = "got" \/ a # worker)
  OBVIOUS
<1>1. CASE StartWorker
  <2>1. /\ inbox' = [inbox EXCEPT ![started + 1] = <<[type |-> "init"]>>]
        /\ UNCHANGED <<outcome, outbox, jobs>>
    BY <1>1 DEF StartWorker
  <2>2. \A w \in Workers : \/ inbox'[w] = inbox[w]
                           \/ inbox'[w] = <<[type |-> "init"]>>
    BY <2>1 DEF Base, TypeOK
  <2>3. \A i \in 1..Len(<<[type |-> "init"]>>) :
           <<[type |-> "init"]>>[i] # [type |-> "prove", call |-> e]
    OBVIOUS
  <2>4. ~Terminate
    BY <1>1, WorkerIsOne DEF Base, StartWorker, Terminate
  <2> QED
    BY <2>1, <2>2, <2>3, <2>4 DEF At
<1>2. CASE NoWorkers
  <2>1. UNCHANGED <<outcome, inbox, outbox, jobs, state>>
    BY <1>2 DEF NoWorkers
  <2>2. ~Terminate
    <3>1. worker \in Workers /\ state[worker] # "Terminated"
      BY <1>2, WorkerIsOne DEF Base, Shape, NoWorkers
    <3> QED
      BY <2>1, <3>1 DEF Terminate, Base, TypeOK
  <2> QED
    BY <2>1, <2>2 DEF At
<1>3. CASE Terminate
  <2>1. worker \in Workers /\ worker # 0
    BY <1>3, WorkerIsOne DEF Base, Terminate
  <2>2. /\ inbox' = [inbox EXCEPT ![worker] = <<>>]
        /\ outbox' = [outbox EXCEPT ![worker] = <<>>]
        /\ jobs' = {j \in jobs : j.at # worker}
        /\ outcome' = outcome
    BY <1>3 DEF Terminate
  <2>3. \A w \in Workers : \/ w = worker /\ inbox'[w] = <<>> /\ outbox'[w] = <<>>
                           \/ w # worker /\ inbox'[w] = inbox[w] /\ outbox'[w] = outbox[w]
    BY <2>1, <2>2 DEF Base, TypeOK
  <2> QED
    BY <2>2, <2>3 DEF At
<1> QED
  BY <1>1, <1>2, <1>3

NewKind == IF worker = 0 THEN "runs" ELSE "asked"
NewIndex == IF worker = 0 THEN 0 ELSE Len(inbox[worker]) + 1

(* A call enters the queue of the worker, or the main thread runs it.         *)
LEMMA GenerateMoves ==
    ASSUME Base, GenerateProof
    PROVE  \A k, a, b : \A e \in CallsOrNone : At(k, a, b, e)' =>
              At(k, a, b, e) \/ (k = NewKind /\ a = worker /\ b = NewIndex /\ e = calls + 1)
<1>1. CASE worker # 0
  <2> DEFINE req == [type |-> "prove", call |-> calls + 1]
  <2>1. worker \in Workers
    BY <1>1, WorkerIsOne DEF Base
  <2>2. /\ inbox' = [inbox EXCEPT ![worker] = Append(@, req)]
        /\ UNCHANGED <<outcome, outbox, jobs>>
    BY <1>1 DEF GenerateProof
  <2>3. inbox[worker] \in Seq(Requests)
    BY <2>1 DEF Base, TypeOK
  <2>4. /\ Len(inbox[worker]) \in Nat
        /\ Len(Append(inbox[worker], req)) = Len(inbox[worker]) + 1
        /\ Append(inbox[worker], req)[Len(inbox[worker]) + 1] = req
        /\ \A i \in 1..Len(inbox[worker]) : Append(inbox[worker], req)[i] = inbox[worker][i]
    BY <2>3
  <2>5. /\ inbox'[worker] = Append(inbox[worker], req)
        /\ \A w \in Workers : w # worker => inbox'[w] = inbox[w]
    BY <2>1, <2>2 DEF Base, TypeOK
  <2>6. \A k, a, b : \A e \in CallsOrNone : At(k, a, b, e)' =>
           At(k, a, b, e) \/ (k = "asked" /\ a = worker /\ b = Len(inbox[worker]) + 1 /\ e = calls + 1)
    <3> SUFFICES ASSUME NEW k, NEW a, NEW b, NEW e \in CallsOrNone, At(k, a, b, e)',
                        ~At(k, a, b, e)
                 PROVE  k = "asked" /\ a = worker /\ b = Len(inbox[worker]) + 1 /\ e = calls + 1
      OBVIOUS
    <3>1. /\ k = "asked" /\ a = worker /\ b \in 1..Len(inbox'[a])
          /\ inbox'[a][b] = [type |-> "prove", call |-> e]
      BY <2>2, <2>5 DEF At
    <3>2. b \in 1..Len(inbox[worker]) \/ b = Len(inbox[worker]) + 1
      BY <2>4, <2>5, <3>1
    <3>3. b \notin 1..Len(inbox[worker])
      BY <2>1, <2>4, <2>5, <3>1 DEF At
    <3>4. req = [type |-> "prove", call |-> e]
      BY <2>4, <2>5, <3>1, <3>2, <3>3
    <3> QED
      BY <3>1, <3>2, <3>3, <3>4
  <2> QED
    BY <1>1, <2>6 DEF NewKind, NewIndex
<1>2. CASE worker = 0
  <2>1. /\ jobs' = jobs \cup {[at |-> 0, call |-> calls + 1, attempt |-> 0]}
        /\ UNCHANGED <<outcome, inbox, outbox>>
    BY <1>2 DEF GenerateProof
  <2>2. \A k, a, b : \A e \in CallsOrNone : At(k, a, b, e)' =>
           At(k, a, b, e) \/ (k = "runs" /\ a = 0 /\ b = 0 /\ e = calls + 1)
    BY <2>1 DEF At
  <2> QED
    BY <1>2, <2>2 DEF NewKind, NewIndex
<1> QED
  BY <1>1, <1>2

(* A message is taken off the queue it was in, and settles or does not.      *)
LEMMA DeliverMoves ==
    ASSUME Base, NEW w \in Workers, Deliver(w)
    PROVE  /\ \E f \in CallsOrNone :
                 Moves("answered", w, <<"answered", w, 1, f>>, <<"got", pending, 0, f>>)
           /\ outcome' # outcome \/ pending' # pending =>
                 /\ pending # NoCall /\ pending' = NoCall
                 /\ \E f \in CallsOrNone : At("answered", w, 1, f)
                 /\ \/ outcome' = [outcome EXCEPT ![pending] = Rejected]
                    \/ \E f \in Calls : /\ At("answered", w, 1, f)
                                        /\ outcome' = [outcome EXCEPT ![pending] = Proof(f)]
<1> DEFINE q == outbox[w]
<1>1. q \in Seq(Responses) /\ q # <<>>
  BY DEF Base, TypeOK, Deliver
<1>2. /\ Head(q) = q[1] /\ q[1] \in Responses /\ Len(Tail(q)) = Len(q) - 1
      /\ Len(q) \in Nat /\ 1 \in 1..Len(q)
      /\ \A i \in 1..Len(q) - 1 : Tail(q)[i] = q[i + 1]
  <2> HIDE DEF q
  <2>1. Len(q) \in Nat /\ Len(q) > 0
    BY <1>1, QueueFacts
  <2>2. 1 \in 1..Len(q)
    BY <2>1
  <2> QED
    BY <1>1, <2>1, <2>2, QueueFacts
<1>3. /\ outbox' = [outbox EXCEPT ![w] = Tail(q)]
      /\ UNCHANGED <<worker, started, calls, inbox, state, jobs, overlapped>>
      /\ Settle(q[1])
  BY <1>2 DEF Deliver
<1>4. outbox'[w] = Tail(q) /\ \A v \in Workers : v # w => outbox'[v] = outbox[v]
  BY <1>3 DEF Base, TypeOK
<1>5. /\ q[1].kind = "proof" => \E f \in Calls : q[1] = Proof(f) /\ At("answered", w, 1, f)
      /\ q[1].kind \notin {"proof", "ready"} => At("answered", w, 1, 0)
  <2>1. q[1].kind = "proof" => \E f \in Calls : q[1] = Proof(f)
    BY <1>2 DEF Responses, Rejected
  <2>2. q[1].kind \notin {"proof", "ready"} => q[1] \in Answers(0)
    BY <1>2, ProofsDiffer DEF Responses, Answers
  <2>3. \A f \in Calls : f # 0
    BY DEF Calls
  <2> QED
    BY <1>2, <2>1, <2>2, <2>3 DEF At, Answers
<1>6. outcome' # outcome \/ pending' # pending =>
         /\ pending # NoCall /\ pending' = NoCall
         /\ q[1].kind # "ready"
         /\ outcome' = [outcome EXCEPT ![pending] =
                           IF q[1].kind = "proof" THEN q[1] ELSE Rejected]
  BY <1>3 DEF Settle
<1>7. outcome' # outcome \/ pending' # pending =>
         /\ pending # NoCall /\ pending' = NoCall
         /\ \E f \in CallsOrNone : At("answered", w, 1, f)
         /\ \/ outcome' = [outcome EXCEPT ![pending] = Rejected]
            \/ \E f \in Calls : /\ At("answered", w, 1, f)
                                /\ outcome' = [outcome EXCEPT ![pending] = Proof(f)]
  <2> HIDE DEF q
  <2>1. CASE q[1].kind = "proof"
    BY <1>5, <1>6, <2>1 DEF CallsOrNone
  <2>2. CASE q[1].kind # "proof"
    BY <1>5, <1>6, <2>2 DEF CallsOrNone
  <2> QED
    BY <2>1, <2>2
<1>8. PICK f \in CallsOrNone :
         q[1].kind = "proof" => f \in Calls /\ q[1] = Proof(f) /\ At("answered", w, 1, f)
  <2> HIDE DEF q
  <2>1. q[1].kind = "proof" => \E f \in Calls : q[1] = Proof(f) /\ At("answered", w, 1, f)
    BY <1>5
  <2> QED
    BY <2>1 DEF CallsOrNone
<1>9. ASSUME NEW k, NEW a, NEW b, NEW e \in CallsOrNone, At(k, a, b, e)'
      PROVE  \/ k = "got" /\ a = pending /\ b = 0 /\ e = f /\ At("answered", w, 1, f)
             \/ k = "answered" /\ a = w /\ b \in Nat \ {0} /\ At(k, a, b + 1, e)
             \/ ~(k = "answered" /\ a = w) /\ At(k, a, b, e)
  <2>1. CASE k \in {"asked", "runs"}
    BY <1>3, <1>9, <2>1 DEF At
  <2>2. CASE k = "answered" /\ a # w
    BY <1>3, <1>4, <1>9, <2>2 DEF At
  <2>3. CASE k = "answered" /\ a = w
    <3>1. b \in 1..Len(Tail(q)) /\ Tail(q)[b] \in Answers(e)
      BY <1>4, <1>9, <2>3 DEF At
    <3>2. b \in 1..Len(q) - 1 /\ b + 1 \in 1..Len(q) /\ b \in Nat \ {0} /\ Tail(q)[b] = q[b + 1]
      <4> HIDE DEF q
      <4> QED
        BY <1>2, <3>1
    <3> QED
      BY <2>3, <3>1, <3>2 DEF At
  <2>4. CASE k = "got"
    <3>1. a \in Calls /\ b = 0 /\ e # 0 /\ outcome'[a] = Proof(e)
      BY <1>9, <2>4 DEF At
    <3>2. CASE outcome'[a] = outcome[a]
      BY <2>4, <3>1, <3>2 DEF At
    <3>3. CASE outcome'[a] # outcome[a]
      <4>1. outcome' # outcome /\ outcome \in [Calls -> {Unsettled, Rejected} \cup {Proof(c) : c \in Calls}]
        BY <3>3 DEF Base, TypeOK
      <4>2. /\ a = pending
            /\ outcome'[a] = IF q[1].kind = "proof" THEN q[1] ELSE Rejected
        BY <1>6, <3>1, <3>3, <4>1
      <4>3. q[1].kind = "proof" /\ outcome'[a] = q[1]
        BY <3>1, <4>2, ProofsDiffer
      <4>4. e = f
        BY <1>8, <3>1, <4>3, ProofsDiffer
      <4> QED
        BY <1>8, <2>4, <3>1, <4>2, <4>3, <4>4
    <3> QED
      BY <3>2, <3>3
  <2> QED
    BY <1>9, <2>1, <2>2, <2>3, <2>4 DEF At
<1>10. Moves("answered", w, <<"answered", w, 1, f>>, <<"got", pending, 0, f>>)
  BY <1>9 DEF Moves
<1> QED
  BY <1>7, <1>10

LEMMA LoadFailsMoves ==
    ASSUME Base, NEW w \in Workers, LoadFails(w)
    PROVE  Moves("none", 0, Nowhere, Nowhere)
<1> DEFINE x == [kind |-> "onerror"]
<1>1. /\ state' = [state EXCEPT ![w] = "Dead"]
      /\ inbox' = [inbox EXCEPT ![w] = <<>>]
      /\ outbox' = [outbox EXCEPT ![w] = Append(@, x)]
      /\ UNCHANGED <<outcome, jobs>>
      /\ x \in Responses
  BY DEF LoadFails, Responses
<1>2. /\ \A v \in Workers : v # w => inbox'[v] = inbox[v] /\ outbox'[v] = outbox[v]
      /\ inbox'[w] = <<>> /\ outbox'[w] = Append(outbox[w], x) /\ state'[w] = "Dead"
  BY <1>1 DEF Base, TypeOK
<1>3. ASSUME NEW k, NEW a, NEW b, NEW e \in CallsOrNone, At(k, a, b, e)'
      PROVE  \/ k # "none" /\ At(k, a, b, e)
             \/ k = "answered" /\ e = 0 /\ ~Running(a)'
  <2>1. CASE k = "answered" /\ a = w
    <3>1. b \in 1..Len(Append(outbox[w], x)) /\ Append(outbox[w], x)[b] \in Answers(e)
      BY <1>2, <1>3, <2>1 DEF At
    <3>2. \/ b \in 1..Len(outbox[w]) /\ Append(outbox[w], x)[b] = outbox[w][b]
          \/ Append(outbox[w], x)[b] = x
      BY <1>1, <3>1, PostAnswer DEF Base
    <3>3. x \in Answers(e) => e = 0
      <4>1. x.kind # "proof"
        OBVIOUS
      <4> HIDE DEF x
      <4> QED
        BY <4>1, ProofsDiffer DEF Answers
    <3> QED
      BY <1>2, <2>1, <3>1, <3>2, <3>3 DEF At, Running
  <2>2. CASE ~(k = "answered" /\ a = w)
    BY <1>1, <1>2, <1>3, <2>2 DEF At
  <2> QED
    BY <2>1, <2>2
<1> QED
  BY <1>3 DEF Moves, Nowhere

LEMMA ReceiveInitMoves ==
    ASSUME Base, NEW w \in Workers, ReceiveInit(w)
    PROVE  Moves("asked", w, Nowhere, Nowhere)
<1>1. PICK st \in {"Ready", "Broken"}, x \in {[kind |-> "ready"], Rejected} :
         /\ st = "Ready" => x = [kind |-> "ready"]
         /\ state[w] \in {"Loading", "LoadingBroken"}
         /\ state' = [state EXCEPT ![w] = st]
         /\ inbox' = [inbox EXCEPT ![w] = Tail(@)]
         /\ outbox' = [outbox EXCEPT ![w] = Append(@, x)]
         /\ UNCHANGED <<outcome, jobs>>
  BY Zenon DEF ReceiveInit
<1>2. /\ \A v \in Workers : v # w => inbox'[v] = inbox[v] /\ outbox'[v] = outbox[v]
      /\ inbox'[w] = Tail(inbox[w]) /\ outbox'[w] = Append(outbox[w], x) /\ state'[w] = st
  BY <1>1 DEF Base, TypeOK
<1>3. x \in Responses /\ x.kind # "proof" /\ inbox[w] # <<>>
      /\ (x.kind = "ready" \/ st # "Ready")
  BY <1>1 DEF Responses, Rejected, Base, Shape, ShapeOf
<1>4. ASSUME NEW k, NEW a, NEW b, NEW e \in CallsOrNone, At(k, a, b, e)'
      PROVE  \/ k = "asked" /\ a = w /\ b \in Nat \ {0} /\ At(k, a, b + 1, e)
             \/ k # "none" /\ ~(k = "asked" /\ a = w) /\ At(k, a, b, e)
             \/ k = "answered" /\ e = 0 /\ ~Running(a)'
  <2>1. CASE k = "answered" /\ a = w
    <3>1. b \in 1..Len(Append(outbox[w], x)) /\ Append(outbox[w], x)[b] \in Answers(e)
      BY <1>2, <1>4, <2>1 DEF At
    <3>2. \/ b \in 1..Len(outbox[w]) /\ Append(outbox[w], x)[b] = outbox[w][b]
          \/ Append(outbox[w], x)[b] = x
      BY <1>3, <3>1, PostAnswer DEF Base
    <3>3. x \in Answers(e) => e = 0 /\ st # "Ready"
      BY <1>3, ProofsDiffer DEF Answers, Rejected
    <3>4. st # "Ready" => ~Running(w)'
      BY <1>2 DEF Running
    <3> QED
      BY <2>1, <3>1, <3>2, <3>3, <3>4 DEF At
  <2>2. CASE k = "asked" /\ a = w
    <3>1. b \in 1..Len(Tail(inbox[w])) /\ Tail(inbox[w])[b] = [type |-> "prove", call |-> e]
      BY <1>2, <1>4, <2>2 DEF At
    <3>2. b + 1 \in 1..Len(inbox[w]) /\ Tail(inbox[w])[b] = inbox[w][b + 1]
          /\ b \in Nat \ {0}
      BY <1>3, <3>1, TakeRequest DEF Base
    <3> QED
      BY <2>2, <3>1, <3>2 DEF At
  <2>3. CASE ~(k \in {"asked", "answered"} /\ a = w)
    BY <1>1, <1>2, <1>4, <2>3 DEF At
  <2> QED
    BY <2>1, <2>2, <2>3
<1> QED
  BY <1>4 DEF Moves, Nowhere

LEMMA ReceiveProveMoves ==
    ASSUME Base, NEW w \in Workers, ReceiveProve(w)
    PROVE  LET c == Head(inbox[w]).call
           IN  c \in Calls /\ Moves("asked", w, <<"asked", w, 1, c>>, <<"runs", w, 0, c>>)
<1> DEFINE c == Head(inbox[w]).call
           j == [at |-> w, call |-> c, attempt |-> 0]
<1>1. /\ state[w] \in {"Ready", "Broken"} /\ inbox[w] # <<>>
      /\ inbox' = [inbox EXCEPT ![w] = Tail(@)]
      /\ UNCHANGED <<outcome, state>>
  BY DEF ReceiveProve, client
<1>2. c \in Calls /\ inbox[w][1] = [type |-> "prove", call |-> c] /\ 1 \in 1..Len(inbox[w])
  <2>1. ShapeOf(w)
    BY DEF Base, Shape
  <2>2. Head(inbox[w]) = inbox[w][1] /\ 1 \in 1..Len(inbox[w])
    BY <1>1, TakeRequest DEF Base
  <2>3. inbox[w][1] \in [type: {"prove"}, call: Calls]
    BY <1>1, <2>1, <2>2 DEF ShapeOf
  <2> QED
    BY <2>2, <2>3
<1>3. \/ jobs' = jobs \cup {j} /\ outbox' = outbox
      \/ /\ state[w] = "Broken" /\ jobs' = jobs
         /\ outbox' = [outbox EXCEPT ![w] = Append(@, Rejected)]
  BY <1>1 DEF ReceiveProve, ProverInit
<1>4. /\ \A v \in Workers : v # w => inbox'[v] = inbox[v] /\ outbox'[v] = outbox[v]
      /\ inbox'[w] = Tail(inbox[w])
      /\ outbox'[w] = outbox[w] \/ (state[w] = "Broken" /\ outbox'[w] = Append(outbox[w], Rejected))
  BY <1>1, <1>3 DEF Base, TypeOK
<1>5. Rejected \in Responses /\ Rejected.kind # "proof"
  BY DEF Responses, Rejected
<1>6. At("asked", w, 1, c)
  BY <1>2 DEF At
<1>7. ASSUME NEW k, NEW a, NEW b, NEW e \in CallsOrNone, At(k, a, b, e)'
      PROVE  \/ k = "runs" /\ a = w /\ b = 0 /\ e = c
             \/ k = "asked" /\ a = w /\ b \in Nat \ {0} /\ At(k, a, b + 1, e)
             \/ ~(k = "asked" /\ a = w) /\ At(k, a, b, e)
             \/ k = "answered" /\ e = 0 /\ ~Running(a)'
  <2>1. CASE k = "answered" /\ a = w /\ outbox'[w] = Append(outbox[w], Rejected) /\ state[w] = "Broken"
    <3>1. b \in 1..Len(Append(outbox[w], Rejected)) /\ Append(outbox[w], Rejected)[b] \in Answers(e)
      BY <1>7, <2>1 DEF At
    <3>2. \/ b \in 1..Len(outbox[w]) /\ Append(outbox[w], Rejected)[b] = outbox[w][b]
          \/ Append(outbox[w], Rejected)[b] = Rejected
      BY <1>5, <3>1, PostAnswer DEF Base
    <3>3. Rejected \in Answers(e) => e = 0
      BY <1>5, ProofsDiffer DEF Answers
    <3>4. ~Running(w)'
      BY <1>1, <2>1 DEF Running
    <3> QED
      BY <2>1, <3>1, <3>2, <3>3, <3>4 DEF At
  <2>2. CASE k = "asked" /\ a = w
    <3>1. b \in 1..Len(Tail(inbox[w])) /\ Tail(inbox[w])[b] = [type |-> "prove", call |-> e]
      BY <1>4, <1>7, <2>2 DEF At
    <3>2. b + 1 \in 1..Len(inbox[w]) /\ Tail(inbox[w])[b] = inbox[w][b + 1]
          /\ b \in Nat \ {0}
      BY <1>1, <3>1, TakeRequest DEF Base
    <3> QED
      BY <2>2, <3>1, <3>2 DEF At
  <2>3. CASE k = "runs"
    <3>1. [at |-> a, call |-> e, attempt |-> b] \in jobs'
      BY <1>7, <2>3 DEF At
    <3>2. [at |-> a, call |-> e, attempt |-> b] = j => a = w /\ b = 0 /\ e = c
      <4> HIDE DEF c
      <4> QED
        OBVIOUS
    <3> QED
      BY <1>3, <2>3, <3>1, <3>2 DEF At
  <2>4. CASE k = "got" \/ (k = "asked" /\ a # w) \/ (k = "answered" /\ outbox'[a] = outbox[a])
    BY <1>1, <1>4, <1>7, <2>4 DEF At
  <2>5. k = "answered" => a \in Workers
    BY <1>7 DEF At
  <2> QED
    BY <1>4, <1>7, <2>1, <2>2, <2>3, <2>4, <2>5 DEF At
<1>8. Moves("asked", w, <<"asked", w, 1, c>>, <<"runs", w, 0, c>>)
  <2> HIDE DEF c
  <2> QED
    BY <1>6, <1>7 DEF Moves
<1> QED
  BY <1>2, <1>8

(* An attempt ends where its job was, or gives the main thread's caller what  *)
(* the caller asked for.                                                     *)
LEMMA AttemptMoves ==
    ASSUME Base, NEW j \in jobs, Attempt(j)
    PROVE  \E k \in {"runs", "answered", "got"}, a \in Nat, b \in Nat, e \in {j.call, 0} :
              /\ Moves("none", 0, <<"runs", j.at, j.attempt, j.call>>, <<k, a, b, e>>)
              /\ IF k = "got" THEN j.at = 0 /\ a = j.call ELSE a = j.at
<1>1. /\ j \in [at: 0..MaxWorkers, call: Calls, attempt: 0..maxRetries]
      /\ j.at # 0 => j.at \in Workers
      /\ UNCHANGED <<inbox, state>>
  BY AttemptEffect
<1>2. /\ j.at \in Nat /\ j.attempt \in Nat /\ j.call \in Nat /\ j.call # 0 /\ j.call \in Calls
      /\ j = [at |-> j.at, call |-> j.call, attempt |-> j.attempt]
  BY <1>1, BoundsAssumption DEF Calls
<1>3. At("runs", j.at, j.attempt, j.call)
  BY <1>2 DEF At
<1> DEFINE src == <<"runs", j.at, j.attempt, j.call>>
<1>4. ASSUME NEW x \in {Proof(j.call), Rejected}, jobs' = jobs \ {j},
             j.at = 0, outcome' = [outcome EXCEPT ![j.call] = x], outbox' = outbox
      PROVE  Moves("none", 0, src, <<"got", j.call, 0, j.call>>)
  <2>1. ASSUME NEW k, NEW a, NEW b, NEW e \in CallsOrNone, At(k, a, b, e)'
        PROVE  \/ k = "got" /\ a = j.call /\ b = 0 /\ e = j.call
               \/ k # "none" /\ <<k, a, b, e>> # src /\ At(k, a, b, e)
    <3>1. CASE k = "got"
      <4>1. a \in Calls /\ b = 0 /\ e # 0 /\ outcome'[a] = Proof(e)
        BY <2>1, <3>1 DEF At
      <4>2. outcome'[a] = IF a = j.call THEN x ELSE outcome[a]
        BY <1>4, <4>1 DEF Base, TypeOK
      <4>3. a = j.call => e = j.call
        BY <4>1, <4>2, ProofsDiffer
      <4> QED
        BY <3>1, <4>1, <4>2, <4>3 DEF At
    <3>2. CASE k = "runs"
      BY <1>2, <1>4, <2>1, <3>2 DEF At
    <3>3. CASE k \in {"asked", "answered"}
      BY <1>1, <1>4, <2>1, <3>3 DEF At
    <3> QED
      BY <2>1, <3>1, <3>2, <3>3 DEF At
  <2> QED
    BY <1>3, <2>1 DEF Moves
<1>5. ASSUME NEW x \in {Proof(j.call), Rejected}, jobs' = jobs \ {j}, x \in Responses,
             j.at # 0, outbox' = [outbox EXCEPT ![j.at] = Append(@, x)], outcome' = outcome
      PROVE  \E e \in {j.call, 0} :
                Moves("none", 0, src, <<"answered", j.at, Len(outbox[j.at]) + 1, e>>)
  <2> DEFINE w == j.at
  <2>1. /\ w \in Workers
        /\ outbox'[w] = Append(outbox[w], x)
        /\ \A v \in Workers : v # w => outbox'[v] = outbox[v]
    BY <1>1, <1>5 DEF Base, TypeOK
  <2>2. PICK g \in {j.call, 0} : \A e \in CallsOrNone : x \in Answers(e) => e = g
    BY <1>2, ProofsDiffer DEF Answers
  <2>3. ASSUME NEW k, NEW a, NEW b, NEW e \in CallsOrNone, At(k, a, b, e)'
        PROVE  \/ k = "answered" /\ a = w /\ b = Len(outbox[w]) + 1 /\ e = g
               \/ k # "none" /\ <<k, a, b, e>> # src /\ At(k, a, b, e)
    <3>1. CASE k = "answered" /\ a = w
      <4>1. b \in 1..Len(Append(outbox[w], x)) /\ Append(outbox[w], x)[b] \in Answers(e)
        BY <2>1, <2>3, <3>1 DEF At
      <4>2. \/ b \in 1..Len(outbox[w]) /\ Append(outbox[w], x)[b] = outbox[w][b]
            \/ b = Len(outbox[w]) + 1 /\ Append(outbox[w], x)[b] = x
        BY <1>5, <2>1, <4>1, PostAnswer DEF Base
      <4> QED
        BY <2>1, <2>2, <3>1, <4>1, <4>2 DEF At
    <3>2. CASE k = "runs"
      BY <1>2, <1>5, <2>3, <3>2 DEF At
    <3>3. CASE k \in {"asked", "got"} \/ (k = "answered" /\ a # w)
      BY <1>1, <1>5, <2>1, <2>3, <3>3 DEF At
    <3> QED
      BY <2>3, <3>1, <3>2, <3>3 DEF At
  <2>4. Moves("none", 0, src, <<"answered", j.at, Len(outbox[j.at]) + 1, g>>)
    BY <1>3, <2>3 DEF Moves
  <2> QED
    BY <2>4
<1>6. ASSUME NEW i \in [at: {j.at}, call: {j.call}, attempt: 0..maxRetries],
             jobs' = (jobs \ {j}) \cup {i}, i.attempt = j.attempt + 1,
             outcome' = outcome, outbox' = outbox
      PROVE  Moves("none", 0, src, <<"runs", j.at, j.attempt + 1, j.call>>)
  <2>1. ASSUME NEW k, NEW a, NEW b, NEW e \in CallsOrNone, At(k, a, b, e)'
        PROVE  \/ k = "runs" /\ a = j.at /\ b = j.attempt + 1 /\ e = j.call
               \/ k # "none" /\ <<k, a, b, e>> # src /\ At(k, a, b, e)
    <3>1. CASE k = "runs"
      <4>1. [at |-> a, call |-> e, attempt |-> b] \in jobs'
        BY <2>1, <3>1 DEF At
      <4>2. [at |-> a, call |-> e, attempt |-> b] = i
               => a = j.at /\ b = j.attempt + 1 /\ e = j.call
        BY <1>6
      <4> QED
        BY <1>2, <1>6, <3>1, <4>1, <4>2 DEF At
    <3>2. CASE k # "runs"
      BY <1>1, <1>6, <2>1, <3>2 DEF At
    <3> QED
      BY <3>1, <3>2
  <2> QED
    BY <1>3, <2>1 DEF Moves
<1>7. j.at # 0 => Len(outbox[j.at]) + 1 \in Nat
  BY <1>1 DEF Base, TypeOK
<1>8. ASSUME NEW x \in {Proof(j.call), Rejected}, jobs' = jobs \ {j},
             j.at = 0, outcome' = [outcome EXCEPT ![j.call] = x], outbox' = outbox
      PROVE  \E k \in {"runs", "answered", "got"}, a \in Nat, b \in Nat, e \in {j.call, 0} :
                /\ Moves("none", 0, src, <<k, a, b, e>>)
                /\ IF k = "got" THEN j.at = 0 /\ a = j.call ELSE a = j.at
  <2>1. Moves("none", 0, src, <<"got", j.call, 0, j.call>>)
    BY <1>4, <1>8
  <2> HIDE DEF src
  <2> QED
    BY <1>2, <1>8, <2>1
<1>9. ASSUME NEW x \in {Proof(j.call), Rejected}, jobs' = jobs \ {j}, x \in Responses,
             j.at # 0, outbox' = [outbox EXCEPT ![j.at] = Append(@, x)], outcome' = outcome
      PROVE  \E k \in {"runs", "answered", "got"}, a \in Nat, b \in Nat, e \in {j.call, 0} :
                /\ Moves("none", 0, src, <<k, a, b, e>>)
                /\ IF k = "got" THEN j.at = 0 /\ a = j.call ELSE a = j.at
  <2>1. PICK e \in {j.call, 0} :
           Moves("none", 0, src, <<"answered", j.at, Len(outbox[j.at]) + 1, e>>)
    BY <1>5, <1>9
  <2> HIDE DEF src
  <2> QED
    BY <1>2, <1>7, <1>9, <2>1
<1>10. ASSUME NEW i \in [at: {j.at}, call: {j.call}, attempt: 0..maxRetries],
              jobs' = (jobs \ {j}) \cup {i}, i.attempt = j.attempt + 1,
              outcome' = outcome, outbox' = outbox
       PROVE  \E k \in {"runs", "answered", "got"}, a \in Nat, b \in Nat, e \in {j.call, 0} :
                /\ Moves("none", 0, src, <<k, a, b, e>>)
                /\ IF k = "got" THEN j.at = 0 /\ a = j.call ELSE a = j.at
  <2>1. Moves("none", 0, src, <<"runs", j.at, j.attempt + 1, j.call>>)
    BY <1>6, <1>10
  <2>2. j.attempt + 1 \in Nat
    BY <1>2
  <2> HIDE DEF src
  <2> QED
    BY <1>2, <2>1, <2>2
<1> HIDE DEF src
<1>11. \E k \in {"runs", "answered", "got"}, a \in Nat, b \in Nat, e \in {j.call, 0} :
          /\ Moves("none", 0, src, <<k, a, b, e>>)
          /\ IF k = "got" THEN j.at = 0 /\ a = j.call ELSE a = j.at
  BY <1>8, <1>9, <1>10, AttemptEffect
<1> QED
  BY <1>11 DEF src

-----------------------------------------------------------------------------
(* The steps as the invariant sees them. *)

(* A step of a worker's or the client's event loop: it moves what there is,   *)
(* revives no worker, and settles the pending call, if any, by the message    *)
(* at the head of the queue it takes from.                                   *)
Serves(kq, aq, s, d) ==
    /\ Moves(kq, aq, s, d)
    /\ UNCHANGED <<worker, started, calls, overlapped>>
    /\ kq \in {"none", "asked", "answered"} /\ s[1] # "got" /\ s[4] \in CallsOrNone
    /\ s = <<s[1], s[2], s[3], s[4]>>
    /\ s[1] = kq /\ s[2] = aq => s[3] = 1
    /\ d[1] = "got" \/ d[2] = s[2]
    /\ \A v \in Workers : Running(v)' => Running(v)
    /\ Orphaned' => Orphaned
    /\ \/ pending' = pending
       \/ /\ pending # NoCall /\ pending' = NoCall
          /\ kq = "answered" /\ aq \in Workers /\ outbox[aq] # <<>> /\ d[1] = "got"
          /\ \E f \in CallsOrNone : At("answered", aq, 1, f)

(* The promises settle as the pending call, or as a job of the main thread.   *)
Settles ==
    \/ outcome' = outcome
    \/ /\ pending # NoCall /\ pending' = NoCall
       /\ \/ outcome' = [outcome EXCEPT ![pending] = Rejected]
          \/ \E w \in Workers, f \in Calls :
                At("answered", w, 1, f) /\ outcome' = [outcome EXCEPT ![pending] = Proof(f)]
    \/ /\ pending' = pending
       /\ \E j \in jobs : \E x \in {Proof(j.call), Rejected} :
             j.at = 0 /\ outcome' = [outcome EXCEPT ![j.call] = x]

(* A worker that has stopped for good, and one replaced, stay so.             *)
LEMMA OrphanSteps ==
    ASSUME Base, UNCHANGED <<worker, started>>, Orphaned',
           \A v \in Workers :
              /\ state[v] \in {"Dead", "Terminated"} => state'[v] \in {"Dead", "Terminated"}
              /\ outbox'[v] # <<>> =>
                    outbox[v] # <<>> \/ state[v] \notin {"Dead", "Terminated"}
    PROVE  Orphaned
<1>1. PICK w \in 1..started \ {worker} :
         state'[w] \notin {"Dead", "Terminated"} \/ outbox'[w] # <<>>
  BY DEF Orphaned
<1>2. w \in Workers
  BY BoundsAssumption DEF Base, TypeOK, Workers
<1> QED
  BY <1>1, <1>2 DEF Orphaned

LEMMA DeliverServes ==
    ASSUME Base, NEW w \in Workers, Deliver(w)
    PROVE  (\E s, d : Serves("answered", w, s, d)) /\ Settles
<1>1. PICK f \in CallsOrNone :
         Moves("answered", w, <<"answered", w, 1, f>>, <<"got", pending, 0, f>>)
  BY DeliverMoves
<1>2. /\ outbox[w] # <<>> /\ outbox' = [outbox EXCEPT ![w] = Tail(@)]
      /\ UNCHANGED <<worker, started, calls, inbox, state, jobs, overlapped>>
  BY DEF Deliver
<1>3. Orphaned' => Orphaned
  BY <1>2, OrphanSteps DEF Base, TypeOK
<1>4. outcome' # outcome \/ pending' # pending =>
         /\ pending # NoCall /\ pending' = NoCall
         /\ \E g \in CallsOrNone : At("answered", w, 1, g)
         /\ \/ outcome' = [outcome EXCEPT ![pending] = Rejected]
            \/ \E g \in Calls : /\ At("answered", w, 1, g)
                                /\ outcome' = [outcome EXCEPT ![pending] = Proof(g)]
  BY DeliverMoves
<1>5. Settles
  BY <1>4 DEF Settles
<1>6. \A v \in Workers : Running(v)' => Running(v)
  BY <1>2 DEF Running
<1>7. Serves("answered", w, <<"answered", w, 1, f>>, <<"got", pending, 0, f>>)
  BY <1>1, <1>2, <1>3, <1>4, <1>6 DEF Serves
<1> QED
  BY <1>5, <1>7

LEMMA LoadFailsServes ==
    ASSUME Base, NEW w \in Workers, LoadFails(w)
    PROVE  Serves("none", 0, Nowhere, Nowhere) /\ Settles
<1>1. /\ state[w] \in {"Loading", "LoadingBroken"}
      /\ state' = [state EXCEPT ![w] = "Dead"]
      /\ outbox' = [outbox EXCEPT ![w] = Append(@, [kind |-> "onerror"])]
      /\ UNCHANGED <<worker, pending, started, calls, overlapped, outcome, jobs>>
  BY DEF LoadFails, client
<1>2. \A v \in Workers : v # w => state'[v] = state[v] /\ outbox'[v] = outbox[v]
  BY <1>1 DEF Base, TypeOK
<1>3. state'[w] = "Dead"
  BY <1>1 DEF Base, TypeOK
<1>4. Orphaned' => Orphaned
  BY <1>1, <1>2, <1>3, OrphanSteps
<1>5. \A v \in Workers : Running(v)' => Running(v)
  BY <1>2, <1>3 DEF Running
<1> QED
  BY <1>1, <1>4, <1>5, LoadFailsMoves DEF Serves, Settles, Nowhere, CallsOrNone

LEMMA ReceiveInitServes ==
    ASSUME Base, NEW w \in Workers, ReceiveInit(w)
    PROVE  Serves("asked", w, Nowhere, Nowhere) /\ Settles
<1>1. /\ state[w] \in {"Loading", "LoadingBroken"}
      /\ \/ state[w] = "Loading" /\ state' = [state EXCEPT ![w] = "Ready"]
         \/ state' = [state EXCEPT ![w] = "Broken"]
      /\ \E x : outbox' = [outbox EXCEPT ![w] = Append(@, x)]
      /\ UNCHANGED <<worker, pending, started, calls, overlapped, outcome, jobs>>
  BY DEF ReceiveInit, ProverInit, client
<1>2. \A v \in Workers : v # w => state'[v] = state[v] /\ outbox'[v] = outbox[v]
  BY <1>1 DEF Base, TypeOK
<1>3. state'[w] = "Broken" \/ state[w] = "Loading"
  BY <1>1 DEF Base, TypeOK
<1>4. Orphaned' => Orphaned
  BY <1>1, <1>2, OrphanSteps
<1>5. \A v \in Workers : Running(v)' => Running(v)
  BY <1>2, <1>3 DEF Running
<1> QED
  BY <1>1, <1>4, <1>5, ReceiveInitMoves DEF Serves, Settles, Nowhere, CallsOrNone

LEMMA ReceiveProveServes ==
    ASSUME Base, NEW w \in Workers, ReceiveProve(w)
    PROVE  (\E s, d : Serves("asked", w, s, d)) /\ Settles
<1>1. PICK c \in Calls : Moves("asked", w, <<"asked", w, 1, c>>, <<"runs", w, 0, c>>)
  BY ReceiveProveMoves
<1>2. /\ state[w] \in {"Ready", "Broken"}
      /\ outbox' = outbox \/ \E x : outbox' = [outbox EXCEPT ![w] = Append(@, x)]
      /\ UNCHANGED <<worker, pending, started, calls, overlapped, outcome, state>>
  BY DEF ReceiveProve, client
<1>3. \A v \in Workers : v # w => outbox'[v] = outbox[v]
  BY <1>2 DEF Base, TypeOK
<1>4. Orphaned' => Orphaned
  BY <1>2, <1>3, OrphanSteps
<1>5. Serves("asked", w, <<"asked", w, 1, c>>, <<"runs", w, 0, c>>)
  BY <1>1, <1>2, <1>4 DEF Serves, CallsOrNone, Running
<1> QED
  BY <1>2, <1>5 DEF Settles

LEMMA AttemptServes ==
    ASSUME Base, NEW j \in jobs, Attempt(j)
    PROVE  (\E s, d : Serves("none", 0, s, d)) /\ Settles
<1> DEFINE s == <<"runs", j.at, j.attempt, j.call>>
<1>1. PICK k \in {"runs", "answered", "got"}, a \in Nat, b \in Nat, e \in {j.call, 0} :
         /\ Moves("none", 0, s, <<k, a, b, e>>)
         /\ IF k = "got" THEN j.at = 0 /\ a = j.call ELSE a = j.at
  BY AttemptMoves
<1>2. /\ j.call \in Calls
      /\ j.at # 0 => j.at \in Workers /\ state[j.at] = "Ready"
      /\ UNCHANGED <<worker, pending, started, calls, overlapped, state>>
      /\ \/ outbox' = outbox
         \/ j.at # 0 /\ \E x : outbox' = [outbox EXCEPT ![j.at] = Append(@, x)]
      /\ \/ outcome' = outcome
         \/ \E x \in {Proof(j.call), Rejected} :
               j.at = 0 /\ outcome' = [outcome EXCEPT ![j.call] = x]
  BY AttemptEffect
<1>3. \A v \in Workers : outbox'[v] = outbox[v] \/ state[v] = "Ready"
  BY <1>2 DEF Base, TypeOK
<1>4. Orphaned' => Orphaned
  BY <1>2, <1>3, OrphanSteps
<1>5. Settles
  BY <1>2 DEF Settles
<1>6. Serves("none", 0, s, <<k, a, b, e>>)
  BY <1>1, <1>2, <1>4 DEF Serves, CallsOrNone, Running
<1> QED
  BY <1>5, <1>6

(* A step starts, forgets or stops a worker, makes a call, or serves.         *)
LEMMA StepKinds ==
    ASSUME Base, [Next]_vars
    PROVE  \/ StartWorker \/ NoWorkers \/ Terminate
           \/ GenerateProof
           \/ (\E kq, aq, s, d : Serves(kq, aq, s, d)) /\ Settles
<1>1. CASE UNCHANGED vars
  <2>1. Moves("none", 0, Nowhere, Nowhere)
    BY <1>1 DEF Moves, Nowhere, At, vars
  <2>2. Serves("none", 0, Nowhere, Nowhere) /\ Settles
    BY <1>1, <2>1 DEF Serves, Settles, Nowhere, CallsOrNone, Orphaned, Running, vars
  <2> QED
    BY <2>2
<1> QED
  BY <1>1, DeliverServes, LoadFailsServes, ReceiveInitServes, ReceiveProveServes,
     AttemptServes DEF Next

-----------------------------------------------------------------------------
(* The invariant. *)

(* Nothing is there of a call not yet made.                                  *)
Known == \A k, a, b : \A e \in Calls : At(k, a, b, e) => e <= calls

(* The pending call is the last one posted to any worker.                    *)
Latest ==
    pending # NoCall =>
        \A k, a, b : \A e \in Calls :
            At(k, a, b, e) /\ k # "got" /\ a # 0 => e <= pending

(* The pending call is unsettled and is not one the main thread runs.        *)
Posted ==
    /\ pending # NoCall =>
          /\ outcome[pending] = Unsettled
          /\ \A b : \A e \in Calls : e = pending => ~At("runs", 0, b, e)
    /\ \A c \in Calls : c > calls => outcome[c] = Unsettled

(* A call, or its proof, is in one place.                                    *)
InOnePlace ==
    \A e \in Calls : \A k, a, b, l, c, d :
        At(k, a, b, e) /\ At(l, c, d, e) => <<k, a, b>> = <<l, c, d>>

(* Whatever a worker may still prove is the pending call, unless an earlier   *)
(* call or the pending one overlapped another.                               *)
OnlyPending ==
    pending # NoCall /\ overlapped \cap 1..pending = {} =>
        \A k, a, b : \A e \in Calls :
            At(k, a, b, e) /\ k # "got" /\ a \in Workers /\ Running(a) => e = pending

(* While no call overlapped, the worker has one thing to do or to report.    *)
OneAtATime ==
    overlapped = {} =>
        \A w \in Workers : w = worker /\ Running(w) =>
            \A k, b, l, d : \A e, f \in CallsOrNone :
                /\ At(k, w, b, e) /\ k # "got" => pending # NoCall /\ ~Orphaned
                /\ At(k, w, b, e) /\ At(l, w, d, f) /\ k # "got" /\ l # "got"
                      => <<k, b, e>> = <<l, d, f>>

(* A promise gets no later call's proof, and its own unless calls overlapped. *)
Earlier == \A c, e \in Calls : outcome[c] = Proof(e) => e <= c
Own == \A c, e \in Calls : overlapped \cap 1..c = {} /\ outcome[c] = Proof(e) => e = c

WorkerInv ==
    Base /\ Known /\ Latest /\ Posted /\ InOnePlace /\ OnlyPending /\ OneAtATime
         /\ Earlier /\ Own

(* Workers that never ran, or that were stopped, hold nothing.               *)
LEMMA NothingThere ==
    ASSUME Base, NEW w \in Workers, state[w] \in {"Absent", "Terminated"},
           NEW k, k # "got", NEW b, NEW e \in CallsOrNone
    PROVE  ~At(k, w, b, e)
<1>1. inbox[w] = <<>> /\ outbox[w] = <<>> /\ \A j \in jobs : j.at # w
  BY DEF Base, Shape, ShapeOf
<1> QED
  BY <1>1 DEF At

(* The pending call is one of those made.                                    *)
LEMMA PendingCall ==
    ASSUME TypeOK
    PROVE  /\ calls \in Nat /\ calls \in 0..MaxCalls
           /\ pending # NoCall => pending \in Calls /\ pending \in 1..calls
           /\ \A c \in Calls : c \in Nat /\ c > 0
           /\ 1..calls \subseteq Calls
<1>1. calls \in Nat /\ calls <= MaxCalls /\ MaxCalls \in Nat /\ calls \in 0..MaxCalls
  BY BoundsAssumption DEF TypeOK
<1>2. 1..calls \subseteq 1..MaxCalls
  BY <1>1
<1> QED
  BY <1>1, <1>2 DEF TypeOK, Calls

(* Starting, forgetting and stopping workers leaves the rest of them theirs.  *)
LEMMA ClientKeepsInv ==
    ASSUME WorkerInv, Base', StartWorker \/ NoWorkers \/ Terminate
    PROVE  WorkerInv'
<1>1. \A k, a, b : \A e \in CallsOrNone : At(k, a, b, e)' => At(k, a, b, e)
  BY ClientMoves DEF WorkerInv
<1>2. Calls \subseteq CallsOrNone /\ \A k, a, b : \A e \in Calls : At(k, a, b, e)' => At(k, a, b, e)
  BY <1>1 DEF CallsOrNone
<1>3. UNCHANGED <<pending, calls, outcome, overlapped>>
  BY DEF StartWorker, NoWorkers, Terminate
<1>4. \A a \in Workers : Running(a)' => Running(a) \/ state[a] \in {"Absent", "Terminated"}
  <2>1. CASE StartWorker
    <3>1. started + 1 \in Workers /\ started \in Nat
      BY <2>1, BoundsAssumption DEF WorkerInv, Base, TypeOK, StartWorker, Workers
    <3>2. state[started + 1] = "Absent"
      BY <3>1 DEF WorkerInv, Base, Shape, ShapeOf
    <3>3. \E s : state' = [state EXCEPT ![started + 1] = s]
      BY <2>1 DEF StartWorker
    <3>4. \A a \in Workers : a = started + 1 \/ state'[a] = state[a]
      BY <3>3 DEF WorkerInv, Base, TypeOK
    <3> QED
      BY <3>2, <3>4 DEF Running
  <2>2. CASE NoWorkers
    BY <2>2 DEF NoWorkers, Running
  <2>3. CASE Terminate
    <3>1. \A a \in Workers : state'[a] = state[a] \/ state'[a] = "Terminated"
      BY <2>3 DEF Terminate, WorkerInv, Base, TypeOK
    <3> QED
      BY <3>1 DEF Running
  <2> QED
    BY <2>1, <2>2, <2>3
<1>5. Known' /\ Latest' /\ InOnePlace'
  BY <1>2, <1>3 DEF WorkerInv, Known, Latest, InOnePlace
<1>6. Posted'
  <2>1. \A b : \A e \in Calls : At("runs", 0, b, e)' => At("runs", 0, b, e)
    BY <1>2
  <2> QED
    BY <1>3, <2>1 DEF WorkerInv, Posted
<1>7. OnlyPending'
  <2> SUFFICES ASSUME pending # NoCall, overlapped \cap 1..pending = {},
                      NEW k, NEW a, NEW b, NEW e \in Calls,
                      At(k, a, b, e)', k # "got", a \in Workers, Running(a)'
               PROVE  e = pending
    BY <1>3 DEF OnlyPending
  <2>1. At(k, a, b, e) /\ e \in CallsOrNone
    BY <1>2
  <2>2. Running(a)
    BY <1>4, <2>1, NothingThere DEF WorkerInv
  <2> QED
    BY <2>1, <2>2 DEF WorkerInv, OnlyPending
<1>8. OneAtATime'
  <2>1. CASE worker' = 0
    <3>1. 0 \notin Workers
      BY DEF Workers
    <3> QED
      BY <2>1, <3>1 DEF OneAtATime
  <2>2. CASE worker' # 0
    <3>1. StartWorker
      BY <2>2 DEF NoWorkers, Terminate
    <3>2. worker' = started + 1 /\ started + 1 \in Workers /\ started \in Nat
      BY <3>1, BoundsAssumption DEF WorkerInv, Base, TypeOK, StartWorker, Workers
    <3>3. state[started + 1] = "Absent"
      BY <3>2 DEF WorkerInv, Base, Shape, ShapeOf
    <3>4. \A k, b : \A e \in CallsOrNone : k # "got" => ~At(k, started + 1, b, e)
      BY <3>2, <3>3, NothingThere DEF WorkerInv
    <3>5. \A k, a, b : \A e \in CallsOrNone : k # "got" /\ a = worker' => ~At(k, a, b, e)'
      BY <1>1, <3>2, <3>4
    <3> QED
      BY <3>5 DEF OneAtATime
  <2> QED
    BY <2>1, <2>2
<1>9. Earlier' /\ Own'
  BY <1>3 DEF WorkerInv, Earlier, Own
<1> QED
  BY <1>5, <1>6, <1>7, <1>8, <1>9 DEF WorkerInv

(* A call made where no earlier one is unsettled, and no worker was replaced, *)
(* finds every worker with nothing left to prove.                            *)
LEMMA CleanStart ==
    ASSUME WorkerInv, ~Orphaned, \A c \in 1..calls : outcome[c] # Unsettled, overlapped = {}
    PROVE  /\ pending = NoCall
           /\ \A k, a, b : \A e \in CallsOrNone :
                 At(k, a, b, e) /\ k # "got" /\ a \in Workers /\ Running(a) => FALSE
<1>1. pending = NoCall
  BY PendingCall DEF WorkerInv, Base, Posted
<1>2. ASSUME NEW k, NEW a \in Workers, NEW b, NEW e \in CallsOrNone,
             At(k, a, b, e), k # "got", Running(a)
      PROVE  FALSE
  <2>1. started \in Nat /\ a \in Nat /\ a > 0
    BY WorkerIsOne, BoundsAssumption DEF WorkerInv, Base, Workers
  <2>2. ~(a > started)
    BY <1>2 DEF WorkerInv, Base, Shape, ShapeOf, Running
  <2>3. a \in 1..started
    BY <2>1, <2>2
  <2>4. a = worker
    BY <1>2, <2>3 DEF Orphaned, Running
  <2> QED
    BY <1>1, <1>2, <2>4 DEF WorkerInv, OneAtATime
<1> QED
  BY <1>1, <1>2

LEMMA GenerateKeepsInv ==
    ASSUME WorkerInv, Base', GenerateProof
    PROVE  WorkerInv'
<1> DEFINE new == calls + 1
<1>1. /\ new \in Calls /\ calls \in Nat /\ new \notin 1..calls
      /\ pending # NoCall => pending \in 1..calls /\ pending \in Calls
      /\ calls' = new
  BY PendingCall, BoundsAssumption DEF WorkerInv, Base, GenerateProof, Calls
<1>2. Calls \subseteq CallsOrNone /\ new # 0
  BY <1>1 DEF CallsOrNone
<1>3. \A k, a, b : \A e \in CallsOrNone : At(k, a, b, e)' =>
         At(k, a, b, e) \/ (k = NewKind /\ a = worker /\ b = NewIndex /\ e = new)
  BY GenerateMoves DEF WorkerInv
<1>4. /\ UNCHANGED <<worker, started, outcome, outbox, state>>
      /\ pending' = (IF worker = 0 THEN pending ELSE new)
      /\ overlapped' = overlapped \/ overlapped' = overlapped \cup {new}
      /\ overlapped' = overlapped =>
            new \in overlapped \/ (~Orphaned /\ \A c \in 1..calls : outcome[c] # Unsettled)
  BY DEF GenerateProof
<1>5. overlapped \subseteq 1..calls
  BY DEF WorkerInv, Base, Shape
<1> HIDE DEF new
<1>6. \A e \in Calls : e > calls => \A k, a, b : ~At(k, a, b, e)
  BY <1>1 DEF WorkerInv, Known, Calls
<1>7. new > calls /\ \A e \in Calls : e <= calls => e <= new
  BY <1>1 DEF new, Calls
<1>8. Known'
  <2> SUFFICES ASSUME NEW k, NEW a, NEW b, NEW e \in Calls, At(k, a, b, e)'
               PROVE  e <= new
    BY <1>1 DEF Known
  <2>1. CASE At(k, a, b, e)
    BY <1>7, <2>1 DEF WorkerInv, Known
  <2>2. CASE e = new
    BY <1>1, <2>2 DEF Calls
  <2> QED
    BY <1>2, <1>3, <2>1, <2>2
<1>9. Latest'
  <2> SUFFICES ASSUME pending' # NoCall, NEW k, NEW a, NEW b, NEW e \in Calls,
                      At(k, a, b, e)', k # "got", a # 0
               PROVE  e <= pending'
    BY DEF Latest
  <2>1. CASE worker # 0
    BY <1>1, <1>4, <1>8, <2>1 DEF Known
  <2>2. CASE worker = 0
    <3>1. At(k, a, b, e)
      BY <1>2, <1>3, <2>2
    <3> QED
      BY <1>4, <2>2, <3>1 DEF WorkerInv, Latest
  <2> QED
    BY <2>1, <2>2
<1>10. Posted'
  <2>1. \A c \in Calls : c > new => c > calls
    BY <1>1, <1>7 DEF Calls
  <2>2. ASSUME pending' # NoCall, NEW b, NEW e \in Calls, e = pending', At("runs", 0, b, e)'
        PROVE  FALSE
    <3>1. e \in CallsOrNone
      BY <1>2
    <3>2. CASE worker = 0
      <4>1. e = pending /\ e # new /\ pending # NoCall
        BY <1>1, <1>4, <2>2, <3>2
      <4>2. At("runs", 0, b, e)
        BY <1>3, <2>2, <3>1, <4>1
      <4> QED
        BY <4>1, <4>2 DEF WorkerInv, Posted
    <3>3. CASE worker # 0
      <4>1. e = new /\ ~At("runs", 0, b, e)
        BY <1>1, <1>4, <1>6, <1>7, <2>2, <3>3
      <4>2. NewKind # "runs"
        BY <3>3 DEF NewKind
      <4> QED
        BY <1>3, <2>2, <3>1, <4>1, <4>2
    <3> QED
      BY <3>2, <3>3
  <2>3. pending' # NoCall => outcome[pending'] = Unsettled
    BY <1>1, <1>4, <1>7 DEF WorkerInv, Posted
  <2> QED
    BY <1>1, <1>4, <2>1, <2>2, <2>3 DEF WorkerInv, Posted
<1>11. InOnePlace'
  <2> SUFFICES ASSUME NEW e \in Calls, NEW k, NEW a, NEW b, NEW l, NEW c, NEW d,
                      At(k, a, b, e)', At(l, c, d, e)'
               PROVE  <<k, a, b>> = <<l, c, d>>
    BY DEF InOnePlace
  <2>1. CASE e = new
    BY <1>1, <1>2, <1>3, <1>6, <1>7, <2>1
  <2>2. CASE e # new
    <3>1. At(k, a, b, e) /\ At(l, c, d, e)
      BY <1>2, <1>3, <2>2
    <3> QED
      BY <3>1 DEF WorkerInv, InOnePlace
  <2> QED
    BY <2>1, <2>2
<1>12. overlapped' \cap 1..new = {} =>
          ~Orphaned /\ overlapped = {} /\ \A c \in 1..calls : outcome[c] # Unsettled
  <2>1. 1..calls \subseteq 1..new /\ new \in 1..new
    BY <1>1 DEF new
  <2> QED
    BY <1>1, <1>4, <1>5, <2>1
<1>13. OnlyPending'
  <2> SUFFICES ASSUME pending' # NoCall, overlapped' \cap 1..pending' = {},
                      NEW k, NEW a \in Workers, NEW b, NEW e \in Calls,
                      At(k, a, b, e)', k # "got", Running(a)'
               PROVE  e = pending'
    BY DEF OnlyPending
  <2>1. Running(a) /\ e \in CallsOrNone
    BY <1>2, <1>4 DEF Running
  <2>2. CASE worker = 0
    <3>1. a # worker
      BY <2>2 DEF Workers
    <3>2. At(k, a, b, e)
      BY <1>3, <2>1, <3>1
    <3>3. pending' = pending /\ overlapped \cap 1..pending = {}
      BY <1>4, <2>2
    <3> QED
      BY <2>1, <3>2, <3>3 DEF WorkerInv, OnlyPending
  <2>3. CASE worker # 0
    <3>1. pending' = new
      BY <1>4, <2>3
    <3>2. ~At(k, a, b, e)
      BY <1>12, <2>1, <3>1, CleanStart
    <3> QED
      BY <1>3, <2>1, <3>1, <3>2
  <2> QED
    BY <2>2, <2>3
<1>14. OneAtATime'
  <2> SUFFICES ASSUME overlapped' = {}, NEW w \in Workers, w = worker, Running(w)
               PROVE  /\ pending' # NoCall /\ ~Orphaned'
                      /\ \A k, b : \A e \in CallsOrNone :
                            At(k, w, b, e)' /\ k # "got" => k = NewKind /\ b = NewIndex /\ e = new
    BY <1>4 DEF OneAtATime, Running
  <2>1. worker # 0 /\ ~Orphaned /\ overlapped = {} /\ \A c \in 1..calls : outcome[c] # Unsettled
    BY <1>12 DEF Workers
  <2>2. ~Orphaned'
    BY <1>4, <2>1 DEF Orphaned
  <2>3. pending' # NoCall
    BY <1>1, <1>4, <2>1, BoundsAssumption DEF Calls
  <2>4. \A k, b : \A e \in CallsOrNone : k # "got" => ~At(k, w, b, e)
    BY <2>1, CleanStart
  <2> QED
    BY <1>3, <2>2, <2>3, <2>4
<1>15. Earlier' /\ Own'
  <2>1. Earlier'
    BY <1>4 DEF WorkerInv, Earlier
  <2>2. \A c \in Calls : overlapped' \cap 1..c = {} => overlapped \cap 1..c = {}
    BY <1>4
  <2> QED
    BY <1>4, <2>1, <2>2 DEF WorkerInv, Own
<1> QED
  BY <1>8, <1>9, <1>10, <1>11, <1>13, <1>14, <1>15 DEF WorkerInv

(* What moves keeps its identity or becomes a failure, and stays with its     *)
(* worker until it settles a promise.                                        *)
LEMMA Sources ==
    ASSUME Base, Base', NEW kq, NEW aq, NEW s, NEW d, Serves(kq, aq, s, d),
           NEW k, NEW a, NEW b, NEW e \in Calls, At(k, a, b, e)', k # "got"
    PROVE  /\ \E l, c : l # "got" /\ At(l, a, c, e)
           /\ k = "runs" /\ a = 0 => \E c : At("runs", a, c, e)
<1>1. e \in CallsOrNone /\ e # 0
  BY DEF CallsOrNone, Calls
<1>2. CASE <<k, a, b, e>> = d /\ At(s[1], s[2], s[3], s[4])
  <2>1. d[1] = k /\ d[2] = a /\ d[4] = e
    BY <1>2
  <2>2. s[2] = a /\ s[4] = e /\ s[1] # "got" /\ s[4] \in CallsOrNone
    BY <1>1, <2>1 DEF Serves, Moves
  <2>3. At(s[1], a, s[3], e)
    BY <1>2, <2>2
  <2>4. a = 0 => s[1] = "runs"
    <3>1. 0 \notin Workers
      BY DEF Workers
    <3> QED
      BY <1>1, <2>2, <2>3, <3>1, PlaceTypes
  <2> QED
    BY <2>2, <2>3, <2>4
<1>3. CASE k = kq /\ a = aq /\ b \in Nat \ {0} /\ At(k, a, b + 1, e)
  BY <1>3 DEF Serves
<1>4. CASE At(k, a, b, e)
  BY <1>4
<1> QED
  BY <1>1, <1>2, <1>3, <1>4 DEF Serves, Moves

LEMMA ServesKeepsInOnePlace ==
    ASSUME WorkerInv, Base', NEW kq, NEW aq, NEW s, NEW d, Serves(kq, aq, s, d)
    PROVE  InOnePlace'
<1> SUFFICES ASSUME NEW e \in Calls, NEW k, NEW a, NEW b, NEW l, NEW c, NEW f,
                    At(k, a, b, e)', At(l, c, f, e)'
             PROVE  <<k, a, b>> = <<l, c, f>>
  BY DEF InOnePlace
<1> DEFINE Old(m, x, y) == \/ <<m, x, y, e>> = d /\ At(s[1], s[2], s[3], e) /\ s[4] = e
                           \/ m = kq /\ x = aq /\ y \in Nat \ {0} /\ At(m, x, y + 1, e)
                           \/ ~(m = kq /\ x = aq) /\ <<m, x, y, e>> # s /\ At(m, x, y, e)
<1>1. e # 0 /\ e \in CallsOrNone
  BY DEF Calls, CallsOrNone
<1>2. \A m, x, y : At(m, x, y, e)' => Old(m, x, y)
  BY <1>1 DEF Serves, Moves
<1>3. Old(k, a, b) /\ Old(l, c, f)
  BY <1>2
<1>4. \A m, x, y, n, v, w : At(m, x, y, e) /\ At(n, v, w, e) => m = n /\ x = v /\ y = w
  BY DEF WorkerInv, InOnePlace
<1>5. s[1] = kq /\ s[2] = aq => s[3] = 1
  BY DEF Serves
<1>6. CASE <<k, a, b, e>> = d /\ At(s[1], s[2], s[3], e) /\ s[4] = e
  <2>1. CASE <<l, c, f, e>> = d
    BY <1>6, <2>1
  <2>2. CASE l = kq /\ c = aq /\ f \in Nat \ {0} /\ At(l, c, f + 1, e)
    <3>1. s[1] = l /\ s[2] = c /\ s[3] = f + 1
      BY <1>4, <1>6, <2>2
    <3> QED
      BY <1>5, <2>2, <3>1
  <2>3. CASE <<l, c, f, e>> # s /\ At(l, c, f, e)
    <3>1. s[1] = l /\ s[2] = c /\ s[3] = f
      BY <1>4, <1>6, <2>3
    <3>2. s = <<s[1], s[2], s[3], s[4]>>
      BY DEF Serves
    <3> QED
      BY <1>6, <2>3, <3>1, <3>2
  <2> QED
    BY <1>3, <2>1, <2>2, <2>3
<1>7. CASE k = kq /\ a = aq /\ b \in Nat \ {0} /\ At(k, a, b + 1, e)
  <2>1. CASE <<l, c, f, e>> = d /\ At(s[1], s[2], s[3], e)
    <3>1. s[1] = k /\ s[2] = a /\ s[3] = b + 1
      BY <1>4, <1>7, <2>1
    <3> QED
      BY <1>5, <1>7, <3>1
  <2>2. CASE l = kq /\ c = aq /\ f \in Nat \ {0} /\ At(l, c, f + 1, e)
    <3>1. b + 1 = f + 1
      BY <1>4, <1>7, <2>2
    <3> QED
      BY <1>7, <2>2, <3>1
  <2>3. CASE ~(l = kq /\ c = aq) /\ At(l, c, f, e)
    BY <1>4, <1>7, <2>3
  <2> QED
    BY <1>3, <2>1, <2>2, <2>3
<1>8. CASE ~(k = kq /\ a = aq) /\ <<k, a, b, e>> # s /\ At(k, a, b, e)
  <2>1. CASE <<l, c, f, e>> = d /\ At(s[1], s[2], s[3], e) /\ s[4] = e
    <3>1. s[1] = k /\ s[2] = a /\ s[3] = b
      BY <1>4, <1>8, <2>1
    <3>2. s = <<s[1], s[2], s[3], s[4]>>
      BY DEF Serves
    <3> QED
      BY <1>8, <2>1, <3>1, <3>2
  <2>2. CASE l = kq /\ c = aq /\ At(l, c, f + 1, e)
    BY <1>4, <1>8, <2>2
  <2>3. CASE At(l, c, f, e)
    BY <1>4, <1>8, <2>3
  <2> QED
    BY <1>3, <2>1, <2>2, <2>3
<1> QED
  BY <1>3, <1>6, <1>7, <1>8

LEMMA ServesKeepsOneAtATime ==
    ASSUME WorkerInv, Base', NEW kq, NEW aq, NEW s, NEW d, Serves(kq, aq, s, d)
    PROVE  OneAtATime'
<1> SUFFICES ASSUME overlapped = {}, NEW w \in Workers, w = worker, Running(w)'
             PROVE  \A k, b, l, c : \A e, f \in CallsOrNone :
                       /\ At(k, w, b, e)' /\ k # "got" => pending' # NoCall /\ ~Orphaned'
                       /\ At(k, w, b, e)' /\ At(l, w, c, f)' /\ k # "got" /\ l # "got"
                             => <<k, b, e>> = <<l, c, f>>
  BY DEF OneAtATime, Serves
<1>1. Running(w) /\ w # 0 /\ w \in 1..started
  <2>1. worker # 0 /\ worker \in 0..started /\ started \in Nat
    BY WorkerIsOne DEF WorkerInv, Base, TypeOK, Workers
  <2> QED
    BY <2>1 DEF Serves
<1> DEFINE In(k, b, e) == At(k, w, b, e) /\ k # "got"
           Old(k, b, e) == \/ /\ <<k, w, b, e>> = d /\ k # "got"
                              /\ s[2] = w /\ In(s[1], s[3], s[4])
                           \/ k = kq /\ w = aq /\ b \in Nat \ {0} /\ In(k, b + 1, e)
                           \/ ~(k = kq /\ w = aq) /\ <<k, w, b, e>> # s /\ In(k, b, e)
<1>2. \A k, b : \A e \in CallsOrNone : At(k, w, b, e)' /\ k # "got" => Old(k, b, e)
  <2> SUFFICES ASSUME NEW k, NEW b, NEW e \in CallsOrNone, At(k, w, b, e)', k # "got"
               PROVE  Old(k, b, e)
    OBVIOUS
  <2>1. \/ <<k, w, b, e>> = d /\ At(s[1], s[2], s[3], s[4])
        \/ k = kq /\ w = aq /\ b \in Nat \ {0} /\ At(k, w, b + 1, e)
        \/ ~(k = kq /\ w = aq) /\ <<k, w, b, e>> # s /\ At(k, w, b, e)
    BY DEF Serves, Moves
  <2>2. CASE <<k, w, b, e>> = d /\ At(s[1], s[2], s[3], s[4])
    <3>1. d[1] = k /\ d[2] = w
      BY <2>2
    <3>2. s[2] = w /\ s[1] # "got"
      BY <3>1 DEF Serves
    <3> QED
      BY <2>2, <3>2
  <2> QED
    BY <2>1, <2>2
<1>3. /\ \A k, b : \A e \in CallsOrNone : In(k, b, e) => pending # NoCall /\ ~Orphaned
      /\ \A k, b, l, c : \A e, f \in CallsOrNone :
            In(k, b, e) /\ In(l, c, f) => k = l /\ b = c /\ e = f
  BY <1>1 DEF WorkerInv, OneAtATime
<1>4. /\ s[4] \in CallsOrNone /\ s = <<s[1], s[2], s[3], s[4]>>
      /\ s[1] = kq /\ s[2] = aq => s[3] = 1
      /\ Orphaned' => Orphaned
  BY DEF Serves
<1>5. ASSUME NEW k, NEW b, NEW e \in CallsOrNone, Old(k, b, e)
      PROVE  pending' # NoCall /\ ~Orphaned'
  <2>1. pending # NoCall /\ ~Orphaned
    BY <1>3, <1>4, <1>5
  <2>2. ASSUME pending' = NoCall
        PROVE  FALSE
    <3>1. /\ kq = "answered" /\ aq \in Workers /\ outbox[aq] # <<>>
          /\ \E f \in CallsOrNone : At("answered", aq, 1, f)
          /\ d[1] = "got"
      BY <2>1, <2>2 DEF Serves
    <3>2. aq = w
      <4>1. aq \in 1..started
        <5>1. ~(aq > started)
          BY <3>1 DEF WorkerInv, Base, Shape, ShapeOf
        <5>2. aq \in Nat /\ aq > 0 /\ started \in Nat
          BY <3>1, WorkerIsOne, BoundsAssumption DEF WorkerInv, Base, Workers
        <5> QED
          BY <5>1, <5>2
      <4> QED
        BY <2>1, <3>1, <4>1 DEF Orphaned
    <3>3. PICK f \in CallsOrNone : In("answered", 1, f)
      BY <3>1, <3>2
    <3>4. CASE <<k, w, b, e>> = d /\ k # "got"
      <4>1. d[1] = k
        BY <3>4
      <4> QED
        BY <3>1, <3>4, <4>1
    <3>5. CASE k = kq /\ w = aq /\ b \in Nat \ {0} /\ In(k, b + 1, e)
      <4>1. b + 1 = 1
        BY <1>3, <3>1, <3>3, <3>5
      <4> QED
        BY <3>5, <4>1
    <3>6. CASE ~(k = kq /\ w = aq) /\ <<k, w, b, e>> # s /\ In(k, b, e)
      <4>1. k = "answered"
        BY <1>3, <3>3, <3>6
      <4> QED
        BY <3>1, <3>2, <3>6, <4>1
    <3> QED
      BY <1>5, <3>4, <3>5, <3>6
  <2> QED
    BY <1>4, <2>1, <2>2
<1>6. ASSUME NEW k, NEW b, NEW e \in CallsOrNone, NEW l, NEW c, NEW f \in CallsOrNone,
             Old(k, b, e), Old(l, c, f)
      PROVE  <<k, b, e>> = <<l, c, f>>
  <2>1. ASSUME NEW m, NEW x, NEW h \in CallsOrNone, m = kq /\ w = aq, x \in Nat \ {0},
               In(m, x + 1, h), s[2] = w, In(s[1], s[3], s[4])
        PROVE  FALSE
    <3>1. s[1] = m /\ s[3] = x + 1
      BY <1>3, <1>4, <2>1
    <3> QED
      BY <1>4, <2>1, <3>1
  <2>2. ASSUME NEW m, NEW x, NEW h \in CallsOrNone, <<m, w, x, h>> # s,
               In(m, x, h), s[2] = w, In(s[1], s[3], s[4])
        PROVE  FALSE
    <3>1. s[1] = m /\ s[3] = x /\ s[4] = h
      BY <1>3, <1>4, <2>2
    <3> QED
      BY <1>4, <2>2, <3>1
  <2>3. CASE <<k, w, b, e>> = d /\ s[2] = w /\ In(s[1], s[3], s[4])
    <3>1. <<l, w, c, f>> = d
      BY <1>6, <2>1, <2>2, <2>3
    <3> QED
      BY <2>3, <3>1
  <2>4. CASE k = kq /\ w = aq /\ b \in Nat \ {0} /\ In(k, b + 1, e)
    <3>1. CASE l = kq /\ w = aq /\ c \in Nat \ {0} /\ In(l, c + 1, f)
      <4>1. k = l /\ b + 1 = c + 1 /\ e = f
        BY <1>3, <2>4, <3>1
      <4> QED
        BY <2>4, <3>1, <4>1
    <3>2. CASE ~(l = kq /\ w = aq) /\ In(l, c, f)
      BY <1>3, <2>4, <3>2
    <3> QED
      BY <1>6, <2>1, <2>4, <3>1, <3>2
  <2>5. CASE ~(k = kq /\ w = aq) /\ <<k, w, b, e>> # s /\ In(k, b, e)
    <3>1. CASE l = kq /\ w = aq /\ In(l, c + 1, f)
      BY <1>3, <2>5, <3>1
    <3>2. CASE ~(l = kq /\ w = aq) /\ In(l, c, f)
      BY <1>3, <2>5, <3>2
    <3> QED
      BY <1>6, <2>2, <2>5, <3>1, <3>2
  <2> QED
    BY <1>6, <2>3, <2>4, <2>5
<1> HIDE DEF Old
<1> QED
  BY <1>2, <1>5, <1>6

(* What the settlement of a promise says of it.                              *)
LEMMA SettledBy ==
    ASSUME WorkerInv, Settles
    PROVE  /\ \A c, e \in Calls : outcome'[c] = Proof(e) =>
                 \/ outcome[c] = Proof(e)
                 \/ e = c
                 \/ pending # NoCall /\ c = pending /\ \E w \in Workers : At("answered", w, 1, e)
           /\ \A c \in Calls : outcome'[c] = outcome[c] \/ c <= calls
           /\ pending' # NoCall => outcome'[pending] = outcome[pending]
<1>1. outcome \in [Calls -> {Unsettled, Rejected} \cup {Proof(c) : c \in Calls}]
  BY DEF WorkerInv, Base, TypeOK
<1>2. /\ pending # NoCall => pending \in Calls /\ pending <= calls
      /\ \A c \in Calls : c \in Nat
  BY PendingCall DEF WorkerInv, Base
<1>3. CASE outcome' = outcome
  BY <1>3
<1>4. CASE /\ pending # NoCall /\ pending' = NoCall
           /\ \/ outcome' = [outcome EXCEPT ![pending] = Rejected]
              \/ \E w \in Workers, f \in Calls :
                    At("answered", w, 1, f) /\ outcome' = [outcome EXCEPT ![pending] = Proof(f)]
  <2>1. \A c \in Calls : c # pending => outcome'[c] = outcome[c]
    BY <1>1, <1>4
  <2>2. \/ outcome'[pending] = Rejected
        \/ \E w \in Workers, f \in Calls : At("answered", w, 1, f) /\ outcome'[pending] = Proof(f)
    BY <1>1, <1>2, <1>4
  <2>3. \A e \in Calls : outcome'[pending] = Proof(e) => \E w \in Workers : At("answered", w, 1, e)
    BY <2>2, ProofsDiffer
  <2> QED
    BY <1>2, <1>4, <2>1, <2>3
<1>5. ASSUME NEW j \in jobs, NEW x \in {Proof(j.call), Rejected}, pending' = pending,
             j.at = 0, outcome' = [outcome EXCEPT ![j.call] = x]
      PROVE  /\ \A c, e \in Calls : outcome'[c] = Proof(e) => outcome[c] = Proof(e) \/ e = c
             /\ \A c \in Calls : outcome'[c] = outcome[c] \/ c <= calls
             /\ pending' # NoCall => outcome'[pending] = outcome[pending]
  <2>1. j \in [at: 0..MaxWorkers, call: Calls, attempt: 0..maxRetries]
    BY DEF WorkerInv, Base, TypeOK
  <2>2. j = [at |-> 0, call |-> j.call, attempt |-> j.attempt] /\ j.call \in Calls
    BY <1>5, <2>1
  <2>3. At("runs", 0, j.attempt, j.call)
    BY <2>2 DEF At
  <2>4. j.call <= calls
    BY <2>2, <2>3 DEF WorkerInv, Known
  <2>5. pending # NoCall => j.call # pending
    BY <2>2, <2>3 DEF WorkerInv, Posted
  <2>6. \A c \in Calls : outcome'[c] = IF c = j.call THEN x ELSE outcome[c]
    BY <1>1, <1>5
  <2>7. \A e \in Calls : x = Proof(e) => e = j.call
    BY ProofsDiffer
  <2> QED
    BY <1>2, <1>5, <2>4, <2>5, <2>6, <2>7
<1> QED
  BY <1>3, <1>4, <1>5 DEF Settles

(* A worker's answer at the head of its queue is one it may prove.           *)
LEMMA AnswersRun ==
    ASSUME Base, NEW w \in Workers, NEW e \in Calls, At("answered", w, 1, e)
    PROVE  Running(w)
<1>1. 1 \in 1..Len(outbox[w]) /\ outbox[w][1] = Proof(e)
  BY DEF At, Answers, Calls
<1>2. outbox[w][1].kind = "proof"
  BY <1>1, ProofsDiffer
<1> QED
  BY <1>1, <1>2 DEF Base, Shape, ShapeOf, Running

LEMMA ServesKeepsInv ==
    ASSUME WorkerInv, Base', NEW kq, NEW aq, NEW s, NEW d, Serves(kq, aq, s, d), Settles
    PROVE  WorkerInv'
<1>1. /\ UNCHANGED <<worker, started, calls, overlapped>>
      /\ pending' # NoCall => pending' = pending
      /\ \A v \in Workers : Running(v)' => Running(v)
  BY DEF Serves
<1>2. /\ \A c, e \in Calls : outcome'[c] = Proof(e) =>
                 \/ outcome[c] = Proof(e)
                 \/ e = c
                 \/ pending # NoCall /\ c = pending /\ \E w \in Workers : At("answered", w, 1, e)
      /\ \A c \in Calls : outcome'[c] = outcome[c] \/ c <= calls
      /\ pending' # NoCall => outcome'[pending] = outcome[pending]
  BY SettledBy
<1>3. /\ calls \in Nat /\ \A c \in Calls : c \in Nat
      /\ pending # NoCall => pending \in Calls /\ pending <= calls
  BY PendingCall DEF WorkerInv, Base
<1>4. \A k, a, b : \A e \in Calls : At(k, a, b, e)' /\ k # "got" =>
         /\ \E l, c : l # "got" /\ At(l, a, c, e)
         /\ k = "runs" /\ a = 0 => \E c : At("runs", a, c, e)
  BY Sources DEF WorkerInv
<1>5. Earlier'
  <2> SUFFICES ASSUME NEW c \in Calls, NEW e \in Calls, outcome'[c] = Proof(e)
               PROVE  e <= c
    BY DEF Earlier
  <2>1. CASE outcome[c] = Proof(e) \/ e = c
    BY <1>3, <2>1 DEF WorkerInv, Earlier
  <2>2. ASSUME pending # NoCall, c = pending, NEW w \in Workers, At("answered", w, 1, e)
        PROVE  e <= c
    <3>1. w # 0
      BY DEF Workers
    <3> QED
      BY <2>2, <3>1 DEF WorkerInv, Latest
  <2> QED
    BY <1>2, <2>1, <2>2
<1>6. Own'
  <2> SUFFICES ASSUME NEW c \in Calls, NEW e \in Calls, outcome'[c] = Proof(e),
                      overlapped \cap 1..c = {}
               PROVE  e = c
    BY <1>1 DEF Own
  <2>1. CASE outcome[c] = Proof(e) \/ e = c
    BY <2>1 DEF WorkerInv, Own
  <2>2. ASSUME pending # NoCall, c = pending, NEW w \in Workers, At("answered", w, 1, e)
        PROVE  e = c
    <3>1. Running(w)
      BY <2>2, AnswersRun DEF WorkerInv
    <3> QED
      BY <2>2, <3>1 DEF WorkerInv, OnlyPending
  <2> QED
    BY <1>2, <2>1, <2>2
<1>7. Known'
  <2> SUFFICES ASSUME NEW k, NEW a, NEW b, NEW e \in Calls, At(k, a, b, e)'
               PROVE  e <= calls
    BY <1>1 DEF Known
  <2>1. CASE k # "got"
    BY <1>4, <2>1 DEF WorkerInv, Known
  <2>2. CASE k = "got"
    <3>1. a \in Calls /\ outcome'[a] = Proof(e)
      BY <2>2 DEF At
    <3>2. e <= a
      BY <1>5, <3>1 DEF Earlier
    <3>3. outcome'[a] # Unsettled
      BY <3>1, ProofsDiffer
    <3>4. a <= calls
      BY <1>2, <1>3, <3>1, <3>3 DEF WorkerInv, Posted
    <3> QED
      BY <1>3, <3>1, <3>2, <3>4
  <2> QED
    BY <2>1, <2>2
<1>8. Latest'
  <2> SUFFICES ASSUME pending' # NoCall, NEW k, NEW a, NEW b, NEW e \in Calls,
                      At(k, a, b, e)', k # "got", a # 0
               PROVE  e <= pending'
    BY DEF Latest
  <2>1. pending' = pending /\ \E l, c : l # "got" /\ At(l, a, c, e)
    BY <1>1, <1>4
  <2> QED
    BY <2>1 DEF WorkerInv, Latest
<1>9. Posted'
  <2>1. ASSUME pending' # NoCall, NEW b, NEW e \in Calls, e = pending', At("runs", 0, b, e)'
        PROVE  FALSE
    <3>1. \E c : At("runs", 0, c, e)
      BY <1>4, <2>1
    <3> QED
      BY <1>1, <2>1, <3>1 DEF WorkerInv, Posted
  <2>2. \A c \in Calls : c > calls => outcome'[c] = Unsettled
    BY <1>2, <1>3 DEF WorkerInv, Posted
  <2> QED
    BY <1>1, <1>2, <2>1, <2>2 DEF WorkerInv, Posted
<1>10. OnlyPending'
  <2> SUFFICES ASSUME pending' # NoCall, overlapped \cap 1..pending' = {},
                      NEW k, NEW a \in Workers, NEW b, NEW e \in Calls,
                      At(k, a, b, e)', k # "got", Running(a)'
               PROVE  e = pending'
    BY <1>1 DEF OnlyPending
  <2>1. pending' = pending /\ Running(a) /\ \E l, c : l # "got" /\ At(l, a, c, e)
    BY <1>1, <1>4
  <2> QED
    BY <2>1 DEF WorkerInv, OnlyPending
<1> QED
  BY <1>5, <1>6, <1>7, <1>8, <1>9, <1>10, ServesKeepsInOnePlace, ServesKeepsOneAtATime
     DEF WorkerInv

LEMMA InitInv == Init => WorkerInv
<1> SUFFICES ASSUME Init
             PROVE  WorkerInv
  OBVIOUS
<1>1. Base
  BY InitBase
<1>2. /\ pending = NoCall /\ worker = 0 /\ calls = 0 /\ jobs = {}
      /\ \A c \in Calls : outcome[c] = Unsettled
      /\ \A w \in Workers : inbox[w] = <<>> /\ outbox[w] = <<>>
  BY DEF Init
<1>3. \A c \in Calls : \A e : outcome[c] # Proof(e)
  BY <1>2, ProofsDiffer
<1>4. \A k, a, b, e : ~At(k, a, b, e)
  BY <1>2, <1>3 DEF At
<1>5. 0 \notin Workers
  BY DEF Workers
<1> QED
  BY <1>1, <1>2, <1>3, <1>4, <1>5
     DEF WorkerInv, Known, Latest, Posted, InOnePlace, OnlyPending, OneAtATime, Earlier, Own

(* The invariant holds however calls, workers and messages interleave.       *)
THEOREM WorkersInductive == Spec => []WorkerInv
<1>1. WorkerInv /\ [Next]_vars => WorkerInv'
  <2> SUFFICES ASSUME WorkerInv, [Next]_vars
               PROVE  WorkerInv'
    OBVIOUS
  <2>1. Base /\ Base'
    BY NextBase DEF WorkerInv
  <2> QED
    BY <2>1, StepKinds, ClientKeepsInv, GenerateKeepsInv, ServesKeepsInv
<1> QED
  BY <1>1, InitInv, PTL DEF Spec

(* crypto_worker.ts:102, 127: a caller that waits for each promise, and that  *)
(* stops a worker before it starts another, is given the proof of its own     *)
(* inputs, in the byte order that verifies.                                  *)
THEOREM CallersGetTheirOwnProof == Spec => []OwnProof
<1>1. WorkerInv => OwnProof
  <2> SUFFICES ASSUME WorkerInv, NEW c \in Calls, overlapped \cap 1..c = {},
                      outcome[c].kind = "proof"
               PROVE  verifyProof(outcome[c].proof, c)
    BY DEF OwnProof
  <2>1. PICK e \in Calls : outcome[c] = Proof(e)
    BY DEF WorkerInv, Base, TypeOK, Unsettled, Rejected
  <2>2. e = c
    BY <2>1 DEF WorkerInv, Own
  <2> QED
    BY <2>1, <2>2, ProofsDiffer
<1> QED
  BY <1>1, WorkersInductive, PTL

(* crypto_worker.ts:102: also where calls overlap and workers are replaced    *)
(* while they prove, a promise is never given a later call's proof, nor two   *)
(* promises the same one.                                                    *)
THEOREM NoProofSettlesTwo == Spec => []NoProofTwice
<1>1. WorkerInv => NoProofTwice
  <2> SUFFICES ASSUME WorkerInv, NEW c \in Calls, NEW d \in Calls, outcome[c].kind = "proof"
               PROVE  /\ \E e \in 1..c : verifyProof(outcome[c].proof, e)
                      /\ outcome[c] = outcome[d] => c = d
    BY DEF NoProofTwice
  <2>1. PICK e \in Calls : outcome[c] = Proof(e)
    BY DEF WorkerInv, Base, TypeOK, Unsettled, Rejected
  <2>2. e <= c
    BY <2>1 DEF WorkerInv, Earlier
  <2>3. e \in 1..c
    BY <2>2 DEF Calls
  <2>4. ASSUME outcome[c] = outcome[d]
        PROVE  c = d
    <3>1. At("got", c, 0, e) /\ At("got", d, 0, e)
      BY <2>1, <2>4 DEF At, Calls
    <3> QED
      BY <3>1 DEF WorkerInv, InOnePlace
  <2> QED
    BY <2>1, <2>3, <2>4, ProofsDiffer
<1> QED
  BY <1>1, WorkersInductive, PTL
===============================================================================
