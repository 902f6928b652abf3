---------------------------- MODULE CryptoWorker ----------------------------
(***************************************************************************)
(* Proof generation of the SDK: CryptoWorkerClient on the main thread, the   *)
(* Web Workers it starts, and the ProverManager in each of them or, where    *)
(* workers are unavailable, on the main thread.  The client keeps a single   *)
(* pair of callbacks; requests and answers travel through two FIFO queues    *)
(* that carry no request identity; a worker serves its requests              *)
(* concurrently, because its message handler awaits the proof.               *)
(*                                                                           *)
(* A call of generateProof is its number, in the order of the calls; its     *)
(* inputs and the snarkjs proof of them are told apart by that number.       *)
(***************************************************************************)
EXTENDS Integers, Sequences, FiniteSets

CONSTANTS
    maxRetries,     \* prover.ts: attempts after the first
    MaxCalls,       \* bound: calls of generateProof
    MaxWorkers,     \* bound: workers started
    NoCall          \* null: no callbacks are held

ASSUME BoundsAssumption ==
    /\ maxRetries \in Nat /\ MaxCalls \in Nat /\ MaxWorkers \in Nat
    /\ NoCall \notin Nat

Calls == 1..MaxCalls
Workers == 1..MaxWorkers

VARIABLES
    worker,     \* client.worker: a started worker, or 0 for null
    pending,    \* the call whose resolve and reject the client holds
    started,    \* workers started so far
    calls,      \* calls made so far
    outcome,    \* how each promise settled
    inbox,      \* messages to each worker
    outbox,     \* messages and error events from each worker
    state,      \* of each worker: is its script running, is snarkjs there
    jobs,       \* attempts running, by worker (0 is the main thread) and call
    overlapped  \* history: calls made over an unsettled one, or an orphan worker

vars == <<worker, pending, started, calls, outcome, inbox, outbox, state, jobs, overlapped>>
client == <<worker, pending, started, calls, overlapped>>

-----------------------------------------------------------------------------
(* A proof, as snarkjs returns it and in the 256 bytes of the program. *)

Coordinates == {"ax", "ay", "bx0", "bx1", "by0", "by1", "cx", "cy"}

(* snarkjs.groth16.fullProve of the inputs of call c.                        *)
FullProve(c) ==
    [pi_a |-> <<<<c, "ax">>, <<c, "ay">>>>,
     pi_b |-> <<<<<<c, "bx0">>, <<c, "bx1">>>>, <<<<c, "by0">>, <<c, "by1">>>>>>,
     pi_c |-> <<<<c, "cx">>, <<c, "cy">>>>]

(* Mutated form of serializeProof: the G2 coordinates in snarkjs' order.     *)
SerializeUnswapped(p) ==
    <<p.pi_a[1], p.pi_a[2],
      p.pi_b[1][1], p.pi_b[1][2], p.pi_b[2][1], p.pi_b[2][2],
      p.pi_c[1], p.pi_c[2]>>

(* Eight 32-byte field elements, the imaginary part of each G2 coordinate    *)
(* before the real one.                                                      *)
serializeProof(p) ==
    <<p.pi_a[1], p.pi_a[2],
      p.pi_b[1][2], p.pi_b[1][1], p.pi_b[2][2], p.pi_b[2][1],
      p.pi_c[1], p.pi_c[2]>>

(* The proof verifyProof hands to snarkjs, element i at byte 32 * (i - 1).   *)
ParseProof(b) ==
    [pi_a |-> <<b[1], b[2]>>,
     pi_b |-> <<<<b[4], b[3]>>, <<b[6], b[5]>>>>,
     pi_c |-> <<b[7], b[8]>>]

(* snarkjs.groth16.verify against the public signals of call c.              *)
verifyProof(b, c) == ParseProof(b) = FullProve(c)

Proofs == {serializeProof(FullProve(c)) : c \in Calls}

Unsettled == [kind |-> "Unsettled"]
Rejected == [kind |-> "error"]
Proof(c) == [kind |-> "proof", proof |-> serializeProof(FullProve(c))]

Requests == {[type |-> "init"]} \cup [type: {"prove"}, call: Calls]
Responses == {[kind |-> "ready"], Rejected, [kind |-> "onerror"]}
                \cup {Proof(c) : c \in Calls}

Init ==
    /\ worker = 0 /\ pending = NoCall /\ started = 0 /\ calls = 0
    /\ outcome = [c \in Calls |-> Unsettled]
    /\ inbox = [w \in Workers |-> <<>>]
    /\ outbox = [w \in Workers |-> <<>>]
    /\ state = [w \in Workers |-> "Absent"]
    /\ jobs = {}
    /\ overlapped = {}

-----------------------------------------------------------------------------
(* The client *)

(* init() where the Worker constructor succeeds.  A worker started earlier   *)
(* is not terminated, and its messages reach the same handler.  The script   *)
(* may later fail to load, and snarkjs may lack groth16 in it.               *)
StartWorker ==
    /\ started < MaxWorkers
    /\ started' = started + 1
    /\ worker' = started + 1
    /\ inbox' = [inbox EXCEPT ![started + 1] = <<[type |-> "init"]>>]
    /\ \E s \in {"Loading", "LoadingBroken"} : state' = [state EXCEPT ![started + 1] = s]
    /\ UNCHANGED <<pending, calls, outcome, outbox, jobs, overlapped>>

(* init() where the constructor throws.                                      *)
NoWorkers ==
    /\ worker # 0
    /\ worker' = 0
    /\ UNCHANGED <<pending, started, calls, outcome, inbox, outbox, state, jobs, overlapped>>

(* A worker that init() replaced without terminating it is still heard.      *)
Orphaned ==
    \E w \in 1..started \ {worker} :
        state[w] \notin {"Dead", "Terminated"} \/ outbox[w] # <<>>

(* generateProof: posted to the worker under the one pair of callbacks, or   *)
(* run on the main thread with a prover of its own.                          *)
GenerateProof ==
    /\ calls < MaxCalls
    /\ calls' = calls + 1
    /\ overlapped' = IF Orphaned \/ \E c \in 1..calls : outcome[c] = Unsettled
                     THEN overlapped \cup {calls + 1} ELSE overlapped
    /\ \/ /\ worker # 0
          /\ pending' = calls + 1
          /\ inbox' = [inbox EXCEPT ![worker] =
                 Append(@, [type |-> "prove", call |-> calls + 1])]
          /\ UNCHANGED jobs
       \/ /\ worker = 0
          /\ jobs' = jobs \cup {[at |-> 0, call |-> calls + 1, attempt |-> 0]}
          /\ UNCHANGED <<pending, inbox>>
    /\ UNCHANGED <<worker, started, outcome, outbox, state>>

(* terminate(): the worker stops and its messages are discarded; the         *)
(* callbacks stay.                                                           *)
Terminate ==
    /\ worker # 0
    /\ worker' = 0
    /\ inbox' = [inbox EXCEPT ![worker] = <<>>]
    /\ outbox' = [outbox EXCEPT ![worker] = <<>>]
    /\ state' = [state EXCEPT ![worker] = "Terminated"]
    /\ jobs' = {j \in jobs : j.at # worker}
    /\ UNCHANGED <<pending, started, calls, outcome, overlapped>>

(* handleMessage and onerror: whatever settles, settles the held callbacks.  *)
Settle(response) ==
    IF pending # NoCall /\ response.kind # "ready"
    THEN /\ outcome' = [outcome EXCEPT ![pending] =
                IF response.kind = "proof" THEN response ELSE Rejected]
         /\ pending' = NoCall
    ELSE UNCHANGED <<outcome, pending>>

Deliver(w) ==
    /\ outbox[w] # <<>>
    /\ outbox' = [outbox EXCEPT ![w] = Tail(@)]
    /\ Settle(Head(outbox[w]))
    /\ UNCHANGED <<worker, started, calls, inbox, state, jobs, overlapped>>

-----------------------------------------------------------------------------
(* The worker *)

(* The script cannot be loaded: an error event, and nothing runs.            *)
LoadFails(w) ==
    /\ state[w] \in {"Loading", "LoadingBroken"}
    /\ state' = [state EXCEPT ![w] = "Dead"]
    /\ inbox' = [inbox EXCEPT ![w] = <<>>]
    /\ outbox' = [outbox EXCEPT ![w] = Append(@, [kind |-> "onerror"])]
    /\ UNCHANGED <<client, outcome, jobs>>

(* ProverManager.init: snarkjs is there, with groth16, or it throws; nothing  *)
(* changes what the worker's realm can load, so a second call ends alike.     *)
ProverInit(w) == state[w] \in {"Loading", "Ready"}

(* The "init" message creates the prover and awaits its init().              *)
ReceiveInit(w) ==
    /\ state[w] \in {"Loading", "LoadingBroken"}
    /\ inbox' = [inbox EXCEPT ![w] = Tail(@)]
    /\ \/ /\ ProverInit(w)
          /\ state' = [state EXCEPT ![w] = "Ready"]
          /\ outbox' = [outbox EXCEPT ![w] = Append(@, [kind |-> "ready"])]
       \/ /\ ~ProverInit(w)
          /\ state' = [state EXCEPT ![w] = "Broken"]
          /\ outbox' = [outbox EXCEPT ![w] = Append(@, Rejected)]
    /\ UNCHANGED <<client, outcome, jobs>>

(* A "prove" message starts generateProof, which without snarkjs throws.     *)
ReceiveProve(w) ==
    /\ state[w] \in {"Ready", "Broken"}
    /\ inbox[w] # <<>>
    /\ inbox' = [inbox EXCEPT ![w] = Tail(@)]
    /\ \/ /\ ProverInit(w)
          /\ jobs' = jobs \cup {[at |-> w, call |-> Head(inbox[w]).call, attempt |-> 0]}
          /\ UNCHANGED outbox
       \/ /\ ~ProverInit(w)
          /\ outbox' = [outbox EXCEPT ![w] = Append(@, Rejected)]
          /\ UNCHANGED jobs
    /\ UNCHANGED <<client, outcome, state>>

(* The promise of generateProof ends: a message, or on the main thread the   *)
(* caller's own promise.                                                     *)
Answer(j, response) ==
    IF j.at = 0
    THEN /\ outcome' = [outcome EXCEPT ![j.call] = response]
         /\ UNCHANGED outbox
    ELSE /\ outbox' = [outbox EXCEPT ![j.at] = Append(@, response)]
         /\ UNCHANGED outcome

(* Mutated form of AttemptFails: every failure is retried.                   *)
AttemptFailsForever(j) ==
    \/ /\ jobs' = (jobs \ {j}) \cup {[j EXCEPT !.attempt = (@ + 1) % (maxRetries + 1)]}
       /\ UNCHANGED <<outcome, outbox>>
    \/ /\ Answer(j, Rejected)
       /\ jobs' = jobs \ {j}

(* Mutated form of AttemptFails: one retry too many.                         *)
AttemptFailsOver(j) ==
    \/ /\ j.attempt <= maxRetries
       /\ jobs' = (jobs \ {j}) \cup {[j EXCEPT !.attempt = @ + 1]}
       /\ UNCHANGED <<outcome, outbox>>
    \/ /\ Answer(j, Rejected)
       /\ jobs' = jobs \ {j}

(* An attempt fails: retried if the error is retryable and attempts are left, *)
(* thrown otherwise.                                                         *)
AttemptFails(j) ==
    \/ /\ j.attempt < maxRetries
       /\ jobs' = (jobs \ {j}) \cup {[j EXCEPT !.attempt = @ + 1]}
       /\ UNCHANGED <<outcome, outbox>>
    \/ /\ Answer(j, Rejected)
       /\ jobs' = jobs \ {j}

(* Mutated form of AttemptSucceeds: the loop goes on after a success.         *)
AttemptSucceedsOn(j) ==
    /\ Answer(j, Proof(j.call))
    /\ IF j.attempt < maxRetries
       THEN jobs' = (jobs \ {j}) \cup {[j EXCEPT !.attempt = @ + 1]}
       ELSE jobs' = jobs \ {j}

AttemptSucceeds(j) ==
    /\ Answer(j, Proof(j.call))
    /\ jobs' = jobs \ {j}

Attempt(j) ==
    /\ AttemptSucceeds(j) \/ AttemptFails(j)
    /\ UNCHANGED <<client, inbox, state>>

Next ==
    \/ StartWorker \/ NoWorkers \/ GenerateProof \/ Terminate
    \/ \E w \in Workers :
          Deliver(w) \/ LoadFails(w) \/ ReceiveInit(w) \/ ReceiveProve(w)
    \/ \E j \in jobs : Attempt(j)

Spec == Init /\ [][Next]_vars

(* The event loops of the main thread and of a running worker serve their    *)
(* queues, and fullProve returns or throws.  Nobody has to call anything.    *)
Fairness ==
    /\ \A w \in Workers :
          /\ WF_vars(Deliver(w))
          /\ WF_vars(ReceiveInit(w) \/ LoadFails(w))
          /\ WF_vars(ReceiveProve(w))
    /\ \A w \in 0..MaxWorkers, c \in Calls :
          WF_vars(\E j \in jobs : j.at = w /\ j.call = c /\ Attempt(j))

FairSpec == Spec /\ Fairness

-----------------------------------------------------------------------------
(* Properties *)

(* Type invariant.                                                           *)
TypeOK ==
    /\ worker \in 0..started /\ started \in 0..MaxWorkers
    /\ calls \in 0..MaxCalls /\ pending \in 1..calls \cup {NoCall}
    /\ outcome \in [Calls -> {Unsettled, Rejected} \cup {Proof(c) : c \in Calls}]
    /\ inbox \in [Workers -> Seq(Requests)] /\ outbox \in [Workers -> Seq(Responses)]
    /\ state \in [Workers -> {"Absent", "Loading", "LoadingBroken", "Ready",
                              "Broken", "Dead", "Terminated"}]
    /\ jobs \subseteq [at: 0..MaxWorkers, call: Calls, attempt: 0..maxRetries]
    /\ overlapped \subseteq Calls

(* A proof is for the call that gets it, and still verifies after the        *)
(* program's byte order, unless the caller overlapped.  A caller that makes  *)
(* no call while an earlier promise is unsettled, and terminates a worker    *)
(* before it starts another, never gets another call's proof: through        *)
(* retries, restarts, terminations and a broken worker whose init error      *)
(* rejects a call that its own error answers again (crypto_worker.ts:102,    *)
(* 127; prover.ts:98, 239).                                                  *)
OwnProof ==
    \A c \in Calls :
        overlapped \cap 1..c = {} /\ outcome[c].kind = "proof"
            => verifyProof(outcome[c].proof, c)

(* An overlapping call may get an earlier call's proof (crypto_worker.ts:102) *)
(* but never a later one's, and no proof settles two promises.               *)
NoProofTwice ==
    \A c, d \in Calls :
        /\ outcome[c].kind = "proof"
              => \E e \in 1..c : verifyProof(outcome[c].proof, e)
        /\ outcome[c].kind = "proof" /\ outcome[c] = outcome[d] => c = d

Asked(w, c) == \E i \in 1..Len(inbox[w]) : inbox[w][i] = [type |-> "prove", call |-> c]

(* A promise posted to a worker settles, unless a later call takes its        *)
(* callbacks, the worker is terminated or its script had already failed to    *)
(* load: the retries of the prover end, and every path through the worker's   *)
(* handler posts an answer (crypto_worker.ts:74, 164-185, prover.ts:191-223). *)
CallAnswered ==
    \A w \in Workers, c \in Calls :
        pending = c /\ Asked(w, c) /\ state[w] \notin {"Dead", "Terminated"}
            ~> pending # c \/ state[w] = "Terminated"
=============================================================================
