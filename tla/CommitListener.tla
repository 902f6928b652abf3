--------------------------- MODULE CommitListener ---------------------------
(***************************************************************************)
(* CommitSlotListener of the SDK: tells a counterparty of new settlement     *)
(* requests, from a log subscription or, if subscribing throws, from polls   *)
(* of the program's accounts.  A request is the address of its commit slot.  *)
(*                                                                           *)
(* What matters of the encodings is kept: the same eight bytes of a          *)
(* discriminator are different texts in hex, base64 and base58, and a text   *)
(* is found in another, or decoded by the node, only in its own encoding.    *)
(***************************************************************************)
EXTENDS Naturals, FiniteSets, Sequences

CONSTANTS
    Mine, Others,   \* requests to this wallet, and to other wallets
    MaxEvents       \* bound: logs on their way

VARIABLES
    running,    \* this.running
    channel,    \* "None", "WebSocket" or "Polling"
    onChain,    \* open commit slots
    events,     \* logs on their way to the subscription
    fetching,   \* getTransaction requests of log callbacks
    processedSlots,  \* requests the handler was called with
    arrived     \* history: open requests that came while the listener ran

vars == <<running, channel, onChain, events, fetching, processedSlots, arrived>>

Requests == Mine \cup Others

Text(encoding, bytes) == [encoding |-> encoding, bytes |-> bytes]

INITIATE_COMMIT_EVENT_DISC == Text("hex", "InitiateCommitEvent")
COMMIT_SLOT_ACCOUNT_DISC == Text("base64", "CommitSlot")

(* Anchor's emit! logs "Program data: " and the event's bytes in base64.     *)
LogMessage(s) == [text |-> Text("base64", "InitiateCommitEvent"), slot |-> s]

Includes(message, text) == message.text = text

(* A node takes the bytes of a memcmp filter for base58 and refuses others.  *)
ValidFilter(text) == text.encoding = "base58"

Init ==
    /\ running = FALSE /\ channel = "None"
    /\ onChain = {} /\ events = <<>> /\ fetching = {}
    /\ processedSlots = {} /\ arrived = {}

(* Only a throw while subscribing leads to polling; nothing watches the      *)
(* subscription afterwards.                                                  *)
Start ==
    /\ ~running
    /\ running' = TRUE
    /\ channel' \in {"WebSocket", "Polling"}
    /\ UNCHANGED <<onChain, events, fetching, processedSlots, arrived>>

Stop ==
    /\ running
    /\ running' = FALSE /\ channel' = "None"
    /\ events' = <<>> /\ arrived' = {}
    /\ UNCHANGED <<onChain, fetching, processedSlots>>

(* initiate_commit opens a slot and emits its event.                         *)
Initiate(s) ==
    /\ s \notin onChain
    /\ Len(events) < MaxEvents
    /\ onChain' = onChain \cup {s}
    /\ events' = IF channel = "WebSocket" THEN Append(events, LogMessage(s)) ELSE events
    /\ arrived' = IF running THEN arrived \cup {s} ELSE arrived
    /\ UNCHANGED <<running, channel, fetching, processedSlots>>

(* Execute or a cancel closes it; its address may be used again.             *)
Close(s) ==
    /\ onChain' = onChain \ {s}
    /\ arrived' = arrived \ {s}
    /\ UNCHANGED <<running, channel, events, fetching, processedSlots>>

(* The handler is called once for every address, ever.                       *)
Notify(S) == processedSlots' = processedSlots \cup S

(* The log callback: a transaction is fetched if a message has the event.    *)
OnLogs ==
    /\ events # <<>>
    /\ events' = Tail(events)
    /\ fetching' = IF Includes(Head(events), INITIATE_COMMIT_EVENT_DISC)
                   THEN fetching \cup {Head(events)} ELSE fetching
    /\ UNCHANGED <<running, channel, onChain, processedSlots, arrived>>

(* getTransaction answers; null or an error drops the event for good.        *)
TransactionAnswers(message) ==
    /\ fetching' = fetching \ {message}
    /\ \/ Notify(IF Includes(message, INITIATE_COMMIT_EVENT_DISC)
                 THEN {message.slot} \cap Mine ELSE {})
       \/ UNCHANGED processedSlots
    /\ UNCHANGED <<running, channel, onChain, events, arrived>>

(* One tick of the polling interval; an error is logged and forgotten.       *)
Poll ==
    /\ running /\ channel = "Polling"
    /\ ValidFilter(COMMIT_SLOT_ACCOUNT_DISC)
    /\ Notify(onChain \cap Mine)
    /\ UNCHANGED <<running, channel, onChain, events, fetching, arrived>>

Next ==
    \/ Start \/ Stop \/ OnLogs \/ Poll
    \/ \E s \in Requests : Initiate(s) \/ Close(s)
    \/ \E message \in fetching : TransactionAnswers(message)

Spec == Init /\ [][Next]_vars

(* Callbacks are called, the interval ticks, and requests get an answer.     *)
FairSpec ==
    /\ Spec
    /\ WF_vars(OnLogs) /\ WF_vars(Poll)
    /\ \A s \in Requests : WF_vars(TransactionAnswers(LogMessage(s)) /\ LogMessage(s) \in fetching)

(* commit_listener.ts:4 "Listens for InitiateCommitEvent on-chain to notify  *)
(* the counterparty when a new settlement request arrives": a request to     *)
(* this wallet that arrives while the listener runs is passed to the handler *)
(* unless it is closed, or the listener stopped, before that.                *)
CounterpartyNotified ==
    \A s \in Mine : s \in arrived ~> s \in processedSlots \/ s \notin arrived
=============================================================================
