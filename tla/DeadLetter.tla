------------------------------ MODULE DeadLetter ------------------------------
(***************************************************************************)
(* From the raw queue to the normalized queue: the generic webhook         *)
(* (api/handler.go), the mapping engine (worker/worker.go), the dead-letter*)
(* list (queue/dlq.go) and its replay by an administrator                  *)
(* (api/dlq_handler.go).  Redis lists are sequences with the head of the   *)
(* list first: LPUSH puts in front, RPOP takes the last element.  Whoever  *)
(* has taken a message holds the only copy of it, so a crash loses it.     *)
(***************************************************************************)
EXTENDS Naturals, Sequences, FiniteSets

CONSTANTS
    Message,        \* bodies posted to the generic webhook
    Yield,          \* incidents a message maps to, once it can be mapped
    Engine,         \* mapping engines, one per replica of the API process
    Replay,         \* POST calls to /api/v1/dlq/replay
    MaxDLQSize,     \* queue.MaxDLQSize
    MaxDLQRetries,  \* queue.MaxDLQRetries
    ReplayLimit,    \* the limit parameter of a replay
    None

Worker == Engine \cup Replay
Entry == [msg: Message, retries: Nat]

ASSUME DeadLetterAssumption ==
    /\ Yield \in [Message -> Nat]
    /\ MaxDLQSize \in Nat \ {0} /\ MaxDLQRetries \in Nat \ {0} /\ ReplayLimit \in Nat \ {0}
    /\ None \notin Entry
    /\ Engine \cap Replay = {}

\* A worker is idle, has an entry in hand, is pushing its incidents, or has
\* pushed an entry on the dead-letter list that it is about to trim.
Step == {"idle", "between", "took", "pushing", "trimming"}

VARIABLES
    raw,        \* noc:queue:alerts:raw
    dlq,        \* noc:queue:alerts:dlq
    poison,     \* noc:queue:alerts:poison
    pushed,     \* incidents of each message put on the normalized queue
    accepted,   \* messages the webhook answered 202 for
    mappable,   \* messages the connectors of this release can map
    pc, hand, left, todo,   \* per worker: step, entry, iterations, incidents to push
    faulted,    \* messages a crash, a trim or a failed Redis write has touched
    attempts    \* replays of a message that failed

vars == <<raw, dlq, poison, pushed, accepted, mappable, pc, hand, left, todo,
          faulted, attempts>>

Init ==
    /\ raw = <<>> /\ dlq = <<>> /\ poison = {}
    /\ pushed = [m \in Message |-> 0]
    /\ accepted = {}
    /\ mappable \in SUBSET Message
    /\ pc = [w \in Worker |-> "idle"]
    /\ hand = [w \in Worker |-> None]
    /\ left = [w \in Worker |-> 0]
    /\ todo = [w \in Worker |-> 0]
    /\ faulted = {}
    /\ attempts = [m \in Message |-> 0]

Front(s) == SubSeq(s, 1, Len(s) - 1)
Back(s) == s[Len(s)]

\* The worker lets go of its entry and goes to step s.
Release(w, s) ==
    /\ pc' = [pc EXCEPT ![w] = s]
    /\ hand' = [hand EXCEPT ![w] = None]
    /\ todo' = [todo EXCEPT ![w] = 0]

\* After an entry an engine waits for the next one, a replay goes round its loop.
Again(w) == IF w \in Engine THEN "idle" ELSE "between"

\* HandleGenericWebhook: the signature was checked and the body parsed; the
\* raw message is queued, or the LPUSH fails and the caller is told.
HandleGenericWebhook(m) ==
    /\ m \notin accepted
    /\ accepted' = accepted \cup {m}
    /\ raw' = <<m>> \o raw
    /\ UNCHANGED <<dlq, poison, pushed, mappable, pc, hand, left, todo, faulted, attempts>>

\* StartMappingEngine: BRPOP.
TakeRaw(e) ==
    /\ e \in Engine /\ pc[e] = "idle" /\ raw # <<>>
    /\ raw' = Front(raw)
    /\ hand' = [hand EXCEPT ![e] = [msg |-> Back(raw), retries |-> 0]]
    /\ pc' = [pc EXCEPT ![e] = "took"]
    /\ UNCHANGED <<dlq, poison, pushed, accepted, mappable, left, todo, faulted, attempts>>

\* HandleReplayDLQ reads the length once: that many entries, at most.
StartReplay(c) ==
    /\ c \in Replay /\ pc[c] = "idle" /\ left[c] = 0 /\ dlq # <<>>
    /\ left' = [left EXCEPT ![c] = IF Len(dlq) < ReplayLimit THEN Len(dlq) ELSE ReplayLimit]
    /\ pc' = [pc EXCEPT ![c] = "between"]
    /\ UNCHANGED <<raw, dlq, poison, pushed, accepted, mappable, hand, todo, faulted, attempts>>

\* Fault: the replay reads the oldest entry and leaves it on the list.
FaultPeek(c) ==
    /\ c \in Replay /\ pc[c] = "between" /\ left[c] > 0 /\ dlq # <<>>
    /\ hand' = [hand EXCEPT ![c] = Back(dlq)]
    /\ left' = [left EXCEPT ![c] = @ - 1]
    /\ pc' = [pc EXCEPT ![c] = "took"]
    /\ UNCHANGED <<raw, dlq, poison, pushed, accepted, mappable, todo, faulted, attempts>>

\* RPOP of the oldest entry.
TakeDead(c) ==
    /\ c \in Replay /\ pc[c] = "between" /\ left[c] > 0 /\ dlq # <<>>
    /\ dlq' = Front(dlq)
    /\ hand' = [hand EXCEPT ![c] = Back(dlq)]
    /\ left' = [left EXCEPT ![c] = @ - 1]
    /\ pc' = [pc EXCEPT ![c] = "took"]
    /\ UNCHANGED <<raw, poison, pushed, accepted, mappable, todo, faulted, attempts>>

\* The loop ends when the count is used up or the list is empty, and at any
\* time when the RPOP fails or the process dies.
EndReplay(c) ==
    /\ c \in Replay /\ pc[c] = "between"
    /\ left' = [left EXCEPT ![c] = 0]
    /\ pc' = [pc EXCEPT ![c] = "idle"]
    /\ UNCHANGED <<raw, dlq, poison, pushed, accepted, mappable, hand, todo, faulted, attempts>>

\* Fault: only the first incident of a batch is pushed on.
FaultFirstOnly(w) ==
    /\ pc[w] = "took" /\ hand[w].msg \in mappable
    /\ todo' = [todo EXCEPT ![w] = IF Yield[hand[w].msg] = 0 THEN 0 ELSE 1]
    /\ pc' = [pc EXCEPT ![w] = "pushing"]
    /\ UNCHANGED <<raw, dlq, poison, pushed, accepted, mappable, hand, left, faulted, attempts>>

\* MapRawPayload succeeds: its incidents are to be pushed one by one.
Map(w) ==
    /\ pc[w] = "took" /\ hand[w].msg \in mappable
    /\ todo' = [todo EXCEPT ![w] = Yield[hand[w].msg]]
    /\ pc' = [pc EXCEPT ![w] = "pushing"]
    /\ UNCHANGED <<raw, dlq, poison, pushed, accepted, mappable, hand, left, faulted, attempts>>

\* LPUSH on the normalized queue.
PushIncident(w) ==
    /\ pc[w] = "pushing" /\ todo[w] > 0
    /\ pushed' = [pushed EXCEPT ![hand[w].msg] = @ + 1]
    /\ todo' = [todo EXCEPT ![w] = @ - 1]
    /\ UNCHANGED <<raw, dlq, poison, accepted, mappable, pc, hand, left, faulted, attempts>>

\* The engine logs a failed LPUSH, the replay ignores it; both go on.
LoseIncident(w) ==
    /\ pc[w] = "pushing" /\ todo[w] > 0
    /\ faulted' = faulted \cup {hand[w].msg}
    /\ todo' = [todo EXCEPT ![w] = @ - 1]
    /\ UNCHANGED <<raw, dlq, poison, pushed, accepted, mappable, pc, hand, left, attempts>>

Finish(w) ==
    /\ pc[w] = "pushing" /\ todo[w] = 0
    /\ Release(w, Again(w))
    /\ UNCHANGED <<raw, dlq, poison, pushed, accepted, mappable, left, faulted, attempts>>

\* PushToDLQ, a pipeline that is no transaction: LPUSH, after which anybody
\* may use the list ...
PushToDLQ(w, e) ==
    /\ dlq' = <<e>> \o dlq
    /\ Release(w, "trimming")

\* ... and LTRIM: the oldest entries fall off.
TrimDLQ(w) ==
    /\ pc[w] = "trimming"
    /\ dlq' = SubSeq(dlq, 1, IF Len(dlq) < MaxDLQSize THEN Len(dlq) ELSE MaxDLQSize)
    /\ faulted' = faulted \cup {dlq[j].msg : j \in (MaxDLQSize + 1) .. Len(dlq)}
    /\ Release(w, Again(w))
    /\ UNCHANGED <<raw, poison, pushed, accepted, mappable, left, attempts>>

\* LTRIM fails, or the process dies before it: the list keeps its length until
\* somebody pushes again.
SkipTrim(w) ==
    /\ pc[w] = "trimming"
    /\ Release(w, Again(w))
    /\ UNCHANGED <<raw, dlq, poison, pushed, accepted, mappable, left, faulted, attempts>>

\* Fault: the message goes back to the raw queue.
FaultRequeue(e) ==
    /\ e \in Engine /\ pc[e] = "took" /\ hand[e].msg \notin mappable
    /\ raw' = <<hand[e].msg>> \o raw
    /\ Release(e, "idle")
    /\ UNCHANGED <<dlq, poison, pushed, accepted, mappable, left, faulted, attempts>>

\* A message of the raw queue that cannot be mapped starts at zero retries.
Park(e) ==
    /\ e \in Engine /\ pc[e] = "took" /\ hand[e].msg \notin mappable
    /\ PushToDLQ(e, [msg |-> hand[e].msg, retries |-> 0])
    /\ UNCHANGED <<raw, poison, pushed, accepted, mappable, left, faulted, attempts>>

\* Fault: a failed replay goes back to the list as if it were new.
FaultFreshRetry(c) ==
    /\ c \in Replay /\ pc[c] = "took" /\ hand[c].msg \notin mappable
    /\ attempts' = [attempts EXCEPT ![hand[c].msg] = @ + 1]
    /\ PushToDLQ(c, [msg |-> hand[c].msg, retries |-> 0])
    /\ UNCHANGED <<raw, poison, pushed, accepted, mappable, left, faulted>>

\* A failed replay counts, and parks the entry once the count is reached.
Retry(c) ==
    /\ c \in Replay /\ pc[c] = "took" /\ hand[c].msg \notin mappable
    /\ attempts' = [attempts EXCEPT ![hand[c].msg] = @ + 1]
    /\ LET e == [hand[c] EXCEPT !.retries = @ + 1] IN
       \/ /\ e.retries >= MaxDLQRetries
          /\ poison' = poison \cup {e}
          /\ Release(c, "between")
          /\ UNCHANGED dlq
       \/ /\ e.retries < MaxDLQRetries
          /\ PushToDLQ(c, e)
          /\ UNCHANGED poison
    /\ UNCHANGED <<raw, pushed, accepted, mappable, left, faulted>>

\* The Redis write of a dead letter, a retry or a poisoned entry fails: the
\* error is logged or ignored, and the entry is gone.
LoseEntry(w) ==
    /\ pc[w] = "took" /\ hand[w].msg \notin mappable
    /\ faulted' = faulted \cup {hand[w].msg}
    /\ Release(w, Again(w))
    /\ UNCHANGED <<raw, dlq, poison, pushed, accepted, mappable, left, attempts>>

\* The process dies with an entry in hand, or the client of a replay goes away.
Crash(w) ==
    /\ hand[w] # None
    /\ faulted' = faulted \cup {hand[w].msg}
    /\ Release(w, "idle")
    /\ left' = [left EXCEPT ![w] = 0]
    /\ UNCHANGED <<raw, dlq, poison, pushed, accepted, mappable, attempts>>

\* A release whose connectors map one more message.  Nothing else makes a
\* replay end differently from the attempt before it.
Deploy(m) ==
    /\ m \notin mappable
    /\ \A w \in Worker : hand[w] = None
    /\ mappable' = mappable \cup {m}
    /\ UNCHANGED <<raw, dlq, poison, pushed, accepted, pc, hand, left, todo, faulted, attempts>>

EngineStep(e) ==
    \/ TakeRaw(e) \/ Map(e) \/ PushIncident(e) \/ LoseIncident(e) \/ Finish(e)
    \/ Park(e) \/ LoseEntry(e) \/ TrimDLQ(e) \/ SkipTrim(e)

ReplayStep(c) ==
    \/ TakeDead(c) \/ EndReplay(c) \/ Map(c) \/ PushIncident(c)
    \/ LoseIncident(c) \/ Finish(c) \/ Retry(c) \/ LoseEntry(c) \/ TrimDLQ(c) \/ SkipTrim(c)

Next ==
    \/ \E m \in Message : HandleGenericWebhook(m) \/ Deploy(m)
    \/ \E e \in Engine : EngineStep(e)
    \/ \E c \in Replay : StartReplay(c) \/ ReplayStep(c)
    \/ \E w \in Worker : Crash(w)

Spec == Init /\ [][Next]_vars

\* An engine is a loop around a blocking pop and a replay is a request that
\* runs to its end: each takes the step it can take.
FairSpec ==
    /\ Spec
    /\ \A e \in Engine : WF_vars(EngineStep(e))
    /\ \A c \in Replay : WF_vars(ReplayStep(c))

-----------------------------------------------------------------------------
(* Properties.                                                             *)

\* The lists hold messages and entries, and the workers' variables are theirs.
TypeOK ==
    /\ raw \in Seq(Message)
    /\ dlq \in Seq(Entry)
    /\ poison \in SUBSET Entry
    /\ pushed \in [Message -> Nat] /\ attempts \in [Message -> Nat]
    /\ accepted \in SUBSET Message /\ mappable \in SUBSET Message
    /\ faulted \in SUBSET Message
    /\ pc \in [Worker -> Step]
    /\ hand \in [Worker -> Entry \cup {None}]
    /\ left \in [Worker -> Nat] /\ todo \in [Worker -> Nat]
    /\ \A w \in Worker : hand[w] # None <=> pc[w] \in {"took", "pushing"}

CopiesInRaw(m) == Cardinality({j \in DOMAIN raw : raw[j] = m})
CopiesInDLQ(m) == Cardinality({j \in DOMAIN dlq : dlq[j].msg = m})
CopiesParked(m) == Cardinality({e \in poison : e.msg = m})
CopiesInHand(m) == Cardinality({w \in Worker : hand[w] # None /\ hand[w].msg = m})
Copies(m) == CopiesInRaw(m) + CopiesInDLQ(m) + CopiesParked(m) + CopiesInHand(m)

\* Engines, overlapping replays, crashes and releases never make two copies
\* of a message, and never push more incidents than it maps to.
NeverTwice ==
    \A m \in Message :
        /\ Copies(m) <= 1
        /\ pushed[m] <= Yield[m]
        /\ pushed[m] > 0 => CopiesInRaw(m) + CopiesInDLQ(m) + CopiesParked(m) = 0

\* A message that no crash, trim or failed write has touched is in one place,
\* or all its incidents are on the normalized queue.
AccountedFor ==
    \A m \in accepted \ faulted : Copies(m) = 1 \/ pushed[m] = Yield[m]

\* The count of an entry is the number of replays that failed on it, also
\* when two administrators replay at once; the list holds only entries with
\* retries left, and an entry is parked with none left, not before.
RetriesCounted ==
    /\ \A j \in DOMAIN dlq : /\ dlq[j].retries = attempts[dlq[j].msg]
                             /\ dlq[j].retries < MaxDLQRetries
    /\ \A e \in poison : e.retries = attempts[e.msg] /\ e.retries = MaxDLQRetries

\* A raw message is not left behind: it is mapped, parked in the dead-letter
\* list, or hit by a fault; and a message in hand is let go of.
EventuallySettled ==
    \A m \in Message :
        (CopiesInRaw(m) + CopiesInHand(m) > 0) ~> (CopiesInRaw(m) + CopiesInHand(m) = 0)

=============================================================================
