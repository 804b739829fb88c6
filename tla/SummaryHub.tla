----------------------------- MODULE SummaryHub -----------------------------
(***************************************************************************)
(* On-demand summaries: the SummaryHub Durable Object                      *)
(* (worker/src/worker/summaryhub.ts and summaryhubdo.ts) and the summary   *)
(* daemons connected to it (cmd/bringest/summaries.go).                    *)
(*                                                                         *)
(* The hub is single-threaded and its handlers never wait, so a handler is *)
(* one action, from the message, the deadline or the request that starts   *)
(* it to the end of its drain().  Its memory is the record `hub`; the      *)
(* handlers are built from operators that take it from one value to the    *)
(* next, one per method of SummaryDispatcher.                              *)
(*                                                                         *)
(* A link is one connection of a daemon: links are numbered in the order   *)
(* they are made, and a daemon that reconnects comes back on another one.  *)
(* Each direction of a link delivers in order.  Time is left out: a        *)
(* reader's deadline may pass, and a remembered failure be forgotten, at   *)
(* any moment.                                                             *)
(***************************************************************************)
EXTENDS Integers, Sequences, FiniteSets

CONSTANTS
    Keys,            \* summaries: a replay at a version
    VersionOf,       \* the insights version of each
    Readers,         \* pages waiting on POST /api/insights
    Links,           \* connections
    LinkVersion,     \* the version the daemon behind a link computes
    Slots,           \* how many summaries it computes at once
    MaxQueued,       \* HubOptions.maxQueued
    EvictsMidFlight, \* the hub may hibernate while a daemon computes and no reader waits
    MaxSeq           \* bound: messages the hub sends in one life

None == 0

ASSUME HubAssumption ==
    /\ None \notin Keys /\ Links \subseteq Nat \ {None}
    /\ DOMAIN VersionOf = Keys /\ DOMAIN LinkVersion = Links
    /\ Slots \in [Links -> Nat \ {0}]
    /\ MaxQueued \in Nat /\ MaxSeq \in Nat
    /\ EvictsMidFlight \in BOOLEAN

VARIABLES
    hub,        \* the dispatcher's memory
    page,       \* each reader: what it asked for and what it was told
    link,       \* each connection, as the hub sees it
    wire,       \* compute messages on their way to the daemon
    running,    \* what the daemon behind a link is computing
    answers,    \* results on their way back
    published   \* the summaries in the bucket

vars == <<hub, page, link, wire, running, answers, published>>

Pids == 1..(2 * MaxSeq)
Statuses == {"idle", "waiting", "done", "failed", "busy", "unavailable", "timeout"}

(***************************************************************************)
(* `comps` are the Pending objects made so far (a pid is a position in     *)
(* it); byKey and byMsg map to pids.  `failed` are the keys whose failure  *)
(* is remembered.                                                          *)
(***************************************************************************)
Comp == [key : Keys, readers : SUBSET Readers, link : Links \cup {None},
         msg : 0..MaxSeq, settled : BOOLEAN]

Empty == [comps |-> << >>, byKey |-> [k \in Keys |-> None], byMsg |-> [m \in 1..MaxSeq |-> None],
          busy |-> [l \in Links |-> 0], queue |-> << >>, failed |-> {}, seq |-> 0]

HubType == [comps : Seq(Comp), byKey : [Keys -> Pids \cup {None}],
            byMsg : [1..MaxSeq -> Pids \cup {None}], busy : [Links -> Nat],
            queue : Seq(Pids), failed : SUBSET Keys, seq : 0..MaxSeq]

Compute == [msg : 1..MaxSeq, key : Keys]
Result == [msg : 1..MaxSeq, ok : BOOLEAN]

-----------------------------------------------------------------------------
(* SummaryDispatcher's methods.  A state s has the hub's memory h, the     *)
(* pages told so far, and the wire.                                        *)

Now == [h |-> hub, page |-> page, wire |-> wire]

\* sockets(): a link whose readyState is OPEN, though the daemon may be gone already.
Able(version) == {l \in Links : link[l] \in {"open", "dead"} /\ LinkVersion[l] = version}

\* free(): a link with a slot left, the least loaded, the earliest of equals.
Free(h, able) == {l \in able : h.busy[l] < Slots[l]}
Lighter(h, l, n) ==
    \/ h.busy[l] * Slots[n] < h.busy[n] * Slots[l]
    \/ h.busy[l] * Slots[n] = h.busy[n] * Slots[l] /\ l <= n
Best(h, able) == CHOOSE l \in Free(h, able) : \A n \in Free(h, able) : Lighter(h, l, n)

Dispatch(s, p, l) ==
    LET id == s.h.seq + 1
        h == [s.h EXCEPT !.seq = id, !.comps[p].link = l, !.comps[p].msg = id,
                         !.busy[l] = @ + 1, !.byMsg[id] = p]
    IN  [s EXCEPT !.h = h, !.wire[l] = Append(@, [msg |-> id, key |-> s.h.comps[p].key])]

Release(s, p) ==
    LET c == s.h.comps[p]
    IN  IF c.msg = 0 \/ s.h.byMsg[c.msg] = None THEN s
        ELSE [s EXCEPT !.h.byMsg[c.msg] = None, !.h.busy[c.link] = @ - 1]

\* The queue without p, which is in it once at most.
Without(q, p) ==
    IF \A i \in DOMAIN q : q[i] # p THEN q
    ELSE LET at == CHOOSE i \in DOMAIN q : q[i] = p
         IN  [i \in 1..(Len(q) - 1) |-> IF i < at THEN q[i] ELSE q[i + 1]]

\* Mutant: the computation ends and its readers are not told.
SettleSilently(s, p, status) ==
    LET c == s.h.comps[p]
    IN  IF c.settled THEN s
        ELSE [s EXCEPT !.h.comps[p] = [c EXCEPT !.settled = TRUE, !.readers = {}],
                       !.h.byKey[c.key] = IF @ = p THEN None ELSE @,
                       !.h.queue = Without(@, p)]

Settle(s, p, status) ==
    LET c == s.h.comps[p]
    IN  IF c.settled THEN s
        ELSE [s EXCEPT !.h.comps[p] = [c EXCEPT !.settled = TRUE, !.readers = {}],
                       !.h.byKey[c.key] = IF @ = p THEN None ELSE @,
                       !.h.queue = Without(@, p),
                       !.page = [r \in Readers |-> IF r \in c.readers
                                                   THEN [@[r] EXCEPT !.status = status] ELSE @[r]]]

\* A computation a daemon had is over.
End(s, p, status) == Settle(Release(s, p), p, status)

\* drain(): the queue in order, until its head finds its daemons all busy.
Drained(s) ==
    LET p == Head(s.h.queue)
        able == Able(VersionOf[s.h.comps[p].key])
    IN  IF s.h.queue = << >> \/ (able # {} /\ Free(s.h, able) = {}) THEN s
        ELSE IF able = {} THEN Settle(s, p, "unavailable")
        ELSE Dispatch([s EXCEPT !.h.queue = Tail(@)], p, Best(s.h, able))
Drain(s) ==
    LET turn[n \in 0..Len(s.h.queue)] == IF n = 0 THEN s ELSE Drained(turn[n - 1])
    IN  turn[Len(s.h.queue)]

Becomes(s) == hub' = s.h /\ page' = s.page /\ wire' = s.wire

-----------------------------------------------------------------------------
(* Readers. *)

Told(r, k, status) ==
    /\ page' = [page EXCEPT ![r] = [key |-> k, status |-> status]]
    /\ UNCHANGED wire

\* A reader joins the computation of the summary there already is.
Join(r, k) ==
    /\ hub.byKey[k] # None
    /\ hub' = [hub EXCEPT !.comps[hub.byKey[k]].readers = @ \cup {r}]
    /\ Told(r, k, "waiting")

\* It failed less than failTtlMs ago.
FailedLately(r, k) ==
    /\ hub.byKey[k] = None /\ k \in hub.failed
    /\ Told(r, k, "failed") /\ UNCHANGED hub

NoDaemon(r, k) ==
    /\ hub.byKey[k] = None /\ k \notin hub.failed
    /\ Able(VersionOf[k]) = {}
    /\ Told(r, k, "unavailable") /\ UNCHANGED hub

Refused(r, k) ==
    /\ hub.byKey[k] = None /\ k \notin hub.failed
    /\ Able(VersionOf[k]) # {} /\ Free(hub, Able(VersionOf[k])) = {}
    /\ Len(hub.queue) >= MaxQueued
    /\ Told(r, k, "busy") /\ UNCHANGED hub

\* The Pending a request makes: r waits for it.
Made(r, k) ==
    LET p == Len(hub.comps) + 1
    IN  [h |-> [hub EXCEPT !.byKey[k] = p,
                           !.comps = Append(@, [key |-> k, readers |-> {r}, link |-> None,
                                                msg |-> 0, settled |-> FALSE])],
         page |-> [page EXCEPT ![r] = [key |-> k, status |-> "waiting"]],
         wire |-> wire]

\* It is sent to a daemon at once, or queued.
Begin(r, k) ==
    LET able == Able(VersionOf[k])
        p == Len(hub.comps) + 1
        s == Made(r, k)
    IN  /\ able # {} /\ hub.seq + Len(hub.queue) < MaxSeq /\ p \in Pids
        /\ \/ Free(hub, able) # {} /\ Becomes(Dispatch(s, p, Best(hub, able)))
           \/ /\ Free(hub, able) = {} /\ Len(hub.queue) < MaxQueued
              /\ Becomes([s EXCEPT !.h.queue = Append(@, p)])

\* Mutant: another one although one is under way.
StartAnother(r, k) == k \notin hub.failed /\ Begin(r, k)

Start(r, k) == hub.byKey[k] = None /\ k \notin hub.failed /\ Begin(r, k)

request(r, k) ==
    /\ page[r].status = "idle"
    /\ Join(r, k) \/ FailedLately(r, k) \/ NoDaemon(r, k) \/ Refused(r, k) \/ Start(r, k)
    /\ UNCHANGED <<link, running, answers, published>>

\* Reader r gives up on the computation p.
Leave(r, p) ==
    [h |-> [hub EXCEPT !.comps[p].readers = @ \ {r}], page |-> [page EXCEPT ![r].status = "timeout"],
     wire |-> wire]

\* Mutant: a queued computation is kept for nobody.
DeadlineKeeps(r) ==
    /\ page[r].status = "waiting"
    /\ \E p \in DOMAIN hub.comps :
        /\ r \in hub.comps[p].readers
        /\ Becomes(Leave(r, p))
    /\ UNCHANGED <<link, running, answers, published>>

\* A reader's 15 seconds are over. A queued computation nobody waits for is dropped.
Deadline(r) ==
    /\ page[r].status = "waiting"
    /\ \E p \in DOMAIN hub.comps :
        /\ r \in hub.comps[p].readers
        /\ LET s == Leave(r, p)
           IN  Becomes(IF s.h.comps[p].readers = {} /\ s.h.comps[p].msg = 0
                       THEN Settle(s, p, "timeout") ELSE s)
    /\ UNCHANGED <<link, running, answers, published>>

\* failTtlMs has passed.
Forget(k) ==
    /\ k \in hub.failed
    /\ hub' = [hub EXCEPT !.failed = @ \ {k}]
    /\ UNCHANGED <<page, link, wire, running, answers, published>>

-----------------------------------------------------------------------------
(* What the hub hears of its daemons. *)

\* p is a computation that link l was asked for.
Has(l, p) == IF p = None THEN FALSE ELSE hub.comps[p].link = l

\* A result. One the hub did not ask this link for, or asked in an earlier life, is ignored.
onMessage(l) ==
    /\ link[l] \in {"open", "dead", "closing"} /\ answers[l] # << >>
    /\ answers' = [answers EXCEPT ![l] = Tail(@)]
    /\ LET m == Head(answers[l])
           p == hub.byMsg[m.msg]
       IN  \/ ~Has(l, p) /\ UNCHANGED <<hub, page, wire>>
           \/ Has(l, p) /\ m.ok /\ Becomes(Drain(End(Now, p, "done")))
           \/ /\ Has(l, p) /\ ~m.ok
              /\ Becomes(Drain(End([Now EXCEPT !.h.failed = @ \cup {hub.comps[p].key}], p, "failed")))
    /\ UNCHANGED <<link, running, published>>

\* The computations a vanished link had end, in the order byMsg holds them.
Lost(l) ==
    LET turn[m \in 0..MaxSeq] ==
            IF m = 0 THEN Now
            ELSE IF Has(l, hub.byMsg[m]) THEN End(turn[m - 1], hub.byMsg[m], "failed")
            ELSE turn[m - 1]
    IN  turn[MaxSeq]

\* Mutant: nothing is released.
CloseForgets(l) ==
    /\ link[l] = "closing" /\ answers[l] = << >>
    /\ link' = [link EXCEPT ![l] = "gone"]
    /\ Becomes(Drain([Now EXCEPT !.h.busy[l] = 0]))
    /\ UNCHANGED <<running, answers, published>>

\* The close event, after everything else on the link.
onClose(l) ==
    /\ link[l] = "closing" /\ answers[l] = << >>
    /\ link' = [link EXCEPT ![l] = "gone"]
    /\ Becomes(Drain([Lost(l) EXCEPT !.h.busy[l] = 0]))
    /\ UNCHANGED <<running, answers, published>>

-----------------------------------------------------------------------------
(* The daemons. *)

\* Links are made in order; the hub drains nothing for a daemon that joins.
Connect(l) ==
    /\ link[l] = "unused" /\ \A n \in Links : n < l => link[n] # "unused"
    /\ link' = [link EXCEPT ![l] = "open"]
    /\ UNCHANGED <<hub, page, wire, running, answers, published>>

\* The daemon reads a message when it has a slot for it.
Take(l) ==
    /\ link[l] = "open" /\ wire[l] # << >> /\ Cardinality(running[l]) < Slots[l]
    /\ wire' = [wire EXCEPT ![l] = Tail(@)]
    /\ running' = [running EXCEPT ![l] = @ \cup {Head(wire[l])}]
    /\ UNCHANGED <<hub, page, link, answers, published>>

\* A computation ends: published and answered, or failed (or over computeMax).
Finish(l, c, ok) ==
    /\ link[l] = "open" /\ c \in running[l]
    /\ running' = [running EXCEPT ![l] = @ \ {c}]
    /\ answers' = [answers EXCEPT ![l] = Append(@, [msg |-> c.msg, ok |-> ok])]
    /\ published' = IF ok THEN published \cup {c.key} ELSE published
    /\ UNCHANGED <<hub, page, link, wire>>

\* The session ends on the daemon's side and everything on it with it: answers may be
\* lost, and a summary may have been published without one.
Die(l) ==
    /\ link[l] = "open"
    /\ link' = [link EXCEPT ![l] = "dead"]
    /\ wire' = [wire EXCEPT ![l] = << >>]
    /\ running' = [running EXCEPT ![l] = {}]
    /\ \E done \in SUBSET {c.key : c \in running[l]} : published' = published \cup done
    /\ \E n \in 0..Len(answers[l]) : answers' = [answers EXCEPT ![l] = SubSeq(@, 1, n)]
    /\ UNCHANGED <<hub, page>>

\* The hub sees the link go; its close event comes after what is still on the wire.
Closing(l) ==
    /\ link[l] = "dead"
    /\ link' = [link EXCEPT ![l] = "closing"]
    /\ UNCHANGED <<hub, page, wire, running, answers, published>>

-----------------------------------------------------------------------------

\* The runtime drops the hub's memory, keeping the links. It never does while a request
\* is in progress.
InFlight == \E m \in 1..MaxSeq : hub.byMsg[m] # None
Evict ==
    /\ \A r \in Readers : page[r].status # "waiting"
    /\ InFlight => EvictsMidFlight
    /\ hub # Empty /\ hub' = Empty
    /\ UNCHANGED <<page, link, wire, running, answers, published>>

Init ==
    /\ hub = Empty
    /\ page = [r \in Readers |-> [key |-> None, status |-> "idle"]]
    /\ link = [l \in Links |-> "unused"]
    /\ wire = [l \in Links |-> << >>]
    /\ running = [l \in Links |-> {}]
    /\ answers = [l \in Links |-> << >>]
    /\ published = {}

LinkStep(l) ==
    \/ Connect(l) \/ Take(l) \/ Die(l) \/ Closing(l)
    \/ onMessage(l) \/ onClose(l)
    \/ \E c \in running[l], ok \in BOOLEAN : Finish(l, c, ok)

Next ==
    \/ \E r \in Readers, k \in Keys : request(r, k)
    \/ \E r \in Readers : Deadline(r)
    \/ \E k \in Keys : Forget(k)
    \/ \E l \in Links : LinkStep(l)
    \/ Evict

(***************************************************************************)
(* Fairness: a deadline passes, the hub's events are delivered, and a      *)
(* daemon that is there reads its messages and ends its computations       *)
(* (computeMax); a dead link is noticed (the close event, or a send that   *)
(* fails).  Nothing makes anyone ask or connect.                           *)
(***************************************************************************)
Fairness ==
    /\ \A r \in Readers : WF_vars(Deadline(r))
    /\ \A l \in Links :
        /\ WF_vars(onMessage(l)) /\ WF_vars(onClose(l))
        /\ WF_vars(Take(l)) /\ WF_vars(Closing(l))
        /\ WF_vars(\E c \in running[l], ok \in BOOLEAN : Finish(l, c, ok))

Spec == Init /\ [][Next]_vars /\ Fairness

-----------------------------------------------------------------------------
(* What the hub promises. *)

Unsettled == {p \in DOMAIN hub.comps : ~hub.comps[p].settled}
SentTo(l) == {m \in 1..MaxSeq : hub.byMsg[m] # None /\ hub.comps[hub.byMsg[m]].link = l}

\* Readers of one summary share one computation, also those who come after an earlier
\* reader's time was up: at most one is alive per key, it is the one byKey knows, and
\* every waiting page hangs on exactly the one for what it asked (request, wait, settle).
ComputedOnce ==
    /\ \A p \in Unsettled : hub.byKey[hub.comps[p].key] = p
    /\ \A r \in Readers : page[r].status = "waiting" =>
          {p \in DOMAIN hub.comps : r \in hub.comps[p].readers} = {hub.byKey[page[r].key]} \ {None}
          /\ hub.byKey[page[r].key] # None

\* The load counters count what was sent and not answered, and "the hub never sends more
\* than that": what is on its way to a daemon and what it computes fit its slots, so no
\* message waits behind a full daemon (dispatch, release, onClose; summaries.go, session).
SlotsAreWork ==
    \A l \in Links :
        /\ hub.busy[l] = Cardinality(SentTo(l)) /\ hub.busy[l] <= Slots[l]
        /\ link[l] = "open" => Len(wire[l]) + Cardinality(running[l]) <= Slots[l]

\* The queue is short, holds what nobody has started, and only what somebody still waits
\* for (request's maxQueued, wait's dropping of the abandoned); and the slots are what is out.
QueueIsAwaited ==
    /\ SlotsAreWork
    /\ Len(hub.queue) <= MaxQueued
    /\ \A p \in Unsettled : hub.comps[p].msg = 0 <=> \E i \in DOMAIN hub.queue : hub.queue[i] = p
    /\ \A i \in DOMAIN hub.queue : hub.queue[i] \in Unsettled /\ hub.comps[hub.queue[i]].readers # {}

\* A slot given out comes back: the daemon answers, or its link is seen to go.
SlotsComeBack == \A m \in 1..MaxSeq : hub.byMsg[m] # None ~> hub.byMsg[m] = None

\* The abstract service: what is being worked on, every page of a key answered at once, and a
\* page told "done" finds its summary in the bucket (POST /api/insights reads it next).
Promise == INSTANCE SummaryPromise WITH working <- {k \in Keys : hub.byKey[k] # None}
PromiseKept == Promise!Spec
=============================================================================
