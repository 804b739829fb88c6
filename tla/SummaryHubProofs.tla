-------------------------- MODULE SummaryHubProofs --------------------------
(***************************************************************************)
(* One computation per summary, slots that count what is out, a queue of   *)
(* what is awaited, and that the hub keeps the safety of SummaryPromise:   *)
(* for any summaries, readers, links, slots and queue length.              *)
(***************************************************************************)
EXTENDS SummaryHub, SequenceTheorems, FiniteSetTheorems, FunctionTheorems, WellFoundedInduction, TLAPS

-----------------------------------------------------------------------------
(* Helpers. *)

\* A set of naturals that is not empty has a least element.
LEMMA Least ==
    ASSUME NEW T \in SUBSET Nat, T # {}
    PROVE  \E x \in T : \A y \in T : x <= y
<1>1. PICK R : R = OpToRel(<, Nat)
  OBVIOUS
<1>2. PICK x \in T : \A y \in T : ~ (<<y, x>> \in R)
  BY <1>1, NatLessThanWellFounded, WFMin
<1>3. \A y \in T : ~ (y < x)
  BY <1>1, <1>2 DEF OpToRel
<1> QED
  BY <1>3

\* A queue without p is what it was but for p.
LEMMA WithoutIs ==
    ASSUME NEW q \in Seq(Pids), NEW p, \A i, j \in DOMAIN q : q[i] = q[j] => i = j
    PROVE  LET w == Without(q, p)
           IN  /\ w \in Seq(Pids) /\ Len(w) <= Len(q)
               /\ \A i \in DOMAIN w : w[i] # p /\ \E j \in DOMAIN q : q[j] = w[i]
               /\ \A j \in DOMAIN q : q[j] # p => \E i \in DOMAIN w : w[i] = q[j]
               /\ \A i, j \in DOMAIN w : w[i] = w[j] => i = j
<1>0. DOMAIN q = 1 .. Len(q) /\ Len(q) \in Nat /\ \A i \in 1 .. Len(q) : q[i] \in Pids
  BY LenProperties, ElementOfSeq
<1>1. CASE \A i \in DOMAIN q : q[i] # p
  <2>1. Without(q, p) = q
    BY <1>1 DEF Without
  <2> QED
    BY <1>0, <1>1, <2>1
<1>2. CASE \E i \in DOMAIN q : q[i] = p
  <2> DEFINE at == CHOOSE i \in DOMAIN q : q[i] = p
             w == [i \in 1..(Len(q) - 1) |-> IF i < at THEN q[i] ELSE q[i + 1]]
  <2>1. at \in 1 .. Len(q) /\ q[at] = p
    BY <1>0, <1>2
  <2>2. Without(q, p) = w
    BY <1>2 DEF Without
  <2> HIDE DEF at
  <2>3. Len(q) - 1 \in Nat /\ \A i \in 1 .. (Len(q) - 1) : i \in 1 .. Len(q) /\ i + 1 \in 1 .. Len(q) /\ w[i] \in Pids
    BY <1>0, <2>1
  <2>4. w \in Seq(Pids) /\ Len(w) = Len(q) - 1 /\ DOMAIN w = 1 .. (Len(q) - 1)
    BY <2>3, IsASeq
  <2>5. \A i \in 1 .. (Len(q) - 1) : (i < at /\ w[i] = q[i]) \/ (i >= at /\ w[i] = q[i + 1])
    BY <1>0, <2>1
  <2>6. \A j \in 1 .. Len(q) : q[j] # p => (j < at /\ w[j] = q[j] /\ j \in DOMAIN w) \/ (w[j - 1] = q[j] /\ j - 1 \in DOMAIN w)
    BY <1>0, <2>1, <2>4
  <2> HIDE DEF w
  <2>7. \A i \in 1 .. (Len(q) - 1) : w[i] # p /\ \E j \in 1 .. Len(q) : q[j] = w[i]
    <3> SUFFICES ASSUME NEW i \in 1 .. (Len(q) - 1) PROVE w[i] # p /\ \E j \in 1 .. Len(q) : q[j] = w[i]
      OBVIOUS
    <3>1. CASE i < at /\ w[i] = q[i]
      BY <1>0, <2>1, <2>3, <3>1
    <3>2. CASE i >= at /\ w[i] = q[i + 1]
      <4>1. i + 1 # at /\ i + 1 \in 1 .. Len(q)
        BY <1>0, <2>1, <2>3, <3>2
      <4> QED
        BY <1>0, <2>1, <3>2, <4>1
    <3> QED
      BY <2>5, <3>1, <3>2
  <2>8. \A i, j \in 1 .. (Len(q) - 1) : w[i] = w[j] => i = j
    BY <1>0, <2>1, <2>3, <2>5
  <2>9. \A j \in DOMAIN q : q[j] # p => \E i \in DOMAIN w : w[i] = q[j]
    BY <1>0, <2>6
  <2>10. Len(w) <= Len(q)
    BY <1>0, <2>4
  <2> QED
    BY <1>0, <2>2, <2>4, <2>7, <2>8, <2>9, <2>10
<1> QED
  BY <1>1, <1>2
-----------------------------------------------------------------------------
(* The inductive invariant, of a state s of the dispatcher: its memory, the pages told so far, the wire. *)

State == [h : HubType, page : [Readers -> [key : Keys \cup {None}, status : Statuses]], wire : [Links -> Seq(Compute)]]

Alive(h) == {p \in DOMAIN h.comps : ~h.comps[p].settled}
Msgs(h, l) == {m \in 1..MaxSeq : h.byMsg[m] # None /\ h.comps[h.byMsg[m]].link = l}

\* byKey knows exactly the computations that are alive.
Keyed(h) ==
    /\ \A k \in Keys : h.byKey[k] # None => h.byKey[k] \in Alive(h) /\ h.comps[h.byKey[k]].key = k
    /\ \A p \in Alive(h) : h.byKey[h.comps[p].key] = p

\* A reader of a computation waits for its summary, and every page that waits is such a reader.
Read(h, pages) ==
    /\ \A p \in DOMAIN h.comps : \A r \in h.comps[p].readers :
          p \in Alive(h) /\ pages[r].status = "waiting" /\ pages[r].key = h.comps[p].key
    /\ \A r \in Readers : pages[r].status = "waiting" =>
          pages[r].key \in Keys /\ h.byKey[pages[r].key] # None /\ r \in h.comps[h.byKey[pages[r].key]].readers

\* byMsg knows exactly what was sent and is alive, and the loads count it.
Sent(h) ==
    /\ \A m \in 1..MaxSeq : h.byMsg[m] # None =>
          /\ m <= h.seq /\ h.byMsg[m] \in Alive(h)
          /\ h.comps[h.byMsg[m]].msg = m /\ h.comps[h.byMsg[m]].link \in Links
    /\ \A p \in Alive(h) : h.comps[p].msg # 0 => h.byMsg[h.comps[p].msg] = p
    /\ \A l \in Links : h.busy[l] = Cardinality(Msgs(h, l)) /\ h.busy[l] <= Slots[l]

\* The queue holds what is alive and was not sent, once, and has readers; `odd` is in between: it
\* may have lost its readers, or not be there.
Queued(h, odd) ==
    /\ \A i \in DOMAIN h.queue : /\ h.queue[i] \in Alive(h) /\ h.comps[h.queue[i]].msg = 0
                                 /\ h.queue[i] # odd => h.comps[h.queue[i]].readers # {}
    /\ \A i, j \in DOMAIN h.queue : h.queue[i] = h.queue[j] => i = j
    /\ \A p \in Alive(h) \ {odd} : h.comps[p].msg = 0 => \E i \in DOMAIN h.queue : h.queue[i] = p
    /\ Len(h.queue) <= MaxQueued /\ h.seq + Len(h.queue) <= MaxSeq

Good(s, odd) == s \in State /\ Keyed(s.h) /\ Read(s.h, s.page) /\ Sent(s.h) /\ Queued(s.h, odd)

\* What is on its way to link l's daemon, computed there or on its way back was sent to it and not
\* answered, each message in one place; and what comes back as done is in the bucket.
KeyOf(h, m) == h.comps[h.byMsg[m]].key
Travels(l, h, out, run, back, files) ==
    /\ \A i \in DOMAIN out : out[i].msg \in Msgs(h, l) /\ out[i].key = KeyOf(h, out[i].msg)
    /\ \A c \in run : c.msg \in Msgs(h, l) /\ c.key = KeyOf(h, c.msg)
    /\ \A i \in DOMAIN back : back[i].msg \in Msgs(h, l) /\ (back[i].ok => KeyOf(h, back[i].msg) \in files)
    /\ \A i, j \in DOMAIN out : out[i].msg = out[j].msg => i = j
    /\ \A i, j \in DOMAIN back : back[i].msg = back[j].msg => i = j
    /\ \A i \in DOMAIN out, c \in run : out[i].msg # c.msg
    /\ \A i \in DOMAIN back, c \in run : back[i].msg # c.msg
    /\ \A i \in DOMAIN back, j \in DOMAIN out : back[i].msg # out[j].msg
Up == {"open", "dead", "closing"}
Flight(s, links, run, back, files) ==
    /\ \A l \in Links : links[l] \in Up => Travels(l, s.h, s.wire[l], run[l], back[l], files)
    /\ \A l \in Links : links[l] = "unused" => s.wire[l] = << >> /\ run[l] = {} /\ back[l] = << >>

Around ==
    /\ link \in [Links -> {"unused", "open", "dead", "closing", "gone"}]
    /\ running \in [Links -> SUBSET Compute] /\ answers \in [Links -> Seq(Result)]
    /\ published \subseteq Keys
HubInv == Around /\ Good(Now, None)
IInv == HubInv /\ Flight(Now, link, running, answers, published)
-----------------------------------------------------------------------------
(* Ending a computation. *)

\* What the assumption says of links and bounds.
LEMMA Constants == ASSUME HubAssumption
    PROVE  /\ None \notin Keys /\ Links \subseteq Nat /\ None \notin Links /\ MaxSeq \in Nat /\ MaxQueued \in Nat
           /\ None \notin Pids /\ Pids \subseteq Nat /\ Slots \in [Links -> Nat \ {0}]
  BY DEF HubAssumption, None, Pids

\* Message ids are finitely many.
LEMMA MsgsFinite == ASSUME HubAssumption, NEW h, NEW l
    PROVE  /\ IsFiniteSet(Msgs(h, l)) /\ Cardinality(Msgs(h, l)) \in Nat
           /\ \A m \in Msgs(h, l) : /\ IsFiniteSet(Msgs(h, l) \ {m})
                                    /\ Cardinality(Msgs(h, l) \ {m}) = Cardinality(Msgs(h, l)) - 1
                                    /\ Cardinality(Msgs(h, l)) >= 1
<1>1. IsFiniteSet(1 .. MaxSeq)
  <2>1. 1 \in Int /\ MaxSeq \in Int
    BY Constants
  <2> QED
    BY <2>1, FS_Interval
<1>2. Msgs(h, l) \subseteq 1 .. MaxSeq
  BY DEF Msgs
<1>3. IsFiniteSet(Msgs(h, l)) /\ Cardinality(Msgs(h, l)) \in Nat
  BY <1>1, <1>2, FS_Subset, FS_CardinalityType
<1> HIDE DEF Msgs
<1>4. ASSUME NEW m \in Msgs(h, l)
      PROVE  /\ IsFiniteSet(Msgs(h, l) \ {m})
             /\ Cardinality(Msgs(h, l) \ {m}) = Cardinality(Msgs(h, l)) - 1
             /\ Cardinality(Msgs(h, l)) >= 1
  <2>1. IsFiniteSet(Msgs(h, l) \ {m}) /\ Cardinality(Msgs(h, l) \ {m}) = Cardinality(Msgs(h, l)) - 1
    BY <1>3, <1>4, FS_RemoveElement
  <2>2. Cardinality(Msgs(h, l) \ {m}) \in Nat
    BY <2>1, FS_CardinalityType
  <2> QED
    BY <1>3, <2>1, <2>2
<1> QED
  BY <1>3, <1>4

\* The fields of a state.
LEMMA Fields == ASSUME NEW s \in State
    PROVE  /\ s.h \in HubType
           /\ s.h.comps \in Seq(Comp) /\ s.h.byKey \in [Keys -> Pids \cup {None}]
           /\ s.h.byMsg \in [1..MaxSeq -> Pids \cup {None}] /\ s.h.busy \in [Links -> Nat]
           /\ s.h.queue \in Seq(Pids) /\ s.h.failed \in SUBSET Keys /\ s.h.seq \in 0..MaxSeq
           /\ s.page \in [Readers -> [key : Keys \cup {None}, status : Statuses]]
           /\ s.wire \in [Links -> Seq(Compute)]
           /\ DOMAIN s.h.comps = 1 .. Len(s.h.comps) /\ Len(s.h.comps) \in Nat
           /\ \A p \in DOMAIN s.h.comps : s.h.comps[p] \in Comp /\ p # None
           /\ DOMAIN s.h.queue = 1 .. Len(s.h.queue) /\ Len(s.h.queue) \in Nat
<1>1. /\ s.h \in HubType /\ s.wire \in [Links -> Seq(Compute)]
      /\ s.page \in [Readers -> [key : Keys \cup {None}, status : Statuses]]
  BY DEF State
<1>2. /\ s.h.comps \in Seq(Comp) /\ s.h.byKey \in [Keys -> Pids \cup {None}]
      /\ s.h.byMsg \in [1..MaxSeq -> Pids \cup {None}] /\ s.h.busy \in [Links -> Nat]
      /\ s.h.queue \in Seq(Pids) /\ s.h.failed \in SUBSET Keys /\ s.h.seq \in 0..MaxSeq
  BY <1>1 DEF HubType
<1>3. /\ DOMAIN s.h.comps = 1 .. Len(s.h.comps) /\ Len(s.h.comps) \in Nat
      /\ DOMAIN s.h.queue = 1 .. Len(s.h.queue) /\ Len(s.h.queue) \in Nat
  BY <1>2, LenProperties
<1>4. \A p \in DOMAIN s.h.comps : s.h.comps[p] \in Comp /\ p # None
  BY <1>2, <1>3, ElementOfSeq DEF None
<1> QED
  BY <1>1, <1>2, <1>3, <1>4

\* What becomes of a state s when the computation p, alive, ends: t.
Ended(s, t, p, status) ==
    LET c == s.h.comps[p]
    IN  /\ t \in State /\ t.wire = s.wire
        /\ t.page = [r \in Readers |-> IF r \in c.readers THEN [s.page[r] EXCEPT !.status = status] ELSE s.page[r]]
        /\ t.h.comps = [s.h.comps EXCEPT ![p] = [c EXCEPT !.settled = TRUE, !.readers = {}]]
        /\ t.h.byKey = [s.h.byKey EXCEPT ![c.key] = None]
        /\ t.h.byMsg = IF c.msg = 0 THEN s.h.byMsg ELSE [s.h.byMsg EXCEPT ![c.msg] = None]
        /\ t.h.busy = IF c.msg = 0 THEN s.h.busy ELSE [s.h.busy EXCEPT ![c.link] = @ - 1]
        /\ t.h.queue = Without(s.h.queue, p)
        /\ t.h.failed = s.h.failed /\ t.h.seq = s.h.seq

\* End does just that.
LEMMA EndIs ==
    ASSUME HubAssumption, NEW s, NEW p, Good(s, p), p \in Alive(s.h), NEW status \in Statuses
    PROVE  Ended(s, End(s, p, status), p, status)
<1> DEFINE c == s.h.comps[p]
           q == Release(s, p)
           t == End(s, p, status)
<1>1. s \in State /\ s.h \in HubType
  BY Fields DEF Good
<1>2. p \in DOMAIN s.h.comps /\ c \in Comp /\ ~c.settled /\ p # None
  BY <1>1, Fields DEF Alive
<1>3. c.msg # 0 => /\ c.msg \in 1 .. MaxSeq /\ s.h.byMsg[c.msg] = p /\ c.link \in Links
                   /\ c.msg \in Msgs(s.h, c.link) /\ s.h.busy[c.link] >= 1
  <2> SUFFICES ASSUME c.msg # 0
               PROVE  /\ c.msg \in 1 .. MaxSeq /\ s.h.byMsg[c.msg] = p /\ c.link \in Links
                      /\ c.msg \in Msgs(s.h, c.link) /\ s.h.busy[c.link] >= 1
    OBVIOUS
  <2>1. c.msg \in 1 .. MaxSeq
    BY <1>2, Constants DEF Comp
  <2>2. s.h.byMsg[c.msg] = p
    BY DEF Good, Sent
  <2>3. c.link \in Links /\ c.msg \in Msgs(s.h, c.link)
    BY <1>2, <2>1, <2>2 DEF Good, Sent, Msgs
  <2>4. s.h.busy[c.link] >= 1
    <3>1. s.h.busy[c.link] = Cardinality(Msgs(s.h, c.link))
      BY <2>3 DEF Good, Sent
    <3>2. Cardinality(Msgs(s.h, c.link)) >= 1
      BY <2>3, MsgsFinite
    <3> HIDE DEF c
    <3> QED
      BY <3>1, <3>2
  <2> QED
    BY <2>1, <2>2, <2>3, <2>4
<1>4. /\ q \in State /\ q.wire = s.wire /\ q.page = s.page /\ q.h.comps = s.h.comps /\ q.h.byKey = s.h.byKey
      /\ q.h.queue = s.h.queue /\ q.h.failed = s.h.failed /\ q.h.seq = s.h.seq
      /\ q.h.byMsg = IF c.msg = 0 THEN s.h.byMsg ELSE [s.h.byMsg EXCEPT ![c.msg] = None]
      /\ q.h.busy = IF c.msg = 0 THEN s.h.busy ELSE [s.h.busy EXCEPT ![c.link] = @ - 1]
  <2>1. CASE c.msg = 0
    <3>1. q = s
      BY <2>1 DEF Release
    <3> QED
      BY <1>1, <2>1, <3>1
  <2>2. CASE c.msg # 0
    <3>1. q = [s EXCEPT !.h.byMsg[c.msg] = None, !.h.busy[c.link] = @ - 1]
      BY <1>2, <1>3, <2>2 DEF Release
    <3>2. s.h.busy[c.link] - 1 \in Nat
      <4>1. s.h.busy \in [Links -> Nat]
        BY <1>1, Fields
      <4>2. c.link \in Links /\ s.h.busy[c.link] >= 1
        BY <1>3, <2>2
      <4> DEFINE n == s.h.busy[c.link]
      <4>3. n \in Nat /\ n >= 1
        BY <4>1, <4>2
      <4> HIDE DEF n
      <4>4. n - 1 \in Nat
        BY <4>3
      <4> QED
        BY <4>4 DEF n
    <3> DEFINE h == [s.h EXCEPT !.byMsg[c.msg] = None, !.busy[c.link] = @ - 1]
    <3>3. q = [s EXCEPT !.h = h]
      BY <1>1, <3>1 DEF State, HubType
    <3>4. /\ h \in HubType /\ h.comps = s.h.comps /\ h.byKey = s.h.byKey
          /\ h.queue = s.h.queue /\ h.failed = s.h.failed /\ h.seq = s.h.seq
          /\ h.byMsg = [s.h.byMsg EXCEPT ![c.msg] = None]
          /\ h.busy = [s.h.busy EXCEPT ![c.link] = @ - 1]
      BY <1>1, <1>3, <2>2, <3>2 DEF HubType
    <3> HIDE DEF h, c, q
    <3> QED
      BY <1>1, <2>2, <3>3, <3>4 DEF State
  <2> QED
    BY <2>1, <2>2
<1>5. s.h.byKey[c.key] = p /\ c.key \in Keys
  BY <1>2 DEF Good, Keyed, Comp
<1>6. \A i, j \in DOMAIN s.h.queue : s.h.queue[i] = s.h.queue[j] => i = j
  BY DEF Good, Queued
<1>7. Without(s.h.queue, p) \in Seq(Pids)
  BY <1>1, <1>6, WithoutIs, Fields
<1> DEFINE ended == [c EXCEPT !.settled = TRUE, !.readers = {}]
           comps == [s.h.comps EXCEPT ![p] = ended]
           byKey == [s.h.byKey EXCEPT ![c.key] = None]
           pages == [r \in Readers |-> IF r \in c.readers THEN [s.page[r] EXCEPT !.status = status] ELSE s.page[r]]
<1>8. t = [q EXCEPT !.h.comps[p] = ended, !.h.byKey[c.key] = None, !.h.queue = Without(s.h.queue, p), !.page = pages]
  <2>1. q.h.comps[p] = c /\ ~c.settled
    BY <1>2, <1>4
  <2>2. t = Settle(q, p, status)
    BY DEF End
  <2>3. /\ q.h.comps[p].settled = FALSE /\ q.h.byKey[c.key] = p /\ q.h.queue = s.h.queue
    BY <1>2, <1>4, <1>5, <2>1 DEF Comp
  <2> HIDE DEF q, t
  <2>4. t = [q EXCEPT !.h.comps[p] = [c EXCEPT !.settled = TRUE, !.readers = {}],
                      !.h.byKey[c.key] = IF @ = p THEN None ELSE @,
                      !.h.queue = Without(@, p),
                      !.page = [r \in Readers |-> IF r \in c.readers
                                                  THEN [@[r] EXCEPT !.status = status] ELSE @[r]]]
    BY <2>1, <2>2 DEF Settle
  <2> QED
    BY <1>1, <1>4, <2>3, <2>4 DEF State, HubType
<1>9. ended \in Comp
  BY <1>2 DEF Comp
<1>10. comps \in Seq(Comp) /\ byKey \in [Keys -> Pids \cup {None}]
  BY <1>1, <1>2, <1>5, <1>9, Fields, ExceptSeq
<1>11. pages \in [Readers -> [key : Keys \cup {None}, status : Statuses]]
  <2>1. s.page \in [Readers -> [key : Keys \cup {None}, status : Statuses]]
    BY <1>1, Fields
  <2> HIDE DEF c
  <2> QED
    BY <2>1
<1> DEFINE h == [q.h EXCEPT !.comps = comps, !.byKey = byKey, !.queue = Without(s.h.queue, p)]
<1>12. q.h \in HubType /\ q.h.comps = s.h.comps /\ q.h.byKey = s.h.byKey
  BY <1>4, Fields
<1>13. t = [q EXCEPT !.h = h, !.page = pages]
  <2> HIDE DEF q, t, ended, pages
  <2> QED
    BY <1>4, <1>8, <1>12 DEF State, HubType
<1> HIDE DEF q, t, comps, byKey, pages
<1>14. /\ h \in HubType /\ h.comps = comps /\ h.byKey = byKey /\ h.queue = Without(s.h.queue, p)
       /\ h.byMsg = q.h.byMsg /\ h.busy = q.h.busy /\ h.failed = q.h.failed /\ h.seq = q.h.seq
  BY <1>7, <1>10, <1>12 DEF HubType
<1> HIDE DEF h
<1>15. t \in State /\ t.h = h /\ t.page = pages /\ t.wire = q.wire
  BY <1>4, <1>11, <1>13, <1>14 DEF State
<1> QED
  BY <1>4, <1>14, <1>15 DEF Ended, t, comps, byKey, pages, ended

\* The computations alive after p's end, and what was sent and is not answered.
Left(s, t, p) ==
    LET c == s.h.comps[p]
    IN  /\ DOMAIN t.h.comps = DOMAIN s.h.comps /\ Alive(t.h) = Alive(s.h) \ {p}
        /\ \A o \in DOMAIN s.h.comps : /\ t.h.comps[o].key = s.h.comps[o].key
                                       /\ t.h.comps[o].msg = s.h.comps[o].msg
                                       /\ t.h.comps[o].link = s.h.comps[o].link
                                       /\ o # p => t.h.comps[o] = s.h.comps[o]
        /\ t.h.comps[p].readers = {}
        /\ \A m \in 1..MaxSeq : t.h.byMsg[m] = IF m = c.msg THEN None ELSE s.h.byMsg[m]
        /\ \A k \in Keys : t.h.byKey[k] = IF k = c.key THEN None ELSE s.h.byKey[k]
        /\ \A l \in Links : Msgs(t.h, l) = Msgs(s.h, l) \ {c.msg}
        /\ c.key \in Keys /\ s.h.byKey[c.key] = p /\ c.msg \in Nat
        /\ c.msg # 0 => /\ c.msg \in 1..MaxSeq /\ c.link \in Links /\ c.msg \in Msgs(s.h, c.link)
                        /\ \A l \in Links : c.msg \in Msgs(s.h, l) => l = c.link

\* That is what an end leaves.
LEMMA EndLeaves ==
    ASSUME HubAssumption, NEW s, NEW t, NEW p, Good(s, p), p \in Alive(s.h), NEW status \in Statuses,
           Ended(s, t, p, status)
    PROVE  Left(s, t, p)
<1> DEFINE c == s.h.comps[p]
<1>1. /\ s \in State /\ t \in State
      /\ t.h.comps = [s.h.comps EXCEPT ![p] = [c EXCEPT !.settled = TRUE, !.readers = {}]]
      /\ t.h.byKey = [s.h.byKey EXCEPT ![c.key] = None]
      /\ t.h.byMsg = IF c.msg = 0 THEN s.h.byMsg ELSE [s.h.byMsg EXCEPT ![c.msg] = None]
  BY DEF Good, Ended
<1>2. p \in DOMAIN s.h.comps /\ c \in Comp /\ ~c.settled /\ p # None
  BY <1>1, Fields DEF Alive
<1>3. /\ DOMAIN t.h.comps = DOMAIN s.h.comps
      /\ \A o \in DOMAIN s.h.comps : o # p => t.h.comps[o] = s.h.comps[o]
      /\ t.h.comps[p] = [c EXCEPT !.settled = TRUE, !.readers = {}]
  BY <1>1, <1>2
<1>4. /\ t.h.comps[p].key = c.key /\ t.h.comps[p].msg = c.msg /\ t.h.comps[p].link = c.link
      /\ t.h.comps[p].readers = {} /\ t.h.comps[p].settled
  BY <1>2, <1>3 DEF Comp
<1>5. Alive(t.h) = Alive(s.h) \ {p}
  BY <1>2, <1>3, <1>4 DEF Alive
<1>6. s.h.byMsg \in [1..MaxSeq -> Pids \cup {None}] /\ s.h.byKey \in [Keys -> Pids \cup {None}]
  BY <1>1, Fields
<1>7. c.key \in Keys /\ s.h.byKey[c.key] = p /\ c.msg \in Nat /\ (c.msg # 0 => c.msg \in 1..MaxSeq)
  BY <1>2, Constants DEF Comp, Good, Keyed
<1>8. \A m \in 1..MaxSeq : t.h.byMsg[m] = IF m = c.msg THEN None ELSE s.h.byMsg[m]
  BY <1>1, <1>6, <1>7
<1>9. \A k \in Keys : t.h.byKey[k] = IF k = c.key THEN None ELSE s.h.byKey[k]
  BY <1>1, <1>6
<1>10. \A m \in 1..MaxSeq : s.h.byMsg[m] # None => s.h.byMsg[m] \in Alive(s.h) /\ s.h.comps[s.h.byMsg[m]].msg = m
                                                   /\ s.h.byMsg[m] \in DOMAIN s.h.comps
  BY DEF Good, Sent, Alive
<1>11. \A l \in Links : Msgs(t.h, l) = Msgs(s.h, l) \ {c.msg}
  <2> SUFFICES ASSUME NEW l \in Links, NEW m \in 1..MaxSeq
               PROVE  m \in Msgs(t.h, l) <=> m \in Msgs(s.h, l) /\ m # c.msg
    BY DEF Msgs
  <2>1. CASE m = c.msg
    BY <1>8, <2>1 DEF Msgs
  <2>2. CASE m # c.msg
    <3>1. t.h.byMsg[m] = s.h.byMsg[m]
      BY <1>8, <2>2
    <3>2. s.h.byMsg[m] # None => t.h.comps[s.h.byMsg[m]].link = s.h.comps[s.h.byMsg[m]].link
      BY <1>3, <1>4, <1>10
    <3> QED
      BY <2>2, <3>1, <3>2 DEF Msgs
  <2> QED
    BY <2>1, <2>2
<1>12. c.msg # 0 => /\ c.link \in Links /\ c.msg \in Msgs(s.h, c.link)
                    /\ \A l \in Links : c.msg \in Msgs(s.h, l) => l = c.link
  <2> SUFFICES ASSUME c.msg # 0 PROVE /\ c.link \in Links /\ c.msg \in Msgs(s.h, c.link)
                                      /\ \A l \in Links : c.msg \in Msgs(s.h, l) => l = c.link
    OBVIOUS
  <2>1. c.msg \in 1..MaxSeq /\ s.h.byMsg[c.msg] = p
    BY <1>7 DEF Good, Sent
  <2> QED
    BY <1>2, <2>1 DEF Good, Sent, Msgs
<1> QED
  BY <1>3, <1>4, <1>5, <1>7, <1>8, <1>9, <1>11, <1>12 DEF Left

\* With p over, the state is good, whatever was odd about p.
LEMMA EndGood ==
    ASSUME HubAssumption, NEW s, NEW t, NEW p, Good(s, p), p \in Alive(s.h), NEW status \in Statuses,
           status # "waiting", Ended(s, t, p, status), NEW odd
    PROVE  Good(t, odd)
<1> DEFINE c == s.h.comps[p]
<1>1. /\ s \in State /\ t \in State
      /\ t.page = [r \in Readers |-> IF r \in c.readers THEN [s.page[r] EXCEPT !.status = status] ELSE s.page[r]]
      /\ t.h.busy = IF c.msg = 0 THEN s.h.busy ELSE [s.h.busy EXCEPT ![c.link] = @ - 1]
      /\ t.h.queue = Without(s.h.queue, p) /\ t.h.seq = s.h.seq
  BY DEF Good, Ended
<1>0. Left(s, t, p)
  BY EndLeaves
<1>2. /\ DOMAIN t.h.comps = DOMAIN s.h.comps /\ Alive(t.h) = Alive(s.h) \ {p}
      /\ \A o \in DOMAIN s.h.comps : /\ t.h.comps[o].key = s.h.comps[o].key
                                     /\ t.h.comps[o].msg = s.h.comps[o].msg
                                     /\ t.h.comps[o].link = s.h.comps[o].link
                                     /\ o # p => t.h.comps[o] = s.h.comps[o]
      /\ t.h.comps[p].readers = {}
      /\ \A m \in 1..MaxSeq : t.h.byMsg[m] = IF m = c.msg THEN None ELSE s.h.byMsg[m]
      /\ \A k \in Keys : t.h.byKey[k] = IF k = c.key THEN None ELSE s.h.byKey[k]
      /\ \A l \in Links : Msgs(t.h, l) = Msgs(s.h, l) \ {c.msg}
  BY <1>0 DEF Left
<1>3. /\ c.key \in Keys /\ s.h.byKey[c.key] = p /\ c.msg \in Nat
      /\ c.msg # 0 => /\ c.msg \in 1..MaxSeq /\ c.link \in Links /\ c.msg \in Msgs(s.h, c.link)
                      /\ \A l \in Links : c.msg \in Msgs(s.h, l) => l = c.link
  BY <1>0 DEF Left
<1>4. p \in DOMAIN s.h.comps /\ \A o \in Alive(s.h) : o \in DOMAIN s.h.comps
  BY DEF Alive
<1> HIDE DEF c
<1>5. Keyed(t.h)
  <2>1. \A k \in Keys : t.h.byKey[k] # None => t.h.byKey[k] \in Alive(t.h) /\ t.h.comps[t.h.byKey[k]].key = k
    <3> SUFFICES ASSUME NEW k \in Keys, k # c.key, s.h.byKey[k] # None
                 PROVE  s.h.byKey[k] \in Alive(t.h) /\ t.h.comps[s.h.byKey[k]].key = k
      BY <1>2
    <3>1. s.h.byKey[k] \in Alive(s.h) /\ s.h.comps[s.h.byKey[k]].key = k
      BY DEF Good, Keyed
    <3> QED
      BY <1>2, <1>4, <3>1 DEF c
  <2>2. \A o \in Alive(t.h) : t.h.byKey[t.h.comps[o].key] = o
    <3> SUFFICES ASSUME NEW o \in Alive(s.h), o # p PROVE t.h.byKey[t.h.comps[o].key] = o
      BY <1>2
    <3>1. s.h.byKey[s.h.comps[o].key] = o /\ t.h.comps[o].key = s.h.comps[o].key
      BY <1>2, <1>4 DEF Good, Keyed
    <3>2. s.h.comps[o].key # c.key
      BY <1>3, <3>1
    <3>3. s.h.comps[o].key \in Keys
      BY <1>1, <1>4, Fields DEF Comp
    <3> QED
      BY <1>2, <3>1, <3>2, <3>3
  <2> QED
    BY <2>1, <2>2 DEF Keyed
<1>6. Read(t.h, t.page)
  <2>1. ASSUME NEW o \in DOMAIN t.h.comps, NEW r \in t.h.comps[o].readers
        PROVE  o \in Alive(t.h) /\ t.page[r].status = "waiting" /\ t.page[r].key = t.h.comps[o].key
    <3>1. o # p /\ t.h.comps[o] = s.h.comps[o] /\ o \in DOMAIN s.h.comps
      BY <1>2, <2>1
    <3>2. o \in Alive(s.h) /\ s.page[r].status = "waiting" /\ s.page[r].key = s.h.comps[o].key
      BY <2>1, <3>1 DEF Good, Read
    <3>3. r \in Readers
      BY <1>1, <2>1, <3>1, Fields DEF Comp
    <3>4. r \notin c.readers
      <4> SUFFICES ASSUME r \in c.readers PROVE FALSE
        OBVIOUS
      <4>1. s.page[r].key = c.key
        BY <1>4 DEF Good, Read, c
      <4>2. s.h.byKey[s.h.comps[o].key] = o /\ s.h.byKey[c.key] = p
        BY <1>4, <3>2 DEF Good, Keyed, c
      <4> HIDE DEF c
      <4> QED
        BY <3>1, <3>2, <4>1, <4>2
    <3> QED
      BY <1>1, <1>2, <3>1, <3>2, <3>3, <3>4
  <2>2. ASSUME NEW r \in Readers, t.page[r].status = "waiting"
        PROVE  t.page[r].key \in Keys /\ t.h.byKey[t.page[r].key] # None /\ r \in t.h.comps[t.h.byKey[t.page[r].key]].readers
    <3>1. r \notin c.readers
      <4> SUFFICES ASSUME r \in c.readers PROVE FALSE
        OBVIOUS
      <4>1. t.page[r] = [s.page[r] EXCEPT !.status = status]
        BY <1>1
      <4>2. s.page[r] \in [key : Keys \cup {None}, status : Statuses]
        BY <1>1, Fields
      <4> QED
        BY <2>2, <4>1, <4>2
    <3>2. t.page[r] = s.page[r]
      BY <1>1, <3>1
    <3>3. s.page[r].key \in Keys /\ s.h.byKey[s.page[r].key] # None /\ r \in s.h.comps[s.h.byKey[s.page[r].key]].readers
      BY <2>2, <3>2 DEF Good, Read
    <3>4. s.page[r].key # c.key
      BY <1>3, <3>1, <3>3 DEF c
    <3>5. s.h.byKey[s.page[r].key] \in DOMAIN s.h.comps /\ s.h.byKey[s.page[r].key] # p
      BY <1>4, <3>3, <3>4 DEF Good, Keyed, c
    <3>6. t.h.byKey[s.page[r].key] = s.h.byKey[s.page[r].key]
      BY <1>2, <3>3, <3>4
    <3>7. t.h.comps[s.h.byKey[s.page[r].key]] = s.h.comps[s.h.byKey[s.page[r].key]]
      BY <1>2, <3>5
    <3> QED
      BY <3>2, <3>3, <3>6, <3>7
  <2> QED
    BY <2>1, <2>2 DEF Read
<1>7. Sent(t.h)
  <2>1. ASSUME NEW m \in 1..MaxSeq, t.h.byMsg[m] # None
        PROVE  /\ m <= t.h.seq /\ t.h.byMsg[m] \in Alive(t.h)
               /\ t.h.comps[t.h.byMsg[m]].msg = m /\ t.h.comps[t.h.byMsg[m]].link \in Links
    <3>1. m # c.msg /\ t.h.byMsg[m] = s.h.byMsg[m] /\ s.h.byMsg[m] # None
      BY <1>2, <2>1
    <3>2. /\ m <= s.h.seq /\ s.h.byMsg[m] \in Alive(s.h)
          /\ s.h.comps[s.h.byMsg[m]].msg = m /\ s.h.comps[s.h.byMsg[m]].link \in Links
      BY <3>1 DEF Good, Sent
    <3>3. s.h.byMsg[m] # p
      BY <3>1, <3>2 DEF c
    <3> QED
      BY <1>1, <1>2, <1>4, <3>1, <3>2, <3>3
  <2>2. ASSUME NEW o \in Alive(t.h), t.h.comps[o].msg # 0
        PROVE  t.h.byMsg[t.h.comps[o].msg] = o
    <3>1. o \in Alive(s.h) /\ o # p /\ o \in DOMAIN s.h.comps /\ t.h.comps[o].msg = s.h.comps[o].msg
      BY <1>2, <1>4
    <3>2. s.h.byMsg[s.h.comps[o].msg] = o /\ s.h.comps[o].msg \in 1..MaxSeq
      <4>1. s.h.comps[o].msg \in 0..MaxSeq
        BY <1>1, <3>1, Fields DEF Comp
      <4> QED
        BY <2>2, <3>1, <4>1, Constants DEF Good, Sent
    <3>3. s.h.comps[o].msg # c.msg
      <4>1. c.msg # 0 => s.h.byMsg[c.msg] = p
        BY DEF Good, Sent, c
      <4> QED
        BY <2>2, <3>1, <3>2, <4>1
    <3> QED
      BY <1>2, <3>1, <3>2, <3>3
  <2>3. ASSUME NEW l \in Links
        PROVE  t.h.busy[l] = Cardinality(Msgs(t.h, l)) /\ t.h.busy[l] <= Slots[l]
    <3>1. s.h.busy[l] = Cardinality(Msgs(s.h, l)) /\ s.h.busy[l] <= Slots[l] /\ s.h.busy[l] \in Nat
      BY <1>1, Fields DEF Good, Sent
    <3>2. CASE c.msg = 0 \/ l # c.link
      <4>1. Msgs(t.h, l) = Msgs(s.h, l)
        <5>1. c.msg \notin Msgs(s.h, l)
          BY <1>3, <3>2 DEF Msgs
        <5>2. Msgs(t.h, l) = Msgs(s.h, l) \ {c.msg}
          BY <1>2
        <5> HIDE DEF Msgs
        <5> QED
          BY <5>1, <5>2
      <4>2. t.h.busy[l] = s.h.busy[l]
        <5>1. s.h.busy \in [Links -> Nat]
          BY <1>1, Fields
        <5> QED
          BY <1>1, <3>2, <5>1
      <4> QED
        BY <3>1, <4>1, <4>2
    <3>3. CASE c.msg # 0 /\ l = c.link
      <4>1. t.h.busy[l] = s.h.busy[l] - 1
        <5>1. s.h.busy \in [Links -> Nat]
          BY <1>1, Fields
        <5> QED
          BY <1>1, <3>3, <5>1
      <4>2. Cardinality(Msgs(s.h, l) \ {c.msg}) = Cardinality(Msgs(s.h, l)) - 1
        BY <1>3, <3>3, MsgsFinite
      <4>3. Slots[l] \in Nat
        BY Constants
      <4>4. Msgs(t.h, l) = Msgs(s.h, l) \ {c.msg}
        BY <1>2
      <4>5. s.h.busy[l] - 1 <= Slots[l]
        <5> DEFINE n == s.h.busy[l]
                   k == Slots[l]
        <5>1. n \in Nat /\ k \in Nat /\ n <= k
          BY <3>1, <4>3
        <5> HIDE DEF n, k
        <5>2. n - 1 <= k
          BY <5>1
        <5> QED
          BY <5>2 DEF n, k
      <4> QED
        BY <3>1, <4>1, <4>2, <4>4, <4>5
    <3> QED
      BY <3>2, <3>3
  <2> QED
    BY <2>1, <2>2, <2>3 DEF Sent
<1>8. Queued(t.h, odd)
  <2> DEFINE q == s.h.queue
             w == t.h.queue
  <2>1. q \in Seq(Pids) /\ \A i, j \in DOMAIN q : q[i] = q[j] => i = j
    BY <1>1, Fields DEF Good, Queued
  <2>2. /\ w \in Seq(Pids) /\ Len(w) <= Len(q)
        /\ \A i \in DOMAIN w : w[i] # p /\ \E j \in DOMAIN q : q[j] = w[i]
        /\ \A j \in DOMAIN q : q[j] # p => \E i \in DOMAIN w : w[i] = q[j]
        /\ \A i, j \in DOMAIN w : w[i] = w[j] => i = j
    <3> HIDE DEF q
    <3> QED
      BY <1>1, <2>1, WithoutIs DEF q
  <2>3. ASSUME NEW i \in DOMAIN w
        PROVE  w[i] \in Alive(t.h) /\ t.h.comps[w[i]].msg = 0 /\ t.h.comps[w[i]].readers # {}
    <3>1. PICK j \in DOMAIN q : q[j] = w[i] /\ w[i] # p
      BY <2>2, <2>3
    <3>2. q[j] \in Alive(s.h) /\ s.h.comps[q[j]].msg = 0 /\ s.h.comps[q[j]].readers # {}
      BY <3>1 DEF Good, Queued
    <3> QED
      BY <1>2, <1>4, <3>1, <3>2
  <2>4. ASSUME NEW o \in Alive(t.h), t.h.comps[o].msg = 0
        PROVE  \E i \in DOMAIN w : w[i] = o
    <3>1. o \in Alive(s.h) /\ o # p /\ s.h.comps[o].msg = 0
      BY <1>2, <1>4, <2>4
    <3>2. PICK j \in DOMAIN q : q[j] = o
      BY <3>1 DEF Good, Queued
    <3> QED
      BY <2>2, <3>1, <3>2
  <2>5. Len(w) <= MaxQueued /\ t.h.seq + Len(w) <= MaxSeq
    <3>1. Len(q) <= MaxQueued /\ s.h.seq + Len(q) <= MaxSeq
      BY DEF Good, Queued
    <3>2. Len(q) \in Nat /\ Len(w) \in Nat /\ s.h.seq \in Nat /\ t.h.seq = s.h.seq /\ MaxSeq \in Nat /\ MaxQueued \in Nat
      BY <1>1, Fields, Constants
    <3> HIDE DEF q, w
    <3> QED
      BY <2>2, <3>1, <3>2
  <2> QED
    BY <2>2, <2>3, <2>4, <2>5 DEF Queued
<1> QED
  BY <1>1, <1>5, <1>6, <1>7, <1>8 DEF Good
-----------------------------------------------------------------------------
(* Handing a computation out. *)

\* What becomes of a state s when the computation p is sent to link l: t.
Dispatched(s, t, p, l) ==
    LET id == s.h.seq + 1
    IN  /\ t \in State /\ t.page = s.page
        /\ t.wire = [s.wire EXCEPT ![l] = Append(s.wire[l], [msg |-> id, key |-> s.h.comps[p].key])]
        /\ t.h.comps = [s.h.comps EXCEPT ![p] = [s.h.comps[p] EXCEPT !.link = l, !.msg = id]]
        /\ t.h.byKey = s.h.byKey
        /\ t.h.byMsg = [s.h.byMsg EXCEPT ![id] = p]
        /\ t.h.busy = [s.h.busy EXCEPT ![l] = s.h.busy[l] + 1]
        /\ t.h.queue = s.h.queue /\ t.h.failed = s.h.failed /\ t.h.seq = id

\* Dispatch does just that.
LEMMA DispatchIs ==
    ASSUME HubAssumption, NEW s \in State, NEW p \in Pids, p \in DOMAIN s.h.comps, NEW l \in Links,
           s.h.seq < MaxSeq
    PROVE  Dispatched(s, Dispatch(s, p, l), p, l)
<1> DEFINE id == s.h.seq + 1
           c == [s.h.comps[p] EXCEPT !.link = l, !.msg = id]
           m == [msg |-> id, key |-> s.h.comps[p].key]
           t == Dispatch(s, p, l)
<1>1. s.h \in HubType /\ s.h.comps[p] \in Comp /\ s.h.seq \in 0..MaxSeq
  BY Fields
<1>2. id \in 1..MaxSeq
  <2> DEFINE n == s.h.seq
  <2>1. n \in 0..MaxSeq /\ n < MaxSeq /\ MaxSeq \in Nat
    BY <1>1, Constants
  <2> HIDE DEF n
  <2>2. n + 1 \in 1..MaxSeq
    BY <2>1
  <2> QED
    BY <2>2 DEF n
<1>3. c \in Comp /\ m \in Compute
  <2>1. id \in 0..MaxSeq
    BY <1>2
  <2> HIDE DEF id
  <2> QED
    BY <1>1, <1>2, <2>1 DEF Comp, Compute
<1> DEFINE g == [s.h EXCEPT !.seq = id, !.comps[p].link = l, !.comps[p].msg = id,
                            !.busy[l] = @ + 1, !.byMsg[id] = p]
<1>4. t = [s EXCEPT !.h = g, !.wire[l] = Append(s.wire[l], m)]
  BY DEF Dispatch
<1> DEFINE comps == [s.h.comps EXCEPT ![p] = c]
           busy == [s.h.busy EXCEPT ![l] = s.h.busy[l] + 1]
           byMsg == [s.h.byMsg EXCEPT ![id] = p]
           out == [s.wire EXCEPT ![l] = Append(s.wire[l], m)]
           h == [s.h EXCEPT !.seq = id, !.comps = comps, !.busy = busy, !.byMsg = byMsg]
<1>5. t = [s EXCEPT !.h = h, !.wire = out]
  <2> HIDE DEF t, m, id
  <2>1. /\ s.h.comps \in Seq(Comp) /\ s.h.busy \in [Links -> Nat]
        /\ s.h.byMsg \in [1..MaxSeq -> Pids \cup {None}] /\ s.wire \in [Links -> Seq(Compute)]
    BY Fields
  <2>2. t = [s EXCEPT !.h = g, !.wire = out]
    <3> HIDE DEF g
    <3> QED
      BY <1>4 DEF State
  <2>3. [s.h.comps EXCEPT ![p].link = l, ![p].msg = id] = comps
    BY <1>1, <2>1 DEF Comp
  <2>4. g = h
    <3>1. g = [s.h EXCEPT !.seq = id, !.comps = [s.h.comps EXCEPT ![p].link = l, ![p].msg = id],
                          !.busy = busy, !.byMsg = byMsg]
      BY <1>1, <2>1 DEF HubType
    <3> QED
      BY <2>3, <3>1
  <2> QED
    BY <2>2, <2>4
<1>6. comps \in Seq(Comp)
  <2> HIDE DEF c
  <2> QED
    BY <1>3, Fields, ExceptSeq
<1>7. busy \in [Links -> Nat]
  <2>1. s.h.busy \in [Links -> Nat]
    BY Fields
  <2>2. s.h.busy[l] + 1 \in Nat
    BY <2>1
  <2> QED
    BY <2>1, <2>2
<1>8. byMsg \in [1..MaxSeq -> Pids \cup {None}]
  <2> HIDE DEF id
  <2> QED
    BY <1>2, Fields
<1>9. out \in [Links -> Seq(Compute)]
  <2>1. s.wire \in [Links -> Seq(Compute)]
    BY Fields
  <2>2. Append(s.wire[l], m) \in Seq(Compute)
    <3> HIDE DEF m
    <3> QED
      BY <1>3, <2>1, AppendProperties
  <2> HIDE DEF m
  <2> QED
    BY <2>1, <2>2
<1> HIDE DEF t, comps, busy, byMsg, out, id, c, m
<1>10. /\ h \in HubType /\ h.seq = id /\ h.comps = comps /\ h.busy = busy /\ h.byMsg = byMsg
       /\ h.byKey = s.h.byKey /\ h.queue = s.h.queue /\ h.failed = s.h.failed
  <2>1. id \in 0..MaxSeq
    BY <1>2
  <2> QED
    BY <1>1, <1>6, <1>7, <1>8, <2>1 DEF HubType
<1> HIDE DEF h
<1>11. t \in State /\ t.h = h /\ t.page = s.page /\ t.wire = out
  BY <1>5, <1>9, <1>10 DEF State
<1> QED
  BY <1>10, <1>11 DEF Dispatched, t, comps, busy, byMsg, out, id, c, m
\* What is out, once p is.
WentOut(s, t, p, l) ==
    LET id == s.h.seq + 1
    IN  /\ id \in 1..MaxSeq /\ s.h.byMsg[id] = None /\ id \in Msgs(t.h, l)
        /\ t.h.byMsg[id] = p
        /\ DOMAIN t.h.comps = DOMAIN s.h.comps /\ Alive(t.h) = Alive(s.h)
        /\ \A o \in DOMAIN s.h.comps : /\ t.h.comps[o].key = s.h.comps[o].key
                                       /\ t.h.comps[o].readers = s.h.comps[o].readers
                                       /\ o # p => t.h.comps[o] = s.h.comps[o]
        /\ t.h.comps[p].msg = id /\ t.h.comps[p].link = l
        /\ \A m \in 1..MaxSeq : m # id => t.h.byMsg[m] = s.h.byMsg[m] /\ s.h.byMsg[m] # p
        /\ Msgs(t.h, l) = Msgs(s.h, l) \cup {id}
        /\ \A n \in Links : id \notin Msgs(s.h, n) /\ (n # l => Msgs(t.h, n) = Msgs(s.h, n))

\* p may go out to l: it is not in the queue and was not sent, and l has a slot.
MayGo(s, p, l) ==
    /\ p \in Alive(s.h) /\ s.h.comps[p].msg = 0 /\ \A i \in DOMAIN s.h.queue : s.h.queue[i] # p
    /\ l \in Links /\ s.h.busy[l] < Slots[l] /\ s.h.seq + Len(s.h.queue) < MaxSeq

\* One message more is out than before, and it is p's.
LEMMA DispatchSends ==
    ASSUME HubAssumption, NEW s, NEW t, NEW p, NEW l, Good(s, p), MayGo(s, p, l), Dispatched(s, t, p, l)
    PROVE  WentOut(s, t, p, l)
<1> DEFINE id == s.h.seq + 1
           c == s.h.comps[p]
<1>1. /\ s \in State /\ t \in State /\ s.h.seq \in Nat /\ MaxSeq \in Nat /\ l \in Links
      /\ p \in DOMAIN s.h.comps /\ c \in Comp /\ p # None /\ c.msg = 0
  BY Fields, Constants DEF Good, Dispatched, MayGo, Alive
<1>2. id \in 1..MaxSeq
  <2>1. Len(s.h.queue) \in Nat /\ s.h.seq + Len(s.h.queue) < MaxSeq
    BY <1>1, Fields DEF MayGo
  <2> DEFINE n == s.h.seq
             k == Len(s.h.queue)
  <2>2. n \in Nat /\ k \in Nat /\ n + k < MaxSeq
    BY <1>1, <2>1
  <2> HIDE DEF n, k
  <2>3. n + 1 \in 1..MaxSeq
    BY <1>1, <2>2
  <2> QED
    BY <2>3 DEF n
<1>3. s.h.byMsg[id] = None
  <2>1. \A m \in 1..MaxSeq : s.h.byMsg[m] # None => m <= s.h.seq
    BY DEF Good, Sent
  <2>2. ~(id <= s.h.seq)
    BY <1>1
  <2> HIDE DEF id
  <2> QED
    BY <1>2, <2>1, <2>2
<1>4. /\ t.h.comps = [s.h.comps EXCEPT ![p] = [c EXCEPT !.link = l, !.msg = id]]
      /\ t.h.byMsg = [s.h.byMsg EXCEPT ![id] = p]
  BY DEF Dispatched
<1> HIDE DEF id
<1>5. /\ DOMAIN t.h.comps = DOMAIN s.h.comps /\ t.h.comps[p] = [c EXCEPT !.link = l, !.msg = id]
      /\ \A o \in DOMAIN s.h.comps : o # p => t.h.comps[o] = s.h.comps[o]
  BY <1>1, <1>4
<1>6. /\ t.h.comps[p].key = c.key /\ t.h.comps[p].readers = c.readers /\ t.h.comps[p].settled = c.settled
      /\ t.h.comps[p].msg = id /\ t.h.comps[p].link = l
  BY <1>1, <1>5 DEF Comp
<1>7. Alive(t.h) = Alive(s.h)
  BY <1>1, <1>5, <1>6 DEF Alive
<1>8. \A m \in 1..MaxSeq : m # id => t.h.byMsg[m] = s.h.byMsg[m] /\ s.h.byMsg[m] # p
  <2>1. s.h.byMsg \in [1..MaxSeq -> Pids \cup {None}]
    BY <1>1, Fields
  <2>2. \A m \in 1..MaxSeq : s.h.byMsg[m] # None => s.h.comps[s.h.byMsg[m]].msg = m
    BY DEF Good, Sent
  <2>3. \A m \in 1..MaxSeq : s.h.byMsg[m] # p
    <3> SUFFICES ASSUME NEW m \in 1..MaxSeq, s.h.byMsg[m] = p PROVE FALSE
      OBVIOUS
    <3>1. s.h.comps[p].msg = m
      BY <1>1, <2>2
    <3> QED
      BY <1>1, <3>1
  <2> QED
    BY <1>2, <1>4, <2>1, <2>3
<1>9. t.h.byMsg[id] = p
  <2>1. s.h.byMsg \in [1..MaxSeq -> Pids \cup {None}]
    BY <1>1, Fields
  <2> QED
    BY <1>2, <1>4, <2>1
<1>10. \A m \in 1..MaxSeq : s.h.byMsg[m] # None => s.h.byMsg[m] \in DOMAIN s.h.comps
  BY DEF Good, Sent, Alive
<1>11. \A n \in Links, m \in 1..MaxSeq : m # id => (m \in Msgs(t.h, n) <=> m \in Msgs(s.h, n))
  <2> SUFFICES ASSUME NEW n \in Links, NEW m \in 1..MaxSeq, m # id
               PROVE  m \in Msgs(t.h, n) <=> m \in Msgs(s.h, n)
    OBVIOUS
  <2>1. t.h.byMsg[m] = s.h.byMsg[m] /\ s.h.byMsg[m] # p
    BY <1>8
  <2>2. s.h.byMsg[m] # None => t.h.comps[s.h.byMsg[m]] = s.h.comps[s.h.byMsg[m]]
    BY <1>5, <1>10, <2>1
  <2> QED
    BY <2>1, <2>2 DEF Msgs
<1>12. \A n \in Links : id \notin Msgs(s.h, n) /\ (id \in Msgs(t.h, n) <=> n = l)
  BY <1>1, <1>2, <1>3, <1>6, <1>9 DEF Msgs
<1>13. \A n \in Links : Msgs(t.h, n) \subseteq 1..MaxSeq /\ Msgs(s.h, n) \subseteq 1..MaxSeq
  BY DEF Msgs
<1>14. /\ Msgs(t.h, l) = Msgs(s.h, l) \cup {id}
       /\ \A n \in Links : n # l => Msgs(t.h, n) = Msgs(s.h, n)
  <2> HIDE DEF Msgs
  <2>1. \A n \in Links : n # l => Msgs(t.h, n) = Msgs(s.h, n)
    <3> SUFFICES ASSUME NEW n \in Links, n # l PROVE Msgs(t.h, n) = Msgs(s.h, n)
      OBVIOUS
    <3> QED
      BY <1>11, <1>12, <1>13
  <2>2. Msgs(t.h, l) = Msgs(s.h, l) \cup {id}
    BY <1>1, <1>11, <1>12, <1>13
  <2> QED
    BY <2>1, <2>2
<1> QED
  BY <1>1, <1>2, <1>3, <1>5, <1>6, <1>7, <1>8, <1>9, <1>12, <1>14 DEF WentOut, id

\* With p out, the state is good.
LEMMA DispatchGood ==
    ASSUME HubAssumption, NEW s, NEW t, NEW p, NEW l, Good(s, p), MayGo(s, p, l), Dispatched(s, t, p, l),
           NEW odd
    PROVE  Good(t, odd)
<1> DEFINE id == s.h.seq + 1
<1>0. WentOut(s, t, p, l)
  BY DispatchSends
<1>1. /\ s \in State /\ t \in State /\ t.page = s.page /\ t.h.byKey = s.h.byKey /\ t.h.queue = s.h.queue
      /\ t.h.seq = id /\ t.h.busy = [s.h.busy EXCEPT ![l] = s.h.busy[l] + 1]
  BY DEF Good, Dispatched
<1>2. /\ id \in 1..MaxSeq /\ s.h.byMsg[id] = None /\ t.h.byMsg[id] = p
      /\ DOMAIN t.h.comps = DOMAIN s.h.comps /\ Alive(t.h) = Alive(s.h)
      /\ \A o \in DOMAIN s.h.comps : /\ t.h.comps[o].key = s.h.comps[o].key
                                     /\ t.h.comps[o].readers = s.h.comps[o].readers
                                     /\ o # p => t.h.comps[o] = s.h.comps[o]
      /\ t.h.comps[p].msg = id /\ t.h.comps[p].link = l
      /\ \A m \in 1..MaxSeq : m # id => t.h.byMsg[m] = s.h.byMsg[m] /\ s.h.byMsg[m] # p
      /\ Msgs(t.h, l) = Msgs(s.h, l) \cup {id}
      /\ \A n \in Links : id \notin Msgs(s.h, n) /\ (n # l => Msgs(t.h, n) = Msgs(s.h, n))
  BY <1>0 DEF WentOut
<1>3. /\ p \in Alive(s.h) /\ s.h.comps[p].msg = 0 /\ \A i \in DOMAIN s.h.queue : s.h.queue[i] # p
      /\ l \in Links /\ s.h.busy[l] < Slots[l] /\ s.h.seq + Len(s.h.queue) < MaxSeq
  BY DEF MayGo
<1>4. \A o \in Alive(s.h) : o \in DOMAIN s.h.comps
  BY DEF Alive
<1>5. Keyed(t.h)
  <2>1. \A k \in Keys : s.h.byKey[k] # None => s.h.byKey[k] \in Alive(s.h) /\ s.h.comps[s.h.byKey[k]].key = k
    BY DEF Good, Keyed
  <2>2. \A o \in Alive(s.h) : s.h.byKey[s.h.comps[o].key] = o
    BY DEF Good, Keyed
  <2> QED
    BY <1>1, <1>2, <1>4, <2>1, <2>2 DEF Keyed
<1>6. Read(t.h, t.page)
  <2>1. ASSUME NEW o \in DOMAIN t.h.comps, NEW r \in t.h.comps[o].readers
        PROVE  o \in Alive(t.h) /\ t.page[r].status = "waiting" /\ t.page[r].key = t.h.comps[o].key
    <3>1. o \in DOMAIN s.h.comps /\ r \in s.h.comps[o].readers /\ t.h.comps[o].key = s.h.comps[o].key
      BY <1>2, <2>1
    <3>2. o \in Alive(s.h) /\ s.page[r].status = "waiting" /\ s.page[r].key = s.h.comps[o].key
      BY <3>1 DEF Good, Read
    <3> QED
      BY <1>1, <1>2, <3>1, <3>2
  <2>2. ASSUME NEW r \in Readers, t.page[r].status = "waiting"
        PROVE  t.page[r].key \in Keys /\ t.h.byKey[t.page[r].key] # None
               /\ r \in t.h.comps[t.h.byKey[t.page[r].key]].readers
    <3>1. s.page[r].key \in Keys /\ s.h.byKey[s.page[r].key] # None
          /\ r \in s.h.comps[s.h.byKey[s.page[r].key]].readers
      BY <1>1, <2>2 DEF Good, Read
    <3>2. s.h.byKey[s.page[r].key] \in DOMAIN s.h.comps
      BY <1>4, <3>1 DEF Good, Keyed
    <3>3. t.h.comps[s.h.byKey[s.page[r].key]].readers = s.h.comps[s.h.byKey[s.page[r].key]].readers
      BY <1>2, <3>2
    <3>4. t.page = s.page /\ t.h.byKey = s.h.byKey
      BY <1>1
    <3> QED
      BY <3>1, <3>3, <3>4
  <2> QED
    BY <2>1, <2>2 DEF Read
<1>7. Sent(t.h)
  <2>1. ASSUME NEW m \in 1..MaxSeq, t.h.byMsg[m] # None
        PROVE  /\ m <= t.h.seq /\ t.h.byMsg[m] \in Alive(t.h)
               /\ t.h.comps[t.h.byMsg[m]].msg = m /\ t.h.comps[t.h.byMsg[m]].link \in Links
    <3>1. CASE m = id
      BY <1>1, <1>2, <1>3, <3>1
    <3>2. CASE m # id
      <4>1. t.h.byMsg[m] = s.h.byMsg[m] /\ s.h.byMsg[m] # p /\ s.h.byMsg[m] # None
        BY <1>2, <2>1, <3>2
      <4>2. /\ m <= s.h.seq /\ s.h.byMsg[m] \in Alive(s.h)
            /\ s.h.comps[s.h.byMsg[m]].msg = m /\ s.h.comps[s.h.byMsg[m]].link \in Links
        BY <4>1 DEF Good, Sent
      <4>3. m <= t.h.seq
        <5>1. s.h.seq \in Nat
          BY <1>1, Fields
        <5> QED
          BY <1>1, <4>2, <5>1
      <4> QED
        BY <1>2, <1>4, <4>1, <4>2, <4>3
    <3> QED
      BY <3>1, <3>2
  <2>2. ASSUME NEW o \in Alive(t.h), t.h.comps[o].msg # 0
        PROVE  t.h.byMsg[t.h.comps[o].msg] = o
    <3>1. CASE o = p
      BY <1>2, <3>1
    <3>2. CASE o # p
      <4>1. o \in Alive(s.h) /\ o \in DOMAIN s.h.comps /\ t.h.comps[o] = s.h.comps[o]
        BY <1>2, <1>4, <3>2
      <4>2. s.h.byMsg[s.h.comps[o].msg] = o /\ o # None
        BY <1>1, <2>2, <4>1, Fields DEF Good, Sent
      <4>3. s.h.comps[o].msg \in 1..MaxSeq
        <5>1. s.h.comps[o].msg \in 0..MaxSeq
          BY <1>1, <4>1, Fields DEF Comp
        <5> QED
          BY <2>2, <4>1, <5>1, Constants
      <4> QED
        BY <1>2, <4>1, <4>2, <4>3
    <3> QED
      BY <3>1, <3>2
  <2>3. ASSUME NEW n \in Links
        PROVE  t.h.busy[n] = Cardinality(Msgs(t.h, n)) /\ t.h.busy[n] <= Slots[n]
    <3>1. /\ s.h.busy[n] = Cardinality(Msgs(s.h, n)) /\ s.h.busy[n] <= Slots[n]
          /\ s.h.busy \in [Links -> Nat]
      BY <1>1, Fields DEF Good, Sent
    <3>2. CASE n # l
      <4>1. t.h.busy[n] = s.h.busy[n] /\ Msgs(t.h, n) = Msgs(s.h, n)
        BY <1>1, <1>2, <3>1, <3>2
      <4> HIDE DEF Msgs
      <4> QED
        BY <3>1, <4>1
    <3>3. CASE n = l
      <4>1. t.h.busy[n] = s.h.busy[n] + 1
        BY <1>1, <3>1, <3>3
      <4>2. Cardinality(Msgs(s.h, n) \cup {id}) = Cardinality(Msgs(s.h, n)) + 1
        <5>1. IsFiniteSet(Msgs(s.h, n)) /\ id \notin Msgs(s.h, n)
          BY <1>2, MsgsFinite
        <5> HIDE DEF Msgs, id
        <5> QED
          BY <5>1, FS_AddElement
      <4>3. Msgs(t.h, n) = Msgs(s.h, n) \cup {id}
        BY <1>2, <3>3
      <4>4. s.h.busy[n] + 1 <= Slots[n]
        <5> DEFINE a == s.h.busy[n]
                   b == Slots[n]
        <5>1. a \in Nat /\ b \in Nat /\ a < b
          BY <1>3, <3>1, <3>3, Constants
        <5> HIDE DEF a, b
        <5>2. a + 1 <= b
          BY <5>1
        <5> QED
          BY <5>2 DEF a, b
      <4> HIDE DEF Msgs, id
      <4> QED
        BY <3>1, <4>1, <4>2, <4>3, <4>4
    <3> QED
      BY <3>2, <3>3
  <2> QED
    BY <2>1, <2>2, <2>3 DEF Sent
<1>8. Queued(t.h, odd)
  <2>1. ASSUME NEW i \in DOMAIN s.h.queue
        PROVE  /\ s.h.queue[i] \in Alive(t.h) /\ t.h.comps[s.h.queue[i]].msg = 0
               /\ t.h.comps[s.h.queue[i]].readers # {}
    <3>1. /\ s.h.queue[i] \in Alive(s.h) /\ s.h.comps[s.h.queue[i]].msg = 0
          /\ s.h.comps[s.h.queue[i]].readers # {} /\ s.h.queue[i] # p
      BY <1>3 DEF Good, Queued
    <3> QED
      BY <1>2, <1>4, <3>1
  <2>2. ASSUME NEW o \in Alive(t.h), t.h.comps[o].msg = 0
        PROVE  \E i \in DOMAIN s.h.queue : s.h.queue[i] = o
    <3>1. o # p
      BY <1>2, <2>2
    <3>2. o \in Alive(s.h) /\ s.h.comps[o].msg = 0
      BY <1>2, <1>4, <2>2, <3>1
    <3> QED
      BY <3>1, <3>2 DEF Good, Queued
  <2>3. Len(s.h.queue) <= MaxQueued /\ t.h.seq + Len(s.h.queue) <= MaxSeq
    <3> DEFINE a == s.h.seq
               b == Len(s.h.queue)
    <3>1. a \in Nat /\ b \in Nat /\ MaxSeq \in Nat /\ a + b < MaxSeq /\ b <= MaxQueued
      BY <1>1, <1>3, Fields, Constants DEF Good, Queued
    <3> HIDE DEF a, b
    <3>2. (a + 1) + b <= MaxSeq
      BY <3>1
    <3> QED
      BY <1>1, <3>1, <3>2 DEF a, b
  <2>4. \A i, j \in DOMAIN s.h.queue : s.h.queue[i] = s.h.queue[j] => i = j
    BY DEF Good, Queued
  <2> QED
    BY <1>1, <2>1, <2>2, <2>3, <2>4 DEF Queued
<1> QED
  BY <1>1, <1>5, <1>6, <1>7, <1>8 DEF Good
-----------------------------------------------------------------------------
(* What the pages see of it. *)

\* What is being computed or queued.
Working(h) == {k \in Keys : h.byKey[k] # None}
Endings == {"done", "failed", "unavailable"}

\* From s to t some computations ended: each told all who wait for it the same, and "done" only with
\* its summary in the bucket.
Answered(s, t) ==
    LET ended == Working(s.h) \ Working(t.h)
    IN  /\ Working(t.h) \subseteq Working(s.h)
        /\ \E how \in [ended -> Endings] :
              /\ \A k \in ended : how[k] = "done" => k \in published
              /\ t.page = [r \in Readers |->
                    IF s.page[r].status = "waiting" /\ s.page[r].key \in ended
                    THEN [s.page[r] EXCEPT !.status = how[s.page[r].key]] ELSE s.page[r]]

\* Nothing happened.
LEMMA AnsweredNone ==
    ASSUME NEW s \in State, NEW t, t.page = s.page, t.h.byKey = s.h.byKey
    PROVE  Answered(s, t)
<1>1. Working(t.h) = Working(s.h)
  BY DEF Working
<1>2. s.page \in [Readers -> [key : Keys \cup {None}, status : Statuses]]
  BY Fields
<1> DEFINE none == [k \in {} |-> "failed"]
<1>3. none \in [{} -> Endings] /\ Working(s.h) \ Working(t.h) = {}
  BY <1>1
<1> HIDE DEF none, Working
<1> QED
  BY <1>1, <1>2, <1>3 DEF Answered

\* One thing after another.
LEMMA AnsweredThen ==
    ASSUME NEW s \in State, NEW t \in State, NEW u \in State, Answered(s, t), Answered(t, u)
    PROVE  Answered(s, u)
<1> DEFINE A == Working(s.h)
           B == Working(t.h)
           C == Working(u.h)
<1>1. B \subseteq A /\ C \subseteq B
  BY DEF Answered
<1>2. PICK f \in [A \ B -> Endings] :
              /\ \A k \in A \ B : f[k] = "done" => k \in published
              /\ t.page = [r \in Readers |->
                    IF s.page[r].status = "waiting" /\ s.page[r].key \in A \ B
                    THEN [s.page[r] EXCEPT !.status = f[s.page[r].key]] ELSE s.page[r]]
  BY DEF Answered
<1>3. PICK g \in [B \ C -> Endings] :
              /\ \A k \in B \ C : g[k] = "done" => k \in published
              /\ u.page = [r \in Readers |->
                    IF t.page[r].status = "waiting" /\ t.page[r].key \in B \ C
                    THEN [t.page[r] EXCEPT !.status = g[t.page[r].key]] ELSE t.page[r]]
  BY DEF Answered
<1> DEFINE h == [k \in A \ C |-> IF k \in B THEN g[k] ELSE f[k]]
           pages == [r \in Readers |->
                    IF s.page[r].status = "waiting" /\ s.page[r].key \in A \ C
                    THEN [s.page[r] EXCEPT !.status = h[s.page[r].key]] ELSE s.page[r]]
<1> HIDE DEF A, B, C
<1>4. h \in [A \ C -> Endings] /\ \A k \in A \ C : h[k] = "done" => k \in published
  BY <1>1, <1>2, <1>3
<1>5. /\ s.page \in [Readers -> [key : Keys \cup {None}, status : Statuses]]
      /\ u.page \in [Readers -> [key : Keys \cup {None}, status : Statuses]]
  BY Fields
<1>6. ASSUME NEW r \in Readers PROVE u.page[r] = pages[r]
  <2>0. s.page[r] \in [key : Keys \cup {None}, status : Statuses]
    BY <1>5
  <2>1. CASE s.page[r].status = "waiting" /\ s.page[r].key \in A \ B
    <3>1. t.page[r] = [s.page[r] EXCEPT !.status = f[s.page[r].key]]
      BY <1>2, <2>1
    <3>2. f[s.page[r].key] \in Endings
      BY <1>2, <2>1
    <3>3. t.page[r].status # "waiting"
      BY <2>0, <3>1, <3>2 DEF Endings
    <3>4. u.page[r] = t.page[r]
      BY <1>3, <3>3
    <3>5. s.page[r].key \in A \ C /\ h[s.page[r].key] = f[s.page[r].key]
      BY <1>1, <2>1
    <3> QED
      BY <2>1, <3>1, <3>4, <3>5
  <2>2. CASE s.page[r].status = "waiting" /\ s.page[r].key \notin A \ B
    <3>1. t.page[r] = s.page[r]
      BY <1>2, <2>2
    <3>2. CASE s.page[r].key \in B \ C
      <4>1. u.page[r] = [s.page[r] EXCEPT !.status = g[s.page[r].key]]
        BY <1>3, <2>2, <3>1, <3>2
      <4>2. s.page[r].key \in A \ C /\ h[s.page[r].key] = g[s.page[r].key]
        BY <1>1, <3>2
      <4> QED
        BY <2>2, <4>1, <4>2
    <3>3. CASE s.page[r].key \notin B \ C
      <4>1. u.page[r] = s.page[r]
        BY <1>3, <3>1, <3>3
      <4>2. s.page[r].key \notin A \ C
        BY <2>2, <3>3
      <4> QED
        BY <4>1, <4>2
    <3> QED
      BY <3>2, <3>3
  <2>3. CASE s.page[r].status # "waiting"
    <3>1. t.page[r] = s.page[r]
      BY <1>2, <2>3
    <3> QED
      BY <1>3, <2>3, <3>1
  <2> QED
    BY <2>1, <2>2, <2>3
<1>7. u.page = pages
  <2>1. u.page = [r \in Readers |-> u.page[r]]
    BY <1>5
  <2> HIDE DEF h
  <2> QED
    BY <1>6, <2>1
<1> HIDE DEF h
<1>8. \E x \in [A \ C -> Endings] :
              /\ \A k \in A \ C : x[k] = "done" => k \in published
              /\ u.page = [r \in Readers |->
                    IF s.page[r].status = "waiting" /\ s.page[r].key \in A \ C
                    THEN [s.page[r] EXCEPT !.status = x[s.page[r].key]] ELSE s.page[r]]
  BY <1>4, <1>7
<1>9. C \subseteq A
  BY <1>1
<1> QED
  BY <1>8, <1>9 DEF Answered, A, C

\* p ended: its readers are told, and nobody else.
LEMMA AnsweredEnd ==
    ASSUME HubAssumption, NEW s, NEW t, NEW p, Good(s, p), p \in Alive(s.h), NEW status \in Endings,
           Ended(s, t, p, status), status = "done" => s.h.comps[p].key \in published
    PROVE  Answered(s, t)
<1> DEFINE c == s.h.comps[p]
<1>1. /\ s \in State /\ t \in State /\ status \in Statuses
      /\ t.page = [r \in Readers |-> IF r \in c.readers THEN [s.page[r] EXCEPT !.status = status] ELSE s.page[r]]
  BY DEF Good, Ended, Endings, Statuses
<1>2. /\ c.key \in Keys /\ s.h.byKey[c.key] = p
      /\ \A k \in Keys : t.h.byKey[k] = IF k = c.key THEN None ELSE s.h.byKey[k]
  <2>1. Left(s, t, p)
    BY <1>1, EndLeaves
  <2> QED
    BY <2>1 DEF Left
<1>3. p # None /\ p \in DOMAIN s.h.comps
  BY <1>1, Fields DEF Alive
<1>4. Working(t.h) \subseteq Working(s.h) /\ Working(s.h) \ Working(t.h) = {c.key}
  BY <1>2, <1>3 DEF Working
<1>5. \A r \in Readers : r \in c.readers <=> s.page[r].status = "waiting" /\ s.page[r].key = c.key
  <2>1. \A r \in c.readers : s.page[r].status = "waiting" /\ s.page[r].key = c.key
    BY <1>3 DEF Good, Read
  <2>2. ASSUME NEW r \in Readers, s.page[r].status = "waiting", s.page[r].key = c.key PROVE r \in c.readers
    BY <1>2, <2>2 DEF Good, Read
  <2> QED
    BY <2>1, <2>2
<1> DEFINE D == Working(s.h) \ Working(t.h)
           how == [k \in D |-> status]
           pages == [r \in Readers |->
                    IF s.page[r].status = "waiting" /\ s.page[r].key \in D
                    THEN [s.page[r] EXCEPT !.status = how[s.page[r].key]] ELSE s.page[r]]
<1>6. D = {c.key}
  BY <1>4
<1> HIDE DEF D
<1>7. how \in [D -> Endings] /\ \A k \in D : how[k] = "done" => k \in published
  BY <1>6
<1>8. \A r \in Readers : t.page[r] = pages[r]
  <2>1. \A r \in Readers : s.page[r].key \in D => how[s.page[r].key] = status
    OBVIOUS
  <2>2. \A r \in Readers : r \in c.readers <=> s.page[r].status = "waiting" /\ s.page[r].key \in D
    BY <1>5, <1>6
  <2> HIDE DEF how, c
  <2> QED
    BY <1>1, <2>1, <2>2
<1>9. t.page = pages
  <2>1. t.page = [r \in Readers |-> t.page[r]]
    BY <1>1
  <2> HIDE DEF how
  <2> QED
    BY <1>8, <2>1
<1> HIDE DEF how
<1>10. \E x \in [D -> Endings] :
              /\ \A k \in D : x[k] = "done" => k \in published
              /\ t.page = [r \in Readers |->
                    IF s.page[r].status = "waiting" /\ s.page[r].key \in D
                    THEN [s.page[r] EXCEPT !.status = x[s.page[r].key]] ELSE s.page[r]]
  BY <1>7, <1>9
<1> QED
  BY <1>4, <1>10 DEF Answered, D

-----------------------------------------------------------------------------
(* What is in flight. *)

\* The messages out to a link, at its daemon, or on their way back.
OnTheWay(out, run, back) ==
    {out[i].msg : i \in DOMAIN out} \cup {c.msg : c \in run} \cup {back[i].msg : i \in DOMAIN back}

\* What was sent and not answered for each is still so.
LEMMA TravelsKept ==
    ASSUME NEW l, NEW h, NEW g, NEW out, NEW run, NEW back, NEW files, NEW more, files \subseteq more,
           Travels(l, h, out, run, back, files),
           \A m \in OnTheWay(out, run, back) : m \in Msgs(g, l) /\ KeyOf(g, m) = KeyOf(h, m)
    PROVE  Travels(l, g, out, run, back, more)
<1>1. \A i \in DOMAIN out : out[i].msg \in Msgs(g, l) /\ KeyOf(g, out[i].msg) = KeyOf(h, out[i].msg)
  BY DEF OnTheWay
<1>2. \A c \in run : c.msg \in Msgs(g, l) /\ KeyOf(g, c.msg) = KeyOf(h, c.msg)
  BY DEF OnTheWay
<1>3. \A i \in DOMAIN back : back[i].msg \in Msgs(g, l) /\ KeyOf(g, back[i].msg) = KeyOf(h, back[i].msg)
  BY DEF OnTheWay
<1> QED
  BY <1>1, <1>2, <1>3 DEF Travels

\* What travels was sent.
LEMMA TravelsOut ==
    ASSUME NEW l, NEW h, NEW out, NEW run, NEW back, NEW files, Travels(l, h, out, run, back, files)
    PROVE  OnTheWay(out, run, back) \subseteq Msgs(h, l)
  BY DEF Travels, OnTheWay

\* An end leaves the rest in flight.
LEMMA FlightEnd ==
    ASSUME HubAssumption, NEW s, NEW t, NEW p, Good(s, p), p \in Alive(s.h), NEW status \in Statuses,
           Ended(s, t, p, status), NEW links, NEW run, NEW back, NEW files, Flight(s, links, run, back, files),
           \A l \in Links : links[l] \in Up => s.h.comps[p].msg \notin OnTheWay(s.wire[l], run[l], back[l])
    PROVE  Flight(t, links, run, back, files)
<1>1. t.wire = s.wire
  BY DEF Ended
<1>2. Left(s, t, p)
  BY EndLeaves
<1>3. ASSUME NEW l \in Links, links[l] \in Up
      PROVE  Travels(l, t.h, s.wire[l], run[l], back[l], files)
  <2>1. Travels(l, s.h, s.wire[l], run[l], back[l], files)
    BY <1>3 DEF Flight
  <2>2. ASSUME NEW m \in OnTheWay(s.wire[l], run[l], back[l])
        PROVE  m \in Msgs(t.h, l) /\ KeyOf(t.h, m) = KeyOf(s.h, m)
    <3>1. m \in Msgs(s.h, l) /\ m # s.h.comps[p].msg
      BY <1>3, <2>1, TravelsOut
    <3>2. m \in Msgs(t.h, l)
      BY <1>2, <3>1 DEF Left
    <3>3. m \in 1..MaxSeq /\ s.h.byMsg[m] # None
      BY <3>1 DEF Msgs
    <3>4. t.h.byMsg[m] = s.h.byMsg[m]
      BY <1>2, <3>1, <3>3 DEF Left
    <3>5. s.h.byMsg[m] \in DOMAIN s.h.comps
      BY <3>3 DEF Good, Sent, Alive
    <3> QED
      BY <1>2, <3>2, <3>4, <3>5 DEF Left, KeyOf
  <2> QED
    BY <2>1, <2>2, TravelsKept
<1> QED
  BY <1>1, <1>3 DEF Flight

\* A message more on its way is one more that was sent.
LEMMA FlightDispatch ==
    ASSUME HubAssumption, NEW s, NEW t, NEW p, NEW l, Good(s, p), MayGo(s, p, l), Dispatched(s, t, p, l),
           NEW links, NEW run, NEW back, NEW files, Flight(s, links, run, back, files), links[l] # "unused"
    PROVE  Flight(t, links, run, back, files)
<1> DEFINE id == s.h.seq + 1
           m == [msg |-> id, key |-> s.h.comps[p].key]
<1>1. WentOut(s, t, p, l)
  BY DispatchSends
<1>2. /\ t.wire = [s.wire EXCEPT ![l] = Append(s.wire[l], m)] /\ s.wire \in [Links -> Seq(Compute)] /\ l \in Links
      /\ p \in DOMAIN s.h.comps
  BY Fields DEF Dispatched, Good, MayGo, Alive
<1>3. ASSUME NEW n \in Links, links[n] \in Up
      PROVE  Travels(n, t.h, s.wire[n], run[n], back[n], files)
  <2>1. Travels(n, s.h, s.wire[n], run[n], back[n], files)
    BY <1>3 DEF Flight
  <2>2. ASSUME NEW x \in OnTheWay(s.wire[n], run[n], back[n])
        PROVE  x \in Msgs(t.h, n) /\ KeyOf(t.h, x) = KeyOf(s.h, x)
    <3>1. x \in Msgs(s.h, n)
      BY <2>1, TravelsOut
    <3>2. x \in Msgs(t.h, n) /\ x # s.h.seq + 1
      BY <1>1, <3>1 DEF WentOut
    <3>3. x \in 1..MaxSeq /\ s.h.byMsg[x] # None
      BY <3>1 DEF Msgs
    <3>4. t.h.byMsg[x] = s.h.byMsg[x]
      BY <1>1, <3>2, <3>3 DEF WentOut
    <3>5. s.h.byMsg[x] \in DOMAIN s.h.comps
      BY <3>3 DEF Good, Sent, Alive
    <3> QED
      BY <1>1, <3>2, <3>4, <3>5 DEF WentOut, KeyOf
  <2> QED
    BY <2>1, <2>2, TravelsKept
<1>4. ASSUME links[l] \in Up
      PROVE  Travels(l, t.h, Append(s.wire[l], m), run[l], back[l], files)
  <2> DEFINE out == s.wire[l]
             more == Append(out, m)
  <2>1. Travels(l, t.h, out, run[l], back[l], files)
    BY <1>2, <1>3, <1>4
  <2>2. m.msg \notin OnTheWay(out, run[l], back[l])
    <3>1. Travels(l, s.h, out, run[l], back[l], files)
      BY <1>2, <1>4 DEF Flight
    <3>2. OnTheWay(out, run[l], back[l]) \subseteq Msgs(s.h, l)
      BY <3>1, TravelsOut
    <3>3. id \notin Msgs(s.h, l)
      BY <1>1, <1>2 DEF WentOut
    <3> QED
      BY <3>2, <3>3
  <2>3. m.msg \in Msgs(t.h, l) /\ m.key = KeyOf(t.h, m.msg)
    <3>1. id \in Msgs(t.h, l) /\ t.h.byMsg[id] = p /\ t.h.comps[p].key = s.h.comps[p].key
      BY <1>1, <1>2 DEF WentOut
    <3> QED
      BY <3>1 DEF KeyOf
  <2>4. /\ out \in Seq(Compute) /\ Len(out) \in Nat /\ DOMAIN out = 1..Len(out)
        /\ DOMAIN more = 1 .. (Len(out) + 1) /\ more[Len(out) + 1] = m
        /\ \A i \in 1 .. Len(out) : more[i] = out[i]
    <3>1. out \in Seq(Compute)
      BY <1>2
    <3> HIDE DEF out, m
    <3> QED
      BY <3>1, LenProperties DEF Compute
  <2> HIDE DEF out, more, m
  <2>5. \A i \in DOMAIN more : (i \in DOMAIN out /\ more[i] = out[i]) \/ (i = Len(out) + 1 /\ more[i] = m)
    BY <2>4
  <2>6. /\ \A i \in DOMAIN out : out[i].msg # m.msg
        /\ \A c \in run[l] : c.msg # m.msg
        /\ \A i \in DOMAIN back[l] : back[l][i].msg # m.msg
    BY <2>2 DEF OnTheWay
  <2>7. /\ \A i \in DOMAIN more : more[i].msg \in Msgs(t.h, l) /\ more[i].key = KeyOf(t.h, more[i].msg)
        /\ \A i \in DOMAIN more, c \in run[l] : more[i].msg # c.msg
        /\ \A i \in DOMAIN back[l], j \in DOMAIN more : back[l][i].msg # more[j].msg
    BY <2>1, <2>3, <2>5, <2>6 DEF Travels
  <2>8. \A i, j \in DOMAIN more : more[i].msg = more[j].msg => i = j
    BY <2>1, <2>5, <2>6 DEF Travels
  <2> QED
    BY <2>1, <2>7, <2>8 DEF Travels, more, out
<1> HIDE DEF m
<1>5. ASSUME NEW n \in Links, links[n] \in Up
      PROVE  Travels(n, t.h, t.wire[n], run[n], back[n], files)
  <2>1. CASE n = l
    <3>1. t.wire[n] = Append(s.wire[l], m)
      BY <1>2, <2>1
    <3> QED
      BY <1>4, <1>5, <2>1, <3>1
  <2>2. CASE n # l
    <3>1. t.wire[n] = s.wire[n]
      BY <1>2, <2>2
    <3> QED
      BY <1>3, <1>5, <3>1
  <2> QED
    BY <2>1, <2>2
<1>6. \A n \in Links : links[n] = "unused" => t.wire[n] = << >> /\ run[n] = {} /\ back[n] = << >>
  BY <1>2 DEF Flight
<1> QED
  BY <1>5, <1>6 DEF Flight
-----------------------------------------------------------------------------
(* The lightest link. *)

\* How many of C come before c in R.
Rank(R, C, c) == Cardinality({b \in C : <<b, c>> \in R})

\* In a finite set with a strict order, ranks are below the size and grow with the order.
LEMMA Ranks ==
    ASSUME NEW C, IsFiniteSet(C), NEW R,
           \A a \in C : <<a, a>> \notin R,
           \A a, b, c \in C : <<a, b>> \in R /\ <<b, c>> \in R => <<a, c>> \in R
    PROVE  \A c \in C : /\ Rank(R, C, c) \in Nat /\ Rank(R, C, c) < Cardinality(C)
                        /\ \A b \in C : <<b, c>> \in R => Rank(R, C, b) < Rank(R, C, c)
<1> SUFFICES ASSUME NEW c \in C
             PROVE  /\ Rank(R, C, c) \in Nat /\ Rank(R, C, c) < Cardinality(C)
                    /\ \A b \in C : <<b, c>> \in R => Rank(R, C, b) < Rank(R, C, c)
  OBVIOUS
<1> DEFINE Below(a) == {x \in C : <<x, a>> \in R}
<1>1. \A A \in SUBSET C : IsFiniteSet(A) /\ Cardinality(A) \in Nat /\ Cardinality(A) <= Cardinality(C)
  BY FS_Subset, FS_CardinalityType
<1>2. \A A, B \in SUBSET C : B \subseteq A /\ A # B => Cardinality(B) < Cardinality(A)
  BY <1>1, FS_Subset, FS_CardinalityType
<1>3. Below(c) \in SUBSET C /\ c \notin Below(c)
  OBVIOUS
<1>4. Cardinality(Below(c)) < Cardinality(C) /\ Cardinality(Below(c)) \in Nat
  BY <1>1, <1>2, <1>3
<1>5. ASSUME NEW b \in C, <<b, c>> \in R
      PROVE  Cardinality(Below(b)) < Cardinality(Below(c))
  <2>1. Below(b) \in SUBSET C /\ Below(b) \subseteq Below(c) /\ b \in Below(c) /\ b \notin Below(b)
    BY <1>5
  <2> HIDE DEF Below
  <2> QED
    BY <1>2, <1>3, <2>1
<1> QED
  BY <1>4, <1>5 DEF Rank

\* Multiplying by a positive number keeps the order.
LEMMA Scales ==
    ASSUME NEW x \in Nat, NEW y \in Nat, NEW z \in Nat \ {0}
    PROVE  x < y <=> x * z < y * z
<1>1. CASE x < y
  <2>1. PICK d \in Nat \ {0} : y = x + d
    <3>1. y - x \in Nat \ {0} /\ y = x + (y - x)
      BY <1>1
    <3> QED
      BY <3>1
  <2>2. d * z > 0 /\ y * z = x * z + d * z /\ x * z \in Nat /\ d * z \in Nat
    BY <2>1
  <2> QED
    BY <1>1, <2>2
<1>2. CASE ~(x < y)
  <2>1. PICK d \in Nat : x = y + d
    <3>1. x - y \in Nat /\ x = y + (x - y)
      BY <1>2
    <3> QED
      BY <3>1
  <2>2. d * z >= 0 /\ x * z = y * z + d * z /\ y * z \in Nat /\ d * z \in Nat
    BY <2>1
  <2> QED
    BY <1>2, <2>2
<1> QED
  BY <1>1, <1>2

\* Products of naturals.
LEMMA Products ==
    /\ \A x, y \in Nat : x * y \in Nat
    /\ \A x, y, z \in Nat : (x * y) * z = (x * z) * y
    /\ \A x \in Nat : 0 * x = 0
<1>1. \A x, y \in Nat : x * y \in Nat
  OBVIOUS
<1>2. \A x, y, z \in Nat : (x * y) * z = (x * z) * y
  OBVIOUS
<1>3. \A x \in Nat : 0 * x = 0
  OBVIOUS
<1> QED
  BY <1>1, <1>2, <1>3

\* A link's load: how many it computes of how many it can.
LEMMA Loads ==
    ASSUME NEW a \in Nat, NEW as \in Nat \ {0}, NEW b \in Nat, NEW bs \in Nat \ {0},
           NEW c \in Nat, NEW cs \in Nat \ {0}
    PROVE  /\ a * bs < b * as /\ b * cs < c * bs => a * cs < c * as
           /\ a * bs = b * as /\ b * cs < c * bs => a * cs < c * as
           /\ a * bs < b * as /\ b * cs = c * bs => a * cs < c * as
           /\ a * bs = b * as /\ b * cs = c * bs => a * cs = c * as
           /\ a * bs \in Nat /\ b * as \in Nat
<1> DEFINE ab == a * bs   ba == b * as
           bc == b * cs   cb == c * bs
           ac == a * cs   ca == c * as
<1>0. as \in Nat /\ bs \in Nat /\ cs \in Nat
  OBVIOUS
<1>1. /\ ab \in Nat /\ ba \in Nat /\ bc \in Nat /\ cb \in Nat /\ ac \in Nat /\ ca \in Nat
  BY <1>0, Products
<1>2. ab * cs = ac * bs /\ ba * cs = bc * as /\ cb * as = ca * bs
  <2>1. \A x, y, z \in Nat : (x * y) * z = (x * z) * y
    BY Products
  <2>2. (a * bs) * cs = (a * cs) * bs
    BY <1>0, <2>1, Zenon
  <2>3. (b * as) * cs = (b * cs) * as
    BY <1>0, <2>1, Zenon
  <2>4. (c * bs) * as = (c * as) * bs
    BY <1>0, <2>1, Zenon
  <2> QED
    BY <2>2, <2>3, <2>4, Zenon
<1>3. (ab < ba <=> ab * cs < ba * cs) /\ (ba < ab <=> ba * cs < ab * cs)
  BY <1>1, Scales
<1>4. (bc < cb <=> bc * as < cb * as) /\ (cb < bc <=> cb * as < bc * as)
  BY <1>1, Scales
<1>5. (ac < ca <=> ac * bs < ca * bs) /\ (ca < ac <=> ca * bs < ac * bs)
  BY <1>1, Scales
<1> DEFINE x == ab * cs   y == ba * cs   z == cb * as
<1>6. x \in Nat /\ y \in Nat /\ z \in Nat
  <2> HIDE DEF ab, ba, cb
  <2> QED
    BY <1>0, <1>1, Products
<1>7. /\ ab < ba <=> x < y
      /\ ba < ab <=> y < x
      /\ bc < cb <=> y < z
      /\ cb < bc <=> z < y
      /\ ac < ca <=> x < z
      /\ ca < ac <=> z < x
  BY <1>2, <1>3, <1>4, <1>5
<1> HIDE DEF x, y, z
<1>8. /\ ab < ba /\ bc < cb => ac < ca
      /\ ab = ba /\ bc < cb => ac < ca
      /\ ab < ba /\ bc = cb => ac < ca
      /\ ab = ba /\ bc = cb => ac = ca
  <2> HIDE DEF ab, ba, bc, cb, ac, ca
  <2> QED
    BY <1>1, <1>6, <1>7
<1> QED
  BY <1>1, <1>8

\* free() finds one of the links that have a slot: there is a lightest, however many there are,
\* since no more than MaxSeq messages are out.
LEMMA BestIs ==
    ASSUME HubAssumption, NEW s \in State, Sent(s.h), NEW able \in SUBSET Links, Free(s.h, able) # {}
    PROVE  Best(s.h, able) \in Free(s.h, able)
<1> DEFINE h == s.h
           F == Free(h, able)
<1>1. /\ F \subseteq Links /\ Links \subseteq Nat
      /\ \A l \in Links : h.busy[l] \in Nat /\ Slots[l] \in Nat \ {0}
  <2>1. h.busy \in [Links -> Nat]
    BY Fields
  <2> HIDE DEF h
  <2> QED
    BY <2>1, Constants DEF Free
<1> SUFFICES \E l \in F : \A n \in F : Lighter(h, l, n)
  BY DEF Best
<1>2. CASE \E l \in F : h.busy[l] = 0
  <2> DEFINE Z == {l \in F : h.busy[l] = 0}
  <2>1. PICK l \in Z : \A n \in Z : l <= n
    <3>1. Z \in SUBSET Nat /\ Z # {}
      BY <1>1, <1>2
    <3> HIDE DEF Z
    <3> QED
      BY <3>1, Least
  <2>2. ASSUME NEW n \in F PROVE Lighter(h, l, n)
    <3>0. Slots[n] \in Nat /\ h.busy[l] = 0 /\ l \in F
      BY <1>1, <2>1
    <3>1. h.busy[l] * Slots[n] = 0 /\ h.busy[n] \in Nat /\ Slots[l] \in Nat \ {0} /\ n \in Links
      BY <1>1, <3>0, Products
    <3>2. CASE h.busy[n] = 0
      <4>1. h.busy[n] * Slots[l] = 0 /\ l <= n
        BY <2>1, <3>1, <3>2
      <4> QED
        BY <3>1, <4>1 DEF Lighter
    <3>3. CASE h.busy[n] # 0
      <4> DEFINE x == h.busy[n]
                 y == Slots[l]
      <4>1. x \in Nat \ {0} /\ y \in Nat \ {0}
        BY <3>1, <3>3
      <4> HIDE DEF x, y
      <4>2. x * y > 0
        BY <4>1
      <4> QED
        BY <3>1, <4>2 DEF x, y, Lighter
    <3> QED
      BY <3>2, <3>3
  <2> QED
    BY <2>1, <2>2
<1>3. CASE \A l \in F : h.busy[l] # 0
  <2>1. \A l \in F : \E m \in 1..MaxSeq : m \in Msgs(h, l)
    <3> SUFFICES ASSUME NEW l \in F PROVE Msgs(h, l) # {}
      BY DEF Msgs
    <3>1. h.busy[l] = Cardinality(Msgs(h, l))
      BY <1>1 DEF Sent
    <3>2. Msgs(h, l) = {} => Cardinality(Msgs(h, l)) = 0
      BY FS_EmptySet
    <3> HIDE DEF Msgs
    <3> QED
      BY <1>3, <3>1, <3>2
  <2>2. IsFiniteSet(F)
    <3> DEFINE f == [l \in F |-> CHOOSE m \in 1..MaxSeq : m \in Msgs(h, l)]
    <3>1. \A l \in F : f[l] \in 1..MaxSeq /\ f[l] \in Msgs(h, l)
      BY <2>1
    <3>2. \A a, b \in F : f[a] = f[b] => a = b
      <4> HIDE DEF f
      <4> QED
        BY <3>1 DEF Msgs
    <3>3. f \in Injection(F, 1..MaxSeq)
      <4> DOMAIN f = F
        OBVIOUS
      <4> f = [l \in F |-> f[l]]
        OBVIOUS
      <4> HIDE DEF f, F
      <4> QED
        BY <3>1, <3>2 DEF Injection, IsInjective
    <3>4. IsFiniteSet(1..MaxSeq)
      <4>1. 1 \in Int /\ MaxSeq \in Int
        BY Constants
      <4> QED
        BY <4>1, FS_Interval
    <3> HIDE DEF f, F
    <3> QED
      BY <3>3, <3>4, FS_Injection
  <2> DEFINE Less(a, b) == \/ h.busy[a] * Slots[b] < h.busy[b] * Slots[a]
                           \/ h.busy[a] * Slots[b] = h.busy[b] * Slots[a] /\ a < b
             R == {e \in F \X F : Less(e[1], e[2])}
  <2>3. \A a, b \in F : <<a, b>> \in R <=> Less(a, b)
    OBVIOUS
  <2>4. \A a, b \in F : h.busy[a] * Slots[b] \in Nat
    <3>1. \A a, b \in F : h.busy[a] \in Nat /\ Slots[b] \in Nat
      BY <1>1
    <3> QED
      BY <3>1, Products
  <2>5. \A a \in F : ~Less(a, a)
    <3> SUFFICES ASSUME NEW a \in F, Less(a, a) PROVE FALSE
      OBVIOUS
    <3> DEFINE x == h.busy[a] * Slots[a]
    <3>1. x \in Nat /\ a \in Nat
      BY <1>1, <2>4
    <3>2. x < x \/ a < a
      OBVIOUS
    <3> HIDE DEF x
    <3> QED
      BY <3>1, <3>2
  <2>6. ASSUME NEW a \in F, NEW b \in F, NEW c \in F, Less(a, b), Less(b, c) PROVE Less(a, c)
    <3>1. /\ a \in Nat /\ b \in Nat /\ c \in Nat
          /\ h.busy[a] \in Nat /\ h.busy[b] \in Nat /\ h.busy[c] \in Nat
          /\ Slots[a] \in Nat \ {0} /\ Slots[b] \in Nat \ {0} /\ Slots[c] \in Nat \ {0}
      BY <1>1
    <3> DEFINE ab == h.busy[a] * Slots[b]   ba == h.busy[b] * Slots[a]
               bc == h.busy[b] * Slots[c]   cb == h.busy[c] * Slots[b]
               ac == h.busy[a] * Slots[c]   ca == h.busy[c] * Slots[a]
    <3>2. /\ ab < ba /\ bc < cb => ac < ca
          /\ ab = ba /\ bc < cb => ac < ca
          /\ ab < ba /\ bc = cb => ac < ca
          /\ ab = ba /\ bc = cb => ac = ca
      <4> DEFINE x == h.busy[a]   y == h.busy[b]   z == h.busy[c]
                 u == Slots[a]   v == Slots[b]   w == Slots[c]
      <4>1. /\ x \in Nat /\ y \in Nat /\ z \in Nat
            /\ u \in Nat \ {0} /\ v \in Nat \ {0} /\ w \in Nat \ {0}
        BY <3>1
      <4> HIDE DEF x, y, z, u, v, w
      <4>2. /\ x * v < y * u /\ y * w < z * v => x * w < z * u
            /\ x * v = y * u /\ y * w < z * v => x * w < z * u
            /\ x * v < y * u /\ y * w = z * v => x * w < z * u
            /\ x * v = y * u /\ y * w = z * v => x * w = z * u
        BY <4>1, Loads
      <4> QED
        BY <4>2 DEF x, y, z, u, v, w
    <3>3. (ab < ba \/ (ab = ba /\ a < b)) /\ (bc < cb \/ (bc = cb /\ b < c))
      BY <2>6
    <3>4. a < b /\ b < c => a < c
      BY <3>1
    <3>5. ac < ca \/ (ac = ca /\ a < c)
      <4> HIDE DEF ab, ba, bc, cb, ac, ca
      <4> QED
        BY <3>2, <3>3, <3>4
    <3> QED
      BY <3>5
  <2> HIDE DEF Less, R, F
  <2>7. PICK l \in F : \A n \in F : ~Less(n, l)
    <3>1. \A c \in F : /\ Rank(R, F, c) \in Nat
                       /\ \A b \in F : <<b, c>> \in R => Rank(R, F, b) < Rank(R, F, c)
      <4>1. \A a \in F : <<a, a>> \notin R
        BY <2>3, <2>5
      <4>2. \A a, b, c \in F : <<a, b>> \in R /\ <<b, c>> \in R => <<a, c>> \in R
        BY <2>3, <2>6
      <4> QED
        BY <2>2, <4>1, <4>2, Ranks
    <3> DEFINE T == {Rank(R, F, c) : c \in F}
    <3>2. T \in SUBSET Nat /\ T # {}
      BY <3>1 DEF F
    <3>3. PICK x \in T : \A y \in T : x <= y
      <4> HIDE DEF T
      <4> QED
        BY <3>2, Least
    <3>4. PICK l \in F : x = Rank(R, F, l)
      BY <3>3
    <3>5. ASSUME NEW n \in F, Less(n, l) PROVE FALSE
      <4>1. Rank(R, F, n) < Rank(R, F, l)
        BY <2>3, <3>1, <3>5
      <4>2. Rank(R, F, l) <= Rank(R, F, n)
        BY <3>3, <3>4
      <4>3. Rank(R, F, n) \in Nat /\ Rank(R, F, l) \in Nat
        BY <3>1
      <4> HIDE DEF T
      <4> QED
        BY <4>1, <4>2, <4>3
    <3> QED
      BY <3>4, <3>5
  <2>8. ASSUME NEW n \in F PROVE Lighter(h, l, n)
    <3> DEFINE x == h.busy[l] * Slots[n]   y == h.busy[n] * Slots[l]
    <3>1. x \in Nat /\ y \in Nat /\ l \in Nat /\ n \in Nat
      BY <1>1, <2>4
    <3>2. ~(y < x \/ (y = x /\ n < l))
      BY <2>7 DEF Less
    <3> HIDE DEF x, y
    <3>3. x < y \/ (x = y /\ l <= n)
      BY <3>1, <3>2
    <3> QED
      BY <3>3 DEF x, y, Lighter
  <2> QED
    BY <2>7, <2>8
<1> QED
  BY <1>2, <1>3
-----------------------------------------------------------------------------
(* drain(). *)

\* From s the hub went on to t, the links being as they will be and the answers what is left of them.
Follows(s, t, links, back) ==
    /\ Good(t, None) /\ Answered(s, t)
    /\ Flight(s, links, running, back, published) => Flight(t, links, running, back, published)

\* A link that a message may go to is there.
Reached(links) == \A l \in Links : link[l] \in {"open", "dead"} => links[l] # "unused"

\* Nothing.
LEMMA FollowsSelf ==
    ASSUME NEW s, Good(s, None), NEW links, NEW back
    PROVE  Follows(s, s, links, back)
<1>1. s \in State
  BY DEF Good
<1>2. Answered(s, s)
  BY <1>1, AnsweredNone
<1> QED
  BY <1>2 DEF Follows

\* One thing after another.
LEMMA FollowsThen ==
    ASSUME NEW s, NEW t, NEW u, NEW links, NEW back, s \in State,
           Follows(s, t, links, back), Follows(t, u, links, back)
    PROVE  Follows(s, u, links, back)
<1>1. s \in State /\ t \in State /\ u \in State
  BY DEF Follows, Good
<1>2. Answered(s, u)
  BY <1>1, AnsweredThen DEF Follows
<1> QED
  BY <1>2 DEF Follows

\* Nothing need be odd.
LEMMA GoodOdd ==
    ASSUME HubAssumption, NEW s, Good(s, None), NEW odd
    PROVE  Good(s, odd)
<1>1. s \in State
  BY DEF Good
<1>2. \A p \in Alive(s.h) : p # None
  BY <1>1, Fields DEF Alive
<1>3. Queued(s.h, odd)
  BY <1>2 DEF Good, Queued
<1> QED
  BY <1>3 DEF Good

\* The queue without its head.
LEMMA TailGood ==
    ASSUME HubAssumption, NEW s, Good(s, None), s.h.queue # << >>
    PROVE  LET p == Head(s.h.queue)
               q == [s EXCEPT !.h.queue = Tail(@)]
           IN  /\ Good(q, p) /\ q.page = s.page /\ q.wire = s.wire
               /\ q.h.comps = s.h.comps /\ q.h.byKey = s.h.byKey /\ q.h.byMsg = s.h.byMsg
               /\ q.h.busy = s.h.busy /\ q.h.seq = s.h.seq
               /\ p \in Pids /\ p # None /\ p \in Alive(s.h) /\ p \in DOMAIN s.h.comps /\ s.h.comps[p].msg = 0
               /\ \A i \in DOMAIN q.h.queue : q.h.queue[i] # p
               /\ q.h.seq + Len(q.h.queue) < MaxSeq
<1> DEFINE p == Head(s.h.queue)
           rest == Tail(s.h.queue)
           q == [s EXCEPT !.h.queue = Tail(@)]
           h == [s.h EXCEPT !.queue = rest]
<1>1. s \in State /\ s.h \in HubType /\ s.h.queue \in Seq(Pids)
  <2>1. s \in State
    BY DEF Good
  <2> QED
    BY <2>1, Fields
<1>2. /\ rest \in Seq(Pids) /\ Len(rest) = Len(s.h.queue) - 1 /\ Len(s.h.queue) \in Nat /\ Len(rest) \in Nat
      /\ \A i \in 1..Len(rest) : rest[i] = s.h.queue[i + 1]
      /\ p = s.h.queue[1] /\ DOMAIN rest = 1..Len(rest)
      /\ 1 \in DOMAIN s.h.queue /\ DOMAIN s.h.queue = 1..Len(s.h.queue)
  <2> DEFINE full == s.h.queue
  <2>1. full \in Seq(Pids) /\ full # << >>
    BY <1>1
  <2> HIDE DEF full
  <2>2. /\ Tail(full) \in Seq(Pids) /\ Len(Tail(full)) = Len(full) - 1 /\ Len(full) \in Nat
        /\ \A i \in 1..Len(Tail(full)) : Tail(full)[i] = full[i + 1]
    BY <2>1, HeadTailProperties, LenProperties
  <2>3. Head(full) = full[1] /\ DOMAIN Tail(full) = 1..Len(Tail(full)) /\ Len(Tail(full)) \in Nat
    BY <2>1, <2>2, HeadTailProperties, LenProperties
  <2>4. 1 \in DOMAIN full /\ DOMAIN full = 1..Len(full)
    BY <2>1, EmptySeq, LenProperties
  <2> QED
    BY <2>2, <2>3, <2>4 DEF full
<1>3. q = [s EXCEPT !.h = h]
  BY <1>1 DEF State
<1>4. /\ h \in HubType /\ h.queue = rest /\ h.comps = s.h.comps /\ h.byKey = s.h.byKey /\ h.byMsg = s.h.byMsg
      /\ h.busy = s.h.busy /\ h.seq = s.h.seq /\ h.failed = s.h.failed
  <2> HIDE DEF rest
  <2> QED
    BY <1>1, <1>2 DEF HubType
<1> HIDE DEF h, q
<1>5. q \in State /\ q.h = h /\ q.page = s.page /\ q.wire = s.wire
  BY <1>1, <1>3, <1>4 DEF State
<1> HIDE DEF p, rest
<1>6. Alive(q.h) = Alive(s.h) /\ \A l : Msgs(q.h, l) = Msgs(s.h, l)
  BY <1>4, <1>5 DEF Alive, Msgs
<1>7. Keyed(q.h) /\ Read(q.h, q.page) /\ Sent(q.h)
  <2>1. Keyed(s.h) /\ Read(s.h, s.page) /\ Sent(s.h)
    BY DEF Good
  <2>2. Keyed(q.h)
    BY <1>4, <1>5, <1>6, <2>1 DEF Keyed
  <2>3. Read(q.h, q.page)
    <3> DEFINE pages == s.page
    <3>1. /\ h.comps = s.h.comps /\ h.byKey = s.h.byKey /\ Alive(h) = Alive(s.h) /\ Read(s.h, pages)
          /\ q.h = h /\ q.page = pages
      BY <1>4, <1>5, <1>6, <2>1
    <3> HIDE DEF pages
    <3>2. Read(h, pages)
      BY <3>1 DEF Read
    <3> QED
      BY <3>1, <3>2
  <2>4. Sent(q.h)
    <3>1. q.h.byMsg = s.h.byMsg /\ q.h.comps = s.h.comps /\ q.h.busy = s.h.busy /\ q.h.seq = s.h.seq
      BY <1>4, <1>5
    <3> HIDE DEF Alive, Msgs
    <3> QED
      BY <1>6, <2>1, <3>1 DEF Sent
  <2> QED
    BY <2>2, <2>3, <2>4
<1>8. p \in Pids /\ p \in Alive(s.h) /\ s.h.comps[p].msg = 0 /\ p \in DOMAIN s.h.comps /\ p # None
  <2>1. p \in Pids
    BY <1>1, <1>2, ElementOfSeq
  <2>2. p \in Alive(s.h) /\ s.h.comps[p].msg = 0
    BY <1>2 DEF Good, Queued
  <2> QED
    BY <2>1, <2>2, Constants DEF Alive
<1>9. /\ \A i, j \in DOMAIN s.h.queue : s.h.queue[i] = s.h.queue[j] => i = j
      /\ \A i \in DOMAIN s.h.queue : /\ s.h.queue[i] \in Alive(s.h) /\ s.h.comps[s.h.queue[i]].msg = 0
                                     /\ s.h.queue[i] # None => s.h.comps[s.h.queue[i]].readers # {}
      /\ \A o \in Alive(s.h) \ {None} : s.h.comps[o].msg = 0 => \E i \in DOMAIN s.h.queue : s.h.queue[i] = o
      /\ Len(s.h.queue) <= MaxQueued /\ s.h.seq + Len(s.h.queue) <= MaxSeq
  BY DEF Good, Queued
<1>10. \A i \in 1..Len(rest) : i + 1 \in DOMAIN s.h.queue /\ i + 1 # 1 /\ rest[i] # p /\ rest[i] = s.h.queue[i + 1]
  <2> SUFFICES ASSUME NEW i \in 1..Len(rest)
               PROVE  i + 1 \in DOMAIN s.h.queue /\ i + 1 # 1 /\ rest[i] # p /\ rest[i] = s.h.queue[i + 1]
    OBVIOUS
  <2>1. i + 1 \in DOMAIN s.h.queue /\ i + 1 # 1 /\ rest[i] = s.h.queue[i + 1]
    BY <1>2
  <2>2. 1 \in DOMAIN s.h.queue /\ p = s.h.queue[1]
    BY <1>2
  <2> QED
    BY <1>9, <2>1, <2>2
<1>11. /\ \A i \in 1..Len(rest) : rest[i] \in Alive(s.h) /\ s.h.comps[rest[i]].msg = 0 /\ rest[i] \in Pids
       /\ \A i \in 1..Len(rest) : s.h.comps[rest[i]].readers # {}
  <2>1. \A i \in 1..Len(rest) : rest[i] \in Pids /\ rest[i] # None
    BY <1>2, ElementOfSeq, Constants
  <2> SUFFICES ASSUME NEW i \in 1..Len(rest)
               PROVE  /\ rest[i] \in Alive(s.h) /\ s.h.comps[rest[i]].msg = 0 /\ rest[i] \in Pids
                      /\ s.h.comps[rest[i]].readers # {}
    OBVIOUS
  <2> DEFINE j == i + 1
  <2>2. j \in DOMAIN s.h.queue /\ rest[i] = s.h.queue[j]
    BY <1>10
  <2> HIDE DEF j
  <2> QED
    BY <1>9, <2>1, <2>2
<1>12. \A o \in Alive(s.h) \ {p} : s.h.comps[o].msg = 0 => \E i \in 1..Len(rest) : rest[i] = o
  <2> SUFFICES ASSUME NEW o \in Alive(s.h) \ {p}, s.h.comps[o].msg = 0 PROVE \E i \in 1..Len(rest) : rest[i] = o
    OBVIOUS
  <2>1. o # None
    BY <1>1, Fields DEF Alive
  <2>2. PICK j \in DOMAIN s.h.queue : s.h.queue[j] = o
    BY <1>9, <2>1
  <2>3. j # 1 /\ j \in 1..Len(s.h.queue)
    BY <1>2, <2>2
  <2>4. j - 1 \in 1..Len(rest) /\ (j - 1) + 1 = j
    BY <1>2, <2>3
  <2> QED
    BY <1>2, <2>2, <2>4
<1>13. /\ Len(rest) <= MaxQueued /\ s.h.seq + Len(rest) < MaxSeq
       /\ \A i, j \in 1..Len(rest) : rest[i] = rest[j] => i = j
  <2>1. \A i, j \in 1..Len(rest) : rest[i] = rest[j] => i = j
    <3> SUFFICES ASSUME NEW i \in 1..Len(rest), NEW j \in 1..Len(rest), rest[i] = rest[j] PROVE i = j
      OBVIOUS
    <3>1. i + 1 = j + 1
      BY <1>9, <1>10
    <3> QED
      BY <3>1
  <2>2. s.h.seq \in Nat /\ MaxSeq \in Nat /\ MaxQueued \in Nat
    BY <1>1, Fields, Constants
  <2> DEFINE n == Len(s.h.queue)   r == Len(rest)   a == s.h.seq
  <2>3. n \in Nat /\ r = n - 1 /\ a \in Nat /\ n <= MaxQueued /\ a + n <= MaxSeq
    BY <1>2, <1>9, <2>2
  <2> HIDE DEF n, r, a
  <2>4. r <= MaxQueued /\ a + r < MaxSeq
    BY <2>2, <2>3
  <2> QED
    BY <2>1, <2>4 DEF r, a
<1>14. Queued(q.h, p)
  <2>1. q.h.queue = rest /\ q.h.comps = s.h.comps /\ q.h.seq = s.h.seq /\ DOMAIN rest = 1..Len(rest)
    BY <1>2, <1>4, <1>5
  <2>2. s.h.seq + Len(rest) <= MaxSeq
    <3>1. s.h.seq \in Nat /\ Len(rest) \in Nat /\ MaxSeq \in Nat
      BY <1>1, <1>2, Fields, Constants
    <3> QED
      BY <1>13, <3>1
  <2> QED
    BY <1>6, <1>11, <1>12, <1>13, <2>1, <2>2 DEF Queued
<1>15. Good(q, p)
  BY <1>5, <1>7, <1>14 DEF Good
<1>16. q.h.queue = rest /\ DOMAIN rest = 1..Len(rest)
  BY <1>2, <1>4, <1>5
<1> QED
  BY <1>4, <1>5, <1>8, <1>10, <1>13, <1>15, <1>16 DEF p, q
\* One turn of drain().
LEMMA DrainedFollows ==
    ASSUME HubAssumption, NEW s, Good(s, None), NEW links, Reached(links), NEW back
    PROVE  Follows(s, Drained(s), links, back)
<1> DEFINE p == Head(s.h.queue)
           able == Able(VersionOf[s.h.comps[p].key])
           q == [s EXCEPT !.h.queue = Tail(@)]
<1>0. s \in State
  BY DEF Good
<1>1. CASE s.h.queue = << >> \/ (able # {} /\ Free(s.h, able) = {})
  <2>1. Drained(s) = s
    BY <1>1 DEF Drained
  <2> QED
    BY <2>1, FollowsSelf
<1>2. CASE s.h.queue # << >> /\ able = {}
  <2>1. Drained(s) = Settle(s, p, "unavailable")
    BY <1>2 DEF Drained
  <2>2. p \in Alive(s.h) /\ s.h.comps[p].msg = 0
    BY <1>2, TailGood
  <2>3. End(s, p, "unavailable") = Settle(s, p, "unavailable")
    BY <2>2 DEF End, Release
  <2> DEFINE t == Drained(s)
  <2> HIDE DEF p, able, q
  <2>4. "unavailable" \in Statuses /\ "unavailable" \in Endings /\ "unavailable" # "waiting" /\ "unavailable" # "done"
    BY DEF Statuses, Endings
  <2>5. Good(s, p)
    BY GoodOdd
  <2>6. Ended(s, t, p, "unavailable")
    BY <2>1, <2>2, <2>3, <2>4, <2>5, EndIs
  <2> HIDE DEF t
  <2>7. Good(t, None)
    BY <2>2, <2>4, <2>5, <2>6, EndGood
  <2>8. Answered(s, t)
    BY <2>2, <2>4, <2>5, <2>6, AnsweredEnd
  <2>9. ASSUME Flight(s, links, running, back, published) PROVE Flight(t, links, running, back, published)
    <3>1. ASSUME NEW l \in Links, links[l] \in Up
          PROVE  s.h.comps[p].msg \notin OnTheWay(s.wire[l], running[l], back[l])
      <4>1. OnTheWay(s.wire[l], running[l], back[l]) \subseteq Msgs(s.h, l)
        BY <2>9, <3>1, TravelsOut DEF Flight
      <4>2. 0 \notin Msgs(s.h, l)
        BY DEF Msgs
      <4> QED
        BY <2>2, <4>1, <4>2
    <3> QED
      BY <2>2, <2>4, <2>5, <2>6, <2>9, <3>1, FlightEnd
  <2> QED
    BY <2>7, <2>8, <2>9 DEF Follows, t
<1>3. CASE s.h.queue # << >> /\ able # {} /\ Free(s.h, able) # {}
  <2> DEFINE l == Best(s.h, able)
             t == Drained(s)
  <2>1. t = Dispatch(q, p, l)
    BY <1>3 DEF Drained
  <2>2. /\ Good(q, p) /\ q.page = s.page /\ q.wire = s.wire
        /\ q.h.comps = s.h.comps /\ q.h.byKey = s.h.byKey /\ q.h.byMsg = s.h.byMsg
        /\ q.h.busy = s.h.busy /\ q.h.seq = s.h.seq
        /\ p \in Pids /\ p # None /\ p \in Alive(s.h) /\ p \in DOMAIN s.h.comps /\ s.h.comps[p].msg = 0
        /\ \A i \in DOMAIN q.h.queue : q.h.queue[i] # p
        /\ q.h.seq + Len(q.h.queue) < MaxSeq
    BY <1>3, TailGood
  <2>3. l \in Free(s.h, able) /\ able \in SUBSET Links
    <3>1. able \in SUBSET Links
      BY DEF Able
    <3>2. Sent(s.h)
      BY DEF Good
    <3> HIDE DEF able
    <3> QED
      BY <1>0, <1>3, <3>1, <3>2, BestIs
  <2>4. l \in Links /\ s.h.busy[l] < Slots[l] /\ links[l] # "unused"
    <3>1. l \in able /\ s.h.busy[l] < Slots[l] /\ l \in Links
      BY <2>3 DEF Free
    <3>2. link[l] \in {"open", "dead"}
      BY <3>1 DEF Able
    <3> QED
      BY <3>1, <3>2 DEF Reached
  <2> HIDE DEF q, l, t, able, p
  <2>5. MayGo(q, p, l)
    BY <2>2, <2>4 DEF MayGo, Alive
  <2>6. q \in State
    BY <2>2 DEF Good
  <2>7. q.h.seq < MaxSeq
    <3>1. q.h.seq \in Nat /\ Len(q.h.queue) \in Nat /\ MaxSeq \in Nat
      BY <2>6, Fields, Constants
    <3> QED
      BY <2>2, <3>1
  <2>8. Dispatched(q, t, p, l)
    BY <2>1, <2>2, <2>4, <2>6, <2>7, DispatchIs
  <2>9. Good(t, None)
    BY <2>2, <2>5, <2>8, DispatchGood
  <2>10. Answered(s, t)
    <3>1. t.page = s.page /\ t.h.byKey = s.h.byKey
      BY <2>2, <2>8 DEF Dispatched
    <3> QED
      BY <1>0, <3>1, AnsweredNone
  <2>11. ASSUME Flight(s, links, running, back, published) PROVE Flight(t, links, running, back, published)
    <3>1. Flight(q, links, running, back, published)
      <4>1. \A n : Msgs(q.h, n) = Msgs(s.h, n)
        BY <2>2 DEF Msgs
      <4>2. \A m : KeyOf(q.h, m) = KeyOf(s.h, m)
        BY <2>2 DEF KeyOf
      <4>3. ASSUME NEW n \in Links, links[n] \in Up
            PROVE  Travels(n, q.h, q.wire[n], running[n], back[n], published)
        <5>1. Travels(n, s.h, s.wire[n], running[n], back[n], published)
          BY <2>11, <4>3 DEF Flight
        <5>2. OnTheWay(s.wire[n], running[n], back[n]) \subseteq Msgs(s.h, n)
          BY <5>1, TravelsOut
        <5>3. Travels(n, q.h, s.wire[n], running[n], back[n], published)
          BY <4>1, <4>2, <5>1, <5>2, TravelsKept
        <5> QED
          BY <2>2, <5>3
      <4>4. \A n \in Links : links[n] = "unused" => q.wire[n] = << >> /\ running[n] = {} /\ back[n] = << >>
        BY <2>2, <2>11 DEF Flight
      <4> QED
        BY <4>3, <4>4 DEF Flight
    <3> QED
      BY <2>2, <2>4, <2>5, <2>8, <3>1, FlightDispatch
  <2> QED
    BY <2>9, <2>10, <2>11 DEF Follows, t
<1> QED
  BY <1>1, <1>2, <1>3

\* The turns of drain() are there to be taken: a recursive function over 0 .. N exists.
LEMMA TurnsExist ==
    ASSUME NEW s, NEW N \in Nat
    PROVE  \E f : f = [n \in 0..N |-> IF n = 0 THEN s ELSE Drained(f[n - 1])]
<1> DEFINE Turns(f, M) == f = [n \in 0..M |-> IF n = 0 THEN s ELSE Drained(f[n - 1])]
           none == {M \in Nat : ~\E f : Turns(f, M)}
<1>1. none = {}
  <2> SUFFICES ASSUME none # {} PROVE FALSE
    OBVIOUS
  <2>1. PICK M \in none : \A K \in none : M <= K
    <3>1. none \in SUBSET Nat
      OBVIOUS
    <3> HIDE DEF none
    <3> QED
      BY <3>1, Least
  <2>2. M # 0
    <3> DEFINE f == [n \in 0..0 |-> s]
    <3>1. Turns(f, 0)
      OBVIOUS
    <3> HIDE DEF f, Turns
    <3> QED
      BY <2>1, <3>1
  <2>3. M - 1 \in Nat /\ M - 1 \notin none
    <3>1. M \in Nat
      BY <2>1
    <3> HIDE DEF none
    <3> QED
      BY <2>1, <2>2, <3>1
  <2>4. PICK f : Turns(f, M - 1)
    <3> HIDE DEF Turns
    <3> QED
      BY <2>3
  <2> DEFINE g == [n \in 0..M |-> IF n = M THEN Drained(f[M - 1]) ELSE f[n]]
  <2>5. \A n \in 0..M : g[n] = IF n = 0 THEN s ELSE Drained(g[n - 1])
    <3> SUFFICES ASSUME NEW n \in 0..M PROVE g[n] = IF n = 0 THEN s ELSE Drained(g[n - 1])
      OBVIOUS
    <3>1. CASE n = M
      <4>1. g[n] = Drained(f[M - 1]) /\ n # 0
        BY <2>2, <3>1
      <4>2. g[n - 1] = f[M - 1]
        BY <2>1, <2>3, <3>1
      <4> QED
        BY <4>1, <4>2
    <3>2. CASE n # M
      <4>1. n \in 0..(M - 1) /\ g[n] = f[n]
        BY <2>1, <3>2
      <4>2. f[n] = IF n = 0 THEN s ELSE Drained(f[n - 1])
        BY <2>4, <4>1
      <4>3. n # 0 => g[n - 1] = f[n - 1]
        BY <2>1, <3>2, <4>1
      <4> QED
        BY <4>1, <4>2, <4>3
    <3> QED
      BY <3>1, <3>2
  <2>6. Turns(g, M)
    <3>1. g = [n \in 0..M |-> g[n]]
      OBVIOUS
    <3> HIDE DEF g
    <3> QED
      BY <2>5, <3>1
  <2> HIDE DEF g, Turns
  <2> QED
    BY <2>1, <2>6
<1> QED
  BY <1>1

\* drain().
LEMMA DrainFollows ==
    ASSUME HubAssumption, NEW s, Good(s, None), NEW links, Reached(links), NEW back
    PROVE  Follows(s, Drain(s), links, back)
<1> DEFINE N == Len(s.h.queue)
           f == CHOOSE f : f = [n \in 0..N |-> IF n = 0 THEN s ELSE Drained(f[n - 1])]
           bad == {n \in 0..N : ~Follows(s, f[n], links, back)}
<1>1. N \in Nat /\ s \in State
  <2>1. s \in State
    BY DEF Good
  <2> QED
    BY <2>1, Fields
<1> HIDE DEF N
<1>2. f = [n \in 0..N |-> IF n = 0 THEN s ELSE Drained(f[n - 1])]
  <2>1. \E g : g = [n \in 0..N |-> IF n = 0 THEN s ELSE Drained(g[n - 1])]
    <3> HIDE DEF f
    <3> QED
      BY ONLY <1>1, TurnsExist, ZenonT(30)
  <2> QED
    BY ONLY <2>1
<1>3. Drain(s) = f[N]
  BY DEF Drain, N
<1> HIDE DEF f
<1>4. bad = {}
  <2> SUFFICES ASSUME bad # {} PROVE FALSE
    OBVIOUS
  <2>1. PICK n \in bad : \A m \in bad : n <= m
    <3>1. bad \in SUBSET Nat
      OBVIOUS
    <3> HIDE DEF bad
    <3> QED
      BY <3>1, Least
  <2>2. n # 0
    <3>1. f[0] = s
      BY <1>1, <1>2
    <3> QED
      BY <2>1, <3>1, FollowsSelf
  <2>3. n - 1 \in 0..N /\ n - 1 \notin bad /\ n \in 0..N
    BY <1>1, <2>1, <2>2
  <2>4. Follows(s, f[n - 1], links, back)
    BY <2>3
  <2>5. Follows(f[n - 1], f[n], links, back)
    <3>1. f[n] = Drained(f[n - 1])
      BY <1>2, <2>2, <2>3
    <3>2. Good(f[n - 1], None)
      BY <2>4 DEF Follows
    <3> QED
      BY <3>1, <3>2, DrainedFollows
  <2>6. Follows(s, f[n], links, back)
    BY <1>1, <2>4, <2>5, FollowsThen
  <2> QED
    BY <2>1, <2>6
<1>5. N \in 0..N
  BY <1>1
<1> QED
  BY <1>3, <1>4, <1>5
-----------------------------------------------------------------------------
(* A vanished link. *)

\* A computation that ended, and its message not on its way on any link that is up.
LEMMA FollowsEnd ==
    ASSUME HubAssumption, NEW s, NEW p, Good(s, None), p \in Alive(s.h), NEW status \in Endings,
           status = "done" => s.h.comps[p].key \in published, NEW links, NEW back,
           \A l \in Links : links[l] \in Up => s.h.comps[p].msg \notin OnTheWay(s.wire[l], running[l], back[l])
    PROVE  Follows(s, End(s, p, status), links, back)
<1> DEFINE t == End(s, p, status)
<1>1. status \in Statuses /\ status # "waiting"
  BY DEF Statuses, Endings
<1>2. Good(s, p)
  BY GoodOdd
<1>3. Ended(s, t, p, status)
  BY <1>1, <1>2, EndIs
<1> HIDE DEF t
<1>4. Good(t, None)
  BY <1>1, <1>2, <1>3, EndGood
<1>5. Answered(s, t)
  BY <1>2, <1>3, AnsweredEnd
<1>6. Flight(s, links, running, back, published) => Flight(t, links, running, back, published)
  BY <1>1, <1>2, <1>3, FlightEnd
<1> QED
  BY <1>4, <1>5, <1>6 DEF Follows, t

\* The turns of onClose are there.
LEMMA LossesExist ==
    ASSUME HubAssumption, NEW l
    PROVE  \E f : f = [m \in 0..MaxSeq |-> IF m = 0 THEN Now
                                      ELSE IF Has(l, hub.byMsg[m]) THEN End(f[m - 1], hub.byMsg[m], "failed")
                                      ELSE f[m - 1]]
<1> DEFINE Turns(f, M) == f = [m \in 0..M |-> IF m = 0 THEN Now
                                      ELSE IF Has(l, hub.byMsg[m]) THEN End(f[m - 1], hub.byMsg[m], "failed")
                                      ELSE f[m - 1]]
           Lose(t, m) == IF Has(l, hub.byMsg[m]) THEN End(t, hub.byMsg[m], "failed") ELSE t
           none == {M \in Nat : ~\E f : Turns(f, M)}
<1>1. none = {}
  <2> SUFFICES ASSUME none # {} PROVE FALSE
    OBVIOUS
  <2>1. PICK M \in none : \A K \in none : M <= K
    <3>1. none \in SUBSET Nat
      OBVIOUS
    <3> HIDE DEF none
    <3> QED
      BY <3>1, Least
  <2>2. M # 0
    <3> DEFINE f == [n \in 0..0 |-> Now]
    <3>1. Turns(f, 0)
      OBVIOUS
    <3> HIDE DEF f, Turns
    <3> QED
      BY <2>1, <3>1
  <2>3. M - 1 \in Nat /\ M - 1 \notin none
    <3>1. M \in Nat
      BY <2>1
    <3> HIDE DEF none
    <3> QED
      BY <2>1, <2>2, <3>1
  <2>4. PICK f : Turns(f, M - 1)
    <3> HIDE DEF Turns
    <3> QED
      BY <2>3
  <2> DEFINE g == [n \in 0..M |-> IF n = M THEN Lose(f[M - 1], M) ELSE f[n]]
  <2>5. \A n \in 0..M : g[n] = IF n = 0 THEN Now ELSE Lose(g[n - 1], n)
    <3> SUFFICES ASSUME NEW n \in 0..M PROVE g[n] = IF n = 0 THEN Now ELSE Lose(g[n - 1], n)
      OBVIOUS
    <3>1. CASE n = M
      <4> HIDE DEF Lose
      <4>1. g[n] = Lose(f[M - 1], M) /\ n # 0
        BY <2>2, <3>1
      <4>2. g[n - 1] = f[M - 1]
        BY <2>1, <2>3, <3>1
      <4> QED
        BY <3>1, <4>1, <4>2
    <3>2. CASE n # M
      <4>1. n \in 0..(M - 1) /\ g[n] = f[n]
        BY <2>1, <3>2
      <4>2. f[n] = IF n = 0 THEN Now ELSE Lose(f[n - 1], n)
        BY <2>4, <4>1
      <4> HIDE DEF Lose
      <4>3. n # 0 => g[n - 1] = f[n - 1]
        BY <2>1, <3>2, <4>1
      <4> QED
        BY <4>1, <4>2, <4>3
    <3> QED
      BY <3>1, <3>2
  <2>6. Turns(g, M)
    <3>1. g = [n \in 0..M |-> g[n]]
      OBVIOUS
    <3> HIDE DEF g
    <3> QED
      BY <2>5, <3>1
  <2> HIDE DEF g, Turns
  <2> QED
    BY <2>1, <2>6
<1>2. \E f : Turns(f, MaxSeq)
  <2>1. MaxSeq \in Nat
    BY Constants
  <2> HIDE DEF Turns
  <2> QED
    BY <1>1, <2>1
<1> QED
  BY <1>2

\* What is left of the hub's state when the messages to l up to m are given up: t.
LostTo(t, l, m, links, back) ==
    /\ Follows(Now, t, links, back)
    /\ DOMAIN t.h.comps = DOMAIN hub.comps
    /\ \A o \in DOMAIN hub.comps : t.h.comps[o].msg = hub.comps[o].msg /\ t.h.comps[o].link = hub.comps[o].link
    /\ Msgs(t.h, l) \subseteq Msgs(hub, l)
    /\ \A x \in 1..m : x \notin Msgs(t.h, l)
    /\ \A x \in (m + 1)..MaxSeq : x \in Msgs(hub, l) => hub.byMsg[x] \in Alive(t.h)

\* One more.
LEMMA LosesOne ==
    ASSUME HubAssumption, Good(Now, None), NEW l \in Links, NEW links, links[l] \notin Up, NEW back,
           NEW m \in 1..MaxSeq, NEW s, LostTo(s, l, m - 1, links, back)
    PROVE  LostTo(IF Has(l, hub.byMsg[m]) THEN End(s, hub.byMsg[m], "failed") ELSE s, l, m, links, back)
<1>1. m \in Msgs(hub, l) <=> Has(l, hub.byMsg[m])
  BY DEF Msgs, Has
<1>2. Now \in State /\ Now.h = hub
  BY DEF Good, Now
<1>3. CASE ~Has(l, hub.byMsg[m])
  <2>1. m \notin Msgs(s.h, l)
    BY <1>1, <1>3 DEF LostTo
  <2>2. \A x \in 1..m : x \in 1..(m - 1) \/ x = m
    OBVIOUS
  <2>3. \A x \in (m + 1)..MaxSeq : x \in ((m - 1) + 1)..MaxSeq
    BY Constants
  <2> QED
    BY <1>3, <2>1, <2>2, <2>3 DEF LostTo
<1>4. CASE Has(l, hub.byMsg[m])
  <2> DEFINE p == hub.byMsg[m]
             t == End(s, p, "failed")
  <2>1. m \in Msgs(hub, l) /\ p # None
    BY <1>1, <1>4 DEF Msgs
  <2>2. p \in Alive(hub) /\ p \in DOMAIN hub.comps /\ hub.comps[p].msg = m /\ hub.comps[p].link = l
    BY <1>2, <1>4, <2>1 DEF Good, Sent, Alive, Has
  <2>3. m \in ((m - 1) + 1)..MaxSeq
    BY Constants
  <2> HIDE DEF p
  <2>4. p \in Alive(s.h) /\ Good(s, None) /\ s.h.comps[p].msg = m /\ s.h.comps[p].link = l
    BY <2>1, <2>2, <2>3 DEF LostTo, Follows, p
  <2>5. m \in Msgs(s.h, l) /\ \A n \in Links : n # l => m \notin Msgs(s.h, n)
    <3>1. s.h.byMsg[m] = p
      BY <2>4 DEF Good, Sent
    <3> QED
      BY <2>1, <2>4, <3>1 DEF Msgs
  <2>6. Good(s, p)
    BY <2>4, GoodOdd
  <2>7. "failed" \in Statuses /\ "failed" \in Endings /\ "failed" # "done" /\ "failed" # "waiting"
    BY DEF Statuses, Endings
  <2>8. Ended(s, t, p, "failed")
    BY <2>4, <2>6, <2>7, EndIs
  <2> HIDE DEF t
  <2>9. Left(s, t, p)
    BY <2>4, <2>6, <2>7, <2>8, EndLeaves
  <2>10. Follows(s, t, links, back)
    <3>1. Good(t, None)
      BY <2>4, <2>6, <2>7, <2>8, EndGood
    <3>2. Answered(s, t)
      BY <2>4, <2>6, <2>7, <2>8, AnsweredEnd
    <3>3. ASSUME Flight(s, links, running, back, published) PROVE Flight(t, links, running, back, published)
      <4>1. ASSUME NEW n \in Links, links[n] \in Up
            PROVE  s.h.comps[p].msg \notin OnTheWay(s.wire[n], running[n], back[n])
        <5>1. OnTheWay(s.wire[n], running[n], back[n]) \subseteq Msgs(s.h, n)
          BY <3>3, <4>1, TravelsOut DEF Flight
        <5>2. n # l
          BY <4>1
        <5> QED
          BY <2>4, <2>5, <5>1, <5>2
      <4> QED
        BY <2>4, <2>6, <2>7, <2>8, <3>3, <4>1, FlightEnd
    <3> QED
      BY <3>1, <3>2, <3>3 DEF Follows
  <2>11. Follows(Now, t, links, back)
    BY <1>2, <2>10, FollowsThen DEF LostTo
  <2>12. /\ DOMAIN t.h.comps = DOMAIN hub.comps
         /\ \A o \in DOMAIN hub.comps : t.h.comps[o].msg = hub.comps[o].msg /\ t.h.comps[o].link = hub.comps[o].link
    BY <2>9 DEF LostTo, Left
  <2>13. Msgs(t.h, l) = Msgs(s.h, l) \ {m}
    BY <2>4, <2>9 DEF Left
  <2>14. ASSUME NEW x \in 1..m PROVE x \notin Msgs(t.h, l)
    <3>1. x \in 1..(m - 1) \/ x = m
      OBVIOUS
    <3> QED
      BY <2>13, <3>1 DEF LostTo
  <2>15. ASSUME NEW x \in (m + 1)..MaxSeq, x \in Msgs(hub, l) PROVE hub.byMsg[x] \in Alive(t.h)
    <3>1. x \in ((m - 1) + 1)..MaxSeq /\ x # m
      BY Constants
    <3>2. hub.byMsg[x] \in Alive(s.h)
      BY <2>15, <3>1 DEF LostTo
    <3>3. hub.byMsg[x] # p
      <4>1. x \in 1..MaxSeq /\ hub.byMsg[x] # None
        BY <2>15 DEF Msgs
      <4>2. hub.comps[hub.byMsg[x]].msg = x
        BY <1>2, <4>1 DEF Good, Sent
      <4> QED
        BY <2>2, <3>1, <4>2
    <3> QED
      BY <2>9, <3>2, <3>3 DEF Left
  <2>16. LostTo(t, l, m, links, back)
    BY <2>11, <2>12, <2>13, <2>14, <2>15 DEF LostTo
  <2> QED
    BY <1>4, <2>16 DEF t, p
<1> QED
  BY <1>3, <1>4

\* All of them: nothing sent to l is left, and setting its load to 0 says what it is already.
LEMMA LostFollows ==
    ASSUME HubAssumption, Good(Now, None), NEW l \in Links, NEW links, links[l] \notin Up, NEW back
    PROVE  LET t == [Lost(l) EXCEPT !.h.busy[l] = 0] IN Follows(Now, t, links, back)
<1> DEFINE f == CHOOSE f : f = [m \in 0..MaxSeq |-> IF m = 0 THEN Now
                                      ELSE IF Has(l, hub.byMsg[m]) THEN End(f[m - 1], hub.byMsg[m], "failed")
                                      ELSE f[m - 1]]
           bad == {m \in 0..MaxSeq : ~LostTo(f[m], l, m, links, back)}
<1>1. MaxSeq \in Nat /\ Now.h = hub
  BY Constants DEF Now
<1>2. f = [m \in 0..MaxSeq |-> IF m = 0 THEN Now
                               ELSE IF Has(l, hub.byMsg[m]) THEN End(f[m - 1], hub.byMsg[m], "failed")
                               ELSE f[m - 1]]
  <2>1. \E g : g = [m \in 0..MaxSeq |-> IF m = 0 THEN Now
                               ELSE IF Has(l, hub.byMsg[m]) THEN End(g[m - 1], hub.byMsg[m], "failed")
                               ELSE g[m - 1]]
    <3> HIDE DEF f
    <3> QED
      BY LossesExist
  <2> QED
    BY ONLY <2>1
<1>3. Lost(l) = f[MaxSeq]
  BY DEF Lost
<1> HIDE DEF f
<1>4. LostTo(f[0], l, 0, links, back)
  <2>1. f[0] = Now
    BY <1>1, <1>2
  <2>2. Follows(Now, Now, links, back)
    BY FollowsSelf
  <2>3. \A x \in 1..MaxSeq : x \in Msgs(hub, l) => hub.byMsg[x] \in Alive(hub)
    BY <1>1 DEF Good, Sent, Msgs
  <2> QED
    BY <1>1, <2>1, <2>2, <2>3 DEF LostTo
<1>5. bad = {}
  <2> SUFFICES ASSUME bad # {} PROVE FALSE
    OBVIOUS
  <2>1. PICK m \in bad : \A x \in bad : m <= x
    <3>1. bad \in SUBSET Nat
      OBVIOUS
    <3> HIDE DEF bad
    <3> QED
      BY <3>1, Least
  <2>2. m # 0 /\ m \in 0..MaxSeq
    BY <1>4, <2>1
  <2>3. m \in 1..MaxSeq /\ m - 1 \in 0..MaxSeq /\ m - 1 \notin bad
    <3> HIDE DEF bad
    <3> QED
      BY <1>1, <2>1, <2>2
  <2>4. LostTo(f[m - 1], l, m - 1, links, back)
    BY <2>3
  <2>5. f[m] = IF Has(l, hub.byMsg[m]) THEN End(f[m - 1], hub.byMsg[m], "failed") ELSE f[m - 1]
    BY <1>2, <2>2
  <2>6. LostTo(f[m], l, m, links, back)
    BY <2>3, <2>4, <2>5, LosesOne
  <2> QED
    BY <2>1, <2>6
<1> DEFINE t == Lost(l)
<1>6. LostTo(t, l, MaxSeq, links, back)
  <2>1. MaxSeq \in 0..MaxSeq
    BY <1>1
  <2> QED
    BY <1>3, <1>5, <2>1
<1> HIDE DEF t
<1>7. Msgs(t.h, l) = {}
  BY <1>6 DEF LostTo, Msgs
<1>8. Good(t, None) /\ t \in State
  BY <1>6 DEF LostTo, Follows, Good
<1>9. t.h.busy[l] = 0
  <2>1. t.h.busy[l] = Cardinality(Msgs(t.h, l))
    BY <1>8 DEF Good, Sent
  <2> QED
    BY <1>7, <2>1, FS_EmptySet
<1>10. [t EXCEPT !.h.busy[l] = 0] = t
  <2>1. t.h \in HubType /\ t.h.busy \in [Links -> Nat]
    BY <1>8, Fields
  <2>2. [t.h.busy EXCEPT ![l] = 0] = t.h.busy
    BY <1>9, <2>1
  <2>3. [t.h EXCEPT !.busy = t.h.busy] = t.h
    BY <2>1 DEF HubType
  <2>4. [t EXCEPT !.h = t.h] = t
    BY <1>8 DEF State
  <2> QED
    BY <2>2, <2>3, <2>4
<1> QED
  BY <1>6, <1>10 DEF LostTo, t
-----------------------------------------------------------------------------
(* What the handlers change without ending anything or handing anything out. *)

\* A handler leaves the state it computed.
LEMMA BecomesIs == ASSUME NEW s \in State, Becomes(s) PROVE Now' = s
  BY DEF Becomes, Now, State

\* What was sent, by what it was sent for, is all that being in flight depends on.
LEMMA FlightSame ==
    ASSUME HubAssumption, NEW s, NEW t, NEW links, NEW run, NEW back, NEW files,
           Flight(s, links, run, back, files), Sent(s.h), t.wire = s.wire, t.h.byMsg = s.h.byMsg,
           \A p \in DOMAIN s.h.comps : t.h.comps[p].link = s.h.comps[p].link /\ t.h.comps[p].key = s.h.comps[p].key
    PROVE  Flight(t, links, run, back, files)
<1>1. \A m \in 1..MaxSeq : s.h.byMsg[m] # None => s.h.byMsg[m] \in DOMAIN s.h.comps
  BY DEF Sent, Alive
<1>2. \A l \in Links : Msgs(t.h, l) = Msgs(s.h, l)
  BY <1>1 DEF Msgs
<1>3. \A l \in Links : \A m \in Msgs(s.h, l) : KeyOf(t.h, m) = KeyOf(s.h, m)
  BY <1>1 DEF Msgs, KeyOf
<1>4. ASSUME NEW l \in Links, links[l] \in Up
      PROVE  Travels(l, t.h, t.wire[l], run[l], back[l], files)
  <2>1. Travels(l, s.h, s.wire[l], run[l], back[l], files)
    BY <1>4 DEF Flight
  <2>2. \A m \in OnTheWay(s.wire[l], run[l], back[l]) : m \in Msgs(t.h, l) /\ KeyOf(t.h, m) = KeyOf(s.h, m)
    BY <1>2, <1>3, <2>1, TravelsOut
  <2> QED
    BY <2>1, <2>2, TravelsKept
<1> QED
  BY <1>4 DEF Flight

\* From s to t the readers of p became R, and no more of the hub changed.
Regrouped(s, t, p, R) ==
    /\ t.h \in HubType /\ t.wire = s.wire
    /\ t.h.byKey = s.h.byKey /\ t.h.byMsg = s.h.byMsg /\ t.h.busy = s.h.busy
    /\ t.h.queue = s.h.queue /\ t.h.seq = s.h.seq
    /\ DOMAIN t.h.comps = DOMAIN s.h.comps /\ Alive(t.h) = Alive(s.h)
    /\ \A l \in Links : Msgs(t.h, l) = Msgs(s.h, l)
    /\ \A o \in DOMAIN s.h.comps : /\ t.h.comps[o].key = s.h.comps[o].key
                                   /\ t.h.comps[o].msg = s.h.comps[o].msg
                                   /\ t.h.comps[o].link = s.h.comps[o].link
                                   /\ o # p => t.h.comps[o] = s.h.comps[o]
    /\ t.h.comps[p].readers = R

\* That is what putting R for p's readers does.
LEMMA RegroupedIs ==
    ASSUME HubAssumption, NEW s \in State, Sent(s.h), NEW p \in DOMAIN s.h.comps, NEW R \in SUBSET Readers, NEW t,
           t.h = [s.h EXCEPT !.comps[p].readers = R], t.wire = s.wire
    PROVE  Regrouped(s, t, p, R)
<1> DEFINE c == [s.h.comps[p] EXCEPT !.readers = R]
           comps == [s.h.comps EXCEPT ![p] = c]
<1>1. s.h \in HubType /\ s.h.comps \in Seq(Comp) /\ s.h.comps[p] \in Comp
  BY Fields
<1>2. c \in Comp /\ c.readers = R /\ c.key = s.h.comps[p].key /\ c.msg = s.h.comps[p].msg
      /\ c.link = s.h.comps[p].link /\ c.settled = s.h.comps[p].settled
  BY <1>1 DEF Comp
<1>3. t.h = [s.h EXCEPT !.comps = comps]
  BY <1>1 DEF HubType
<1> HIDE DEF c
<1>4. comps \in Seq(Comp) /\ DOMAIN comps = DOMAIN s.h.comps
      /\ \A o \in DOMAIN s.h.comps : comps[o] = IF o = p THEN c ELSE s.h.comps[o]
  BY <1>1, <1>2, ExceptSeq
<1> HIDE DEF comps
<1>5. /\ t.h \in HubType /\ t.h.comps = comps
      /\ t.h.byKey = s.h.byKey /\ t.h.byMsg = s.h.byMsg /\ t.h.busy = s.h.busy
      /\ t.h.queue = s.h.queue /\ t.h.seq = s.h.seq
  BY <1>1, <1>3, <1>4 DEF HubType
<1>6. Alive(t.h) = Alive(s.h)
  BY <1>2, <1>4, <1>5 DEF Alive
<1>7. \A o \in DOMAIN s.h.comps : /\ t.h.comps[o].key = s.h.comps[o].key
                                  /\ t.h.comps[o].msg = s.h.comps[o].msg
                                  /\ t.h.comps[o].link = s.h.comps[o].link
                                  /\ o # p => t.h.comps[o] = s.h.comps[o]
  BY <1>2, <1>4, <1>5
<1>8. \A l \in Links : Msgs(t.h, l) = Msgs(s.h, l)
  <2>1. \A m \in 1..MaxSeq : s.h.byMsg[m] # None => s.h.byMsg[m] \in DOMAIN s.h.comps
    BY DEF Sent, Alive
  <2> QED
    BY <1>5, <1>7, <2>1 DEF Msgs
<1> QED
  BY <1>2, <1>4, <1>5, <1>6, <1>7, <1>8 DEF Regrouped
\* What of the invariant does not ask who the readers are.
LEMMA RegroupedGood ==
    ASSUME HubAssumption, NEW s, Good(s, None), NEW p \in Alive(s.h), NEW R, NEW t, Regrouped(s, t, p, R)
    PROVE  Keyed(t.h) /\ Sent(t.h) /\ Queued(t.h, p) /\ (R # {} => Queued(t.h, None))
<1>1. Keyed(t.h)
  <2>1. Alive(s.h) \subseteq DOMAIN s.h.comps
    BY DEF Alive
  <2> QED
    BY <2>1 DEF Good, Keyed, Regrouped
<1>2. Sent(t.h)
  <2>1. Alive(s.h) \subseteq DOMAIN s.h.comps
    BY DEF Alive
  <2>2. ASSUME NEW m \in 1..MaxSeq, t.h.byMsg[m] # None
        PROVE  /\ m <= t.h.seq /\ t.h.byMsg[m] \in Alive(t.h)
               /\ t.h.comps[t.h.byMsg[m]].msg = m /\ t.h.comps[t.h.byMsg[m]].link \in Links
    BY <2>1, <2>2 DEF Good, Sent, Regrouped
  <2>3. \A o \in Alive(t.h) : t.h.comps[o].msg # 0 => t.h.byMsg[t.h.comps[o].msg] = o
    BY <2>1 DEF Good, Sent, Regrouped
  <2>4. \A l \in Links : t.h.busy[l] = Cardinality(Msgs(t.h, l)) /\ t.h.busy[l] <= Slots[l]
    BY DEF Good, Sent, Regrouped
  <2> QED
    BY <2>2, <2>3, <2>4 DEF Sent
<1>3. Queued(t.h, p)
  <2>1. Alive(s.h) \subseteq DOMAIN s.h.comps
    BY DEF Alive
  <2>2. Queued(s.h, None)
    BY DEF Good
  <2>3. \A i \in DOMAIN s.h.queue : s.h.queue[i] # None
    <3>1. s.h.queue \in Seq(Pids)
      BY Fields DEF Good
    <3> QED
      BY <3>1, ElementOfSeq, LenProperties, Constants
  <2>4. p # None /\ None \notin Alive(s.h)
    <3>1. \A o \in DOMAIN s.h.comps : o # None
      BY Fields DEF Good
    <3> QED
      BY <2>1, <3>1
  <2>5. \A i \in DOMAIN t.h.queue : /\ t.h.queue[i] \in Alive(t.h) /\ t.h.comps[t.h.queue[i]].msg = 0
                                    /\ t.h.queue[i] # p => t.h.comps[t.h.queue[i]].readers # {}
    BY <2>1, <2>2, <2>3 DEF Queued, Regrouped
  <2>6. \A o \in Alive(t.h) \ {p} : t.h.comps[o].msg = 0 => \E i \in DOMAIN t.h.queue : t.h.queue[i] = o
    BY <2>1, <2>2, <2>4 DEF Queued, Regrouped
  <2> QED
    BY <2>2, <2>5, <2>6 DEF Queued, Regrouped
<1>4. ASSUME R # {} PROVE Queued(t.h, None)
  <2>1. Alive(s.h) \subseteq DOMAIN s.h.comps
    BY DEF Alive
  <2>2. Queued(s.h, None)
    BY DEF Good
  <2>3. t.h.comps[p].readers # {}
    BY <1>4 DEF Regrouped
  <2>4. \A i \in DOMAIN t.h.queue : /\ t.h.queue[i] \in Alive(t.h) /\ t.h.comps[t.h.queue[i]].msg = 0
                                    /\ t.h.queue[i] # None => t.h.comps[t.h.queue[i]].readers # {}
    BY <1>3, <2>3 DEF Queued
  <2>5. \A o \in Alive(t.h) \ {None} : t.h.comps[o].msg = 0 => \E i \in DOMAIN t.h.queue : t.h.queue[i] = o
    BY <2>1, <2>2 DEF Queued, Regrouped
  <2> QED
    BY <1>3, <2>4, <2>5 DEF Queued
<1> QED
  BY <1>1, <1>2, <1>3, <1>4

\* A step keeps the hub's invariant, and what is in flight.
Kept ==
    /\ Good(Now', None)
    /\ Flight(Now, link, running, answers, published) => Flight(Now', link', running', answers', published')

\* A page that is told something while it waits for nothing.
LEMMA PagesTyped ==
    ASSUME HubInv, NEW r \in Readers, NEW k \in Keys, NEW status \in Statuses
    PROVE  [page EXCEPT ![r] = [key |-> k, status |-> status]]
              \in [Readers -> [key : Keys \cup {None}, status : Statuses]]
  BY DEF HubInv, Good, State, Now

\* A page that does not wait is no computation's reader.
LEMMA IdleReadsNone ==
    ASSUME HubInv, NEW r \in Readers, page[r].status # "waiting", NEW p \in DOMAIN hub.comps
    PROVE  r \notin hub.comps[p].readers
  BY DEF HubInv, Good, Read, Now

\* A page joins a computation.
LEMMA JoinKept ==
    ASSUME HubAssumption, HubInv, NEW r \in Readers, NEW k \in Keys, page[r].status = "idle", Join(r, k),
           UNCHANGED <<link, running, answers, published>>
    PROVE  Kept
<1> DEFINE p == hub.byKey[k]
           R == hub.comps[p].readers \cup {r}
<1>1. Good(Now, None) /\ Now \in State /\ Sent(hub) /\ Now.h = hub /\ Now.page = page /\ Now.wire = wire
  BY DEF HubInv, Good, Now
<1>2. p \in Alive(hub) /\ p \in DOMAIN hub.comps /\ hub.comps[p].key = k
  BY <1>1 DEF Join, Good, Keyed, Alive
<1>3. R \in SUBSET Readers
  <2>1. hub.comps[p] \in Comp
    BY <1>1, <1>2, Fields
  <2> QED
    BY <2>1 DEF Comp
<1>4. /\ hub' = [hub EXCEPT !.comps[p].readers = R] /\ wire' = wire
      /\ page' = [page EXCEPT ![r] = [key |-> k, status |-> "waiting"]]
  BY DEF Join, Told
<1>5. Now'.h = hub' /\ Now'.page = page' /\ Now'.wire = wire' /\ Now' = [h |-> hub', page |-> page', wire |-> wire']
  BY DEF Now
<1>6. Regrouped(Now, Now', p, R)
  <2> HIDE DEF R, p
  <2> QED
    BY <1>1, <1>2, <1>3, <1>4, <1>5, RegroupedIs
<1>7. Keyed(hub') /\ Sent(hub') /\ Queued(hub', None)
  <2>1. R # {}
    OBVIOUS
  <2> HIDE DEF R, p
  <2> QED
    BY <1>1, <1>2, <1>5, <1>6, <2>1, RegroupedGood
<1>8. Read(hub', page')
  <2>1. \A q \in DOMAIN hub.comps : r \notin hub.comps[q].readers
    BY IdleReadsNone
  <2>2. Read(hub, page) /\ Keyed(hub)
    BY <1>1 DEF Good
  <2>3. page'[r] = [key |-> k, status |-> "waiting"] /\ \A o \in Readers : o # r => page'[o] = page[o]
    BY <1>1, <1>4 DEF State
  <2>4. /\ DOMAIN hub'.comps = DOMAIN hub.comps /\ Alive(hub') = Alive(hub) /\ hub'.byKey = hub.byKey
        /\ hub'.comps[p].readers = R /\ hub'.comps[p].key = k
        /\ \A q \in DOMAIN hub.comps : q # p => hub'.comps[q] = hub.comps[q]
    BY <1>1, <1>2, <1>5, <1>6 DEF Regrouped
  <2>5. ASSUME NEW q \in DOMAIN hub'.comps, NEW o \in hub'.comps[q].readers
        PROVE  q \in Alive(hub') /\ page'[o].status = "waiting" /\ page'[o].key = hub'.comps[q].key
    <3>0. \A x \in DOMAIN hub.comps : hub.comps[x].readers \subseteq Readers
      <4>1. \A x \in DOMAIN hub.comps : hub.comps[x] \in Comp
        BY <1>1, Fields
      <4> QED
        BY <4>1 DEF Comp
    <3>1. CASE q = p
      BY <1>2, <2>1, <2>2, <2>3, <2>4, <2>5, <3>0, <3>1 DEF Read
    <3>2. CASE q # p
      BY <2>1, <2>2, <2>3, <2>4, <2>5, <3>0, <3>2 DEF Read
    <3> QED
      BY <3>1, <3>2
  <2>6. ASSUME NEW o \in Readers, page'[o].status = "waiting"
        PROVE  /\ page'[o].key \in Keys /\ hub'.byKey[page'[o].key] # None
               /\ o \in hub'.comps[hub'.byKey[page'[o].key]].readers
    <3>1. CASE o = r
      BY <2>3, <2>4, <3>1 DEF Join
    <3>2. CASE o # r
      <4>1. /\ page[o].key \in Keys /\ hub.byKey[page[o].key] # None
            /\ o \in hub.comps[hub.byKey[page[o].key]].readers
        BY <2>2, <2>3, <2>6, <3>2 DEF Read
      <4>2. hub.byKey[page[o].key] \in DOMAIN hub.comps
        BY <2>2, <4>1 DEF Keyed, Alive
      <4> QED
        BY <2>3, <2>4, <3>2, <4>1, <4>2
    <3> QED
      BY <3>1, <3>2
  <2> QED
    BY <2>5, <2>6 DEF Read
<1>9. Good(Now', None)
  <2>1. hub' \in HubType
    BY <1>5, <1>6 DEF Regrouped
  <2>2. page' \in [Readers -> [key : Keys \cup {None}, status : Statuses]]
    BY <1>4, PagesTyped DEF Statuses
  <2>3. Now' \in State
    BY <1>1, <1>4, <1>5, <2>1, <2>2 DEF State
  <2> QED
    BY <1>5, <1>7, <1>8, <2>3 DEF Good
<1>10. ASSUME Flight(Now, link, running, answers, published)
       PROVE  Flight(Now', link', running', answers', published')
  <2>1. \A q \in DOMAIN hub.comps : hub'.comps[q].link = hub.comps[q].link /\ hub'.comps[q].key = hub.comps[q].key
    BY <1>1, <1>5, <1>6 DEF Regrouped
  <2>2. hub'.byMsg = hub.byMsg
    BY <1>1, <1>5, <1>6 DEF Regrouped
  <2>3. Flight(Now', link, running, answers, published)
    BY <1>1, <1>4, <1>5, <1>10, <2>1, <2>2, FlightSame
  <2> QED
    BY <2>3
<1> QED
  BY <1>9, <1>10 DEF Kept
\* What the invariant says of the state there is, field by field.
LEMMA NowFacts ==
    ASSUME HubInv
    PROVE  /\ Good(Now, None) /\ Now \in State /\ hub \in HubType
           /\ Keyed(hub) /\ Read(hub, page) /\ Sent(hub) /\ Queued(hub, None)
           /\ page \in [Readers -> [key : Keys \cup {None}, status : Statuses]] /\ wire \in [Links -> Seq(Compute)]
           /\ Now = [h |-> hub, page |-> page, wire |-> wire]
           /\ Now.h = hub /\ Now.page = page /\ Now.wire = wire
           /\ Now' = [h |-> hub', page |-> page', wire |-> wire']
           /\ Now'.h = hub' /\ Now'.page = page' /\ Now'.wire = wire'
           /\ \A p \in DOMAIN hub.comps : hub.comps[p] \in Comp /\ hub.comps[p].readers \subseteq Readers /\ p # None
<1>1. Good(Now, None) /\ Now \in State /\ Now = [h |-> hub, page |-> page, wire |-> wire]
  BY DEF HubInv, Good, Now
<1>2. Now' = [h |-> hub', page |-> page', wire |-> wire']
  BY DEF Now
<1>3. \A p \in DOMAIN hub.comps : hub.comps[p] \in Comp /\ p # None
  BY <1>1, Fields
<1>4. \A p \in DOMAIN hub.comps : hub.comps[p].readers \subseteq Readers
  BY <1>3 DEF Comp
<1> QED
  BY <1>1, <1>2, <1>3, <1>4 DEF Good, State

\* A page is refused.
LEMMA RefusalKept ==
    ASSUME HubAssumption, HubInv, NEW r \in Readers, NEW k \in Keys, NEW status \in {"failed", "busy", "unavailable"},
           page[r].status = "idle", Told(r, k, status), UNCHANGED <<hub, link, running, answers, published>>
    PROVE  Kept
<1>1. page' = [page EXCEPT ![r] = [key |-> k, status |-> status]] /\ wire' = wire /\ hub' = hub
  BY DEF Told
<1>2. status \in Statuses /\ status # "waiting"
  BY DEF Statuses
<1>3. page' \in [Readers -> [key : Keys \cup {None}, status : Statuses]]
  BY <1>1, <1>2, PagesTyped
<1>4. page'[r].status = status /\ \A o \in Readers : o # r => page'[o] = page[o]
  BY <1>1, NowFacts
<1>5. Read(hub, page')
  <2>1. \A q \in DOMAIN hub.comps : r \notin hub.comps[q].readers
    BY IdleReadsNone
  <2>2. ASSUME NEW q \in DOMAIN hub.comps, NEW o \in hub.comps[q].readers
        PROVE  q \in Alive(hub) /\ page'[o].status = "waiting" /\ page'[o].key = hub.comps[q].key
    <3>1. o # r /\ o \in Readers
      BY <2>1, NowFacts
    <3> QED
      BY <1>4, <3>1, NowFacts DEF Read
  <2>3. ASSUME NEW o \in Readers, page'[o].status = "waiting"
        PROVE  /\ page'[o].key \in Keys /\ hub.byKey[page'[o].key] # None
               /\ o \in hub.comps[hub.byKey[page'[o].key]].readers
    <3>1. o # r
      BY <1>2, <1>4, <2>3
    <3> QED
      BY <1>4, <2>3, <3>1, NowFacts DEF Read
  <2> QED
    BY <2>2, <2>3 DEF Read
<1>6. Now' \in State
  BY <1>1, <1>3, NowFacts DEF State
<1>7. Good(Now', None)
  BY <1>1, <1>5, <1>6, NowFacts DEF Good
<1>8. ASSUME Flight(Now, link, running, answers, published)
      PROVE  Flight(Now', link', running', answers', published')
  BY <1>1, <1>8, NowFacts, FlightSame
<1> QED
  BY <1>7, <1>8 DEF Kept

\* The state in the middle of a deadline: the reader has left its computation p.
LEMMA LeavesGood ==
    ASSUME HubAssumption, HubInv, NEW r \in Readers, page[r].status = "waiting", NEW p \in DOMAIN hub.comps,
           r \in hub.comps[p].readers
    PROVE  LET s == Leave(r, p)
           IN  /\ Good(s, p) /\ Regrouped(Now, s, p, hub.comps[p].readers \ {r})
               /\ s.page = [page EXCEPT ![r].status = "timeout"]
               /\ p \in Alive(hub) /\ hub.comps[p].key = page[r].key /\ hub.byKey[page[r].key] = p
               /\ (hub.comps[p].readers # {r} \/ hub.comps[p].msg # 0) => Good(s, None)
<1> DEFINE s == Leave(r, p)
           R == hub.comps[p].readers \ {r}
<1>1. /\ s.h = [hub EXCEPT !.comps[p].readers = R] /\ s.wire = wire
      /\ s.page = [page EXCEPT ![r].status = "timeout"]
      /\ s = [h |-> s.h, page |-> s.page, wire |-> s.wire]
  BY DEF Leave
<1> HIDE DEF s
<1>2. R \in SUBSET Readers
  BY NowFacts
<1>3. p \in Alive(hub) /\ hub.comps[p].key = page[r].key /\ hub.byKey[page[r].key] = p
  BY NowFacts DEF Read, Keyed
<1>4. Regrouped(Now, s, p, R)
  <2> HIDE DEF R
  <2> QED
    BY <1>1, <1>2, NowFacts, RegroupedIs
<1>5. Keyed(s.h) /\ Sent(s.h) /\ Queued(s.h, p) /\ (R # {} => Queued(s.h, None))
  <2> HIDE DEF R
  <2> QED
    BY <1>3, <1>4, NowFacts, RegroupedGood
<1>6. /\ s.page \in [Readers -> [key : Keys \cup {None}, status : Statuses]]
      /\ s.page[r].status = "timeout" /\ \A o \in Readers : o # r => s.page[o] = page[o]
  <2>1. page[r] \in [key : Keys \cup {None}, status : Statuses]
    BY NowFacts
  <2>2. [page[r] EXCEPT !.status = "timeout"] \in [key : Keys \cup {None}, status : Statuses]
    BY <2>1 DEF Statuses
  <2> QED
    BY <1>1, <2>1, <2>2, NowFacts
<1>7. s \in State
  <2>1. s.h \in HubType
    BY <1>4 DEF Regrouped
  <2> QED
    BY <1>1, <1>6, <2>1, NowFacts DEF State
<1>8. /\ DOMAIN s.h.comps = DOMAIN hub.comps /\ Alive(s.h) = Alive(hub) /\ s.h.byKey = hub.byKey
      /\ s.h.comps[p].readers = R /\ s.h.comps[p].key = hub.comps[p].key /\ s.h.comps[p].msg = hub.comps[p].msg
      /\ \A q \in DOMAIN hub.comps : q # p => s.h.comps[q] = hub.comps[q]
  BY <1>4, NowFacts DEF Regrouped
<1>9. Read(s.h, s.page)
  <2>1. ASSUME NEW q \in DOMAIN s.h.comps, NEW o \in s.h.comps[q].readers
        PROVE  q \in Alive(s.h) /\ s.page[o].status = "waiting" /\ s.page[o].key = s.h.comps[q].key
    <3>1. q \in DOMAIN hub.comps /\ o \in hub.comps[q].readers /\ (q = p => o # r)
      BY <1>8, <2>1
    <3>2. q \in Alive(hub) /\ page[o].status = "waiting" /\ page[o].key = hub.comps[q].key
      BY <3>1, NowFacts DEF Read
    <3>3. o # r
      <4>1. q # p => hub.comps[q].key # page[r].key
        BY <1>3, <3>2, NowFacts DEF Keyed
      <4> QED
        BY <3>1, <3>2, <4>1
    <3>4. o \in Readers
      BY <3>1, NowFacts
    <3> QED
      BY <1>6, <1>8, <3>1, <3>2, <3>3, <3>4
  <2>2. ASSUME NEW o \in Readers, s.page[o].status = "waiting"
        PROVE  /\ s.page[o].key \in Keys /\ s.h.byKey[s.page[o].key] # None
               /\ o \in s.h.comps[s.h.byKey[s.page[o].key]].readers
    <3>1. o # r /\ s.page[o] = page[o]
      BY <1>6, <2>2
    <3>2. page[o].key \in Keys /\ hub.byKey[page[o].key] # None /\ o \in hub.comps[hub.byKey[page[o].key]].readers
      BY <2>2, <3>1, NowFacts DEF Read
    <3>3. hub.byKey[page[o].key] \in DOMAIN hub.comps
      BY <3>2, NowFacts DEF Keyed, Alive
    <3> QED
      BY <1>8, <3>1, <3>2, <3>3
  <2> QED
    BY <2>1, <2>2 DEF Read
<1>10. Good(s, p)
  BY <1>5, <1>7, <1>9 DEF Good
<1>11. ASSUME hub.comps[p].readers # {r} \/ hub.comps[p].msg # 0
       PROVE  Good(s, None)
  <2>1. CASE hub.comps[p].readers # {r}
    <3>1. R # {}
      BY <2>1
    <3> HIDE DEF R
    <3> QED
      BY <1>5, <1>7, <1>9, <3>1 DEF Good
  <2>2. CASE hub.comps[p].msg # 0
    <3>1. \A i \in DOMAIN s.h.queue : s.h.queue[i] # p
      BY <1>5, <1>8, <2>2 DEF Queued
    <3>2. Queued(s.h, None)
      BY <1>5, <1>8, <2>2, <3>1 DEF Queued
    <3> QED
      BY <1>5, <1>7, <1>9, <3>2 DEF Good
  <2> QED
    BY <1>11, <2>1, <2>2
<1> QED
  BY <1>1, <1>3, <1>4, <1>10, <1>11 DEF s
\* A deadline: the page gives up, and a computation that was queued for it alone goes with it.
LEMMA DeadlineKept ==
    ASSUME HubAssumption, HubInv, NEW r \in Readers, Deadline(r)
    PROVE  /\ Kept
           /\ page' = [page EXCEPT ![r].status = "timeout"]
           /\ \/ hub'.byKey = hub.byKey
              \/ /\ hub'.byKey = [hub.byKey EXCEPT ![page[r].key] = None]
                 /\ page[r].key \in Keys /\ hub.byKey[page[r].key] # None
                 /\ hub.comps[hub.byKey[page[r].key]].readers = {r}
<1>1. page[r].status = "waiting" /\ UNCHANGED <<link, running, answers, published>>
  BY DEF Deadline
<1>2. PICK p \in DOMAIN hub.comps :
         /\ r \in hub.comps[p].readers
         /\ LET s == Leave(r, p)
            IN  Becomes(IF s.h.comps[p].readers = {} /\ s.h.comps[p].msg = 0 THEN Settle(s, p, "timeout") ELSE s)
  BY DEF Deadline
<1> DEFINE s == Leave(r, p)
<1>3. /\ Good(s, p) /\ Regrouped(Now, s, p, hub.comps[p].readers \ {r})
      /\ s.page = [page EXCEPT ![r].status = "timeout"]
      /\ p \in Alive(hub) /\ hub.comps[p].key = page[r].key /\ hub.byKey[page[r].key] = p
      /\ (hub.comps[p].readers # {r} \/ hub.comps[p].msg # 0) => Good(s, None)
  BY <1>1, <1>2, LeavesGood
<1>4. Becomes(IF s.h.comps[p].readers = {} /\ s.h.comps[p].msg = 0 THEN Settle(s, p, "timeout") ELSE s)
  BY <1>2
<1> HIDE DEF s
<1>5. /\ s.h.comps[p].readers = hub.comps[p].readers \ {r} /\ s.h.comps[p].msg = hub.comps[p].msg
      /\ s.h.comps[p].key = hub.comps[p].key /\ s.h.byKey = hub.byKey /\ Alive(s.h) = Alive(hub)
  BY <1>3, NowFacts DEF Regrouped
<1>6. s \in State /\ Sent(s.h)
  BY <1>3 DEF Good
<1>7. ASSUME Flight(Now, link, running, answers, published)
      PROVE  Flight(s, link, running, answers, published)
  <2>1. /\ s.wire = Now.wire /\ s.h.byMsg = Now.h.byMsg
        /\ \A q \in DOMAIN Now.h.comps : /\ s.h.comps[q].link = Now.h.comps[q].link
                                          /\ s.h.comps[q].key = Now.h.comps[q].key
    BY <1>3 DEF Regrouped
  <2>2. Sent(Now.h)
    BY NowFacts
  <2> QED
    BY <1>7, <2>1, <2>2, FlightSame
<1>8. CASE s.h.comps[p].readers = {} /\ s.h.comps[p].msg = 0
  <2> DEFINE t == End(s, p, "timeout")
  <2>1. t = Settle(s, p, "timeout")
    BY <1>8 DEF End, Release
  <2>2. "timeout" \in Statuses /\ "timeout" # "waiting"
    BY DEF Statuses
  <2>3. Ended(s, t, p, "timeout")
    BY <1>3, <1>5, <2>2, EndIs
  <2>4. Becomes(t)
    BY <1>4, <1>8, <2>1
  <2> HIDE DEF t
  <2>5. t \in State /\ Good(t, None)
    BY <1>3, <1>5, <2>2, <2>3, EndGood DEF Good
  <2>6. Now' = t
    BY <2>4, <2>5, BecomesIs
  <2>7. t.page = s.page
    <3>1. t.page = [o \in Readers |-> IF o \in s.h.comps[p].readers THEN [s.page[o] EXCEPT !.status = "timeout"] ELSE s.page[o]]
      BY <2>3 DEF Ended
    <3>2. t.page = [o \in Readers |-> s.page[o]]
      BY <1>8, <3>1
    <3>3. s.page \in [Readers -> [key : Keys \cup {None}, status : Statuses]]
      BY <1>6, Fields
    <3> QED
      BY <3>2, <3>3
  <2>8. ASSUME Flight(Now, link, running, answers, published)
        PROVE  Flight(Now', link', running', answers', published')
    <3>1. Flight(s, link, running, answers, published)
      BY <1>7, <2>8
    <3>2. \A l \in Links : link[l] \in Up => s.h.comps[p].msg \notin OnTheWay(s.wire[l], running[l], answers[l])
      <4> SUFFICES ASSUME NEW l \in Links, link[l] \in Up
                   PROVE  s.h.comps[p].msg \notin OnTheWay(s.wire[l], running[l], answers[l])
        OBVIOUS
      <4>1. Travels(l, s.h, s.wire[l], running[l], answers[l], published)
        BY <3>1 DEF Flight
      <4>2. OnTheWay(s.wire[l], running[l], answers[l]) \subseteq Msgs(s.h, l)
        BY <4>1, TravelsOut
      <4>3. 0 \notin Msgs(s.h, l)
        BY DEF Msgs
      <4> QED
        BY <1>8, <4>2, <4>3
    <3>3. Flight(t, link, running, answers, published)
      BY <1>3, <1>5, <2>2, <2>3, <3>1, <3>2, FlightEnd
    <3> QED
      BY <1>1, <2>6, <3>3
  <2>9. Kept
    BY <2>5, <2>6, <2>8 DEF Kept
  <2>10. hub'.byKey = [hub.byKey EXCEPT ![page[r].key] = None]
    <3>1. t.h.byKey = [s.h.byKey EXCEPT ![s.h.comps[p].key] = None]
      BY <2>3 DEF Ended
    <3> QED
      BY <1>3, <1>5, <2>6, <3>1, NowFacts
  <2>11. page[r].key \in Keys /\ hub.byKey[page[r].key] # None /\ hub.comps[hub.byKey[page[r].key]].readers = {r}
    <3>1. hub.comps[p].key \in Keys
      BY NowFacts DEF Comp
    <3>2. p # None
      BY NowFacts
    <3>3. hub.comps[p].readers = {r}
      BY <1>2, <1>5, <1>8
    <3> QED
      BY <1>3, <3>1, <3>2, <3>3
  <2> QED
    BY <1>3, <2>6, <2>7, <2>9, <2>10, <2>11, NowFacts
<1>9. CASE ~(s.h.comps[p].readers = {} /\ s.h.comps[p].msg = 0)
  <2>1. Now' = s
    BY <1>4, <1>6, <1>9, BecomesIs
  <2>2. Good(s, None)
    BY <1>3, <1>5, <1>9
  <2>3. Kept
    BY <1>1, <1>7, <2>1, <2>2 DEF Kept
  <2> QED
    BY <1>3, <1>5, <2>1, <2>3, NowFacts
<1> QED
  BY <1>8, <1>9

\* Other failures remembered.
LEMMA FailedFollows ==
    ASSUME HubAssumption, HubInv, NEW F \in SUBSET Keys, NEW links, NEW back
    PROVE  LET t == [Now EXCEPT !.h.failed = F]
           IN  /\ Follows(Now, t, links, back) /\ t.wire = wire
               /\ t.h.byKey = hub.byKey /\ t.h.byMsg = hub.byMsg /\ t.h.comps = hub.comps
<1> DEFINE t == [Now EXCEPT !.h.failed = F]
<1>1. t = [h |-> [hub EXCEPT !.failed = F], page |-> page, wire |-> wire]
  <2>1. [hub EXCEPT !.failed = F] = [Now.h EXCEPT !.failed = F]
    BY NowFacts
  <2>2. t = [Now EXCEPT !.h = [Now.h EXCEPT !.failed = F]]
    OBVIOUS
  <2> DEFINE g == [hub EXCEPT !.failed = F]
  <2>3. t = [Now EXCEPT !.h = g]
    BY <2>1, <2>2
  <2> HIDE DEF g, t
  <2>4. t = [h |-> g, page |-> page, wire |-> wire]
    BY <2>3, NowFacts
  <2> QED
    BY <2>4 DEF g
<1> HIDE DEF t
<1>2. /\ t.h \in HubType /\ t.h.byKey = hub.byKey /\ t.h.byMsg = hub.byMsg /\ t.h.comps = hub.comps
      /\ t.h.busy = hub.busy /\ t.h.queue = hub.queue /\ t.h.seq = hub.seq
      /\ t.page = page /\ t.wire = wire
  BY <1>1, NowFacts DEF HubType
<1>3. t \in State
  BY <1>1, <1>2, NowFacts DEF State
<1>4. Alive(t.h) = Alive(hub) /\ \A l \in Links : Msgs(t.h, l) = Msgs(hub, l)
  BY <1>2 DEF Alive, Msgs
<1>5. Keyed(t.h) /\ Read(t.h, t.page) /\ Sent(t.h) /\ Queued(t.h, None)
  <2>1. Keyed(t.h)
    BY <1>2, <1>4, NowFacts DEF Keyed
  <2>2. Read(t.h, t.page)
    BY <1>2, <1>4, NowFacts DEF Read
  <2>3. Sent(t.h)
    BY <1>2, <1>4, NowFacts DEF Sent
  <2>4. Queued(t.h, None)
    BY <1>2, <1>4, NowFacts DEF Queued
  <2> QED
    BY <2>1, <2>2, <2>3, <2>4
<1>6. Good(t, None)
  BY <1>3, <1>5 DEF Good
<1>7. Answered(Now, t)
  BY <1>2, NowFacts, AnsweredNone
<1>8. Flight(Now, links, running, back, published) => Flight(t, links, running, back, published)
  <2>1. t.wire = Now.wire /\ t.h.byMsg = Now.h.byMsg /\ t.h.comps = Now.h.comps /\ Sent(Now.h)
    BY <1>2, NowFacts
  <2> QED
    BY <2>1, FlightSame
<1> QED
  BY <1>2, <1>6, <1>7, <1>8 DEF Follows, t

\* A failure is forgotten.
LEMMA ForgetKept ==
    ASSUME HubAssumption, HubInv, NEW k \in Keys, Forget(k)
    PROVE  Kept /\ hub'.byKey = hub.byKey
<1> DEFINE F == hub.failed \ {k}
           t == [Now EXCEPT !.h.failed = F]
<1>1. F \in SUBSET Keys
  BY NowFacts DEF HubType
<1>2. /\ hub' = [hub EXCEPT !.failed = F]
      /\ UNCHANGED <<page, link, wire, running, answers, published>>
  BY DEF Forget
<1> HIDE DEF F
<1>3. Now' = t
  BY <1>2, NowFacts
<1>4. Follows(Now, t, link, answers) /\ t.h.byKey = hub.byKey
  BY <1>1, FailedFollows
<1> HIDE DEF t
<1> QED
  BY <1>2, <1>3, <1>4, NowFacts DEF Follows, Kept
\* The state with one computation more, which waits to be sent or queued.
LEMMA MadeGood ==
    ASSUME HubAssumption, HubInv, NEW r \in Readers, NEW k \in Keys, page[r].status = "idle",
           hub.byKey[k] = None, Len(hub.comps) + 1 \in Pids
    PROVE  LET s == Made(r, k)
               p == Len(hub.comps) + 1
           IN  /\ Good(s, p) /\ s.wire = wire
               /\ s.page = [page EXCEPT ![r] = [key |-> k, status |-> "waiting"]]
               /\ s.h.byKey = [hub.byKey EXCEPT ![k] = p] /\ s.h.byMsg = hub.byMsg /\ s.h.busy = hub.busy
               /\ s.h.queue = hub.queue /\ s.h.seq = hub.seq
               /\ p \in Alive(s.h) /\ s.h.comps[p].msg = 0 /\ s.h.comps[p].readers = {r} /\ s.h.comps[p].key = k
               /\ \A i \in DOMAIN hub.queue : hub.queue[i] # p
               /\ \A q \in DOMAIN hub.comps : s.h.comps[q] = hub.comps[q]
<1> DEFINE s == Made(r, k)
           p == Len(hub.comps) + 1
           c == [key |-> k, readers |-> {r}, link |-> None, msg |-> 0, settled |-> FALSE]
           comps == Append(hub.comps, c)
           byKey == [hub.byKey EXCEPT ![k] = p]
           pages == [page EXCEPT ![r] = [key |-> k, status |-> "waiting"]]
<1>1. s = [h |-> [hub EXCEPT !.byKey = byKey, !.comps = comps], page |-> pages, wire |-> wire]
  BY NowFacts DEF Made, HubType
<1>2. c \in Comp /\ c.key = k /\ c.readers = {r} /\ c.msg = 0 /\ c.link = None /\ ~c.settled
  BY Constants DEF Comp
<1>3. hub.comps \in Seq(Comp) /\ Len(hub.comps) \in Nat /\ DOMAIN hub.comps = 1..Len(hub.comps)
      /\ hub.byKey \in [Keys -> Pids \cup {None}] /\ hub.byMsg \in [1..MaxSeq -> Pids \cup {None}]
      /\ hub.queue \in Seq(Pids) /\ DOMAIN hub.queue = 1..Len(hub.queue)
  BY NowFacts, Fields
<1>4. p \notin DOMAIN hub.comps /\ p # None /\ p \in Pids /\ p \in Nat
  BY <1>3 DEF None
<1> HIDE DEF c
<1>5. /\ comps \in Seq(Comp) /\ DOMAIN comps = DOMAIN hub.comps \cup {p} /\ comps[p] = c
      /\ \A q \in DOMAIN hub.comps : comps[q] = hub.comps[q]
  <2>1. comps \in Seq(Comp) /\ Len(comps) = p
    BY <1>2, <1>3, AppendProperties
  <2>2. \A q \in 1..Len(hub.comps) : comps[q] = hub.comps[q]
    BY <1>2, <1>3, AppendProperties
  <2>3. comps[p] = c
    BY <1>2, <1>3, AppendProperties
  <2>4. DOMAIN comps = 1..p
    BY <2>1, LenProperties
  <2> HIDE DEF comps
  <2> QED
    BY <1>3, <1>4, <2>1, <2>2, <2>3, <2>4
<1>6. byKey \in [Keys -> Pids \cup {None}] /\ byKey[k] = p /\ \A o \in Keys : o # k => byKey[o] = hub.byKey[o]
  BY <1>3, <1>4
<1>7. /\ pages \in [Readers -> [key : Keys \cup {None}, status : Statuses]]
      /\ pages[r] = [key |-> k, status |-> "waiting"] /\ \A o \in Readers : o # r => pages[o] = page[o]
  <2>1. "waiting" \in Statuses
    BY DEF Statuses
  <2> QED
    BY <2>1, PagesTyped, NowFacts
<1> HIDE DEF s, p, comps, byKey, pages
<1>8. /\ s.h \in HubType /\ s.h.byKey = byKey /\ s.h.comps = comps /\ s.h.byMsg = hub.byMsg
      /\ s.h.busy = hub.busy /\ s.h.queue = hub.queue /\ s.h.seq = hub.seq /\ s.page = pages /\ s.wire = wire
  BY <1>1, <1>5, <1>6, NowFacts DEF HubType
<1>9. s \in State
  BY <1>1, <1>7, <1>8, NowFacts DEF State
<1>10. Alive(s.h) = Alive(hub) \cup {p} /\ Alive(hub) \subseteq DOMAIN hub.comps
  BY <1>2, <1>4, <1>5, <1>8 DEF Alive
<1>11. \A m \in 1..MaxSeq : hub.byMsg[m] # None => hub.byMsg[m] \in DOMAIN hub.comps
  BY <1>10, NowFacts DEF Sent
<1>12. \A l \in Links : Msgs(s.h, l) = Msgs(hub, l)
  BY <1>5, <1>8, <1>11 DEF Msgs
<1>13. Keyed(s.h)
  <2>1. ASSUME NEW o \in Keys, s.h.byKey[o] # None
        PROVE  s.h.byKey[o] \in Alive(s.h) /\ s.h.comps[s.h.byKey[o]].key = o
    <3>1. CASE o = k
      BY <1>2, <1>5, <1>6, <1>8, <1>10, <3>1
    <3>2. CASE o # k
      <4>1. hub.byKey[o] \in Alive(hub) /\ hub.comps[hub.byKey[o]].key = o /\ s.h.byKey[o] = hub.byKey[o]
        BY <1>6, <1>8, <2>1, <3>2, NowFacts DEF Keyed
      <4> QED
        BY <1>5, <1>8, <1>10, <4>1
    <3> QED
      BY <3>1, <3>2
  <2>2. ASSUME NEW q \in Alive(s.h) PROVE s.h.byKey[s.h.comps[q].key] = q
    <3>1. CASE q = p
      BY <1>2, <1>5, <1>6, <1>8, <3>1
    <3>2. CASE q # p
      <4>1. q \in Alive(hub) /\ q \in DOMAIN hub.comps /\ s.h.comps[q] = hub.comps[q]
        BY <1>5, <1>8, <1>10, <2>2, <3>2
      <4>2. hub.byKey[hub.comps[q].key] = q /\ hub.comps[q].key \in Keys /\ q # None
        BY <4>1, NowFacts DEF Keyed, Comp
      <4>3. hub.comps[q].key # k
        BY <4>2
      <4> QED
        BY <1>6, <1>8, <4>1, <4>2, <4>3
    <3> QED
      BY <3>1, <3>2
  <2> QED
    BY <2>1, <2>2 DEF Keyed
<1>14. Read(s.h, s.page)
  <2>1. \A q \in DOMAIN hub.comps : r \notin hub.comps[q].readers
    BY IdleReadsNone
  <2>2. ASSUME NEW q \in DOMAIN s.h.comps, NEW o \in s.h.comps[q].readers
        PROVE  q \in Alive(s.h) /\ s.page[o].status = "waiting" /\ s.page[o].key = s.h.comps[q].key
    <3>1. CASE q = p
      BY <1>2, <1>5, <1>7, <1>8, <1>10, <2>2, <3>1
    <3>2. CASE q # p
      <4>1. q \in DOMAIN hub.comps /\ s.h.comps[q] = hub.comps[q]
        BY <1>5, <1>8, <2>2, <3>2
      <4>2. o # r /\ o \in Readers
        BY <2>1, <2>2, <4>1, NowFacts
      <4>3. q \in Alive(hub) /\ page[o].status = "waiting" /\ page[o].key = hub.comps[q].key
        BY <2>2, <4>1, NowFacts DEF Read
      <4> QED
        BY <1>7, <1>8, <1>10, <4>1, <4>2, <4>3
    <3> QED
      BY <3>1, <3>2
  <2>3. ASSUME NEW o \in Readers, s.page[o].status = "waiting"
        PROVE  /\ s.page[o].key \in Keys /\ s.h.byKey[s.page[o].key] # None
               /\ o \in s.h.comps[s.h.byKey[s.page[o].key]].readers
    <3>1. CASE o = r
      BY <1>2, <1>4, <1>5, <1>6, <1>7, <1>8, <3>1
    <3>2. CASE o # r
      <4>1. s.page[o] = page[o]
        BY <1>7, <1>8, <3>2
      <4>2. /\ page[o].key \in Keys /\ hub.byKey[page[o].key] # None
            /\ o \in hub.comps[hub.byKey[page[o].key]].readers
        BY <2>3, <4>1, NowFacts DEF Read
      <4>3. hub.byKey[page[o].key] \in DOMAIN hub.comps /\ page[o].key # k
        BY <1>10, <4>2, NowFacts DEF Keyed
      <4> QED
        BY <1>5, <1>6, <1>8, <4>1, <4>2, <4>3
    <3> QED
      BY <3>1, <3>2
  <2> QED
    BY <2>2, <2>3 DEF Read
<1>15. Sent(s.h)
  <2>1. ASSUME NEW m \in 1..MaxSeq, s.h.byMsg[m] # None
        PROVE  /\ m <= s.h.seq /\ s.h.byMsg[m] \in Alive(s.h)
               /\ s.h.comps[s.h.byMsg[m]].msg = m /\ s.h.comps[s.h.byMsg[m]].link \in Links
    BY <1>5, <1>8, <1>10, <1>11, <2>1, NowFacts DEF Sent
  <2>2. ASSUME NEW q \in Alive(s.h), s.h.comps[q].msg # 0 PROVE s.h.byMsg[s.h.comps[q].msg] = q
    <3>1. q # p
      BY <1>2, <1>5, <1>8, <2>2
    <3> QED
      BY <1>5, <1>8, <1>10, <2>2, <3>1, NowFacts DEF Sent
  <2>3. \A l \in Links : s.h.busy[l] = Cardinality(Msgs(s.h, l)) /\ s.h.busy[l] <= Slots[l]
    BY <1>8, <1>12, NowFacts DEF Sent
  <2> QED
    BY <2>1, <2>2, <2>3 DEF Sent
<1>16. Queued(s.h, p) /\ \A i \in DOMAIN hub.queue : hub.queue[i] # p
  <2>1. \A i \in DOMAIN hub.queue : hub.queue[i] \in Alive(hub) /\ hub.comps[hub.queue[i]].msg = 0
                                    /\ hub.comps[hub.queue[i]].readers # {} /\ hub.queue[i] # p
    <3>1. \A i \in DOMAIN hub.queue : hub.queue[i] \in Alive(hub) /\ hub.comps[hub.queue[i]].msg = 0
                                      /\ (hub.queue[i] # None => hub.comps[hub.queue[i]].readers # {})
      BY NowFacts DEF Queued
    <3>2. None \notin DOMAIN hub.comps
      BY NowFacts
    <3> QED
      BY <1>4, <1>10, <3>1, <3>2
  <2>2. \A q \in Alive(hub) : hub.comps[q].msg = 0 => \E i \in DOMAIN hub.queue : hub.queue[i] = q
    <3>1. None \notin Alive(hub)
      BY <1>10, NowFacts
    <3> QED
      BY <3>1, NowFacts DEF Queued
  <2>3. \A i \in DOMAIN s.h.queue : /\ s.h.queue[i] \in Alive(s.h) /\ s.h.comps[s.h.queue[i]].msg = 0
                                    /\ s.h.queue[i] # p => s.h.comps[s.h.queue[i]].readers # {}
    BY <1>5, <1>8, <1>10, <2>1
  <2>4. \A q \in Alive(s.h) \ {p} : s.h.comps[q].msg = 0 => \E i \in DOMAIN s.h.queue : s.h.queue[i] = q
    BY <1>5, <1>8, <1>10, <2>2
  <2>5. /\ \A i, j \in DOMAIN s.h.queue : s.h.queue[i] = s.h.queue[j] => i = j
        /\ Len(s.h.queue) <= MaxQueued /\ s.h.seq + Len(s.h.queue) <= MaxSeq
    BY <1>8, NowFacts DEF Queued
  <2> QED
    BY <2>1, <2>3, <2>4, <2>5 DEF Queued
<1>17. Good(s, p)
  BY <1>9, <1>13, <1>14, <1>15, <1>16 DEF Good
<1>18. p \in Alive(s.h) /\ s.h.comps[p].msg = 0 /\ s.h.comps[p].readers = {r} /\ s.h.comps[p].key = k
  BY <1>2, <1>5, <1>8, <1>10
<1> QED
  BY <1>5, <1>8, <1>16, <1>17, <1>18 DEF s, p, byKey, pages
\* A computation starts, at a daemon or in the queue.
LEMMA StartKept ==
    ASSUME HubAssumption, HubInv, NEW r \in Readers, NEW k \in Keys, page[r].status = "idle", Start(r, k),
           UNCHANGED <<link, running, answers, published>>
    PROVE  /\ Kept
           /\ page' = [page EXCEPT ![r] = [key |-> k, status |-> "waiting"]]
           /\ hub'.byKey = [hub.byKey EXCEPT ![k] = Len(hub.comps) + 1] /\ Len(hub.comps) + 1 # None
<1> DEFINE s == Made(r, k)
           p == Len(hub.comps) + 1
           able == Able(VersionOf[k])
           l == Best(hub, able)
           q == [s EXCEPT !.h.queue = Append(@, p)]
<1>1. /\ hub.byKey[k] = None /\ hub.seq + Len(hub.queue) < MaxSeq /\ p \in Pids
      /\ \/ Free(hub, able) # {} /\ Becomes(Dispatch(s, p, l))
         \/ Len(hub.queue) < MaxQueued /\ Becomes(q)
  BY DEF Start, Begin
<1>2. /\ Good(s, p) /\ s.wire = wire
      /\ s.page = [page EXCEPT ![r] = [key |-> k, status |-> "waiting"]]
      /\ s.h.byKey = [hub.byKey EXCEPT ![k] = p] /\ s.h.byMsg = hub.byMsg /\ s.h.busy = hub.busy
      /\ s.h.queue = hub.queue /\ s.h.seq = hub.seq
      /\ p \in Alive(s.h) /\ s.h.comps[p].msg = 0 /\ s.h.comps[p].readers = {r} /\ s.h.comps[p].key = k
      /\ \A i \in DOMAIN hub.queue : hub.queue[i] # p
      /\ \A o \in DOMAIN hub.comps : s.h.comps[o] = hub.comps[o]
  <2>1. hub.byKey[k] = None /\ Len(hub.comps) + 1 \in Pids
    BY <1>1
  <2> HIDE DEF able, l, q
  <2> QED
    BY ONLY <2>1, HubAssumption, HubInv, r \in Readers, k \in Keys, page[r].status = "idle", MadeGood
<1>3. able \in SUBSET Links /\ \A n \in able : link[n] # "unused"
  BY DEF Able
<1>4. p # None /\ hub.queue \in Seq(Pids) /\ hub.seq \in Nat /\ Len(hub.queue) \in Nat /\ hub.seq < MaxSeq
  <2>1. hub.queue \in Seq(Pids) /\ hub.seq \in Nat /\ Len(hub.queue) \in Nat
    BY Constants, NowFacts, Fields
  <2>2. hub.seq < MaxSeq
    BY <1>1, <2>1, Constants
  <2> QED
    BY <1>1, <2>1, <2>2, Constants
<1> HIDE DEF s, p, able
<1>5. s \in State /\ p \in DOMAIN s.h.comps /\ Sent(s.h)
  BY <1>2 DEF Good, Alive
<1>6. ASSUME Flight(Now, link, running, answers, published)
      PROVE  Flight(s, link, running, answers, published)
  <2>1. /\ s.wire = Now.wire /\ s.h.byMsg = Now.h.byMsg /\ Sent(Now.h)
        /\ \A o \in DOMAIN Now.h.comps : /\ s.h.comps[o].link = Now.h.comps[o].link
                                         /\ s.h.comps[o].key = Now.h.comps[o].key
    BY <1>2, NowFacts
  <2> QED
    BY <1>6, <2>1, FlightSame
<1>7. CASE Free(hub, able) # {} /\ Becomes(Dispatch(s, p, l))
  <2> DEFINE t == Dispatch(s, p, l)
  <2>1. l \in Free(hub, able)
    BY <1>3, <1>7, NowFacts, BestIs
  <2>2. l \in Links /\ hub.busy[l] < Slots[l] /\ link[l] # "unused"
    BY <1>3, <2>1 DEF Free
  <2> HIDE DEF l
  <2>3. Dispatched(s, t, p, l)
    BY <1>1, <1>2, <1>4, <1>5, <2>2, DispatchIs
  <2> HIDE DEF t
  <2>4. MayGo(s, p, l)
    BY <1>1, <1>2, <2>2 DEF MayGo
  <2>5. Good(t, None)
    BY <1>2, <2>3, <2>4, DispatchGood
  <2>6. Now' = t
    <3>1. t \in State
      BY <2>3 DEF Dispatched
    <3> QED
      BY <1>7, <3>1, BecomesIs DEF t
  <2>7. Flight(Now, link, running, answers, published) => Flight(t, link, running, answers, published)
    BY <1>2, <1>6, <2>2, <2>3, <2>4, FlightDispatch
  <2>8. Kept
    BY <2>5, <2>6, <2>7 DEF Kept
  <2>9. t.page = s.page /\ t.h.byKey = s.h.byKey
    BY <2>3 DEF Dispatched
  <2> QED
    BY <1>2, <1>4, <2>6, <2>8, <2>9, NowFacts DEF p
<1>8. CASE Len(hub.queue) < MaxQueued /\ Becomes(q)
  <2> DEFINE queue == Append(hub.queue, p)
  <2>1. queue \in Seq(Pids) /\ Len(queue) = Len(hub.queue) + 1
    BY <1>1, <1>4, AppendProperties
  <2>2. /\ DOMAIN queue = 1..(Len(hub.queue) + 1) /\ DOMAIN hub.queue = 1..Len(hub.queue)
        /\ queue[Len(hub.queue) + 1] = p /\ \A i \in 1..Len(hub.queue) : queue[i] = hub.queue[i]
    BY <1>1, <1>4, <2>1, AppendProperties, LenProperties
  <2>3. q = [s EXCEPT !.h.queue = queue]
    BY <1>2
  <2> HIDE DEF queue, q
  <2>4. /\ q.h = [s.h EXCEPT !.queue = queue] /\ q.page = s.page /\ q.wire = s.wire
        /\ q = [h |-> q.h, page |-> q.page, wire |-> q.wire]
    BY <1>5, <2>3 DEF State
  <2>5. /\ q.h \in HubType /\ q.h.queue = queue /\ q.h.comps = s.h.comps /\ q.h.byKey = s.h.byKey
        /\ q.h.byMsg = s.h.byMsg /\ q.h.busy = s.h.busy /\ q.h.seq = s.h.seq
    <3>1. s.h \in HubType
      BY <1>5, Fields
    <3> QED
      BY <2>1, <2>4, <3>1 DEF HubType
  <2>6. q \in State
    BY <1>5, <2>4, <2>5 DEF State
  <2>7. Alive(q.h) = Alive(s.h) /\ \A n \in Links : Msgs(q.h, n) = Msgs(s.h, n)
    BY <2>5 DEF Alive, Msgs
  <2>8. Keyed(q.h) /\ Read(q.h, q.page) /\ Sent(q.h)
    <3>1. Keyed(s.h) /\ Read(s.h, s.page)
      BY <1>2 DEF Good
    <3>2. Keyed(q.h)
      BY <2>5, <2>7, <3>1 DEF Keyed
    <3>3. Read(q.h, q.page)
      <4> DEFINE h == s.h
                 g == q.h
                 pages == s.page
      <4>1. /\ g.comps = h.comps /\ g.byKey = h.byKey /\ Alive(g) = Alive(h) /\ Read(h, pages) /\ q.page = pages
        BY <2>4, <2>5, <2>7, <3>1
      <4> HIDE DEF h, g, pages
      <4>2. Read(g, pages)
        BY <4>1 DEF Read
      <4> QED
        BY <4>1, <4>2 DEF g
    <3>4. Sent(q.h)
      BY <1>5, <2>5, <2>7 DEF Sent
    <3> QED
      BY <3>2, <3>3, <3>4
  <2>9. Queued(q.h, None)
    <3>1. Queued(s.h, p)
      BY <1>2 DEF Good
    <3>2. \A i \in 1..Len(hub.queue) : /\ hub.queue[i] \in Alive(s.h) /\ s.h.comps[hub.queue[i]].msg = 0
                                       /\ s.h.comps[hub.queue[i]].readers # {} /\ hub.queue[i] # p
      BY <1>2, <2>2, <3>1 DEF Queued
    <3>3. \A i \in DOMAIN q.h.queue : /\ q.h.queue[i] \in Alive(q.h) /\ q.h.comps[q.h.queue[i]].msg = 0
                                      /\ q.h.queue[i] # None => q.h.comps[q.h.queue[i]].readers # {}
      <4> SUFFICES ASSUME NEW i \in DOMAIN queue
                   PROVE  queue[i] \in Alive(s.h) /\ s.h.comps[queue[i]].msg = 0 /\ s.h.comps[queue[i]].readers # {}
        BY <2>5, <2>7
      <4>1. CASE i = Len(hub.queue) + 1
        BY <1>2, <2>2, <4>1
      <4>2. CASE i # Len(hub.queue) + 1
        <5>1. i \in 1..Len(hub.queue)
          BY <1>4, <2>2, <4>2
        <5> QED
          BY <2>2, <3>2, <5>1
      <4> QED
        BY <4>1, <4>2
    <3>4. \A i, j \in DOMAIN q.h.queue : q.h.queue[i] = q.h.queue[j] => i = j
      <4>1. \A i, j \in 1..Len(hub.queue) : hub.queue[i] = hub.queue[j] => i = j
        BY <1>2, <2>2, <3>1 DEF Queued
      <4>2. ASSUME NEW i \in DOMAIN queue, NEW j \in DOMAIN queue, queue[i] = queue[j] PROVE i = j
        <5>1. i = Len(hub.queue) + 1 \/ i \in 1..Len(hub.queue)
          BY <1>4, <2>2
        <5>2. j = Len(hub.queue) + 1 \/ j \in 1..Len(hub.queue)
          BY <1>4, <2>2
        <5>3. i \in 1..Len(hub.queue) => queue[i] # p
          BY <2>2, <3>2
        <5>4. j \in 1..Len(hub.queue) => queue[j] # p
          BY <2>2, <3>2
        <5> QED
          BY <2>2, <4>1, <4>2, <5>1, <5>2, <5>3, <5>4
      <4> QED
        BY <2>5, <4>2
    <3>5. \A o \in Alive(q.h) \ {None} : q.h.comps[o].msg = 0 => \E i \in DOMAIN q.h.queue : q.h.queue[i] = o
      <4> SUFFICES ASSUME NEW o \in Alive(s.h), s.h.comps[o].msg = 0 PROVE \E i \in DOMAIN queue : queue[i] = o
        BY <2>5, <2>7
      <4>1. CASE o = p
        <5>1. Len(hub.queue) + 1 \in DOMAIN queue
          BY <1>4, <2>2
        <5> QED
          BY <2>2, <4>1, <5>1
      <4>2. CASE o # p
        <5>1. PICK i \in DOMAIN hub.queue : hub.queue[i] = o
          BY <1>2, <3>1, <4>2 DEF Queued
        <5>2. i \in DOMAIN queue
          BY <1>4, <2>2, <5>1
        <5> QED
          BY <2>2, <5>1, <5>2
      <4> QED
        BY <4>1, <4>2
    <3>6. Len(q.h.queue) <= MaxQueued /\ q.h.seq + Len(q.h.queue) <= MaxSeq
      <4>1. Len(queue) <= MaxQueued /\ hub.seq + Len(queue) <= MaxSeq
        BY <1>1, <1>4, <1>8, <2>1, Constants
      <4> QED
        BY <1>2, <2>5, <4>1
    <3> QED
      BY <3>3, <3>4, <3>5, <3>6 DEF Queued
  <2>10. Good(q, None)
    BY <2>6, <2>8, <2>9 DEF Good
  <2>11. Now' = q
    BY <1>8, <2>6, BecomesIs
  <2>12. Flight(Now, link, running, answers, published) => Flight(q, link, running, answers, published)
    <3>1. q.wire = s.wire /\ q.h.byMsg = s.h.byMsg /\ q.h.comps = s.h.comps
      BY <2>4, <2>5
    <3> QED
      BY <1>5, <1>6, <3>1, FlightSame
  <2>13. Kept
    BY <2>10, <2>11, <2>12 DEF Kept
  <2> QED
    BY <1>2, <1>4, <2>4, <2>5, <2>11, <2>13, NowFacts DEF p
<1> QED
  BY <1>1, <1>7, <1>8
-----------------------------------------------------------------------------
(* What the hub hears of its daemons. *)

\* A result that was read is not on its way any more, nor is its message anywhere else.
LEMMA ReadResult ==
    ASSUME HubAssumption, NEW s \in State, NEW l \in Links, link[l] \in Up, answers \in [Links -> Seq(Result)],
           answers[l] # << >>, Flight(s, link, running, answers, published)
    PROVE  LET back == [answers EXCEPT ![l] = Tail(answers[l])]
               m == Head(answers[l])
           IN  /\ Flight(s, link, running, back, published)
               /\ m.msg \in Msgs(s.h, l) /\ (m.ok => KeyOf(s.h, m.msg) \in published)
               /\ m.msg \notin OnTheWay(s.wire[l], running[l], back[l])
<1> DEFINE old == answers[l]
           back == [answers EXCEPT ![l] = Tail(old)]
           m == Head(old)
<1>1. old \in Seq(Result) /\ old # << >> /\ Len(old) \in Nat /\ DOMAIN old = 1..Len(old) /\ Len(old) >= 1
  <2>1. old \in Seq(Result)
    OBVIOUS
  <2> HIDE DEF old
  <2> QED
    BY <2>1, LenProperties, EmptySeq DEF old
<1>2. back[l] = Tail(old) /\ \A n \in Links : n # l => back[n] = answers[n]
  OBVIOUS
<1> HIDE DEF old, back
<1>3. /\ m = old[1] /\ DOMAIN Tail(old) = 1..(Len(old) - 1)
      /\ \A i \in DOMAIN Tail(old) : Tail(old)[i] = old[i + 1] /\ i + 1 \in DOMAIN old /\ i + 1 # 1
      /\ 1 \in DOMAIN old
  <2>1. Tail(old) \in Seq(Result) /\ Len(Tail(old)) = Len(old) - 1
        /\ \A i \in 1..(Len(old) - 1) : Tail(old)[i] = old[i + 1]
    BY <1>1, HeadTailProperties
  <2>2. DOMAIN Tail(old) = 1..(Len(old) - 1)
    BY <2>1, LenProperties
  <2>3. Head(old) = old[1]
    BY <1>1, HeadTailProperties
  <2> QED
    BY <1>1, <2>1, <2>2, <2>3
<1> HIDE DEF m
<1>4. Travels(l, s.h, s.wire[l], running[l], old, published)
  BY DEF Flight, old
<1>5. /\ m.msg \in Msgs(s.h, l) /\ (m.ok => KeyOf(s.h, m.msg) \in published)
      /\ m.msg \notin OnTheWay(s.wire[l], running[l], back[l])
  <2>1. m.msg \in Msgs(s.h, l) /\ (m.ok => KeyOf(s.h, m.msg) \in published)
    BY <1>3, <1>4 DEF Travels
  <2>2. \A i \in DOMAIN s.wire[l] : s.wire[l][i].msg # m.msg
    BY <1>3, <1>4 DEF Travels
  <2>3. \A c \in running[l] : c.msg # m.msg
    BY <1>3, <1>4 DEF Travels
  <2>4. \A i \in DOMAIN back[l] : back[l][i].msg # m.msg
    BY <1>2, <1>3, <1>4 DEF Travels
  <2> QED
    BY <2>1, <2>2, <2>3, <2>4 DEF OnTheWay
<1>6. Travels(l, s.h, s.wire[l], running[l], back[l], published)
  <2>1. \A i \in DOMAIN back[l] : /\ back[l][i].msg \in Msgs(s.h, l)
                                  /\ (back[l][i].ok => KeyOf(s.h, back[l][i].msg) \in published)
    BY <1>2, <1>3, <1>4 DEF Travels
  <2>2. \A i, j \in DOMAIN back[l] : back[l][i].msg = back[l][j].msg => i = j
    <3> SUFFICES ASSUME NEW i \in DOMAIN back[l], NEW j \in DOMAIN back[l], back[l][i].msg = back[l][j].msg PROVE i = j
      OBVIOUS
    <3>1. i + 1 = j + 1
      BY <1>2, <1>3, <1>4 DEF Travels
    <3>2. i \in Int /\ j \in Int
      BY <1>1, <1>2, <1>3
    <3> QED
      BY <3>1, <3>2
  <2>3. /\ \A i \in DOMAIN back[l], c \in running[l] : back[l][i].msg # c.msg
        /\ \A i \in DOMAIN back[l], j \in DOMAIN s.wire[l] : back[l][i].msg # s.wire[l][j].msg
    BY <1>2, <1>3, <1>4 DEF Travels
  <2> QED
    BY <1>4, <2>1, <2>2, <2>3 DEF Travels
<1>7. Flight(s, link, running, back, published)
  <2>1. \A n \in Links : link[n] \in Up => Travels(n, s.h, s.wire[n], running[n], back[n], published)
    BY <1>2, <1>6 DEF Flight
  <2>2. \A n \in Links : link[n] = "unused" => s.wire[n] = << >> /\ running[n] = {} /\ back[n] = << >>
    <3>1. link[l] # "unused"
      BY DEF Up
    <3> QED
      BY <1>2, <3>1 DEF Flight
  <2> QED
    BY <2>1, <2>2 DEF Flight
<1> QED
  BY <1>5, <1>7 DEF m, old, back

\* The end of a computation a daemon answered for, and what drain() does with the slot. What was in
\* flight needs the answer to be the one there was.
LEMMA AnswerEnds ==
    ASSUME HubAssumption, NEW s, NEW p, Good(s, None), p \in Alive(s.h), NEW status \in Endings,
           NEW back, NEW l \in Links, s.h.comps[p].link = l
    PROVE  LET t == Drain(End(s, p, status))
           IN  /\ Good(t, None)
               /\ /\ Flight(s, link, running, back, published)
                  /\ s.h.comps[p].msg \in Msgs(s.h, l)
                  /\ s.h.comps[p].msg \notin OnTheWay(s.wire[l], running[l], back[l])
                  /\ status = "done" => s.h.comps[p].key \in published
                  => Follows(s, t, link, back)
<1> DEFINE e == End(s, p, status)
           t == Drain(e)
<1>1. status \in Statuses /\ status # "waiting"
  BY DEF Statuses, Endings
<1>2. Good(s, p) /\ s \in State
  BY GoodOdd DEF Good
<1>3. Ended(s, e, p, status)
  BY <1>1, <1>2, EndIs
<1>4. Reached(link)
  BY DEF Reached
<1> HIDE DEF e
<1>5. Good(e, None)
  BY <1>1, <1>2, <1>3, EndGood
<1>6. Follows(e, t, link, back)
  BY <1>4, <1>5, DrainFollows
<1>7. ASSUME /\ Flight(s, link, running, back, published)
             /\ s.h.comps[p].msg \in Msgs(s.h, l)
             /\ s.h.comps[p].msg \notin OnTheWay(s.wire[l], running[l], back[l])
             /\ status = "done" => s.h.comps[p].key \in published
      PROVE  Follows(s, t, link, back)
  <2>1. \A n \in Links : link[n] \in Up => s.h.comps[p].msg \notin OnTheWay(s.wire[n], running[n], back[n])
    <3> SUFFICES ASSUME NEW n \in Links, link[n] \in Up, n # l
                 PROVE  s.h.comps[p].msg \notin OnTheWay(s.wire[n], running[n], back[n])
      BY <1>7
    <3>1. Travels(n, s.h, s.wire[n], running[n], back[n], published)
      BY <1>7 DEF Flight
    <3>2. OnTheWay(s.wire[n], running[n], back[n]) \subseteq Msgs(s.h, n)
      BY <3>1, TravelsOut
    <3>3. s.h.comps[p].msg \notin Msgs(s.h, n)
      BY <1>7 DEF Msgs
    <3> QED
      BY <3>2, <3>3
  <2>2. Follows(s, e, link, back)
    BY <1>7, <2>1, FollowsEnd DEF e
  <2> QED
    BY <1>2, <1>6, <2>2, FollowsThen
<1>8. Good(t, None)
  BY <1>6 DEF Follows
<1> QED
  BY <1>7, <1>8 DEF e

\* A result arrives.
LEMMA OnMessageKept ==
    ASSUME HubAssumption, HubInv, NEW l \in Links, onMessage(l)
    PROVE  /\ Kept
           /\ Flight(Now, link, running, answers, published) => Answered(Now, Now')
<1> DEFINE back == [answers EXCEPT ![l] = Tail(answers[l])]
           m == Head(answers[l])
           p == hub.byMsg[m.msg]
           f == [Now EXCEPT !.h.failed = Now.h.failed \cup {hub.comps[p].key}]
<1>1. /\ link[l] \in Up /\ answers[l] # << >> /\ answers' = back
      /\ UNCHANGED <<link, running, published>>
  BY DEF onMessage, Up
<1>2. answers \in [Links -> Seq(Result)] /\ m.msg \in 1..MaxSeq
  <2>1. answers \in [Links -> Seq(Result)]
    BY DEF HubInv, Around
  <2>2. m \in Result
    BY <1>1, <2>1, HeadTailProperties
  <2> QED
    BY <2>1, <2>2 DEF Result
<1>3. ASSUME Flight(Now, link, running, answers, published)
      PROVE  /\ Flight(Now, link, running, back, published)
             /\ m.msg \in Msgs(hub, l) /\ (m.ok => KeyOf(hub, m.msg) \in published)
             /\ m.msg \notin OnTheWay(wire[l], running[l], back[l])
  BY <1>1, <1>2, <1>3, NowFacts, ReadResult
<1>4. \/ ~Has(l, p) /\ UNCHANGED <<hub, page, wire>>
      \/ Has(l, p) /\ m.ok /\ Becomes(Drain(End(Now, p, "done")))
      \/ Has(l, p) /\ Becomes(Drain(End(f, p, "failed")))
  BY DEF onMessage
<1>5. Has(l, p) => /\ p \in Alive(hub) /\ p \in DOMAIN hub.comps /\ hub.comps[p].link = l
                   /\ hub.comps[p].msg = m.msg /\ hub.comps[p].key = KeyOf(hub, m.msg)
                   /\ hub.comps[p].key \in Keys
  <2> SUFFICES ASSUME Has(l, p)
               PROVE  /\ p \in Alive(hub) /\ p \in DOMAIN hub.comps /\ hub.comps[p].link = l
                      /\ hub.comps[p].msg = m.msg /\ hub.comps[p].key = KeyOf(hub, m.msg)
                      /\ hub.comps[p].key \in Keys
    OBVIOUS
  <2>1. p # None /\ hub.comps[p].link = l
    BY DEF Has
  <2>2. p \in Alive(hub) /\ hub.comps[p].msg = m.msg
    BY <1>2, <2>1, NowFacts DEF Sent
  <2>3. p \in DOMAIN hub.comps
    BY <2>2 DEF Alive
  <2>4. hub.comps[p].key \in Keys
    BY <2>3, NowFacts DEF Comp
  <2> QED
    BY <2>1, <2>2, <2>3, <2>4 DEF KeyOf
<1> HIDE DEF back, m, p, f
<1>6. CASE ~Has(l, p) /\ UNCHANGED <<hub, page, wire>>
  <2>1. Now' = Now
    BY <1>6, NowFacts
  <2>2. Answered(Now, Now)
    BY NowFacts, AnsweredNone
  <2> QED
    BY <1>1, <1>3, <2>1, <2>2, NowFacts DEF Kept
<1>7. CASE Has(l, p) /\ m.ok /\ Becomes(Drain(End(Now, p, "done")))
  <2> DEFINE t == Drain(End(Now, p, "done"))
  <2>1. "done" \in Endings
    BY DEF Endings
  <2>2. /\ Good(t, None)
        /\ Flight(Now, link, running, answers, published) => Follows(Now, t, link, back)
    BY <1>3, <1>5, <1>7, <2>1, NowFacts, AnswerEnds
  <2> HIDE DEF t
  <2>3. Now' = t
    <3>1. t \in State
      BY <2>2 DEF Good
    <3> QED
      BY <1>7, <3>1, BecomesIs DEF t
  <2> QED
    BY <1>1, <1>3, <2>2, <2>3 DEF Kept, Follows
<1>8. CASE Has(l, p) /\ Becomes(Drain(End(f, p, "failed")))
  <2> DEFINE t == Drain(End(f, p, "failed"))
  <2>1. "failed" \in Endings /\ "failed" # "done"
    BY DEF Endings
  <2>2. Now.h.failed \cup {hub.comps[p].key} \in SUBSET Keys
    BY <1>5, <1>8, NowFacts, Fields
  <2>3. /\ Follows(Now, f, link, back) /\ f.wire = wire
        /\ f.h.byKey = hub.byKey /\ f.h.byMsg = hub.byMsg /\ f.h.comps = hub.comps
    BY <2>2, FailedFollows DEF f
  <2>4. Good(f, None)
    BY <2>3 DEF Follows
  <2>5. p \in Alive(f.h) /\ f.h.comps[p].link = l /\ f.h.comps[p].msg = m.msg /\ Msgs(f.h, l) = Msgs(hub, l)
    BY <1>5, <1>8, <2>3 DEF Alive, Msgs
  <2>6. /\ Good(t, None)
        /\ /\ Flight(f, link, running, back, published)
           /\ m.msg \in Msgs(hub, l)
           /\ m.msg \notin OnTheWay(wire[l], running[l], back[l])
           => Follows(f, t, link, back)
    BY <2>1, <2>3, <2>4, <2>5, AnswerEnds
  <2> HIDE DEF t
  <2>7. Flight(Now, link, running, answers, published) => Follows(Now, t, link, back)
    <3> SUFFICES ASSUME Flight(Now, link, running, answers, published) PROVE Follows(Now, t, link, back)
      OBVIOUS
    <3>1. Flight(f, link, running, back, published)
      BY <1>3, <2>3 DEF Follows
    <3>2. Follows(f, t, link, back)
      BY <1>3, <2>6, <3>1
    <3> QED
      BY <2>3, <3>2, NowFacts, FollowsThen
  <2>8. Now' = t
    <3>1. t \in State
      BY <2>6 DEF Good
    <3> QED
      BY <1>8, <3>1, BecomesIs DEF t
  <2> QED
    BY <1>1, <1>3, <2>6, <2>7, <2>8 DEF Kept, Follows
<1> QED
  BY <1>4, <1>6, <1>7, <1>8
\* A link's close.
LEMMA OnCloseKept ==
    ASSUME HubAssumption, HubInv, NEW l \in Links, onClose(l)
    PROVE  Kept /\ Answered(Now, Now')
<1> DEFINE s == [Lost(l) EXCEPT !.h.busy[l] = 0]
           t == Drain(s)
<1>1. /\ link[l] = "closing" /\ link' = [link EXCEPT ![l] = "gone"] /\ Becomes(t)
      /\ UNCHANGED <<running, answers, published>>
  BY DEF onClose
<1>2. link' \in [Links -> {"unused", "open", "dead", "closing", "gone"}] /\ link'[l] = "gone"
      /\ \A n \in Links : n # l => link'[n] = link[n]
  BY <1>1 DEF HubInv, Around
<1>3. link'[l] \notin Up /\ Reached(link')
  BY <1>2 DEF Up, Reached
<1> HIDE DEF s
<1>4. Follows(Now, s, link', answers)
  BY <1>3, NowFacts, LostFollows DEF s
<1>5. Follows(s, t, link', answers)
  <2>1. Good(s, None)
    BY <1>4 DEF Follows
  <2> QED
    BY <1>3, <2>1, DrainFollows
<1> HIDE DEF t
<1>6. Follows(Now, t, link', answers)
  BY <1>4, <1>5, NowFacts, FollowsThen
<1>7. Now' = t
  <2>1. t \in State
    BY <1>6 DEF Follows, Good
  <2> QED
    BY <1>1, <2>1, BecomesIs
<1>8. ASSUME Flight(Now, link, running, answers, published)
      PROVE  Flight(Now, link', running, answers, published)
  <2>1. \A n \in Links : link'[n] \in Up => Travels(n, Now.h, Now.wire[n], running[n], answers[n], published)
    BY <1>2, <1>3, <1>8 DEF Flight
  <2>2. \A n \in Links : link'[n] = "unused" => Now.wire[n] = << >> /\ running[n] = {} /\ answers[n] = << >>
    BY <1>2, <1>8 DEF Flight
  <2> QED
    BY <2>1, <2>2 DEF Flight
<1> QED
  BY <1>1, <1>6, <1>7, <1>8 DEF Kept, Follows

-----------------------------------------------------------------------------
(* The daemons, and what becomes of the hub when nobody needs it. *)

\* What is in flight is seen link by link.
LEMMA FlightOf ==
    ASSUME HubInv, NEW l \in Links, hub' = hub, Flight(Now, link, running, answers, published),
           published \subseteq published',
           \A n \in Links : n # l => /\ link'[n] = link[n] /\ wire'[n] = wire[n]
                                     /\ running'[n] = running[n] /\ answers'[n] = answers[n],
           link'[l] # "unused",
           link'[l] \in Up => Travels(l, hub, wire'[l], running'[l], answers'[l], published')
    PROVE  Flight(Now', link', running', answers', published')
<1>1. ASSUME NEW n \in Links, link'[n] \in Up
      PROVE  Travels(n, Now'.h, Now'.wire[n], running'[n], answers'[n], published')
  <2>1. CASE n = l
    BY <1>1, <2>1, NowFacts
  <2>2. CASE n # l
    <3>1. Travels(n, hub, wire[n], running[n], answers[n], published)
      BY <1>1, <2>2, NowFacts DEF Flight
    <3>2. \A m \in OnTheWay(wire[n], running[n], answers[n]) : m \in Msgs(hub, n) /\ KeyOf(hub, m) = KeyOf(hub, m)
      BY <3>1, TravelsOut
    <3>3. Travels(n, hub, wire[n], running[n], answers[n], published')
      BY <3>1, <3>2, TravelsKept
    <3> QED
      BY <2>2, <3>3, NowFacts
  <2> QED
    BY <2>1, <2>2
<1>2. ASSUME NEW n \in Links, link'[n] = "unused"
      PROVE  Now'.wire[n] = << >> /\ running'[n] = {} /\ answers'[n] = << >>
  BY <1>2, NowFacts DEF Flight
<1> QED
  BY <1>1, <1>2 DEF Flight

\* The hub's memory and the pages do not depend on the wire.
LEMMA WireGood ==
    ASSUME HubInv, hub' = hub, page' = page, wire' \in [Links -> Seq(Compute)]
    PROVE  Good(Now', None)
<1>1. Now' \in State
  BY NowFacts DEF State
<1> QED
  BY <1>1, NowFacts DEF Good

\* A daemon connects.
LEMMA ConnectKept ==
    ASSUME HubAssumption, HubInv, NEW l \in Links, Connect(l)
    PROVE  Kept /\ Around'
<1>1. /\ link[l] = "unused" /\ link' = [link EXCEPT ![l] = "open"]
      /\ UNCHANGED <<hub, page, wire, running, answers, published>>
  BY DEF Connect
<1>2. link' \in [Links -> {"unused", "open", "dead", "closing", "gone"}] /\ link'[l] = "open"
      /\ \A n \in Links : n # l => link'[n] = link[n]
  BY <1>1 DEF HubInv, Around
<1>3. Good(Now', None)
  BY <1>1, NowFacts, WireGood
<1>4. ASSUME Flight(Now, link, running, answers, published)
      PROVE  Flight(Now', link', running', answers', published')
  <2>1. wire[l] = << >> /\ running[l] = {} /\ answers[l] = << >>
    BY <1>1, <1>4, NowFacts DEF Flight
  <2>2. Travels(l, hub, << >>, {}, << >>, published)
    BY DEF Travels
  <2>3. Travels(l, hub, wire'[l], running'[l], answers'[l], published')
    BY <1>1, <2>1, <2>2
  <2> QED
    BY <1>1, <1>2, <1>4, <2>3, FlightOf
<1> QED
  BY <1>1, <1>2, <1>3, <1>4 DEF Kept, HubInv, Around

\* The hub notices that a link is gone.
LEMMA ClosingKept ==
    ASSUME HubAssumption, HubInv, NEW l \in Links, Closing(l)
    PROVE  Kept /\ Around'
<1>1. /\ link[l] = "dead" /\ link' = [link EXCEPT ![l] = "closing"]
      /\ UNCHANGED <<hub, page, wire, running, answers, published>>
  BY DEF Closing
<1>2. link' \in [Links -> {"unused", "open", "dead", "closing", "gone"}] /\ link'[l] = "closing"
      /\ \A n \in Links : n # l => link'[n] = link[n]
  BY <1>1 DEF HubInv, Around
<1>3. Good(Now', None)
  BY <1>1, NowFacts, WireGood
<1>4. ASSUME Flight(Now, link, running, answers, published)
      PROVE  Flight(Now', link', running', answers', published')
  <2>1. Travels(l, hub, wire[l], running[l], answers[l], published)
    BY <1>1, <1>4, NowFacts DEF Flight, Up
  <2> QED
    BY <1>1, <1>2, <1>4, <2>1, FlightOf
<1> QED
  BY <1>1, <1>2, <1>3, <1>4 DEF Kept, HubInv, Around

\* A daemon reads a message: it is out no longer, and computed.
LEMMA TakeKept ==
    ASSUME HubAssumption, HubInv, NEW l \in Links, Take(l)
    PROVE  Kept /\ Around'
<1> DEFINE out == wire[l]
           c == Head(out)
<1>1. /\ link[l] = "open" /\ out # << >>
      /\ wire' = [wire EXCEPT ![l] = Tail(out)] /\ running' = [running EXCEPT ![l] = running[l] \cup {c}]
      /\ UNCHANGED <<hub, page, link, answers, published>>
  BY DEF Take
<1>2. running \in [Links -> SUBSET Compute] /\ wire \in [Links -> Seq(Compute)]
  BY NowFacts DEF HubInv, Around
<1>3. out \in Seq(Compute)
  BY <1>2
<1> HIDE DEF out
<1>4. /\ Len(out) \in Nat /\ Len(out) >= 1 /\ DOMAIN out = 1..Len(out) /\ c \in Compute /\ c = out[1]
      /\ Tail(out) \in Seq(Compute) /\ DOMAIN Tail(out) = 1..(Len(out) - 1)
      /\ \A i \in 1..(Len(out) - 1) : Tail(out)[i] = out[i + 1]
  <2>1. Tail(out) \in Seq(Compute) /\ Len(Tail(out)) = Len(out) - 1 /\ c = out[1] /\ c \in Compute
        /\ \A i \in 1..(Len(out) - 1) : Tail(out)[i] = out[i + 1]
    BY <1>1, <1>3, HeadTailProperties
  <2>2. Len(out) \in Nat /\ Len(out) >= 1 /\ DOMAIN out = 1..Len(out)
    BY <1>1, <1>3, LenProperties, EmptySeq
  <2>3. DOMAIN Tail(out) = 1..(Len(out) - 1)
    BY <2>1, LenProperties
  <2> QED
    BY <2>1, <2>2, <2>3
<1>5. \A i \in DOMAIN Tail(out) : Tail(out)[i] = out[i + 1] /\ i + 1 \in DOMAIN out /\ i + 1 # 1 /\ i \in Int
  BY <1>4
<1> HIDE DEF c
<1>6. wire' \in [Links -> Seq(Compute)] /\ running' \in [Links -> SUBSET Compute]
      /\ wire'[l] = Tail(out) /\ running'[l] = running[l] \cup {c}
      /\ \A n \in Links : n # l => wire'[n] = wire[n] /\ running'[n] = running[n]
  BY <1>1, <1>2, <1>4
<1>7. Good(Now', None)
  BY <1>1, <1>6, WireGood
<1>8. ASSUME Flight(Now, link, running, answers, published)
      PROVE  Flight(Now', link', running', answers', published')
  <2>1. Travels(l, hub, out, running[l], answers[l], published)
    BY <1>1, <1>8, NowFacts DEF Flight, Up, out
  <2>2. 1 \in DOMAIN out
    BY <1>4
  <2>3. \A i \in DOMAIN Tail(out) : Tail(out)[i].msg \in Msgs(hub, l) /\ Tail(out)[i].key = KeyOf(hub, Tail(out)[i].msg)
    BY <1>5, <2>1 DEF Travels
  <2>4. \A d \in running[l] \cup {c} : d.msg \in Msgs(hub, l) /\ d.key = KeyOf(hub, d.msg)
    BY <1>4, <2>1, <2>2 DEF Travels
  <2>5. \A i, j \in DOMAIN Tail(out) : Tail(out)[i].msg = Tail(out)[j].msg => i = j
    <3> SUFFICES ASSUME NEW i \in DOMAIN Tail(out), NEW j \in DOMAIN Tail(out), Tail(out)[i].msg = Tail(out)[j].msg
                 PROVE  i = j
      OBVIOUS
    <3>1. i + 1 = j + 1
      BY <1>5, <2>1 DEF Travels
    <3> QED
      BY <1>5, <3>1
  <2>6. \A i \in DOMAIN Tail(out), d \in running[l] \cup {c} : Tail(out)[i].msg # d.msg
    BY <1>4, <1>5, <2>1, <2>2 DEF Travels
  <2>7. \A i \in DOMAIN answers[l], d \in running[l] \cup {c} : answers[l][i].msg # d.msg
    BY <1>4, <2>1, <2>2 DEF Travels
  <2>8. \A i \in DOMAIN answers[l], j \in DOMAIN Tail(out) : answers[l][i].msg # Tail(out)[j].msg
    BY <1>5, <2>1 DEF Travels
  <2>9. Travels(l, hub, Tail(out), running[l] \cup {c}, answers[l], published)
    BY <2>1, <2>3, <2>4, <2>5, <2>6, <2>7, <2>8 DEF Travels
  <2> QED
    BY <1>1, <1>6, <1>8, <2>9, FlightOf
<1> QED
  BY <1>1, <1>6, <1>7, <1>8 DEF Kept, HubInv, Around
\* A daemon ends a computation: its answer is on its way back, and a good one is in the bucket.
LEMMA FinishKept ==
    ASSUME HubAssumption, HubInv, NEW l \in Links, NEW c \in running[l], NEW ok \in BOOLEAN, Finish(l, c, ok)
    PROVE  Kept /\ Around' /\ (published' = published \/ published' = published \cup {c.key}) /\ c.key \in Keys
<1> DEFINE back == answers[l]
           m == [msg |-> c.msg, ok |-> ok]
           more == Append(back, m)
<1>1. /\ link[l] = "open" /\ running' = [running EXCEPT ![l] = running[l] \ {c}]
      /\ answers' = [answers EXCEPT ![l] = more]
      /\ published' = IF ok THEN published \cup {c.key} ELSE published
      /\ UNCHANGED <<hub, page, link, wire>>
  BY DEF Finish
<1>2. running \in [Links -> SUBSET Compute] /\ answers \in [Links -> Seq(Result)] /\ published \subseteq Keys
  BY DEF HubInv, Around
<1>3. c \in Compute /\ c.msg \in 1..MaxSeq /\ c.key \in Keys
  BY <1>2 DEF Compute
<1>4. m \in Result /\ m.msg = c.msg /\ m.ok = ok /\ back \in Seq(Result)
  BY <1>2, <1>3 DEF Result
<1> HIDE DEF m, back
<1>5. /\ more \in Seq(Result) /\ DOMAIN more = 1..(Len(back) + 1) /\ Len(back) \in Nat /\ DOMAIN back = 1..Len(back)
      /\ more[Len(back) + 1] = m /\ \A i \in 1..Len(back) : more[i] = back[i]
  <2>1. more \in Seq(Result) /\ Len(more) = Len(back) + 1
        /\ more[Len(back) + 1] = m /\ \A i \in 1..Len(back) : more[i] = back[i]
    BY <1>4, AppendProperties
  <2>2. Len(back) \in Nat /\ DOMAIN back = 1..Len(back)
    BY <1>4, LenProperties
  <2> HIDE DEF more
  <2>3. DOMAIN more = 1..(Len(back) + 1)
    BY <2>1, LenProperties
  <2> QED
    BY <2>1, <2>2, <2>3
<1> HIDE DEF more
<1>6. \A i \in DOMAIN more : (i \in DOMAIN back /\ more[i] = back[i]) \/ (i = Len(back) + 1 /\ more[i] = m)
  BY <1>5
<1>7. running' \in [Links -> SUBSET Compute] /\ answers' \in [Links -> Seq(Result)] /\ published' \subseteq Keys
      /\ running'[l] = running[l] \ {c} /\ answers'[l] = more
      /\ \A n \in Links : n # l => running'[n] = running[n] /\ answers'[n] = answers[n]
  BY <1>1, <1>2, <1>3, <1>5
<1>8. Good(Now', None)
  BY <1>1, NowFacts, WireGood
<1>9. ASSUME Flight(Now, link, running, answers, published)
      PROVE  Flight(Now', link', running', answers', published')
  <2>1. Travels(l, hub, wire[l], running[l], back, published)
    BY <1>1, <1>9, NowFacts DEF Flight, Up, back
  <2>2. c.msg \in Msgs(hub, l) /\ c.key = KeyOf(hub, c.msg)
    BY <2>1 DEF Travels
  <2>3. ok => c.key \in published'
    BY <1>1
  <2>4. published \subseteq published'
    BY <1>1
  <2>5. \A i \in DOMAIN more : more[i].msg \in Msgs(hub, l) /\ (more[i].ok => KeyOf(hub, more[i].msg) \in published')
    <3> SUFFICES ASSUME NEW i \in DOMAIN more
                 PROVE  more[i].msg \in Msgs(hub, l) /\ (more[i].ok => KeyOf(hub, more[i].msg) \in published')
      OBVIOUS
    <3>1. CASE i \in DOMAIN back /\ more[i] = back[i]
      BY <2>1, <2>4, <3>1 DEF Travels
    <3>2. CASE more[i] = m
      BY <1>4, <2>2, <2>3, <3>2
    <3> QED
      BY <1>6, <3>1, <3>2
  <2>6. \A i \in DOMAIN back : back[i].msg # c.msg
    BY <2>1 DEF Travels
  <2>7. \A i, j \in DOMAIN more : more[i].msg = more[j].msg => i = j
    BY <1>4, <1>6, <2>1, <2>6 DEF Travels
  <2>8. \A i \in DOMAIN more, d \in running[l] \ {c} : more[i].msg # d.msg
    <3> SUFFICES ASSUME NEW i \in DOMAIN more, NEW d \in running[l] \ {c} PROVE more[i].msg # d.msg
      OBVIOUS
    <3>1. CASE i \in DOMAIN back /\ more[i] = back[i]
      BY <2>1, <3>1 DEF Travels
    <3>2. CASE more[i] = m
      <4>1. d.msg # c.msg
        <5>1. d \in Compute /\ c \in Compute /\ d.key = KeyOf(hub, d.msg)
          BY <1>2, <2>1 DEF Travels
        <5>2. d = [msg |-> d.msg, key |-> d.key] /\ c = [msg |-> c.msg, key |-> c.key]
          BY <5>1 DEF Compute
        <5> QED
          BY <2>2, <5>1, <5>2
      <4> QED
        BY <1>4, <3>2, <4>1
    <3> QED
      BY <1>6, <3>1, <3>2
  <2>9. \A i \in DOMAIN more, j \in DOMAIN wire[l] : more[i].msg # wire[l][j].msg
    <3> SUFFICES ASSUME NEW i \in DOMAIN more, NEW j \in DOMAIN wire[l] PROVE more[i].msg # wire[l][j].msg
      OBVIOUS
    <3>1. CASE i \in DOMAIN back /\ more[i] = back[i]
      BY <2>1, <3>1 DEF Travels
    <3>2. CASE more[i] = m
      BY <1>4, <2>1, <3>2 DEF Travels
    <3> QED
      BY <1>6, <3>1, <3>2
  <2>10. Travels(l, hub, wire[l], running[l] \ {c}, more, published')
    BY <2>1, <2>5, <2>7, <2>8, <2>9 DEF Travels
  <2> QED
    BY <1>1, <1>7, <1>9, <2>4, <2>10, FlightOf
<1> QED
  BY <1>1, <1>3, <1>7, <1>8, <1>9 DEF Kept, HubInv, Around

\* A session ends on the daemon's side; some answers are lost with it.
LEMMA DieKept ==
    ASSUME HubAssumption, HubInv, NEW l \in Links, Die(l)
    PROVE  Kept /\ Around' /\ \E done \in SUBSET Keys : published' = published \cup done
<1> DEFINE back == answers[l]
<1>1. /\ link[l] = "open" /\ link' = [link EXCEPT ![l] = "dead"] /\ wire' = [wire EXCEPT ![l] = << >>]
      /\ running' = [running EXCEPT ![l] = {}] /\ UNCHANGED <<hub, page>>
  BY DEF Die
<1>2. PICK done \in SUBSET {c.key : c \in running[l]} : published' = published \cup done
  BY DEF Die
<1>3. PICK n \in 0..Len(back) : answers' = [answers EXCEPT ![l] = SubSeq(back, 1, n)]
  BY DEF Die
<1>4. /\ link \in [Links -> {"unused", "open", "dead", "closing", "gone"}]
      /\ running \in [Links -> SUBSET Compute] /\ answers \in [Links -> Seq(Result)] /\ published \subseteq Keys
      /\ wire \in [Links -> Seq(Compute)]
  BY NowFacts DEF HubInv, Around
<1>5. done \in SUBSET Keys
  <2>1. \A c \in running[l] : c.key \in Keys
    BY <1>4 DEF Compute
  <2> QED
    BY <2>1
<1>6. back \in Seq(Result)
  BY <1>4
<1> HIDE DEF back
<1> DEFINE kept == SubSeq(back, 1, n)
<1>7. /\ kept \in Seq(Result) /\ DOMAIN kept \subseteq DOMAIN back /\ \A i \in DOMAIN kept : kept[i] = back[i]
  <2>1. Len(back) \in Nat /\ DOMAIN back = 1..Len(back) /\ n \in Nat /\ n <= Len(back)
    BY <1>6, LenProperties
  <2>2. kept = [i \in 1..n |-> back[i]]
    BY <2>1
  <2>3. \A i \in 1..n : i \in 1..Len(back) /\ back[i] \in Result
    BY <1>6, <2>1, ElementOfSeq
  <2>4. kept \in Seq(Result)
    BY <2>1, <2>2, <2>3, IsASeq
  <2> HIDE DEF kept
  <2> QED
    BY <2>1, <2>2, <2>3, <2>4
<1> HIDE DEF kept
<1>8. << >> \in Seq(Compute)
  BY EmptySeq
<1>9. /\ link' \in [Links -> {"unused", "open", "dead", "closing", "gone"}] /\ link'[l] = "dead"
      /\ wire' \in [Links -> Seq(Compute)] /\ wire'[l] = << >>
      /\ running' \in [Links -> SUBSET Compute] /\ running'[l] = {}
      /\ answers' \in [Links -> Seq(Result)] /\ answers'[l] = kept
      /\ \A o \in Links : o # l => /\ link'[o] = link[o] /\ wire'[o] = wire[o]
                                   /\ running'[o] = running[o] /\ answers'[o] = answers[o]
  <2>1. answers' = [answers EXCEPT ![l] = kept]
    BY <1>3 DEF kept
  <2> QED
    BY <1>1, <1>4, <1>7, <1>8, <2>1
<1>10. Good(Now', None)
  BY <1>1, <1>9, WireGood
<1>11. ASSUME Flight(Now, link, running, answers, published)
       PROVE  Flight(Now', link', running', answers', published')
  <2>1. Travels(l, hub, wire[l], running[l], back, published)
    BY <1>1, <1>11, NowFacts DEF Flight, Up, back
  <2>2. \A i \in DOMAIN kept : kept[i].msg \in Msgs(hub, l) /\ (kept[i].ok => KeyOf(hub, kept[i].msg) \in published')
    BY <1>2, <1>7, <2>1 DEF Travels
  <2>3. \A i, j \in DOMAIN kept : kept[i].msg = kept[j].msg => i = j
    BY <1>7, <2>1 DEF Travels
  <2>4. Travels(l, hub, << >>, {}, kept, published')
    BY <2>2, <2>3 DEF Travels
  <2> QED
    BY <1>1, <1>2, <1>9, <1>11, <2>4, FlightOf
<1> QED
  BY <1>2, <1>4, <1>5, <1>9, <1>10, <1>11 DEF Kept, HubInv, Around

\* An empty memory is good if nobody waits.
LEMMA EmptyGood ==
    ASSUME HubAssumption, NEW s, s.h = Empty, s = [h |-> s.h, page |-> s.page, wire |-> s.wire],
           s.page \in [Readers -> [key : Keys \cup {None}, status : Statuses]],
           s.wire \in [Links -> Seq(Compute)], \A r \in Readers : s.page[r].status # "waiting"
    PROVE  Good(s, None)
<1>1. Empty \in HubType
  <2>1. << >> \in Seq(Comp) /\ << >> \in Seq(Pids)
    BY EmptySeq
  <2>2. [k \in Keys |-> None] \in [Keys -> Pids \cup {None}] /\ [m \in 1..MaxSeq |-> None] \in [1..MaxSeq -> Pids \cup {None}]
        /\ [l \in Links |-> 0] \in [Links -> Nat] /\ 0 \in 0..MaxSeq
    BY Constants
  <2> QED
    BY <2>1, <2>2 DEF Empty, HubType
<1>3. Alive(Empty) = {} /\ DOMAIN Empty.comps = {} /\ DOMAIN Empty.queue = {} /\ Len(Empty.queue) = 0
      /\ \A l \in Links : Msgs(Empty, l) = {}
  BY DEF Empty, Alive, Msgs
<1>4. Keyed(Empty)
  BY <1>3 DEF Keyed, Empty
<1>5. Read(Empty, s.page)
  BY <1>3 DEF Read
<1>6. Sent(Empty)
  <2>1. \A l \in Links : Slots[l] \in Nat
    BY Constants
  <2>2. \A l \in Links : Empty.busy[l] = Cardinality(Msgs(Empty, l)) /\ Empty.busy[l] <= Slots[l]
    <3>1. \A l \in Links : Empty.busy[l] = 0
      BY DEF Empty
    <3>2. \A l \in Links : Cardinality(Msgs(Empty, l)) = 0
      BY <1>3, FS_EmptySet
    <3> QED
      BY <2>1, <3>1, <3>2
  <2>3. \A m \in 1..MaxSeq : Empty.byMsg[m] = None
    BY DEF Empty
  <2> QED
    BY <1>3, <2>2, <2>3 DEF Sent
<1>7. Queued(Empty, None)
  <2>1. Empty.seq = 0
    BY DEF Empty
  <2> QED
    BY <1>3, <2>1, Constants DEF Queued
<1>8. s \in State
  BY <1>1 DEF State
<1> QED
  BY <1>4, <1>5, <1>6, <1>7, <1>8 DEF Good

\* The runtime drops the hub's memory. Nobody waits, so that nothing is queued; and nothing is out
\* either unless a daemon may be left computing.
LEMMA EvictKept ==
    ASSUME HubAssumption, HubInv, Evict
    PROVE  /\ Good(Now', None) /\ Around'
           /\ ~EvictsMidFlight => Kept /\ \A k \in Keys : hub.byKey[k] = None /\ hub'.byKey[k] = None
<1>1. /\ \A r \in Readers : page[r].status # "waiting"
      /\ InFlight => EvictsMidFlight
      /\ hub' = Empty /\ UNCHANGED <<page, link, wire, running, answers, published>>
  BY DEF Evict
<1>8. Good(Now', None)
  <2>1. /\ Now'.h = Empty /\ Now'.page = page /\ Now'.wire = wire
        /\ Now' = [h |-> Now'.h, page |-> Now'.page, wire |-> Now'.wire]
    BY <1>1, NowFacts
  <2> QED
    BY <1>1, <2>1, NowFacts, EmptyGood
<1>9. ASSUME ~EvictsMidFlight PROVE \A m \in 1..MaxSeq : hub.byMsg[m] = None
  BY <1>1, <1>9 DEF InFlight
<1>10. ASSUME ~EvictsMidFlight, Flight(Now, link, running, answers, published)
       PROVE  Flight(Now', link', running', answers', published')
  <2>1. \A l \in Links : Msgs(hub, l) = {}
    BY <1>9, <1>10 DEF Msgs
  <2>2. ASSUME NEW l \in Links, link[l] \in Up
        PROVE  Travels(l, Empty, wire[l], running[l], answers[l], published)
    <3>1. Travels(l, hub, wire[l], running[l], answers[l], published)
      BY <1>10, <2>2, NowFacts DEF Flight
    <3>2. OnTheWay(wire[l], running[l], answers[l]) = {}
      BY <2>1, <3>1, TravelsOut
    <3> QED
      BY <3>1, <3>2, TravelsKept
  <2> QED
    BY <1>1, <1>10, <2>2, NowFacts DEF Flight
<1>11. ASSUME ~EvictsMidFlight PROVE \A k \in Keys : hub.byKey[k] = None /\ hub'.byKey[k] = None
  <2>1. Alive(hub) = {}
    <3> SUFFICES ASSUME NEW p \in Alive(hub) PROVE FALSE
      OBVIOUS
    <3>1. p \in DOMAIN hub.comps /\ hub.comps[p] \in Comp /\ p # None
      BY NowFacts DEF Alive
    <3>2. hub.comps[p].msg = 0
      <4>1. hub.comps[p].msg \in 0..MaxSeq
        BY <3>1 DEF Comp
      <4>2. hub.comps[p].msg # 0 => hub.byMsg[hub.comps[p].msg] = p
        BY NowFacts DEF Sent
      <4> QED
        BY <1>9, <1>11, <3>1, <4>1, <4>2, Constants
    <3>3. PICK i \in DOMAIN hub.queue : hub.queue[i] = p
      BY <3>1, <3>2, NowFacts DEF Queued
    <3>4. hub.comps[p].readers # {}
      BY <3>1, <3>3, NowFacts DEF Queued
    <3>5. PICK r \in hub.comps[p].readers : TRUE
      BY <3>4
    <3>6. r \in Readers /\ page[r].status = "waiting"
      BY <3>1, NowFacts DEF Read
    <3> QED
      BY <1>1, <3>6
  <2>2. \A k \in Keys : hub.byKey[k] = None
    BY <2>1, NowFacts DEF Keyed
  <2> QED
    BY <1>1, <2>2 DEF Empty
<1> QED
  BY <1>1, <1>8, <1>10, <1>11 DEF Kept, HubInv, Around
-----------------------------------------------------------------------------
(* What the pages are promised. *)

\* A step the pages may see, or see nothing of.
PageStep == Promise!Next \/ UNCHANGED Promise!vars

\* What is being worked on, as the promise calls it.
LEMMA WorkingIs ==
    /\ Promise!vars = <<page, Working(hub), published>>
    /\ Promise!vars' = <<page', Working(hub'), published'>>
    /\ Working(hub) \subseteq Keys
  BY DEF Promise!vars, Working

\* Computations ended.
LEMMA AnswersArePromised ==
    ASSUME HubInv, Answered(Now, Now'), published' = published
    PROVE  PageStep
<1> DEFINE ended == Working(hub) \ Working(hub')
<1>1. PICK how \in [ended -> Endings] :
        /\ \A k \in ended : how[k] = "done" => k \in published
        /\ page' = [r \in Readers |-> IF page[r].status = "waiting" /\ page[r].key \in ended
                                      THEN [page[r] EXCEPT !.status = how[page[r].key]] ELSE page[r]]
  <2>1. \E how \in [(Working(Now.h) \ Working(Now'.h)) -> Endings] :
          /\ \A k \in Working(Now.h) \ Working(Now'.h) : how[k] = "done" => k \in published
          /\ Now'.page = [r \in Readers |->
                IF Now.page[r].status = "waiting" /\ Now.page[r].key \in Working(Now.h) \ Working(Now'.h)
                THEN [Now.page[r] EXCEPT !.status = how[Now.page[r].key]] ELSE Now.page[r]]
    BY DEF Answered
  <2>2. Now.h = hub /\ Now'.h = hub' /\ Now.page = page /\ Now'.page = page'
    BY NowFacts
  <2> QED
    BY <2>1, <2>2
<1>2. Working(hub') \subseteq Working(hub)
  BY NowFacts DEF Answered
<1>3. CASE ended = {}
  <2>1. page' = [r \in Readers |-> page[r]]
    BY <1>1, <1>3
  <2>2. page' = page
    BY <2>1, NowFacts
  <2>3. Working(hub') = Working(hub)
    BY <1>2, <1>3
  <2>4. UNCHANGED Promise!vars
    BY <2>2, <2>3, WorkingIs
  <2> QED
    BY <2>4 DEF PageStep
<1>4. CASE ended # {}
  <2> PICK e : e = ended
    OBVIOUS
  <2>1. Working(hub') = Working(hub) \ e /\ e \subseteq Working(hub) /\ e # {}
    BY <1>2, <1>4
  <2>2. /\ how \in [e -> Endings] /\ \A k \in e : how[k] = "done" => k \in published
        /\ page' = [r \in Readers |-> IF page[r].status = "waiting" /\ page[r].key \in e
                                      THEN [page[r] EXCEPT !.status = how[page[r].key]] ELSE page[r]]
    BY <1>1
  <2> HIDE DEF ended
  <2>3. Promise!Answer(e)
    <3>1. e \subseteq {k \in Keys : hub.byKey[k] # None}
      BY <2>1 DEF Working
    <3>2. {k \in Keys : hub'.byKey[k] # None} = {k \in Keys : hub.byKey[k] # None} \ e
      BY <2>1 DEF Working
    <3>3. how \in [e -> Promise!Endings]
      BY <2>2 DEF Endings, Promise!Endings
    <3> QED
      BY <2>1, <2>2, <3>1, <3>2, <3>3 DEF Promise!Answer
  <2>4. e \in SUBSET {k \in Keys : hub.byKey[k] # None}
    BY <2>1 DEF Working
  <2>5. Promise!Next
    BY <2>3, <2>4 DEF Promise!Next
  <2> QED
    BY <2>5 DEF PageStep
<1> QED
  BY <1>3, <1>4

\* A page asked for what is being worked on from now on.
LEMMA AsksArePromised ==
    ASSUME HubInv, NEW r \in Readers, NEW k \in Keys, page[r].status = "idle",
           page' = [page EXCEPT ![r] = [key |-> k, status |-> "waiting"]], published' = published,
           NEW p, p # None, \/ hub'.byKey = [hub.byKey EXCEPT ![k] = p]
                            \/ hub'.byKey = hub.byKey /\ hub.byKey[k] = p
    PROVE  PageStep
<1>1. hub.byKey \in [Keys -> Pids \cup {None}]
  BY NowFacts DEF HubType
<1>2. {o \in Keys : hub'.byKey[o] # None} = {o \in Keys : hub.byKey[o] # None} \cup {k}
  <2>1. \A o \in Keys : hub'.byKey[o] # None <=> hub.byKey[o] # None \/ o = k
    BY <1>1
  <2> QED
    BY <2>1
<1>3. Promise!Ask(r, k)
  BY <1>2 DEF Promise!Ask
<1> QED
  BY <1>3 DEF PageStep, Promise!Next

\* A page was refused what is not being worked on.
LEMMA RefusalsArePromised ==
    ASSUME HubInv, NEW r \in Readers, NEW k \in Keys, NEW status \in {"failed", "busy", "unavailable"},
           page[r].status = "idle", page' = [page EXCEPT ![r] = [key |-> k, status |-> status]],
           hub' = hub, hub.byKey[k] = None, published' = published
    PROVE  PageStep
<1>1. Promise!Refuse(r, k)
  BY DEF Promise!Refuse, Promise!Refusals
<1> QED
  BY <1>1 DEF PageStep, Promise!Next

\* A page gave up, and what nobody waits for any more went with it or did not.
LEMMA DeadlinesArePromised ==
    ASSUME HubAssumption, HubInv, NEW r \in Readers, Deadline(r)
    PROVE  PageStep
<1>1. /\ page[r].status = "waiting" /\ published' = published
      /\ page' = [page EXCEPT ![r].status = "timeout"]
      /\ \/ hub'.byKey = hub.byKey
         \/ /\ hub'.byKey = [hub.byKey EXCEPT ![page[r].key] = None]
            /\ page[r].key \in Keys /\ hub.byKey[page[r].key] # None
            /\ hub.comps[hub.byKey[page[r].key]].readers = {r}
  BY DeadlineKept DEF Deadline
<1> DEFINE working == {k \in Keys : hub.byKey[k] # None}
<1>2. CASE hub'.byKey = hub.byKey
  <2>1. working' = working
    BY <1>2
  <2> QED
    BY <1>1, <2>1 DEF PageStep, Promise!Next, Promise!GiveUp
<1>3. CASE /\ hub'.byKey = [hub.byKey EXCEPT ![page[r].key] = None]
           /\ page[r].key \in Keys /\ hub.byKey[page[r].key] # None
           /\ hub.comps[hub.byKey[page[r].key]].readers = {r}
  <2> DEFINE k == page[r].key
  <2>1. hub.byKey \in [Keys -> Pids \cup {None}]
    BY NowFacts DEF HubType
  <2>2. working' = working \ {k}
    <3> HIDE DEF k
    <3>1. k \in Keys /\ hub'.byKey = [hub.byKey EXCEPT ![k] = None]
      BY <1>3 DEF k
    <3>2. \A o \in Keys : hub'.byKey[o] # None <=> hub.byKey[o] # None /\ o # k
      BY <2>1, <3>1
    <3> QED
      BY <3>2
  <2>3. Promise!Waiting(k) = {r}
    <3>1. \A o \in Readers : page[o] = [key |-> k, status |-> "waiting"] => o = r
      <4> SUFFICES ASSUME NEW o \in Readers, page[o] = [key |-> k, status |-> "waiting"] PROVE o = r
        OBVIOUS
      <4>1. page[o].status = "waiting" /\ page[o].key = k
        OBVIOUS
      <4>2. o \in hub.comps[hub.byKey[k]].readers
        BY <4>1, NowFacts DEF Read
      <4> QED
        BY <1>3, <4>2
    <3>2. page[r] = [key |-> k, status |-> "waiting"]
      <4>1. page[r] \in [key : Keys \cup {None}, status : Statuses]
        BY NowFacts
      <4> QED
        BY <1>1, <4>1
    <3> HIDE DEF k
    <3> QED
      BY <3>1, <3>2 DEF Promise!Waiting
  <2>4. Promise!GiveUp(r)
    BY <1>1, <2>2, <2>3 DEF Promise!GiveUp
  <2> QED
    BY <2>4 DEF PageStep, Promise!Next
<1> QED
  BY <1>1, <1>2, <1>3

\* Summaries are published, and the pages see nothing yet.
LEMMA PublishingIsPromised ==
    ASSUME hub' = hub, page' = page, NEW ks \in SUBSET Keys, published' = published \cup ks
    PROVE  PageStep
  BY DEF PageStep, Promise!Next, Promise!Publish

\* Nothing the pages would see.
LEMMA SilenceIsPromised ==
    ASSUME page' = page, published' = published, hub'.byKey = hub.byKey
    PROVE  PageStep
<1>1. Working(hub') = Working(hub)
  BY DEF Working
<1> QED
  BY <1>1, WorkingIs DEF PageStep
-----------------------------------------------------------------------------
(* Every step. *)

\* What a step keeps: the hub's invariant; and what is in flight and the promise, if nothing is
\* dropped in flight.
Stepped ==
    /\ Good(Now', None) /\ Around'
    /\ ~EvictsMidFlight => Kept
    /\ ~EvictsMidFlight /\ Flight(Now, link, running, answers, published) => PageStep

\* Requests.
LEMMA RequestSteps ==
    ASSUME HubAssumption, HubInv, NEW r \in Readers, NEW k \in Keys, request(r, k)
    PROVE  Stepped
<1>1. page[r].status = "idle" /\ UNCHANGED <<link, running, answers, published>> /\ Around'
  BY DEF request, HubInv, Around
<1>2. CASE Join(r, k)
  <2>1. Kept
    BY <1>1, <1>2, JoinKept
  <2>2. PageStep
    <3>1. hub.byKey[k] # None /\ page' = [page EXCEPT ![r] = [key |-> k, status |-> "waiting"]]
      BY <1>2 DEF Join, Told
    <3>2. hub'.byKey = hub.byKey
      BY <1>2, NowFacts DEF Join, HubType
    <3> QED
      BY <1>1, <3>1, <3>2, AsksArePromised
  <2> QED
    BY <1>1, <2>1, <2>2 DEF Stepped, Kept
<1>3. ASSUME NEW status \in {"failed", "busy", "unavailable"}, Told(r, k, status), hub' = hub, hub.byKey[k] = None
      PROVE  Stepped
  <2>1. Kept
    BY <1>1, <1>3, RefusalKept
  <2>2. PageStep
    BY <1>1, <1>3, RefusalsArePromised DEF Told
  <2> QED
    BY <1>1, <2>1, <2>2 DEF Stepped, Kept
<1>4. CASE FailedLately(r, k)
  BY <1>3, <1>4 DEF FailedLately
<1>5. CASE NoDaemon(r, k)
  BY <1>3, <1>5 DEF NoDaemon
<1>6. CASE Refused(r, k)
  BY <1>3, <1>6 DEF Refused
<1>7. CASE Start(r, k)
  <2>1. /\ Kept
        /\ page' = [page EXCEPT ![r] = [key |-> k, status |-> "waiting"]]
        /\ hub'.byKey = [hub.byKey EXCEPT ![k] = Len(hub.comps) + 1] /\ Len(hub.comps) + 1 # None
    BY <1>1, <1>7, StartKept
  <2>2. PageStep
    <3>1. PICK p : p = Len(hub.comps) + 1
      OBVIOUS
    <3>2. p # None /\ hub'.byKey = [hub.byKey EXCEPT ![k] = p]
      BY <2>1, <3>1
    <3> QED
      BY <1>1, <2>1, <3>2, AsksArePromised
  <2> QED
    BY <1>1, <2>1, <2>2 DEF Stepped, Kept
<1> QED
  BY <1>2, <1>4, <1>5, <1>6, <1>7 DEF request

\* What happens on a link.
LEMMA LinkSteps ==
    ASSUME HubAssumption, HubInv, NEW l \in Links, LinkStep(l)
    PROVE  Stepped
<1>1. CASE Connect(l)
  <2>1. Kept /\ Around'
    BY <1>1, ConnectKept
  <2>2. PageStep
    BY <1>1, SilenceIsPromised DEF Connect
  <2> QED
    BY <2>1, <2>2 DEF Stepped, Kept
<1>2. CASE Take(l)
  <2>1. Kept /\ Around'
    BY <1>2, TakeKept
  <2>2. PageStep
    BY <1>2, SilenceIsPromised DEF Take
  <2> QED
    BY <2>1, <2>2 DEF Stepped, Kept
<1>3. CASE Die(l)
  <2>1. Kept /\ Around' /\ \E done \in SUBSET Keys : published' = published \cup done
    BY <1>3, DieKept
  <2>2. PageStep
    BY <1>3, <2>1, PublishingIsPromised DEF Die
  <2> QED
    BY <2>1, <2>2 DEF Stepped, Kept
<1>4. CASE Closing(l)
  <2>1. Kept /\ Around'
    BY <1>4, ClosingKept
  <2>2. PageStep
    BY <1>4, SilenceIsPromised DEF Closing
  <2> QED
    BY <2>1, <2>2 DEF Stepped, Kept
<1>5. CASE onMessage(l)
  <2>1. /\ Kept
        /\ Flight(Now, link, running, answers, published) => Answered(Now, Now')
    BY <1>5, OnMessageKept
  <2>2. Around'
    <3>1. Tail(answers[l]) \in Seq(Result)
      BY <1>5, HeadTailProperties DEF onMessage, HubInv, Around
    <3> QED
      BY <1>5, <3>1 DEF onMessage, HubInv, Around
  <2>3. published' = published
    BY <1>5 DEF onMessage
  <2>4. Flight(Now, link, running, answers, published) => PageStep
    BY <2>1, <2>3, AnswersArePromised
  <2> QED
    BY <2>1, <2>2, <2>4 DEF Stepped, Kept
<1>6. CASE onClose(l)
  <2>1. Kept /\ Answered(Now, Now')
    BY <1>6, OnCloseKept
  <2>2. Around' /\ published' = published
    BY <1>6 DEF onClose, HubInv, Around
  <2>3. PageStep
    BY <2>1, <2>2, AnswersArePromised
  <2> QED
    BY <2>1, <2>2, <2>3 DEF Stepped, Kept
<1>7. ASSUME NEW c \in running[l], NEW ok \in BOOLEAN, Finish(l, c, ok)
      PROVE  Stepped
  <2>1. Kept /\ Around' /\ (published' = published \/ published' = published \cup {c.key}) /\ c.key \in Keys
    BY <1>7, FinishKept
  <2>2. PageStep
    <3>1. hub' = hub /\ page' = page
      BY <1>7 DEF Finish
    <3>2. CASE published' = published
      BY <3>1, <3>2, SilenceIsPromised
    <3>3. CASE published' = published \cup {c.key}
      <4>1. {c.key} \in SUBSET Keys
        BY <2>1
      <4> QED
        BY <3>1, <3>3, <4>1, PublishingIsPromised
    <3> QED
      BY <2>1, <3>2, <3>3
  <2> QED
    BY <2>1, <2>2 DEF Stepped, Kept
<1> QED
  BY <1>1, <1>2, <1>3, <1>4, <1>5, <1>6, <1>7 DEF LinkStep

\* Any step, or none.
LEMMA NextSteps ==
    ASSUME HubAssumption, HubInv, [Next]_vars
    PROVE  Stepped
<1>1. ASSUME NEW r \in Readers, NEW k \in Keys, request(r, k) PROVE Stepped
  BY <1>1, RequestSteps
<1>2. ASSUME NEW r \in Readers, Deadline(r) PROVE Stepped
  <2>1. Kept
    BY <1>2, DeadlineKept
  <2>2. PageStep
    BY <1>2, DeadlinesArePromised
  <2>3. Around'
    BY <1>2 DEF Deadline, HubInv, Around
  <2> QED
    BY <2>1, <2>2, <2>3 DEF Stepped, Kept
<1>3. ASSUME NEW k \in Keys, Forget(k) PROVE Stepped
  <2>1. Kept /\ hub'.byKey = hub.byKey
    BY <1>3, ForgetKept
  <2>2. Around' /\ page' = page /\ published' = published
    BY <1>3 DEF Forget, HubInv, Around
  <2>3. PageStep
    BY <2>1, <2>2, SilenceIsPromised
  <2> QED
    BY <2>1, <2>2, <2>3 DEF Stepped, Kept
<1>4. ASSUME NEW l \in Links, LinkStep(l) PROVE Stepped
  BY <1>4, LinkSteps
<1>5. CASE Evict
  <2>1. /\ Good(Now', None) /\ Around'
        /\ ~EvictsMidFlight => Kept /\ \A k \in Keys : hub.byKey[k] = None /\ hub'.byKey[k] = None
    BY <1>5, EvictKept
  <2>2. ~EvictsMidFlight => PageStep
    <3> SUFFICES ASSUME ~EvictsMidFlight PROVE PageStep
      OBVIOUS
    <3>1. Working(hub) = {} /\ Working(hub') = {}
      BY <2>1 DEF Working
    <3>2. page' = page /\ published' = published
      BY <1>5 DEF Evict
    <3> QED
      BY <3>1, <3>2, WorkingIs DEF PageStep
  <2> QED
    BY <2>1, <2>2 DEF Stepped
<1>6. CASE UNCHANGED vars
  <2>1. Now' = Now /\ hub' = hub /\ page' = page /\ link' = link /\ running' = running /\ answers' = answers
        /\ published' = published
    BY <1>6, NowFacts DEF vars
  <2>2. Kept
    BY <2>1, NowFacts DEF Kept
  <2>3. PageStep
    BY <2>1, SilenceIsPromised
  <2>4. Around'
    BY <2>1 DEF HubInv, Around
  <2> QED
    BY <2>2, <2>3, <2>4 DEF Stepped, Kept
<1> QED
  BY <1>1, <1>2, <1>3, <1>4, <1>5, <1>6 DEF Next

\* The hub starts empty.
LEMMA InitGood == ASSUME HubAssumption, Init PROVE IInv /\ Promise!Init
<1>1. hub = Empty /\ page \in [Readers -> [key : Keys \cup {None}, status : Statuses]]
      /\ \A r \in Readers : page[r].status # "waiting"
  BY DEF Init, Statuses
<1>2. /\ link \in [Links -> {"unused", "open", "dead", "closing", "gone"}]
      /\ \A l \in Links : link[l] = "unused"
      /\ wire \in [Links -> Seq(Compute)] /\ running \in [Links -> SUBSET Compute]
      /\ answers \in [Links -> Seq(Result)] /\ published = {}
      /\ \A l \in Links : wire[l] = << >> /\ running[l] = {} /\ answers[l] = << >>
  <2>1. << >> \in Seq(Compute) /\ << >> \in Seq(Result)
    BY EmptySeq
  <2> QED
    BY <2>1 DEF Init
<1>3. Around
  <2>1. published \subseteq Keys
    BY <1>2
  <2> QED
    BY <1>2, <2>1 DEF Around
<1>5. Good(Now, None)
  <2>1. /\ Now.h = Empty /\ Now.page = page /\ Now.wire = wire
        /\ Now = [h |-> Now.h, page |-> Now.page, wire |-> Now.wire]
    BY <1>1 DEF Now
  <2> QED
    BY <1>1, <1>2, <2>1, EmptyGood
<1>6. Flight(Now, link, running, answers, published)
  BY <1>2 DEF Flight, Up, Now
<1>7. Promise!Init
  <2>1. {k \in Keys : hub.byKey[k] # None} = {}
    BY <1>1 DEF Empty
  <2> QED
    BY <2>1 DEF Init, Promise!Init, None
<1> QED
  BY <1>3, <1>5, <1>6, <1>7 DEF IInv, HubInv
-----------------------------------------------------------------------------
(* The theorems. *)

\* Pages that wait wait for the one computation of their summary, if the hub's memory is what it should be.
LEMMA InvComputedOnce == ASSUME HubInv PROVE ComputedOnce
<1>1. \A p \in Unsettled : hub.byKey[hub.comps[p].key] = p
  BY NowFacts DEF Unsettled, Alive, Keyed
<1>2. ASSUME NEW r \in Readers, page[r].status = "waiting"
      PROVE  /\ {p \in DOMAIN hub.comps : r \in hub.comps[p].readers} = {hub.byKey[page[r].key]} \ {None}
             /\ hub.byKey[page[r].key] # None
  <2>1. /\ page[r].key \in Keys /\ hub.byKey[page[r].key] # None
        /\ r \in hub.comps[hub.byKey[page[r].key]].readers
    BY <1>2, NowFacts DEF Read
  <2>2. hub.byKey[page[r].key] \in DOMAIN hub.comps
    BY <2>1, NowFacts DEF Keyed, Alive
  <2>3. ASSUME NEW p \in DOMAIN hub.comps, r \in hub.comps[p].readers
        PROVE  p = hub.byKey[page[r].key]
    BY <2>3, NowFacts DEF Read, Keyed
  <2> QED
    BY <2>1, <2>2, <2>3
<1> QED
  BY <1>1, <1>2 DEF ComputedOnce

\* What is on its way to a daemon and what it computes are different messages sent to it.
LEMMA WorkFits ==
    ASSUME HubAssumption, IInv, NEW l \in Links, link[l] = "open"
    PROVE  /\ Len(wire[l]) + Cardinality(running[l]) <= Cardinality(Msgs(hub, l))
           /\ Len(wire[l]) \in Nat /\ Cardinality(running[l]) \in Nat
<1> DEFINE out == wire[l]
           run == running[l]
           A == {out[i].msg : i \in 1..Len(out)}
           B == {c.msg : c \in run}
           M == Msgs(hub, l)
<1>1. HubInv /\ out \in Seq(Compute) /\ run \in SUBSET Compute
  BY NowFacts DEF IInv, HubInv, Around
<1>2. Len(out) \in Nat /\ DOMAIN out = 1..Len(out)
  BY <1>1, LenProperties
<1>3. Travels(l, hub, out, run, answers[l], published)
  BY <1>1, NowFacts DEF IInv, Flight, Up
<1> HIDE DEF out, run
<1>4. A \subseteq M /\ B \subseteq M /\ A \cap B = {}
  BY <1>2, <1>3 DEF Travels
<1>5. IsFiniteSet(M) /\ Cardinality(M) \in Nat
  BY MsgsFinite
<1>6. IsFiniteSet(A) /\ IsFiniteSet(B) /\ Cardinality(A) \in Nat /\ Cardinality(B) \in Nat
  <2> HIDE DEF A, B, M
  <2> QED
    BY <1>4, <1>5, FS_Subset, FS_CardinalityType
<1>7. Cardinality(A) = Len(out)
  <2> DEFINE f == [i \in 1..Len(out) |-> out[i].msg]
  <2>1. f \in [1..Len(out) -> A]
    OBVIOUS
  <2>2. \A i, j \in 1..Len(out) : f[i] = f[j] => i = j
    BY <1>2, <1>3 DEF Travels
  <2>3. \A a \in A : \E i \in 1..Len(out) : f[i] = a
    OBVIOUS
  <2> HIDE DEF f, A
  <2>4. f \in Bijection(1..Len(out), A)
    BY <2>1, <2>2, <2>3 DEF Bijection, Injection, Surjection, IsInjective
  <2>5. ExistsBijection(1..Len(out), A)
    BY <2>4 DEF ExistsBijection
  <2> QED
    BY <1>2, <2>5, FS_CountingElements
<1>8. Cardinality(B) = Cardinality(run)
  <2> DEFINE f == [c \in run |-> c.msg]
  <2>1. f \in [run -> B]
    OBVIOUS
  <2>2. ASSUME NEW c \in run, NEW d \in run, f[c] = f[d] PROVE c = d
    <3>1. c.msg = d.msg /\ c.key = KeyOf(hub, c.msg) /\ d.key = KeyOf(hub, d.msg)
      BY <1>3, <2>2 DEF Travels
    <3>2. c = [msg |-> c.msg, key |-> c.key] /\ d = [msg |-> d.msg, key |-> d.key]
      BY <1>1 DEF Compute
    <3> QED
      BY <3>1, <3>2
  <2>3. \A b \in B : \E c \in run : f[c] = b
    OBVIOUS
  <2> HIDE DEF f, B
  <2>4. f \in Injection(run, B)
    BY <2>1, <2>2 DEF Injection, IsInjective
  <2>5. f \in Surjection(run, B)
    BY <2>1, <2>3 DEF Surjection
  <2>6. IsFiniteSet(run)
    BY <1>6, <2>4, FS_Injection
  <2>7. ExistsBijection(run, B)
    BY <2>4, <2>5 DEF ExistsBijection, Bijection
  <2> QED
    BY <2>6, <2>7, FS_Bijection
<1>9. Cardinality(A \cup B) = Cardinality(A) + Cardinality(B)
  <2> HIDE DEF A, B
  <2>1. Cardinality(A \cup B) = Cardinality(A) + Cardinality(B) - Cardinality(A \cap B)
    BY <1>6, FS_Union
  <2>2. Cardinality(A \cap B) = 0
    BY <1>4, FS_EmptySet
  <2> QED
    BY <1>6, <2>1, <2>2
<1>10. Cardinality(A \cup B) <= Cardinality(M)
  <2> HIDE DEF A, B, M
  <2>1. A \cup B \in SUBSET M
    BY <1>4
  <2> QED
    BY <1>5, <2>1, FS_Subset
<1> HIDE DEF A, B, M
<1> QED
  BY <1>2, <1>6, <1>7, <1>8, <1>9, <1>10 DEF out, run, M

\* The queue is of what is awaited, and the slots are what is out, if nothing is lost in flight.
LEMMA InvQueueIsAwaited == ASSUME HubAssumption, IInv PROVE QueueIsAwaited
<1>1. HubInv
  BY DEF IInv
<1>2. \A l \in Links : SentTo(l) = Msgs(hub, l)
  BY DEF SentTo, Msgs
<1>3. SlotsAreWork
  <2>1. \A l \in Links : hub.busy[l] = Cardinality(SentTo(l)) /\ hub.busy[l] <= Slots[l]
    BY <1>1, <1>2, NowFacts DEF Sent
  <2>2. ASSUME NEW l \in Links, link[l] = "open"
        PROVE  Len(wire[l]) + Cardinality(running[l]) <= Slots[l]
    <3>1. Len(wire[l]) + Cardinality(running[l]) <= hub.busy[l]
      BY <1>2, <2>1, <2>2, WorkFits
    <3>2. hub.busy[l] <= Slots[l] /\ hub.busy[l] \in Int /\ Slots[l] \in Int
      <4>1. hub.busy[l] \in Nat
        BY <1>1, NowFacts DEF HubType
      <4>2. Slots[l] \in Nat
        BY Constants
      <4> QED
        BY <2>1, <4>1, <4>2
    <3>3. Len(wire[l]) \in Nat /\ Cardinality(running[l]) \in Nat
      BY <1>1, <2>2, WorkFits
    <3> QED
      BY <3>1, <3>2, <3>3
  <2> QED
    BY <2>1, <2>2 DEF SlotsAreWork
<1>4. Unsettled = Alive(hub) /\ None \notin Alive(hub)
  BY <1>1, NowFacts DEF Unsettled, Alive
<1>5. Len(hub.queue) <= MaxQueued
  BY <1>1, NowFacts DEF Queued
<1>6. \A i \in DOMAIN hub.queue : hub.queue[i] \in Unsettled /\ hub.comps[hub.queue[i]].readers # {}
                                  /\ hub.comps[hub.queue[i]].msg = 0
  BY <1>1, <1>4, NowFacts DEF Queued
<1>7. \A p \in Unsettled : hub.comps[p].msg = 0 <=> \E i \in DOMAIN hub.queue : hub.queue[i] = p
  BY <1>1, <1>4, <1>6, NowFacts DEF Queued
<1> QED
  BY <1>3, <1>5, <1>6, <1>7 DEF QueueIsAwaited

\* The inductive invariant: the hub's memory is what it should be, whatever becomes of it.
THEOREM HubAlways == Spec => []HubInv
<1>1. Init => HubInv
  BY HubAssumption, InitGood DEF IInv
<1>2. HubInv /\ [Next]_vars => HubInv'
  <2> SUFFICES ASSUME HubInv, [Next]_vars PROVE HubInv'
    OBVIOUS
  <2>1. Good(Now', None) /\ Around'
    BY HubAssumption, NextSteps DEF Stepped
  <2> QED
    BY <2>1 DEF HubInv
<1> QED
  BY <1>1, <1>2, PTL DEF Spec

\* Readers of one summary share one computation, for every instance and every eviction.
THEOREM OneComputation == Spec => []ComputedOnce
<1>1. HubInv => ComputedOnce
  BY InvComputedOnce
<1> QED
  BY <1>1, HubAlways, PTL

\* What is in flight is what the hub knows it sent, as long as it is not dropped with work out.
THEOREM FlightAlways == ~EvictsMidFlight => (Spec => []IInv)
<1> SUFFICES ASSUME ~EvictsMidFlight PROVE Spec => []IInv
  OBVIOUS
<1>1. Init => IInv
  BY HubAssumption, InitGood
<1>2. IInv /\ [Next]_vars => IInv'
  <2> SUFFICES ASSUME IInv, [Next]_vars PROVE IInv'
    OBVIOUS
  <2>1. HubInv /\ Flight(Now, link, running, answers, published)
    BY DEF IInv
  <2>2. Good(Now', None) /\ Around' /\ Kept
    BY <2>1, HubAssumption, NextSteps DEF Stepped
  <2>3. Flight(Now', link', running', answers', published')
    BY <2>1, <2>2 DEF Kept
  <2>4. HubInv'
    BY <2>2 DEF HubInv
  <2> QED
    BY <2>3, <2>4 DEF IInv
<1> QED
  BY <1>1, <1>2, PTL DEF Spec

\* The queue is short and of what somebody waits for, and no daemon has more than its slots.
THEOREM QueueAlwaysAwaited == ~EvictsMidFlight => (Spec => []QueueIsAwaited)
<1> SUFFICES ASSUME ~EvictsMidFlight PROVE Spec => []QueueIsAwaited
  OBVIOUS
<1>1. IInv => QueueIsAwaited
  BY HubAssumption, InvQueueIsAwaited
<1>2. Spec => []IInv
  BY FlightAlways
<1> QED
  BY <1>1, <1>2, PTL

\* Step by step, what the pages see is what SummaryPromise allows.
THEOREM PromiseIsSafe == ~EvictsMidFlight => (Spec => Promise!Init /\ [][Promise!Next]_(Promise!vars))
<1> SUFFICES ASSUME ~EvictsMidFlight PROVE Spec => Promise!Init /\ [][Promise!Next]_(Promise!vars)
  OBVIOUS
<1>1. Init => Promise!Init
  BY HubAssumption, InitGood
<1>2. IInv /\ [Next]_vars => [Promise!Next]_(Promise!vars)
  <2> SUFFICES ASSUME IInv, [Next]_vars PROVE [Promise!Next]_(Promise!vars)
    OBVIOUS
  <2>1. HubInv /\ Flight(Now, link, running, answers, published)
    BY DEF IInv
  <2>2. PageStep
    BY <2>1, HubAssumption, NextSteps DEF Stepped
  <2> QED
    BY <2>2 DEF PageStep
<1>3. Spec => []IInv
  BY FlightAlways
<1> QED
  BY <1>1, <1>2, <1>3, PTL DEF Spec
=============================================================================
