--------------------------- MODULE SummaryPromise ---------------------------
(***************************************************************************)
(* What the pages may rely on when they ask for a summary, without links,  *)
(* slots, queue or messages: a page is refused at once or waits for THE    *)
(* computation of its summary, all who wait for one are answered together  *)
(* and alike unless their own time is up first, and "done" means there is  *)
(* a file to read.                                                         *)
(***************************************************************************)
EXTENDS Integers

CONSTANTS Keys, Readers

VARIABLES
    page,       \* what each reader asked for and was told
    working,    \* the summaries being computed or queued
    published   \* the summaries there are

vars == <<page, working, published>>

Waiting(k) == {r \in Readers : page[r] = [key |-> k, status |-> "waiting"]}
Refusals == {"failed", "busy", "unavailable"}
Endings == {"done", "failed", "unavailable"}

Ask(r, k) ==
    /\ page[r].status = "idle"
    /\ page' = [page EXCEPT ![r] = [key |-> k, status |-> "waiting"]]
    /\ working' = working \cup {k}
    /\ UNCHANGED published

Refuse(r, k) ==
    /\ page[r].status = "idle" /\ k \notin working
    /\ \E status \in Refusals : page' = [page EXCEPT ![r] = [key |-> k, status |-> status]]
    /\ UNCHANGED <<working, published>>

\* Some computations end; each tells everyone who waits for it the same.
Answer(ended) ==
    /\ ended # {} /\ ended \subseteq working
    /\ working' = working \ ended
    /\ \E how \in [ended -> Endings] :
        /\ \A k \in ended : how[k] = "done" => k \in published
        /\ page' = [r \in Readers |-> IF page[r].status = "waiting" /\ page[r].key \in ended
                                      THEN [page[r] EXCEPT !.status = how[page[r].key]] ELSE page[r]]
    /\ UNCHANGED published

\* A page gives up; what nobody waits for any more may be dropped with it.
GiveUp(r) ==
    /\ page[r].status = "waiting"
    /\ page' = [page EXCEPT ![r].status = "timeout"]
    /\ \/ UNCHANGED working
       \/ Waiting(page[r].key) = {r} /\ working' = working \ {page[r].key}
    /\ UNCHANGED published

Publish(ks) ==
    /\ published' = published \cup ks
    /\ UNCHANGED <<page, working>>

Init ==
    /\ page = [r \in Readers |-> [key |-> 0, status |-> "idle"]]
    /\ working = {} /\ published = {}

Next ==
    \/ \E r \in Readers, k \in Keys : Ask(r, k) \/ Refuse(r, k)
    \/ \E ended \in SUBSET working : Answer(ended)
    \/ \E r \in Readers : GiveUp(r)
    \/ \E ks \in SUBSET Keys : Publish(ks)

\* Nobody who waits waits for ever.
Fairness == \A r \in Readers : WF_vars(GiveUp(r))

Spec == Init /\ [][Next]_vars /\ Fairness
=============================================================================
