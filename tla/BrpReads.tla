------------------------------ MODULE BrpReads ------------------------------
(***************************************************************************)
(* How the page reads a published .brp: the head by a probe, everything    *)
(* else where the meta's layout puts it, each piece by a Range request, by *)
(* way of caches of ranges that tabs share and evict from each other, on   *)
(* servers that honour a range, ignore it or fail.  A file is a sequence   *)
(* of cells: one of magic and version, then for each section one of its    *)
(* tag and length and those of its payload.                                *)
(***************************************************************************)
EXTENDS Integers, Sequences, FiniteSets, SequencesExt

CONSTANTS
    Files,          \* file -> [ver, sections: the lengths by tag in file order, chunks: ranges of F]
    Older,          \* published before the .brp was
    Tabs,
    BRP_PROBE, RANGE_CACHE_KEEP,
    MaxOpens        \* bound: replays opened, over all tabs

VARIABLES
    server,         \* loopback: a dev simulator; filled: how often its bucket has been refilled
    disk,           \* order (localStorage), caches ({[name, id, entries]}) and ids given out
    tabs,           \* tab -> handles (file -> its cache as this page knows it) and whole (brpWhole)
    loads           \* the replays opened: what each still reads, and what it has read

readVars == <<server, disk, tabs, loads>>

Names == DOMAIN Files
-----------------------------------------------------------------------------
(* A file, and the index into it.                                          *)

Payload(f, s) == [k \in 1..s.len |-> [tag |-> s.tag, cell |-> k, of |-> f, filled |-> server.filled]]
Cells(f) ==
    FoldLeft(LAMBDA out, s : out \o <<[tag |-> s.tag, cell |-> 0, len |-> s.len]>> \o Payload(f, s),
             <<[ver |-> Files[f].ver]>>, Files[f].sections)
Slice(u8, off, len) == SubSeq(u8, off + 1, IF off + len < Len(u8) THEN off + len ELSE Len(u8))

\* The codec version's range, the meta first, and where it ends.
brpMetaExtent(u8) ==
    IF Len(u8) < 2 \/ u8[1].ver \notin {5, 6} \/ u8[2].tag # "M" THEN {} ELSE {2 + u8[2].len}

\* Sections by tag, wherever the layout says.
brpLayout(sections, mEnd) ==
    FoldLeft(LAMBDA a, s : [off |-> a.off + 1 + s.len, at |-> (s.tag :> [off |-> a.off + 1, len |-> s.len]) @@ a.at],
             [off |-> mEnd, at |-> <<>>], sections).at

\* One read: a span of the file, and the part of it each thing wanted is: <<tag, 0>> for a
\* section, <<"F", i>> for a chunk.
Read(parts) ==
    LET lo == Min({parts[t].off : t \in DOMAIN parts})
        hi == Max({parts[t].off + parts[t].len : t \in DOMAIN parts})
    IN [off |-> lo, len |-> hi - lo, parts |-> [t \in DOMAIN parts |-> [parts[t] EXCEPT !.off = @ - lo]]]
Probe == [off |-> 0, len |-> BRP_PROBE, parts |-> <<>>]

\* brpSections: sections that sit side by side come in one read.
brpSections(at, tags) ==
    LET want == SetToSortSeq(tags \cap DOMAIN at, LAMBDA s, t : at[s].off < at[t].off)
        Follows(t, span) == \E s \in DOMAIN span : at[t].off = span[s].off + span[s].len + 1
        Next(spans, t) ==
            IF spans # <<>> /\ Follows(t, Last(spans))
            THEN Front(spans) \o <<(<<t, 0>> :> at[t]) @@ Last(spans)>> ELSE Append(spans, <<t, 0>> :> at[t])
        spans == FoldLeft(Next, <<>>, want)
    IN [i \in DOMAIN spans |-> Read(spans[i])]

\* What is read once the meta is known: events and comms in one span, then the keyframes,
\* the chunks, the economy and the effects (headFromBrp's offsets).
Rest(f, mEnd) ==
    LET at == brpLayout(Tail(Files[f].sections), mEnd)
        One(tags) == IF tags \cap DOMAIN at = {} THEN <<>> ELSE <<Read([p \in (tags \cap DOMAIN at) \X {0} |-> at[p[1]]])>>
        chunks == [i \in DOMAIN Files[f].chunks |->
                      Read(<<"F", i>> :> [Files[f].chunks[i] EXCEPT !.off = @ + at["F"].off])]
    IN One({"E", "C"}) \o One({"K"}) \o chunks \o One({"X"}) \o brpSections(at, {"G", "R", "W"})
-----------------------------------------------------------------------------
(* rangeCacheFor: one cache per file, the most recently opened kept.       *)

\* A dev simulator's bucket is wiped and refilled: nothing of it may be kept.
rangeCacheable == ~server.loopback

\* In turn: the order in localStorage, the caches that fell off it, the cache itself, which
\* may turn out not to open.
CacheAsked(t, f) ==
    LET kept == SelectSeq(disk.order, LAMBDA n : n # f) \o <<f>>
        order == SubSeq(kept, Len(kept) - Min({Len(kept), RANGE_CACHE_KEEP}) + 1, Len(kept))
    IN /\ tabs[t].handles[f].at = "none"
       /\ \E l \in DOMAIN loads : loads[l].tab = t /\ loads[l].file = f /\ loads[l].at = "cache"
       /\ disk' = IF rangeCacheable THEN [disk EXCEPT !.order = order] ELSE disk
       /\ tabs' = [tabs EXCEPT ![t].handles[f] =
                      IF rangeCacheable THEN [at |-> "evicting", keep |-> Range(order)] ELSE [at |-> "ready", ids |-> {}]]
       /\ UNCHANGED <<server, loads>>
CachesEvicted(t, f) ==
    /\ tabs[t].handles[f].at = "evicting"
    /\ disk' = [disk EXCEPT !.caches = {c \in @ : c.name \in tabs[t].handles[f].keep}]
    /\ tabs' = [tabs EXCEPT ![t].handles[f] = [at |-> "opening"]]
    /\ UNCHANGED <<server, loads>>
CacheOpens(t, f) ==
    LET there == {c \in disk.caches : c.name = f}
        made == IF there = {} THEN {[name |-> f, id |-> disk.ids + 1, entries |-> {}]} ELSE there
    IN /\ tabs[t].handles[f].at = "opening"
       /\ \/ /\ disk' = [disk EXCEPT !.caches = @ \cup made, !.ids = IF there = {} THEN @ + 1 ELSE @]
             /\ tabs' = [tabs EXCEPT ![t].handles[f] = [at |-> "ready", ids |-> {c.id : c \in made}]]
          \/ /\ tabs' = [tabs EXCEPT ![t].handles[f] = [at |-> "ready", ids |-> {}]]
             /\ UNCHANGED disk
       /\ UNCHANGED <<server, loads>>
-----------------------------------------------------------------------------
(* Reads.                                                                  *)

\* What has come of a read: kept part by part, and the next one is begun (or none is left).
Took(l, u8) ==
    LET read == Head(l.todo)
    IN [l EXCEPT !.todo = Tail(@), !.at = IF Len(l.todo) = 1 THEN "done" ELSE "begin",
                 !.got = [t \in DOMAIN read.parts |-> Slice(u8, read.parts[t].off, read.parts[t].len)] @@ @]

\* The probe is in: the meta out of it or by a read of its own, then the rest.
Headed(l, head) ==
    IF brpMetaExtent(head) = {} THEN [l EXCEPT !.at = "failed"]
    ELSE LET mEnd == CHOOSE n \in brpMetaExtent(head) : TRUE
             meta == Read(<<"M", 0>> :> [off |-> 2, len |-> mEnd - 2])
         IN [l EXCEPT !.head = head, !.at = "begin", !.todo = <<meta>> \o Rest(l.file, mEnd)]

\* Mutant: whatever the server sent is taken for the range.
RangedAnyway(status, body, read) == body

\* brpRange: of a 200, which is the whole file, the range asked for.
Ranged(status, body, read) == IF status = 200 THEN Slice(body, read.off, read.len) ELSE body

\* The response is in.  A whole file is kept for the reads to come; so is a probe that
\* reached the end of the file.
Answered(n, status, body) ==
    LET l == loads[n]
        probe == Head(l.todo) = Probe
        keeps == status = 200 \/ (probe /\ Len(body) < BRP_PROBE)
        next == IF probe THEN Headed(l, body) ELSE Took(l, Ranged(status, body, Head(l.todo)))
    IN /\ loads' = [loads EXCEPT ![n] = next]
       /\ tabs' = IF keeps THEN [tabs EXCEPT ![l.tab].whole = {[file |-> l.file, u8 |-> body]}] ELSE tabs

\* A read begins: out of the head (brpSpan), out of the whole file, or by its range.
Begins(n) ==
    LET l == loads[n]
        read == Head(l.todo)
        whole == {w \in tabs[l.tab].whole : w.file = l.file}
        ofHead == DOMAIN read.parts \subseteq {"M", "E", "C"} \X {0} /\ read.off + read.len <= Len(l.head)
    IN /\ l.at = "begin"
       /\ loads' = [loads EXCEPT ![n] =
              IF read = Probe THEN [l EXCEPT !.at = "cache"]
              ELSE IF ofHead THEN Took(l, Slice(l.head, read.off, read.len))
              ELSE IF read.len = 0 THEN Took(l, <<>>)
              ELSE IF whole # {} THEN Took(l, Slice((CHOOSE w \in whole : TRUE).u8, read.off, read.len))
              ELSE [l EXCEPT !.at = "cache"]]
       /\ UNCHANGED <<server, disk, tabs>>

\* rangeFetch, once the cache is there: an entry of this very range, or the network.
CacheAnswers(n) ==
    LET l == loads[n]
        read == Head(l.todo)
        handle == tabs[l.tab].handles[l.file]
        hits == {e \in UNION {c.entries : c \in {c \in disk.caches : c.id \in handle.ids}} : e.off = read.off /\ e.len = read.len}
    IN /\ l.at = "cache" /\ handle.at = "ready"
       /\ IF hits # {} THEN Answered(n, 206, (CHOOSE e \in hits : TRUE).body)
          ELSE loads' = [loads EXCEPT ![n].at = "network"] /\ UNCHANGED tabs
       /\ UNCHANGED <<server, disk>>

\* The server answers: the range, clamped to the file, or all of it.  A range is kept too,
\* in a cache that another tab may have evicted meanwhile.  (A put that fails leaves a miss
\* behind, as a cache that does not open does.)
Stored(ids, read, body) ==
    LET entry == [off |-> read.off, len |-> read.len, body |-> body]
    IN {IF c.id \in ids THEN [c EXCEPT !.entries = @ \cup {entry}] ELSE c : c \in disk.caches}
Served(n, status) ==
    LET l == loads[n]
        read == Head(l.todo)
        body == IF status = 206 THEN Slice(Cells(l.file), read.off, read.len) ELSE Cells(l.file)
    IN /\ l.at = "network" /\ l.file \notin Older
       /\ Answered(n, status, body)
       /\ disk' = IF status = 206 THEN [disk EXCEPT !.caches = Stored(tabs[l.tab].handles[l.file].ids, read, body)] ELSE disk
       /\ UNCHANGED server
\* It has no .brp (null: an older bundle), refuses, or is cut off on the way.
NotServed(n) ==
    /\ loads[n].at = "network"
    /\ loads' = [loads EXCEPT ![n].at = IF loads[n].file \in Older THEN "older" ELSE "failed"]
    /\ UNCHANGED <<server, disk, tabs>>

\* loadReplay, over whatever the tab still reads for the replay before.
Opens(t, f) ==
    /\ Len(loads) < MaxOpens
    /\ loads' = Append(loads, [tab |-> t, file |-> f, at |-> "begin", head |-> <<>>, todo |-> <<Probe>>, got |-> <<>>])
    /\ tabs' = [tabs EXCEPT ![t].whole = {}]
    /\ UNCHANGED <<server, disk>>
\* A reload, or another visit: the page starts from nothing, with the disk as it is.
Reloads(t) ==
    /\ \A n \in DOMAIN loads : loads[n].tab = t => loads[n].at \in {"done", "failed", "older"}
    /\ tabs[t].handles # [f \in Names |-> [at |-> "none"]]
    /\ tabs' = [tabs EXCEPT ![t] = [handles |-> [f \in Names |-> [at |-> "none"]], whole |-> {}]]
    /\ UNCHANGED <<server, disk, loads>>
\* External: the simulator's bucket is wiped and filled anew, between two visits.
Refills ==
    /\ server.loopback /\ server.filled = 0 /\ loads # <<>>
    /\ \A t \in Tabs : tabs[t] = [handles |-> [f \in Names |-> [at |-> "none"]], whole |-> {}]
    /\ server' = [server EXCEPT !.filled = 1]
    /\ loads' = [l \in DOMAIN loads |-> [loads[l] EXCEPT !.got = <<>>, !.at = "failed"]]
    /\ UNCHANGED <<disk, tabs>>

ReadsInit ==
    /\ server \in [loopback : BOOLEAN, filled : {0}]
    /\ disk = [order |-> <<>>, caches |-> {}, ids |-> 0]
    /\ tabs = [t \in Tabs |-> [handles |-> [f \in Names |-> [at |-> "none"]], whole |-> {}]]
    /\ loads = <<>>

ReadsNext ==
    \/ \E t \in Tabs, f \in Names : Opens(t, f) \/ CacheAsked(t, f) \/ CachesEvicted(t, f) \/ CacheOpens(t, f)
    \/ \E n \in DOMAIN loads : Begins(n) \/ CacheAnswers(n) \/ NotServed(n)
    \/ \E n \in DOMAIN loads, status \in {200, 206} : Served(n, status)
    \/ \E t \in Tabs : Reloads(t)
    \/ Refills
-----------------------------------------------------------------------------
(* Properties.                                                             *)

\* The payload of f's section, as the file holds it.
Section(f, tag) == SelectSeq(Cells(f), LAMBDA c : "tag" \in DOMAIN c /\ c.tag = tag /\ c.cell # 0)
Wanted == {"M", "E", "C", "K", "X", "G", "R", "W"}

\* Whichever of its reads came out of the probe, a whole file, a cache another tab has
\* evicted or the network, and whatever an earlier load left behind: a part is that part of
\* the file that was opened, a load that is done has all of them, and what the caches hold
\* is exactly the range it is filed under (loadBrpHead, brpRange, brpSections, rangeFetch).
PartsAreOwn ==
    /\ \A n \in DOMAIN loads :
          LET l == loads[n]
          IN /\ \A tag \in Wanted : <<tag, 0>> \in DOMAIN l.got => l.got[<<tag, 0>>] = Section(l.file, tag)
             /\ \A i \in {i \in DOMAIN Files[l.file].chunks : <<"F", i>> \in DOMAIN l.got} :
                   LET c == Files[l.file].chunks[i]
                   IN l.got[<<"F", i>>] = SubSeq(Section(l.file, "F"), c.off + 1, c.off + c.len)
             /\ l.at = "done" => /\ \A s \in Range(Files[l.file].sections) : s.tag \in Wanted => <<s.tag, 0>> \in DOMAIN l.got
                                 /\ \A i \in DOMAIN Files[l.file].chunks : <<"F", i>> \in DOMAIN l.got
    /\ \A c \in disk.caches : \A e \in c.entries : e.body = Slice(Cells(c.name), e.off, e.len)
=============================================================================
