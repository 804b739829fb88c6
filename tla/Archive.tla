------------------------------ MODULE Archive -------------------------------
(***************************************************************************)
(* The worker's doors to the bucket: drag&drop uploads archived beside one *)
(* another (POST /api/upload), published pieces written and claimed        *)
(* (PUT /replays/...), and the reads of both, whole or by range, by the    *)
(* deployed worker and by a development server that reads production       *)
(* through the read-only proxy (readonly.ts).                              *)
(* A path is a sequence of segments; a segment has a name and an extension *)
(* ("none": no dot in it).  Game ids are taken in small letters.           *)
(***************************************************************************)
EXTENDS Integers, Sequences, FiniteSets, SequencesExt

CONSTANTS
    Captures,       \* what people drop: streams and .brp files, whole or not
    Published,      \* keys a publisher writes
    MaxCalls, MaxInstant    \* bounds: uploads and writes, the clock

VARIABLES
    store,          \* the bucket: {[key, bytes]}
    started,        \* games whose start the mirror knows, with their month
    ups,            \* uploads on their way: the last thing they awaited
    queued,         \* the upload jobs made: {[key, capture]}
    writes,         \* PUTs on their way, and the claims granted
    instant             \* Date.now(), as the requests of one moment see it

archiveVars == <<store, started, ups, queued, writes, instant>>

Seg(name, ext) == [name |-> <<name>>, ext |-> ext]
Bytes(id) == <<<<id, 1>>, <<id, 2>>, <<id, 3>>>>
Put(key, bytes) == {o \in store : o.key # key} \cup {[key |-> key, bytes |-> bytes]}
Holds(key) == \E o \in store : o.key = key

\* monthFolder of a moment, and isReplayFolder.
monthFolder(at) == IF at < 2 THEN "2026-09" ELSE "2026-10"
isReplayFolder(seg) == seg.ext = "none" /\ seg.name[1] \in {"2026-09", "2026-10", "undated"}

\* No two captures hash alike; a published piece has an extension, or is a legacy chunk, in the
\* folder of its game and not of a month.
ASSUME ArchiveAssumption ==
    /\ \A c, d \in Captures : c.id = d.id => c = d
    /\ \A c \in Captures : c.brp \in BOOLEAN
    /\ \A k \in Published : /\ k[1] = Seg("replays", "none")
                            /\ k[Len(k)].ext # "none" \/ (Len(k) = 3 /\ ~isReplayFolder(k[2]))
    /\ MaxCalls \in Nat /\ MaxInstant \in Nat
-----------------------------------------------------------------------------
(* POST /api/upload.                                                       *)

FirstOf(recs) == IF recs = <<>> THEN {} ELSE {recs[1]}

\* The preamble up to READY: the first GID counts, and of the GAME records the first that
\* says which side, the first that says whether the recorder watched.
scanStreamPreamble(c) ==
    LET ends == {k \in DOMAIN c.lines : c.lines[k].rec = "READY"}
        preamble == SelectSeq(SubSeq(c.lines, 1, IF ends = {} THEN Len(c.lines) ELSE CHOOSE k \in ends : \A l \in ends : k <= l),
                              LAMBDA l : l.rec \in {"GID", "GAME"})
        gid == FirstOf(SelectSeq(preamble, LAMBDA l : l.rec = "GID"))
        side == FirstOf(SelectSeq(preamble, LAMBDA l : l.rec = "GAME" /\ l.allyTeam # {}))
        watched == FirstOf(SelectSeq(preamble, LAMBDA l : l.rec = "GAME" /\ l.spectator # {}))
    IN IF ~c.header THEN {}
       ELSE {[gameId |-> l.gameId, allyTeam |-> UNION {s.allyTeam : s \in side}, spectator |-> UNION {s.spectator : s \in watched}]
             : l \in {l \in gid : l.gameId # "malformed"}}

\* The container, its version and its meta; a recorder without the flag played.
scanBrpHead(c) ==
    IF c.flaws # {} THEN {}
    ELSE {[gameId |-> c.gameId, allyTeam |-> UNION {r.allyTeam : r \in c.recorder},
           spectator |-> {r.spectator = {TRUE} : r \in c.recorder}]}

scanned(c) == IF c.brp THEN scanBrpHead(c) ELSE scanStreamPreamble(c)

archiveSuffix(p) ==
    IF p.spectator = {TRUE} THEN <<"spec">>
    ELSE IF p.allyTeam # {} THEN <<"a", CHOOSE n \in p.allyTeam : TRUE>> ELSE <<"unk">>

\* The moment, a hash of the bytes, and whose view it is.
streamKey(c, p, month) ==
    <<Seg("streams", "none"), Seg(month, "none"), Seg(p.gameId, "none"),
      [name |-> <<instant, c.id, archiveSuffix(p)>>, ext |-> IF c.brp THEN "brp" ELSE "brepstream"]>>

\* A body arrives; one that scans awaits gameStartUnix.
UploadArrives(c) ==
    /\ Len(ups) + writes.spent < MaxCalls
    /\ scanned(c) # {}
    /\ ups' = Append(ups, [capture |-> c, at |-> "gameStartUnix", key |-> <<>>])
    /\ UNCHANGED <<store, started, queued, writes, instant>>

\* The month is the game's, or today's if the mirror does not know it; then the put.
StartAnswers(u) ==
    /\ ups[u].at = "gameStartUnix"
    /\ \E p \in scanned(ups[u].capture) :
           LET known == {s.month : s \in {s \in started : s.gameId = p.gameId}}
               month == IF known = {} THEN monthFolder(instant) ELSE CHOOSE m \in known : TRUE
           IN ups' = [ups EXCEPT ![u].key = streamKey(ups[u].capture, p, month), ![u].at = "put"]
    /\ UNCHANGED <<store, started, queued, writes, instant>>

\* The bytes are in; the job is made by one more call, which may never be answered.
PutLands(u) ==
    /\ ups[u].at = "put"
    /\ store' = Put(ups[u].key, Bytes(ups[u].capture.id))
    /\ ups' = [ups EXCEPT ![u].at = "jobInsert"]
    /\ UNCHANGED <<started, queued, writes, instant>>
JobMade(u) ==
    /\ ups[u].at = "jobInsert"
    /\ queued' = queued \cup {[key |-> ups[u].key, capture |-> ups[u].capture]}
    /\ ups' = [ups EXCEPT ![u].at = "answered"]
    /\ UNCHANGED <<store, started, writes, instant>>
UploadDies(u) ==
    /\ ups[u].at # "answered"
    /\ ups' = [ups EXCEPT ![u].at = "answered"]
    /\ UNCHANGED <<store, started, queued, writes, instant>>

\* The mirror learns when a game started, after some of its uploads perhaps.
MirrorLearns(g) ==
    /\ \A s \in started : s.gameId # g
    /\ started' = started \cup {[gameId |-> g, month |-> monthFolder(0)]}
    /\ UNCHANGED <<store, ups, queued, writes, instant>>

InstantPasses == instant < MaxInstant /\ instant' = instant + 1 /\ UNCHANGED <<store, started, ups, queued, writes>>
-----------------------------------------------------------------------------
(* PUT /replays/...                                                        *)

\* If-None-Match: * asks first; R2 asks again at the write.
WriteArrives(key, ifAbsent) ==
    /\ Len(ups) + writes.spent < MaxCalls
    /\ writes' = [writes EXCEPT !.spent = @ + 1,
                                !.out = IF ifAbsent /\ Holds(key) THEN @
                                        ELSE @ \cup {[key |-> key, ifAbsent |-> ifAbsent, id |-> writes.spent + 1]}]
    /\ UNCHANGED <<store, started, ups, queued, instant>>

WriteLands(w) ==
    /\ LET granted == ~(w.ifAbsent /\ Holds(w.key))
       IN /\ store' = IF granted THEN Put(w.key, Bytes(w.id)) ELSE store
          /\ writes' = [writes EXCEPT !.out = @ \ {w},
                                      !.last = IF granted THEN {l \in @ : l.key # w.key} \cup {w} ELSE @,
                                      !.claims = IF granted /\ w.ifAbsent THEN @ \cup {w} ELSE @]
    /\ UNCHANGED <<started, ups, queued, instant>>
-----------------------------------------------------------------------------
(* Reads.                                                                  *)

\* One range from a first byte on; every other form reads the whole.
parseRange(h) ==
    CASE h.form = "from" -> {[offset |-> h.first]}
      [] h.form = "fromTo" /\ h.last >= h.first -> {[offset |-> h.first, length |-> h.last - h.first + 1]}
      [] OTHER -> {}

\* External: R2 clamps a range to the object and throws on one that starts past it.
R2Get(key, range) ==
    LET found == {o \in store : o.key = key}
        Size(o) == Len(o.bytes)
        Length(o, r) == IF "length" \in DOMAIN r /\ r.offset + r.length < Size(o) THEN r.length ELSE Size(o) - r.offset
    IN CASE found = {} -> [kind |-> "null"]
         [] \E o \in found, r \in range : r.offset >= Size(o) -> [kind |-> "threw"]
         [] OTHER ->
                LET o == CHOOSE o \in found : TRUE
                IN [kind |-> "object", size |-> Size(o),
                    range |-> {[offset |-> r.offset, length |-> Length(o, r)] : r \in range},
                    body |-> IF range = {} THEN o.bytes
                             ELSE LET r == CHOOSE r \in range : TRUE IN SubSeq(o.bytes, r.offset + 1, r.offset + Length(o, r))]

\* Mutant: the end of a range is lost on the wire.
RangeFrom(range) == {[offset |-> r.offset] : r \in range}

\* The proxy keeps the shapes of range the worker asks for.
rangeOf(range) == {IF "length" \in DOMAIN r THEN [offset |-> r.offset, length |-> r.length] ELSE [offset |-> r.offset] : r \in range}

\* env.BUCKET.get of the deployed worker, and of readOnlyBucket.
BucketGet(where, key, range) == IF where = "prod" THEN R2Get(key, rangeOf(range)) ELSE R2Get(key, range)

serveR2(where, key, req) ==
    LET parsed == parseRange(req.range)
        obj == BucketGet(where, key, parsed)
    IN CASE obj.kind = "null" -> [status |-> 404]
         [] obj.kind = "threw" -> [status |-> 500]
         [] obj.kind = "object" /\ req.method = "HEAD" -> [status |-> 200, length |-> obj.size, body |-> <<>>]
         [] obj.kind = "object" /\ req.method = "GET" /\ parsed # {} ->
                LET r == CHOOSE r \in obj.range : TRUE
                IN [status |-> 206, length |-> r.length, start |-> r.offset, of |-> obj.size, body |-> obj.body]
         [] OTHER -> [status |-> 200, length |-> obj.size, body |-> obj.body]

\* A path without a dot is a page: one segment, or one in a month's folder.
serveEntry == [status |-> 200, body |-> "page"]
Replays(where, path, req) ==
    IF \/ Len(path) = 2 /\ path[2].ext = "none"
       \/ Len(path) = 3 /\ isReplayFolder(path[2]) /\ path[3].ext = "none"
    THEN serveEntry ELSE serveR2(where, path, req)

\* /api/streams/<game>/<file>, and since month folders /api/streams/<month>/<game>/<file>.
Streams(where, path, req) ==
    IF Len(path) = 4 /\ ~isReplayFolder(path[2]) THEN [status |-> 404] ELSE serveR2(where, path, req)

\* The ReplayIndex methods behind each route, and those the proxy will call.
Routes ==
    [list |-> {"list"}, maps |-> {"mapNames"}, games |-> {"gamesPage"}, gamesById |-> {"gamesByIds"},
     job |-> {"jobGet"}, samples |-> {"jobSamples"}, queue |-> {"queuePage"}, installQueue |-> {"jobsByInstall"},
     sqlstats |-> {"sqlStatsReport"}, misses |-> {"lobbyMisses"},
     backfill |-> {"gamesUnknown", "gamesInsert"}, poll |-> {"jobsOffer"}, claim |-> {"jobClaim"},
     report |-> {"jobUpdate"}, view |-> {"setView"}, register |-> {"upsert"}, hold |-> {"jobSetDisabled"},
     upload |-> {"gameStartUnix", "put", "jobInsert"}, request |-> {"resimRequest"}, retry |-> {"jobRetry"}]
READ_METHODS ==
    {"list", "mapNames", "gameStartUnix", "gamesPage", "gamesByIds", "gamesUnknown", "jobGet", "jobSamples",
     "queuePage", "sqlStatsReport", "lobbyMisses"}
Refused(where, route) == where = "prod" /\ ~(Routes[route] \subseteq READ_METHODS)

ArchiveInit ==
    /\ store \in SUBSET {[key |-> <<Seg("streams", "none"), Seg("g1", "none"), Seg("old", "brepstream")>>, bytes |-> Bytes(0)]}
    /\ started = {} /\ ups = <<>> /\ queued = {} /\ instant = 0
    /\ writes = [out |-> {}, last |-> {}, claims |-> {}, spent |-> 0]

ArchiveNext ==
    \/ \E c \in Captures : UploadArrives(c)
    \/ \E u \in DOMAIN ups : StartAnswers(u) \/ PutLands(u) \/ JobMade(u) \/ UploadDies(u)
    \/ \E c \in Captures : \E p \in scanned(c) : MirrorLearns(p.gameId)
    \/ InstantPasses
    \/ \E key \in Published, ifAbsent \in BOOLEAN : WriteArrives(key, ifAbsent)
    \/ \E w \in writes.out : WriteLands(w)

ArchiveSpec == ArchiveInit /\ [][ArchiveNext]_archiveVars
-----------------------------------------------------------------------------
(* Properties.                                                             *)

Whole == [method |-> "GET", range |-> [form |-> "none"]]

\* However uploads of one game cross, a job's archive holds the bytes that came with it,
\* for good, at the address the daemon fetches it from; and the name says what it is and
\* whose view: the game it is filed under, and packed or not.
ArchivedIsOwn ==
    \A j \in queued :
        /\ Streams("deployed", j.key, Whole) = [status |-> 200, length |-> 3, body |-> Bytes(j.capture.id)]
        /\ \E p \in scanned(j.capture) : j.key[3] = Seg(p.gameId, "none") /\ j.key[4].name[3] = archiveSuffix(p)
        /\ j.key[4].ext = "brp" <=> j.capture.brp

Ranges ==
    {[form |-> "none"], [form |-> "suffix"]}
    \cup [form : {"from"}, first : {0, 1, 3}] \cup [form : {"fromTo"}, first : {0, 2, 3}, last : {1, 2, 9}]

\* However uploads and pieces cross: an upload is archived as its own, and
\* every published key is read back at its own address and never taken for a page: the
\* last granted write's bytes, all of them or exactly those of the range the answer names;
\* a claim granted once is not granted again; and a development server on production's
\* data answers what production would, or refuses (all that writes; of the reads only an
\* install's queue, whose method is not on the proxy's list).
ReadAsWritten ==
    /\ ArchivedIsOwn
    /\ \A w \in writes.last, h \in Ranges, method \in {"GET", "HEAD"} :
           LET req == [method |-> method, range |-> h]
               a == Replays("deployed", w.key, req)
               all == Bytes(w.id)
           IN /\ Replays("prod", w.key, req) = a
              /\ a.status \in {200, 206} /\ method = "GET" => Len(a.body) = a.length
              /\ a.status = 200 /\ method = "GET" => a.body = all
              /\ a.status = 206 => /\ a.start = h.first /\ a.body = SubSeq(all, a.start + 1, a.start + a.length)
                                   /\ h.form = "fromTo" /\ h.last < 3 => a.length = h.last - h.first + 1
              /\ a.status = 500 => h.first >= Len(all)
    /\ \A v, w \in writes.claims : v.key = w.key => v = w
    /\ \A route \in DOMAIN Routes :
           Refused("prod", route) <=>
               route = "installQueue" \/ Routes[route] \cap {"gamesInsert", "jobsOffer", "jobClaim", "jobUpdate", "setView",
                   "upsert", "jobSetDisabled", "put", "jobInsert", "resimRequest", "jobRetry"} # {}
=============================================================================
