--------------------------- MODULE LobbySyncProofs ---------------------------
(***************************************************************************)
(* A roster names a game of its own lobby only, and a game that was looked *)
(* at once is settled: for any lobbies, maps, windows, overlapping syncs   *)
(* and faults.                                                             *)
(***************************************************************************)
EXTENDS LobbySync, SequenceTheorems, FiniteSetTheorems, FunctionTheorems, WellFoundedInduction, TLAPS

-----------------------------------------------------------------------------
(* The greedy choice. *)

\* A set of naturals that is not empty has a least element.
LEMMA Least ==
    ASSUME NEW T \in SUBSET Nat, T # {}
    PROVE  \E x \in T : \A y \in T : x <= y
<1>1. PICK R : R = OpToRel(<, Nat)
  OBVIOUS
<1>2. PICK x \in T : \A y \in T : ~ (<<y, x>> \in R)
  BY <1>1, NatLessThanWellFounded, WFMin
<1>3. \A y \in T : ~ (y < x)
  BY <1>1, <1>2 DEF OpToRel
<1> QED
  BY <1>3

\* How many of C come before c in R.
Rank(R, C, c) == Cardinality({b \in C : <<b, c>> \in R})

\* Those of C, up to rank n, that nobody taken before them and at odds with them excludes.
Chosen(R, K, C, n, T) ==
    /\ T \subseteq {c \in C : Rank(R, C, c) < n}
    /\ \A c \in C : Rank(R, C, c) < n => (c \in T <=> ~\E b \in T : <<b, c>> \in R /\ <<b, c>> \in K)

\* In a finite set with a strict order, ranks are below the size and grow with the order.
LEMMA Ranks ==
    ASSUME NEW C, IsFiniteSet(C), NEW R,
           \A a \in C : <<a, a>> \notin R,
           \A a, b, c \in C : <<a, b>> \in R /\ <<b, c>> \in R => <<a, c>> \in R
    PROVE  \A c \in C : /\ Rank(R, C, c) \in Nat /\ Rank(R, C, c) < Cardinality(C)
                        /\ \A b \in C : <<b, c>> \in R => Rank(R, C, b) < Rank(R, C, c)
<1> SUFFICES ASSUME NEW c \in C
             PROVE  /\ Rank(R, C, c) \in Nat /\ Rank(R, C, c) < Cardinality(C)
                    /\ \A b \in C : <<b, c>> \in R => Rank(R, C, b) < Rank(R, C, c)
  OBVIOUS
<1> DEFINE Below(a) == {x \in C : <<x, a>> \in R}
<1>1. \A A \in SUBSET C : IsFiniteSet(A) /\ Cardinality(A) \in Nat /\ Cardinality(A) <= Cardinality(C)
  BY FS_Subset, FS_CardinalityType
<1>2. \A A, B \in SUBSET C : B \subseteq A /\ A # B => Cardinality(B) < Cardinality(A)
  BY <1>1, FS_Subset, FS_CardinalityType
<1>3. Below(c) \in SUBSET C /\ c \notin Below(c)
  OBVIOUS
<1>4. Cardinality(Below(c)) < Cardinality(C) /\ Cardinality(Below(c)) \in Nat
  BY <1>1, <1>2, <1>3
<1>5. ASSUME NEW b \in C, <<b, c>> \in R
      PROVE  Cardinality(Below(b)) < Cardinality(Below(c))
  <2>1. Below(b) \in SUBSET C /\ Below(b) \subseteq Below(c) /\ b \in Below(c) /\ b \notin Below(b)
    BY <1>5
  <2> HIDE DEF Below
  <2> QED
    BY <1>2, <1>3, <2>1
<1> QED
  BY <1>4, <1>5 DEF Rank

\* So there is a set that takes whatever is not beaten by what it takes: the greedy choice.
LEMMA Greedy ==
    ASSUME NEW C, IsFiniteSet(C), NEW R, NEW K,
           \A a \in C : <<a, a>> \notin R,
           \A a, b, c \in C : <<a, b>> \in R /\ <<b, c>> \in R => <<a, c>> \in R
    PROVE  \E T \in SUBSET C : \A c \in C : c \in T <=> ~\E b \in T : <<b, c>> \in R /\ <<b, c>> \in K
<1> DEFINE rank(c) == Rank(R, C, c)
           none == {n \in Nat : ~\E T \in SUBSET C : Chosen(R, K, C, n, T)}
<1>1. \A c \in C : rank(c) \in Nat /\ rank(c) < Cardinality(C) /\ \A b \in C : <<b, c>> \in R => rank(b) < rank(c)
  BY Ranks
<1>2. Cardinality(C) \in Nat
  BY FS_CardinalityType
<1>3. none = {}
  <2> SUFFICES ASSUME none # {} PROVE FALSE
    OBVIOUS
  <2>1. PICK n \in none : \A m \in none : n <= m
    BY Least
  <2>2. n # 0
    <3>1. Chosen(R, K, C, 0, {})
      BY <1>1 DEF Chosen
    <3> QED
      BY <3>1
  <2>3. n - 1 \in Nat /\ n - 1 \notin none
    BY <2>1, <2>2
  <2>4. PICK T \in SUBSET C : Chosen(R, K, C, n - 1, T)
    BY <2>3
  <2> DEFINE Beats(b, c) == <<b, c>> \in R /\ <<b, c>> \in K
             U == T \cup {c \in C : rank(c) = n - 1 /\ ~\E b \in T : Beats(b, c)}
  <2>5. \A b \in U, c \in C : rank(c) < n /\ Beats(b, c) => b \in T
    BY <1>1, <2>1, <2>4 DEF Chosen
  <2>6. \A c \in C : rank(c) < n => (c \in U <=> ~\E b \in T : Beats(b, c))
    <3> SUFFICES ASSUME NEW c \in C, rank(c) < n
                 PROVE  c \in U <=> ~\E b \in T : Beats(b, c)
      OBVIOUS
    <3>1. CASE rank(c) = n - 1
      BY <1>1, <2>4, <3>1 DEF Chosen
    <3>2. CASE rank(c) < n - 1
      BY <1>1, <2>4, <3>2 DEF Chosen
    <3>3. rank(c) \in Nat /\ n \in Nat
      BY <1>1, <2>1
    <3> HIDE DEF rank, U, Beats
    <3> QED
      BY <3>1, <3>2, <3>3
  <2>7. U \in SUBSET C /\ U \subseteq {c \in C : rank(c) < n}
    BY <1>1, <2>1, <2>4 DEF Chosen
  <2>8. \A c \in C : rank(c) < n => (c \in U <=> ~\E b \in U : Beats(b, c))
    <3> HIDE DEF U, Beats, rank
    <3> T \subseteq U
      BY DEF U
    <3> QED
      BY <2>5, <2>6
  <2>9. Chosen(R, K, C, n, U)
    BY <2>7, <2>8 DEF Chosen
  <2> QED
    BY <2>1, <2>7, <2>9
<1>4. PICK T \in SUBSET C : Chosen(R, K, C, Cardinality(C), T)
  BY <1>2, <1>3
<1> QED
  BY <1>1, <1>4 DEF Chosen
-----------------------------------------------------------------------------
(* Scores are fractions, and candidates are in a strict order. *)

Fraction == Nat \X (Nat \ {0})

\* Multiplying by a positive number keeps the order.
LEMMA Scales ==
    ASSUME NEW x \in Nat, NEW y \in Nat, NEW z \in Nat \ {0}
    PROVE  x < y <=> x * z < y * z
<1>1. CASE x < y
  <2>1. PICK d \in Nat \ {0} : y = x + d
    <3>1. y - x \in Nat \ {0} /\ y = x + (y - x)
      BY <1>1
    <3> QED
      BY <3>1
  <2>2. d * z > 0 /\ y * z = x * z + d * z /\ x * z \in Nat /\ d * z \in Nat
    BY <2>1
  <2> QED
    BY <1>1, <2>2
<1>2. CASE ~(x < y)
  <2>1. PICK d \in Nat : x = y + d
    <3>1. x - y \in Nat /\ x = y + (x - y)
      BY <1>2
    <3> QED
      BY <3>1
  <2>2. d * z >= 0 /\ x * z = y * z + d * z /\ y * z \in Nat /\ d * z \in Nat
    BY <2>1
  <2> QED
    BY <1>2, <2>2
<1> QED
  BY <1>1, <1>2

\* a > b and b >= c, or a >= b and b > c, make a > c, for the fractions' products.
LEMMA Crosses ==
    ASSUME NEW a \in Fraction, NEW b \in Fraction, NEW c \in Fraction
    PROVE  /\ Exceeds(a, b) /\ ~Exceeds(c, b) => Exceeds(a, c)
           /\ ~Exceeds(b, a) /\ Exceeds(b, c) => Exceeds(a, c)
           /\ ~Exceeds(b, a) /\ ~Exceeds(c, b) => ~Exceeds(c, a)
<1> DEFINE ab == a[1] * b[2]   ba == b[1] * a[2]
           bc == b[1] * c[2]   cb == c[1] * b[2]
           ac == a[1] * c[2]   ca == c[1] * a[2]
<1>1. /\ a[1] \in Nat /\ b[1] \in Nat /\ c[1] \in Nat
      /\ a[2] \in Nat \ {0} /\ b[2] \in Nat \ {0} /\ c[2] \in Nat \ {0}
  BY DEF Fraction
<1>2. /\ ab \in Nat /\ ba \in Nat /\ bc \in Nat /\ cb \in Nat /\ ac \in Nat /\ ca \in Nat
  BY <1>1
<1>3. /\ ab * c[2] = ac * b[2] /\ ba * c[2] = bc * a[2] /\ cb * a[2] = ca * b[2]
  BY <1>1
<1>4. /\ ba < ab <=> ba * c[2] < ab * c[2]
      /\ ab < ba <=> ab * c[2] < ba * c[2]
  BY <1>1, <1>2, Scales
<1>5. /\ bc < cb <=> bc * a[2] < cb * a[2]
      /\ cb < bc <=> cb * a[2] < bc * a[2]
  BY <1>1, <1>2, Scales
<1>6. /\ ca < ac <=> ca * b[2] < ac * b[2]
      /\ ac < ca <=> ac * b[2] < ca * b[2]
  BY <1>1, <1>2, Scales
<1>7. /\ Exceeds(a, b) <=> ba < ab
      /\ Exceeds(b, a) <=> ab < ba
      /\ Exceeds(b, c) <=> cb < bc
      /\ Exceeds(c, b) <=> bc < cb
      /\ Exceeds(a, c) <=> ca < ac
      /\ Exceeds(c, a) <=> ac < ca
  BY <1>1 DEF Exceeds
<1> DEFINE x == ab * c[2]   y == ba * c[2]   z == cb * a[2]
<1>8. x \in Nat /\ y \in Nat /\ z \in Nat
  BY <1>1, <1>2
<1>9. /\ ba < ab <=> y < x
      /\ ab < ba <=> x < y
      /\ bc < cb <=> y < z
      /\ cb < bc <=> z < y
      /\ ca < ac <=> z < x
      /\ ac < ca <=> x < z
  BY <1>3, <1>4, <1>5, <1>6
<1> HIDE DEF ab, ba, bc, cb, ac, ca, x, y, z
<1> QED
  BY <1>7, <1>8, <1>9

\* What exceeds is not exceeded, and half is passed on upwards.
LEMMA Halves ==
    ASSUME NEW a \in Fraction, NEW b \in Fraction
    PROVE  /\ Exceeds(a, b) => ~Exceeds(b, a)
           /\ Half(a) /\ ~Exceeds(a, b) => Half(b)
<1>1. a[1] \in Nat /\ b[1] \in Nat /\ a[2] \in Nat \ {0} /\ b[2] \in Nat \ {0}
  BY DEF Fraction
<1>2. a[1] * b[2] \in Nat /\ b[1] * a[2] \in Nat
  BY <1>1
<1>3. Exceeds(a, b) => ~Exceeds(b, a)
  BY <1>2 DEF Exceeds
<1>4. ASSUME Half(a), ~Exceeds(a, b) PROVE Half(b)
  <2>1. <<1, 2>> \in Fraction
    BY DEF Fraction
  <2>2. ~Exceeds(<<1, 2>>, a)
    BY <1>1, <1>4 DEF Half, Exceeds
  <2>3. ~Exceeds(<<1, 2>>, b)
    BY <2>1, <2>2, <1>4, Crosses
  <2> QED
    BY <1>1, <2>3 DEF Half, Exceeds
<1> QED
  BY <1>3, <1>4

\* What Before compares.
Comparable(c) ==
    /\ c.score \in Fraction /\ c.dt \in Nat /\ c.g \in Nat
    /\ c.o.lobby \in Nat /\ c.o.started \in Int

\* Before is a strict order of whatever it can compare.
LEMMA BeforeOrders ==
    ASSUME NEW a, NEW b, NEW c, Comparable(a), Comparable(b), Comparable(c)
    PROVE  /\ ~Before(a, a)
           /\ Before(a, b) /\ Before(b, c) => Before(a, c)
<1> DEFINE Later(p, q) ==
              \/ p.dt < q.dt
              \/ p.dt = q.dt /\ p.o.lobby < q.o.lobby
              \/ p.dt = q.dt /\ p.o.lobby = q.o.lobby /\ p.g < q.g
              \/ p.dt = q.dt /\ p.o.lobby = q.o.lobby /\ p.g = q.g /\ p.o.started < q.o.started
<1>1. \A p, q : Before(p, q) <=> Exceeds(p.score, q.score) \/ (~Exceeds(q.score, p.score) /\ Later(p, q))
  BY DEF Before
<1>2. ~Exceeds(a.score, a.score)
  BY Halves DEF Comparable
<1>3. ~Later(a, a) /\ (Later(a, b) /\ Later(b, c) => Later(a, c))
  BY DEF Comparable
<1>4. /\ Exceeds(a.score, b.score) /\ ~Exceeds(c.score, b.score) => Exceeds(a.score, c.score)
      /\ ~Exceeds(b.score, a.score) /\ Exceeds(b.score, c.score) => Exceeds(a.score, c.score)
      /\ ~Exceeds(b.score, a.score) /\ ~Exceeds(c.score, b.score) => ~Exceeds(c.score, a.score)
      /\ Exceeds(b.score, c.score) => ~Exceeds(c.score, b.score)
  BY Crosses, Halves DEF Comparable
<1> HIDE DEF Later
<1> QED
  BY <1>1, <1>2, <1>3, <1>4
-----------------------------------------------------------------------------
(* What the matcher picks. *)

Observation ==
    [lobby : Lobbies, started : Int, map : Maps, players : SUBSET Nat, endMap : SUBSET Maps,
     endPlayers : SUBSET Nat, sig : Maps \X Nat, ended : BOOLEAN, matched : Nat, of : Nat, endOf : Nat]

\* What was read of a lobby is of its own players.
Own(o) == o \in Observation /\ o.players \subseteq Roster[o.lobby] /\ o.endPlayers \subseteq Roster[o.lobby]

\* What was played was played by its own lobby's.
OwnGame(g) == played[g].lobby \in Lobbies /\ played[g].players = Roster[played[g].lobby] /\ played[g].start \in Nat

\* Each roster's overlap is a fraction, and the score is the best of them.
LEMMA ScoreIsBest ==
    ASSUME LobbyAssumption, NEW o, NEW g, Own(o), OwnGame(g)
    PROVE  /\ Score(o, g) \in Fraction
           /\ \A r \in lobbyRosters(o) : /\ rosterOverlap(r, g) \in Fraction
                                         /\ ~Exceeds(rosterOverlap(r, g), Score(o, g))
                                         /\ r \subseteq Roster[o.lobby]
           /\ lobbyRosters(o) # {} => \E r \in lobbyRosters(o) : Score(o, g) = rosterOverlap(r, g)
<1> DEFINE scores == {rosterOverlap(r, g) : r \in lobbyRosters(o)}
<1>1. o.lobby \in Lobbies /\ o.players \subseteq Roster[o.lobby] /\ o.endPlayers \subseteq Roster[o.lobby]
  BY DEF Own, Observation
<1>2. \A l \in Lobbies : IsFiniteSet(Roster[l]) /\ Roster[l] # {}
  BY DEF LobbyAssumption
<1>3. \A r \in lobbyRosters(o) : r \subseteq Roster[o.lobby] /\ r # {}
  BY <1>1 DEF lobbyRosters, Unknown
<1>4. \A l \in Lobbies : \A r \in SUBSET Roster[l] :
          IsFiniteSet(r) /\ Cardinality(r) \in Nat /\ (r # {} => Cardinality(r) # 0)
  BY <1>2, FS_Subset, FS_CardinalityType, FS_EmptySet
<1>5. \A r \in lobbyRosters(o) : rosterOverlap(r, g) \in Fraction
  <2> SUFFICES ASSUME NEW r \in lobbyRosters(o) PROVE rosterOverlap(r, g) \in Fraction
    OBVIOUS
  <2>1. Cardinality(r) \in Nat \ {0} /\ Share(r, g) \in Nat
    <3>1. r \in SUBSET Roster[o.lobby] /\ r # {} /\ r \cap played[g].players \in SUBSET Roster[o.lobby]
      BY <1>3
    <3> QED
      BY <1>1, <1>4, <3>1 DEF Share
  <2>2. Cardinality(played[g].players) \in Nat \ {0}
    BY <1>2, <1>4 DEF OwnGame
  <2> QED
    BY <2>1, <2>2 DEF rosterOverlap, Smaller, Fraction
<1>6. CASE lobbyRosters(o) = {}
  <2>1. Score(o, g) = <<0, 1>>
    BY <1>6 DEF Score
  <2> QED
    BY <1>6, <2>1 DEF Fraction
<1>7. CASE lobbyRosters(o) # {}
  <2>1. \E a \in scores : \A b \in scores : ~Exceeds(b, a)
    <3>1. \A a, b \in scores : a \in Fraction /\ b \in Fraction /\ ~Exceeds(a, a) /\ (Exceeds(a, b) => ~Exceeds(b, a))
      BY <1>5, Halves
    <3>2. PICK q \in lobbyRosters(o) : TRUE
      BY <1>7
    <3>3. \A r \in lobbyRosters(o) : r = o.players \/ r = o.endPlayers
      BY DEF lobbyRosters
    <3>4. \E r \in lobbyRosters(o) : \A p \in lobbyRosters(o) : ~Exceeds(rosterOverlap(p, g), rosterOverlap(r, g))
      <4>1. CASE \E r \in lobbyRosters(o) : Exceeds(rosterOverlap(r, g), rosterOverlap(q, g))
        <5>1. PICK r \in lobbyRosters(o) : Exceeds(rosterOverlap(r, g), rosterOverlap(q, g))
          BY <4>1
        <5>2. r # q /\ \A p \in lobbyRosters(o) : p = r \/ p = q
          BY <3>1, <3>3, <5>1
        <5> QED
          BY <3>1, <5>1, <5>2
      <4> QED
        BY <3>2, <4>1
    <3> QED
      BY <3>4
  <2>2. Score(o, g) = CHOOSE a \in scores : \A b \in scores : ~Exceeds(b, a)
    BY <1>7 DEF Score
  <2>3. Score(o, g) \in scores /\ \A b \in scores : ~Exceeds(b, Score(o, g))
    <3> HIDE DEF scores
    <3> QED
      BY <2>1, <2>2
  <2> QED
    BY <1>3, <1>5, <2>3
<1> QED
  BY <1>6, <1>7

\* A roster that fits is of the game's own lobby: half of nobody's players are not shared.
LEMMA FitsOwn ==
    ASSUME LobbyAssumption, NEW o, NEW g, Own(o), OwnGame(g), Fits(o, g), lobbyRosters(o) # {}
    PROVE  o.lobby = played[g].lobby
<1>1. PICK r \in lobbyRosters(o) : Score(o, g) = rosterOverlap(r, g)
  BY ScoreIsBest
<1>2. rosterOverlap(r, g) \in Fraction /\ r \subseteq Roster[o.lobby] /\ Half(rosterOverlap(r, g))
  BY <1>1, ScoreIsBest DEF Fits
<1>3. Share(r, g) # 0
  BY <1>2 DEF rosterOverlap, Half, Fraction
<1>4. r \cap played[g].players # {}
  BY <1>3, FS_EmptySet DEF Share
<1>5. o.lobby \in Lobbies
  BY DEF Own, Observation
<1> QED
  BY <1>2, <1>4, <1>5 DEF LobbyAssumption, OwnGame

\* What is picked are candidates, and of all candidates those that nothing picked beats.
LEMMA Picked ==
    ASSUME LobbyAssumption, NEW obs, NEW games, IsFiniteSet(obs), IsFiniteSet(games), games \subseteq Nat,
           \A o \in obs : Own(o), \A g \in games : OwnGame(g)
    PROVE  LET picked == pickLobbyMatches(obs, games)
           IN /\ picked \subseteq candidates(obs, games)
              /\ \A c \in candidates(obs, games) : c \in picked <=> ~Beaten(c, picked)
<1> DEFINE pairs == {p \in obs \X games : Fits(p[1], p[2])}
           C == candidates(obs, games)
<1>1. IsFiniteSet(C)
  <2>1. IsFiniteSet(obs \X games)
    BY FS_Product
  <2>2. IsFiniteSet(pairs)
    BY <2>1, FS_Subset
  <2> DEFINE f == [p \in pairs |-> Candidate(p[1], p[2])]
  <2>3. C = {Candidate(p[1], p[2]) : p \in pairs}
    BY DEF candidates
  <2>4. f \in Surjection(pairs, C)
    <3>1. f \in [pairs -> C]
      BY <2>3
    <3>2. \A c \in C : \E p \in pairs : f[p] = c
      BY <2>3
    <3> QED
      BY <3>1, <3>2, Fun_IsSurj
  <2> QED
    BY <2>2, <2>4, FS_Surjection
<1>2. \A c \in C : Comparable(c)
  <2> SUFFICES ASSUME NEW p \in pairs PROVE Comparable(Candidate(p[1], p[2]))
    BY DEF candidates
  <2> DEFINE o == p[1]   g == p[2]
  <2>1. Own(o) /\ OwnGame(g) /\ g \in Nat
    OBVIOUS
  <2>2. o.lobby \in Nat /\ o.started \in Int /\ Delta(o, g) \in Int
    <3>1. o.lobby \in Lobbies /\ o.started \in Int /\ Lobbies \subseteq Nat
      BY <2>1 DEF Own, Observation, LobbyAssumption
    <3>2. played[g].start \in Nat
      BY <2>1 DEF OwnGame
    <3>3. Delta(o, g) = o.started - played[g].start
      BY DEF Delta
    <3>4. \A i, j \in Int : i - j \in Int
      OBVIOUS
    <3>5. o.lobby \in Nat
      BY <3>1
    <3>6. played[g].start \in Int
      BY <3>2
    <3>7. Delta(o, g) \in Int
      BY <3>1, <3>3, <3>4, <3>6
    <3> QED
      BY <3>1, <3>5, <3>7
  <2> HIDE DEF o, g
  <2>3. Abs(Delta(o, g)) \in Nat
    BY <2>2 DEF Abs
  <2>4. Score(o, g) \in Fraction
    BY <2>1, ScoreIsBest
  <2> QED
    BY <2>1, <2>2, <2>3, <2>4 DEF Candidate, Comparable, o, g
<1> DEFINE R == {p \in C \X C : Before(p[1], p[2])}
           K == {p \in C \X C : p[1].o = p[2].o \/ p[1].g = p[2].g}
<1>3. \A a \in C : <<a, a>> \notin R
  BY <1>2, BeforeOrders
<1>4. \A a, b, c \in C : <<a, b>> \in R /\ <<b, c>> \in R => <<a, c>> \in R
  <2> SUFFICES ASSUME NEW a \in C, NEW b \in C, NEW c \in C, Before(a, b), Before(b, c) PROVE Before(a, c)
    OBVIOUS
  <2> QED
    BY <1>2, BeforeOrders
<1>5. PICK T \in SUBSET C : \A c \in C : c \in T <=> ~\E b \in T : <<b, c>> \in R /\ <<b, c>> \in K
  <2> HIDE DEF C, R, K
  <2> QED
    BY <1>1, <1>3, <1>4, Greedy
<1>6. \A c \in C : c \in T <=> ~Beaten(c, T)
  <2> SUFFICES ASSUME NEW c \in C
               PROVE  (\E b \in T : <<b, c>> \in R /\ <<b, c>> \in K) <=> Beaten(c, T)
    BY <1>5
  <2> QED
    BY <1>5 DEF Beaten
<1>7. pickLobbyMatches(obs, games) = CHOOSE taken \in SUBSET C : \A c \in C : c \in taken <=> ~Beaten(c, taken)
  BY DEF pickLobbyMatches
<1> HIDE DEF C
<1>8. /\ pickLobbyMatches(obs, games) \in SUBSET C
      /\ \A c \in C : c \in pickLobbyMatches(obs, games) <=> ~Beaten(c, pickLobbyMatches(obs, games))
  BY <1>6, <1>7
<1> QED
  BY <1>8 DEF C-----------------------------------------------------------------------------
(* The inductive invariant. *)

PageEntry == [of : Nat \ {0}, map : Maps, sig : Maps \X Nat, elapsed : Int]
Pages == UNION {[D -> PageEntry] : D \in SUBSET Lobbies}
Reads == UNION {[D -> SUBSET Nat] : D \in SUBSET Lobbies}
SyncRecord ==
    [pc : {"idle", "open", "shows", "observe", "update", "end", "match"}, page : Pages,
     new : SUBSET Lobbies, moved : SUBSET (Lobbies \X Int), gone : SUBSET Lobbies, read : Reads]

\* Games are those of their lobby's players; what is mirrored was played.
GamesOk ==
    /\ now \in Nat /\ played \in Seq([lobby : Lobbies, start : Nat, map : Maps, players : SUBSET Nat])
    /\ Len(played) <= MaxGames
    /\ \A g \in Games : OwnGame(g)
    /\ mirror \subseteq Games /\ arrivals \subseteq mirror

\* A lobby runs a game nobody has mirrored, with some of its own players.
LobbiesOk ==
    /\ lobby \in [Lobbies -> [game : Nat, map : Maps \cup {None}, players : SUBSET Nat]]
    /\ \A l \in Lobbies :
        /\ lobby[l].players \subseteq Roster[l]
        /\ lobby[l].game # 0 => /\ lobby[l].game \in Games \ mirror
                                /\ lobby[l].map \in Maps /\ lobby[l].players # {}

\* What a sync will write is on its page, and it has read it.
SyncOk(r) ==
    /\ r \in SyncRecord
    /\ r.new \subseteq DOMAIN r.page /\ \A k \in r.moved : k[1] \in DOMAIN r.page
    /\ r.pc \in {"observe", "update"} =>
          r.new \subseteq DOMAIN r.read /\ \A k \in r.moved : k[1] \in DOMAIN r.read
    /\ \A l \in DOMAIN r.read : r.read[l] \subseteq Roster[l]

SyncsOk == sync \in [Syncs -> SyncRecord] /\ \A s \in Syncs : SyncOk(sync[s])
RowsOk == IsFiniteSet(rows) /\ \A o \in rows : Own(o)

NamesOk ==
    \A g \in 1 .. MaxGames : \A o \in named[g] :
        g \in Games /\ (lobbyRosters(o) # {} => o.lobby = played[g].lobby)

\* While syncs do not overlap: one at most is under way; its page is of games that had not arrived
\* when they were last looked at; and a game looked at and left unnamed fits no row of its own.
Alone == \A s, t \in Syncs : sync[s].pc # "idle" /\ sync[t].pc # "idle" => s = t
PagesApart ==
    \A s \in Syncs : sync[s].pc # "idle" =>
        \A l \in DOMAIN sync[s].page : sync[s].page[l].of \notin mirror \ arrivals
LeftForGood ==
    \A g \in mirror \ arrivals : named[g] = {} =>
        \A o \in rows : o.of = g /\ o.endOf = g /\ o.matched = 0 => ~Fits(o, g)
Settled == Alone /\ PagesApart /\ LeftForGood

TypeOk == GamesOk /\ LobbiesOk /\ SyncsOk /\ RowsOk
IInv == TypeOk /\ NamesOk /\ (~overlapped => Settled)

\* What is made of each element of a finite set is finite.
LEMMA FiniteImage ==
    ASSUME NEW S, IsFiniteSet(S), NEW f, DOMAIN f = S
    PROVE  IsFiniteSet({f[x] : x \in S})
<1> DEFINE T == {f[x] : x \in S}
           h == [x \in S |-> f[x]]
<1>1. h \in Surjection(S, T)
  <2>1. h \in [S -> T] /\ \A y \in T : \E x \in S : h[x] = y
    OBVIOUS
  <2> QED
    BY <2>1, Fun_IsSurj
<1> QED
  BY <1>1, FS_Surjection

\* Whether an observation fits a game depends on what was seen of it and on the game alone.
LEMMA FitsDepends ==
    ASSUME NEW o, NEW p, NEW g,
           o.map = p.map, o.endMap = p.endMap, o.players = p.players,
           o.endPlayers = p.endPlayers, o.started = p.started
    PROVE  Fits(o, g) <=> Fits(p, g)
<1>1. lobbyRosters(o) = lobbyRosters(p) /\ lobbyMaps(o) = lobbyMaps(p) /\ Delta(o, g) = Delta(p, g)
  BY DEF lobbyRosters, lobbyMaps, Delta
<1>2. Score(o, g) = Score(p, g)
  BY <1>1 DEF Score
<1> QED
  BY <1>1, <1>2 DEF Fits, MapOk, TimeOk

\* A game once played is not played again, so what fits it still does.
LEMMA FitsRemains ==
    ASSUME NEW o, NEW g, played'[g] = played[g]
    PROVE  Fits(o, g)' <=> Fits(o, g)
<1>1. \A r : rosterOverlap(r, g)' = rosterOverlap(r, g)
  BY DEF rosterOverlap, Share, Smaller
<1>2. {rosterOverlap(r, g)' : r \in lobbyRosters(o)} = {rosterOverlap(r, g) : r \in lobbyRosters(o)}
  BY <1>1
<1>3. Score(o, g)' = Score(o, g)
  <2> DEFINE best(scores) == IF scores = {} THEN <<0, 1>> ELSE CHOOSE a \in scores : \A b \in scores : ~Exceeds(b, a)
  <2>1. Score(o, g) = best({rosterOverlap(r, g) : r \in lobbyRosters(o)})
    BY DEF Score
  <2>2. Score(o, g)' = best({rosterOverlap(r, g)' : r \in lobbyRosters(o)})
    BY DEF Score, lobbyRosters, Exceeds
  <2> HIDE DEF best
  <2> QED
    BY <1>2, <2>1, <2>2
<1>4. MapOk(o, g)' = MapOk(o, g) /\ TimeOk(o, g)' = TimeOk(o, g)
  BY DEF MapOk, TimeOk, Delta
<1> QED
  BY <1>3, <1>4 DEF Fits

\* A sync that has nothing is one.
LEMMA Blank ==
    /\ SyncOk(Idle) /\ DOMAIN Idle.page = {} /\ Idle.pc = "idle"
    /\ \A gone \in SUBSET Lobbies :
        LET r == [Idle EXCEPT !.pc = "end", !.gone = gone]
        IN  SyncOk(r) /\ r.pc # "idle" /\ DOMAIN r.page = {}
    /\ LET r == [Idle EXCEPT !.pc = "match"]
       IN  SyncOk(r) /\ r.pc # "idle" /\ DOMAIN r.page = {}
<1>1. DOMAIN << >> = {} /\ << >> \in [{} -> PageEntry] /\ << >> \in [{} -> SUBSET Nat]
  OBVIOUS
<1>2. << >> \in Pages /\ << >> \in Reads
  <2>1. {} \in SUBSET Lobbies
    OBVIOUS
  <2> QED
    BY <1>1, <2>1 DEF Pages, Reads
<1> QED
  BY <1>1, <1>2 DEF SyncOk, SyncRecord, Idle

\* The next RPC has what it will write, or is done with it.
LEMMA Steps ==
    ASSUME LobbyAssumption, NEW r, SyncOk(r), NEW pc \in {"shows", "observe", "update"},
           r.new \subseteq DOMAIN r.read, \A k \in r.moved : k[1] \in DOMAIN r.read
    PROVE  /\ SyncOk(Onward(r, pc)) /\ Onward(r, pc).pc # "idle"
           /\ \A l \in DOMAIN Onward(r, pc).page : l \in DOMAIN r.page /\ Onward(r, pc).page[l] = r.page[l]
<1>1. /\ r \in SyncRecord /\ r.new \subseteq DOMAIN r.page /\ \A k \in r.moved : k[1] \in DOMAIN r.page
      /\ \A l \in DOMAIN r.read : r.read[l] \subseteq Roster[l]
  BY DEF SyncOk
<1>2. CASE pc = "shows" /\ r.new # {}
  <2>1. Onward(r, pc) = [r EXCEPT !.pc = "observe"]
    BY <1>2 DEF Onward
  <2> QED
    BY <1>1, <2>1 DEF SyncOk, SyncRecord
<1>3. CASE ~(pc = "shows" /\ r.new # {}) /\ pc # "update" /\ r.moved # {}
  <2>1. Onward(r, pc) = [r EXCEPT !.pc = "update", !.new = {}]
    BY <1>3 DEF Onward
  <2> QED
    BY <1>1, <2>1 DEF SyncOk, SyncRecord
<1>4. CASE ~(pc = "shows" /\ r.new # {}) /\ ~(pc # "update" /\ r.moved # {})
  <2>1. Onward(r, pc) \in {[Idle EXCEPT !.pc = "end", !.gone = r.gone], [Idle EXCEPT !.pc = "match"]}
    BY <1>4 DEF Onward
  <2>2. r.gone \in SUBSET Lobbies
    BY <1>1 DEF SyncRecord
  <2> QED
    BY <2>1, <2>2, Blank
<1> QED
  BY <1>2, <1>3, <1>4
-----------------------------------------------------------------------------
(* Types. *)

\* Nothing has happened yet.
LEMMA TypeInit == ASSUME LobbyAssumption PROVE Init => TypeOk
<1> SUFFICES ASSUME Init PROVE TypeOk
  OBVIOUS
<1>1. GamesOk
  BY DEF Init, GamesOk, Games, LobbyAssumption
<1>2. LobbiesOk
  BY DEF Init, LobbiesOk
<1>3. SyncsOk
  BY Blank DEF Init, SyncsOk, SyncOk
<1>4. RowsOk
  BY FS_EmptySet DEF Init, RowsOk
<1> QED
  BY <1>1, <1>2, <1>3, <1>4 DEF TypeOk

\* Playing and mirroring keep games and lobbies what they are.
LEMMA TypeOutside == ASSUME LobbyAssumption, TypeOk, Outside PROVE TypeOk'
<1> USE DEF TypeOk
<1> DEFINE Game == [lobby : Lobbies, start : Nat, map : Maps, players : SUBSET Nat]
<1>0. /\ Roster \in [Lobbies -> SUBSET Nat] /\ \A l \in Lobbies : Roster[l] # {}
      /\ played \in Seq(Game) /\ Len(played) \in Nat /\ DOMAIN played = 1 .. Len(played)
  BY DEF LobbyAssumption, GamesOk
<1>1. ASSUME NEW l \in Lobbies, NEW shown \in Maps, NEW map \in Maps, Starts(l, shown, map) PROVE TypeOk'
  <2> DEFINE new == [lobby |-> l, start |-> now, map |-> map, players |-> Roster[l]]
  <2>1. new \in Game /\ new.lobby = l /\ new.players = Roster[l] /\ new.start \in Nat
    BY <1>0 DEF GamesOk
  <2>2. played' = Append(played, new) /\ Len(played) < MaxGames
    BY <1>1 DEF Starts
  <2>3. /\ played' \in Seq(Game) /\ Len(played') = Len(played) + 1 /\ DOMAIN played' = 1 .. Len(played) + 1
        /\ played'[Len(played) + 1] = new /\ \A g \in Games : played'[g] = played[g]
    <3> HIDE DEF Game, new
    <3> QED
      BY <1>0, <2>1, <2>2, AppendProperties DEF Games
  <2>4. GamesOk'
    <3>1. MaxGames \in Nat
      BY DEF LobbyAssumption
    <3>2. \A g \in DOMAIN played' : OwnGame(g)'
      <4> SUFFICES ASSUME NEW g \in 1 .. Len(played) + 1 PROVE OwnGame(g)'
        BY <2>3
      <4>1. CASE g \in Games
        BY <2>3, <4>1 DEF GamesOk, OwnGame
      <4>2. CASE g = Len(played) + 1
        BY <2>1, <2>3, <4>2 DEF OwnGame
      <4> QED
        BY <1>0, <4>1, <4>2 DEF Games
    <3>3. UNCHANGED <<now, mirror, arrivals>> /\ Games \subseteq Games'
      BY <1>0, <1>1, <2>3 DEF Starts, Games
    <3> QED
      BY <1>0, <2>2, <2>3, <3>1, <3>2, <3>3 DEF GamesOk, Games
  <2>5. LobbiesOk'
    <3>1. lobby' = [lobby EXCEPT ![l] = [game |-> Len(played) + 1, map |-> shown, players |-> Roster[l]]]
      BY <1>1 DEF Starts
    <3>2. Len(played) + 1 \in Nat /\ Len(played) + 1 \in Games' /\ Len(played) + 1 \notin mirror'
      BY <1>0, <1>1, <2>3 DEF Starts, Games, GamesOk
    <3>3. \A g \in Games \ mirror : g \in Games' \ mirror'
      BY <1>0, <1>1, <2>3 DEF Starts, Games
    <3>4. Roster[l] \in SUBSET Nat /\ Roster[l] # {}
      BY <1>0
    <3> DEFINE in == [game |-> Len(played) + 1, map |-> shown, players |-> Roster[l]]
               Ok(k, state) ==
                   /\ state.players \subseteq Roster[k]
                   /\ state.game # 0 => state.game \in Games' \ mirror' /\ state.map \in Maps /\ state.players # {}
    <3>5. in \in [game : Nat, map : Maps \cup {None}, players : SUBSET Nat] /\ Ok(l, in)
      BY <3>2, <3>4
    <3>6. \A k \in Lobbies : Ok(k, lobby[k])
      BY <3>3 DEF LobbiesOk
    <3>7. lobby' = [lobby EXCEPT ![l] = in]
      BY <3>1
    <3> HIDE DEF in, Ok
    <3>8. \A k \in Lobbies : Ok(k, lobby'[k])
      BY <3>5, <3>6, <3>7 DEF LobbiesOk
    <3>9. lobby' \in [Lobbies -> [game : Nat, map : Maps \cup {None}, players : SUBSET Nat]]
      BY <3>5, <3>7 DEF LobbiesOk
    <3> QED
      BY <3>8, <3>9 DEF LobbiesOk, Ok
  <2>6. SyncsOk' /\ RowsOk'
    BY <1>1 DEF Starts, SyncsOk, RowsOk
  <2> QED
    BY <2>4, <2>5, <2>6
<1>2. ASSUME NEW l \in Lobbies, Changes(l) PROVE TypeOk'
  <2>1. lobby[l].game # 0 /\ lobby[l].game \in Games /\ lobby[l].players # {}
    BY <1>2 DEF Changes, LobbiesOk
  <2>2. played[lobby[l].game].map \in Maps
    <3>1. played[lobby[l].game] \in Game
      <4> HIDE DEF Game
      <4> QED
        BY <1>0, <2>1, ElementOfSeq DEF Games
    <3> QED
      BY <3>1
  <2>3. {CHOOSE p \in lobby[l].players : TRUE} \subseteq lobby[l].players
    BY <2>1
  <2>4. UNCHANGED <<now, played, mirror, arrivals, named, rows, sync, polls, overlapped, faults>>
    BY <1>2 DEF Changes
  <2>5. LobbiesOk'
    <3>1. CASE lobby' = [lobby EXCEPT ![l].players = {CHOOSE p \in lobby[l].players : TRUE}]
      <4> DEFINE left == {CHOOSE p \in lobby[l].players : TRUE}
      <4>1. left \subseteq lobby[l].players /\ left # {} /\ lobby' = [lobby EXCEPT ![l].players = left]
        BY <2>3, <3>1
      <4> HIDE DEF left
      <4> QED
        BY <2>4, <4>1 DEF LobbiesOk, Games
    <3>2. CASE lobby' = [lobby EXCEPT ![l].map = played[lobby[l].game].map]
      BY <2>2, <2>4, <3>2 DEF LobbiesOk, Games
    <3> QED
      BY <1>2, <3>1, <3>2 DEF Changes
  <2> QED
    BY <2>4, <2>5 DEF GamesOk, Games, OwnGame, SyncsOk, RowsOk
<1>3. ASSUME NEW l \in Lobbies, Ends(l) PROVE TypeOk'
  <2>1. lobby' = [lobby EXCEPT ![l].game = 0] /\ UNCHANGED <<now, played, mirror, arrivals, rows, sync>>
    BY <1>3 DEF Ends
  <2>2. LobbiesOk'
    BY <2>1 DEF LobbiesOk, Games
  <2> QED
    BY <2>1, <2>2 DEF GamesOk, Games, OwnGame, SyncsOk, RowsOk
<1>4. ASSUME NEW g \in Games, gamesInsert(g) PROVE TypeOk'
  BY <1>4 DEF gamesInsert, GamesOk, Games, OwnGame, LobbiesOk, SyncsOk, RowsOk
<1>5. ASSUME Clock PROVE TypeOk'
  BY <1>5 DEF Clock, GamesOk, Games, OwnGame, LobbiesOk, SyncsOk, RowsOk
<1> QED
  BY <1>1, <1>2, <1>3, <1>4, <1>5 DEF Outside

\* A step of a sync that touches itself alone.
LEMMA TypeOfSync ==
    ASSUME LobbyAssumption, TypeOk, NEW s \in Syncs, NEW r, SyncOk(r), Becomes(s, r), UNCHANGED world, RowsOk'
    PROVE  TypeOk'
<1>1. sync' = [sync EXCEPT ![s] = r] /\ r \in SyncRecord
  BY DEF Becomes, SyncOk
<1>2. SyncsOk'
  BY <1>1 DEF TypeOk, SyncsOk
<1>3. GamesOk' /\ LobbiesOk'
  BY DEF TypeOk, GamesOk, Games, OwnGame, LobbiesOk, world
<1> QED
  BY <1>2, <1>3 DEF TypeOk
\* Rows seen anew stay what was read of their own lobby.
LEMMA RowsMapped ==
    ASSUME RowsOk, NEW f, DOMAIN f = rows, \A o \in rows : Own(f[o]), NEW kept, kept \subseteq {f[o] : o \in rows}
    PROVE  IsFiniteSet(kept) /\ \A o \in kept : Own(o)
<1>1. IsFiniteSet({f[o] : o \in rows})
  BY FiniteImage DEF RowsOk
<1> QED
  BY <1>1, FS_Subset

\* The steps of a sync that read: its rows are left as they are.
LEMMA TypeReads ==
    ASSUME LobbyAssumption, TypeOk, NEW s \in Syncs, Poll(s) \/ lobbiesOpen(s) \/ Shows(s) \/ Dies(s)
    PROVE  TypeOk' /\ rows' = rows
<1> DEFINE r == sync[s]
<1>1. SyncOk(r) /\ r \in SyncRecord
  BY DEF TypeOk, SyncsOk
<1>2. ASSUME UNCHANGED rows PROVE RowsOk'
  BY <1>2 DEF TypeOk, RowsOk
<1>3. CASE Poll(s)
  <2> DEFINE running == {l \in Lobbies : lobby[l].game # 0}
             page == [l \in running |-> [of |-> lobby[l].game, map |-> lobby[l].map, sig |-> sig(l),
                                         elapsed |-> now - played[lobby[l].game].start]]
             new == [Idle EXCEPT !.pc = "open", !.page = page]
  <2>1. Becomes(s, new) /\ UNCHANGED <<world, rows>>
    BY <1>3 DEF Poll
  <2>2. \A l \in running : page[l] \in PageEntry
    <3> SUFFICES ASSUME NEW l \in running PROVE page[l] \in PageEntry
      OBVIOUS
    <3>1. lobby[l].game \in Nat \ {0} /\ lobby[l].game \in Games /\ lobby[l].map \in Maps /\ lobby[l].players \subseteq Roster[l]
      BY DEF TypeOk, LobbiesOk
    <3>2. IsFiniteSet(lobby[l].players) /\ Cardinality(lobby[l].players) \in Nat
      BY <3>1, FS_Subset, FS_CardinalityType DEF LobbyAssumption
    <3>3. now - played[lobby[l].game].start \in Int
      <4>1. now \in Int /\ OwnGame(lobby[l].game)
        BY <3>1 DEF TypeOk, GamesOk
      <4>2. played[lobby[l].game].start \in Int
        BY <4>1 DEF OwnGame
      <4> QED
        BY <4>1, <4>2
    <3> QED
      BY <3>1, <3>2, <3>3 DEF PageEntry, sig
  <2>3. page \in Pages /\ DOMAIN page \subseteq Lobbies
    <3>1. page \in [running -> PageEntry] /\ running \in SUBSET Lobbies
      BY <2>2
    <3> QED
      BY <3>1 DEF Pages
  <2>4. SyncOk(new)
    <3> HIDE DEF page
    <3>1. Idle \in SyncRecord /\ new = [Idle EXCEPT !.pc = "open", !.page = page]
      BY Blank DEF SyncOk
    <3>2. new \in SyncRecord /\ new.pc = "open" /\ new.page = page
      BY <2>3, <3>1 DEF SyncRecord
    <3>3. new.new = {} /\ new.moved = {} /\ new.read = << >> /\ DOMAIN << >> = {}
      BY DEF Idle
    <3> HIDE DEF new
    <3> QED
      BY <2>3, <3>2, <3>3 DEF SyncOk
  <2> QED
    BY <1>2, <2>1, <2>4, TypeOfSync DEF world
<1>4. CASE lobbiesOpen(s)
  <2> DEFINE running == DOMAIN sync[s].page
             open == {o \in rows : Open(o)}
             new == running \ {o.lobby : o \in open}
             moved == {o \in open : o.lobby \in running /\ o.sig # sync[s].page[o.lobby].sig}
             keys == {<<o.lobby, o.started>> : o \in moved}
             gone == {o.lobby : o \in open} \ running
             found == [sync[s] EXCEPT !.new = new, !.moved = keys, !.gone = gone, !.pc = "shows"]
  <2>1. Becomes(s, IF new = {} /\ moved = {} THEN Onward(found, "shows") ELSE found) /\ UNCHANGED <<world, rows>>
    BY <1>4 DEF lobbiesOpen
  <2>2. \A o \in rows : o.lobby \in Lobbies /\ o.started \in Int
    BY DEF TypeOk, RowsOk, Own, Observation
  <2>3. running \subseteq Lobbies
    BY <1>1 DEF SyncRecord, Pages
  <2>4. new \subseteq running /\ gone \subseteq Lobbies
    BY <2>2
  <2>5. keys \subseteq Lobbies \X Int /\ \A k \in keys : k[1] \in running
    BY <2>2
  <2> HIDE DEF new, gone, keys
  <2>6. SyncOk(found)
    BY <1>1, <2>3, <2>4, <2>5 DEF SyncOk, SyncRecord
  <2>7. new = {} /\ moved = {} => SyncOk(Onward(found, "shows"))
    <3> SUFFICES ASSUME new = {}, moved = {} PROVE SyncOk(Onward(found, "shows"))
      OBVIOUS
    <3>1. keys = {}
      BY DEF keys
    <3>2. found.new = {} /\ found.moved = {}
      BY <1>1, <3>1 DEF SyncRecord
    <3> HIDE DEF found
    <3> QED
      BY <2>6, <3>2, Steps
  <2> HIDE DEF found, moved
  <2> QED
    BY <1>2, <2>1, <2>6, <2>7, TypeOfSync
<1>5. CASE Shows(s)
  <2> DEFINE wanted == sync[s].new \cup {k[1] : k \in sync[s].moved}
             read(failed) == [l \in wanted |-> IF l \in failed THEN Unknown ELSE lobby[l].players]
             with(failed) == [sync[s] EXCEPT !.read = read(failed)]
  <2>1. PICK failed \in SUBSET wanted : Becomes(s, Onward(with(failed), "shows"))
    BY <1>5 DEF Shows
  <2>2. UNCHANGED <<world, rows>>
    BY <1>5 DEF Shows
  <2>3. wanted \subseteq Lobbies
    BY <1>1 DEF SyncRecord
  <2>4. \A l \in wanted : read(failed)[l] \subseteq Roster[l] /\ read(failed)[l] \in SUBSET Nat
    BY <2>3 DEF TypeOk, LobbiesOk, LobbyAssumption, Unknown
  <2>5. read(failed) \in Reads
    <3>1. read(failed) \in [wanted -> SUBSET Nat] /\ wanted \in SUBSET Lobbies
      BY <2>3, <2>4
    <3> QED
      BY <3>1 DEF Reads
  <2>6. DOMAIN read(failed) = wanted
    OBVIOUS
  <2> HIDE DEF read
  <2>7. SyncOk(with(failed)) /\ with(failed).new = sync[s].new /\ with(failed).moved = sync[s].moved /\ with(failed).read = read(failed)
    BY <1>1, <2>4, <2>5, <2>6 DEF SyncOk, SyncRecord
  <2>8. SyncOk(Onward(with(failed), "shows"))
    <3> HIDE DEF with
    <3> QED
      BY <2>6, <2>7, Steps
  <2> HIDE DEF with
  <2> QED
    BY <1>2, <2>1, <2>2, <2>8, TypeOfSync
<1>6. CASE Dies(s)
  <2>1. Becomes(s, Idle) /\ UNCHANGED <<world, rows>>
    BY <1>6 DEF Dies
  <2> QED
    BY <1>2, <2>1, Blank, TypeOfSync
<1> QED
  BY <1>3, <1>4, <1>5, <1>6 DEF Poll, lobbiesOpen, Shows, Dies
Picks == pickLobbyMatches({o \in rows : o.matched = 0}, {g \in arrivals : named[g] = {}})

\* The pairs a match takes: each fits, and an unmatched observation that fits a waiting game is
\* left only when it or the game is taken.
LEMMA PicksFit ==
    ASSUME LobbyAssumption, TypeOk
    PROVE  /\ \A c \in Picks : /\ c.o \in rows /\ c.o.matched = 0 /\ c.g \in arrivals
                               /\ c.g \in Nat \ {0} /\ Fits(c.o, c.g)
           /\ \A o \in rows, g \in arrivals : o.matched = 0 /\ named[g] = {} /\ Fits(o, g) =>
                 \E c \in Picks : c.o = o \/ c.g = g
<1> DEFINE obs == {o \in rows : o.matched = 0}
           games == {g \in arrivals : named[g] = {}}
<1>1. IsFiniteSet(obs) /\ \A o \in obs : Own(o)
  BY FS_Subset DEF TypeOk, RowsOk
<1>2. games \subseteq Games /\ games \subseteq Nat \ {0} /\ games \subseteq 1 .. Len(played) /\ Len(played) \in Nat
  <2>1. Games = 1 .. Len(played) /\ Len(played) \in Nat
    BY DEF TypeOk, GamesOk, Games
  <2>2. games \subseteq Games
    BY DEF TypeOk, GamesOk
  <2> HIDE DEF games
  <2> QED
    BY <2>1, <2>2
<1>3. IsFiniteSet(games) /\ \A g \in games : OwnGame(g)
  <2>1. IsFiniteSet(1 .. Len(played))
    <3>1. 1 \in Int /\ Len(played) \in Int
      BY <1>2
    <3> QED
      BY <3>1, FS_Interval
  <2>2. IsFiniteSet(games)
    BY <1>2, <2>1, FS_Subset
  <2> QED
    BY <1>2, <2>2 DEF TypeOk, GamesOk
<1>4. /\ Picks \subseteq candidates(obs, games)
      /\ \A c \in candidates(obs, games) : c \in Picks <=> ~Beaten(c, Picks)
  <2>1. Picks = pickLobbyMatches(obs, games)
    BY DEF Picks
  <2> HIDE DEF obs, games
  <2> QED
    BY <1>1, <1>2, <1>3, <2>1, Picked
<1>5. \A c \in candidates(obs, games) : c.o \in obs /\ c.g \in games /\ Fits(c.o, c.g)
  <2> HIDE DEF obs, games
  <2> QED
    BY DEF candidates, Candidate
<1>6. \A o \in obs, g \in games : Fits(o, g) => \E c \in Picks : c.o = o \/ c.g = g
  <2> SUFFICES ASSUME NEW o \in obs, NEW g \in games, Fits(o, g) PROVE \E c \in Picks : c.o = o \/ c.g = g
    OBVIOUS
  <2> DEFINE c == Candidate(o, g)
  <2>1. c \in candidates(obs, games) /\ c.o = o /\ c.g = g
    <3>1. <<o, g>> \in {p \in obs \X games : Fits(p[1], p[2])} /\ <<o, g>>[1] = o /\ <<o, g>>[2] = g
      OBVIOUS
    <3>2. c.o = o /\ c.g = g
      BY DEF Candidate
    <3> HIDE DEF obs, games
    <3> QED
      BY <3>1, <3>2 DEF candidates
  <2> HIDE DEF obs, games, c
  <2> QED
    BY <1>4, <2>1 DEF Beaten
<1> QED
  BY <1>2, <1>4, <1>5, <1>6

\* The steps of a sync that write.
LEMMA TypeWrites ==
    ASSUME LobbyAssumption, TypeOk, NEW s \in Syncs, lobbiesObserve(s) \/ lobbiesUpdate(s) \/ lobbiesEnd(s) \/ lobbiesMatch(s)
    PROVE  TypeOk'
<1> DEFINE r == sync[s]
<1>0. SyncOk(r) /\ r \in SyncRecord /\ RowsOk /\ r.page \in Pages
  BY DEF TypeOk, SyncsOk, SyncRecord
<1>1. \A l \in DOMAIN r.page : l \in Lobbies /\ r.page[l] \in PageEntry
  <2>1. PICK D \in SUBSET Lobbies : r.page \in [D -> PageEntry]
    BY <1>0 DEF Pages
  <2> HIDE DEF r
  <2> QED
    BY <2>1
<1>2. ASSUME r.pc \in {"observe", "update"}, NEW pc \in {"observe", "update"}
      PROVE  /\ SyncOk(Onward(r, pc)) /\ r.new \subseteq DOMAIN r.read /\ r.new \subseteq DOMAIN r.page
             /\ \A k \in r.moved : k[1] \in DOMAIN r.read /\ k[1] \in DOMAIN r.page
             /\ \A l \in DOMAIN r.read : r.read[l] \subseteq Roster[l]
  <2>1. /\ r.new \subseteq DOMAIN r.read /\ r.new \subseteq DOMAIN r.page
        /\ \A k \in r.moved : k[1] \in DOMAIN r.read /\ k[1] \in DOMAIN r.page
        /\ \A l \in DOMAIN r.read : r.read[l] \subseteq Roster[l]
    BY <1>0, <1>2 DEF SyncOk
  <2> HIDE DEF r
  <2> QED
    BY <1>0, <2>1, Steps
<1>3. \A l \in Lobbies : Roster[l] \subseteq Nat
  BY DEF LobbyAssumption
<1>4. CASE lobbiesObserve(s)
  <2> DEFINE Row(l) == LET p == sync[s].page[l] IN
               [lobby |-> l, started |-> now - p.elapsed, map |-> p.map, players |-> sync[s].read[l],
                endMap |-> {}, endPlayers |-> Unknown, sig |-> p.sig, ended |-> FALSE,
                matched |-> 0, of |-> p.of, endOf |-> p.of]
             f == [l \in r.new |-> Row(l)]
             taken == {<<o.lobby, o.started>> : o \in rows}
             added == {o \in {Row(l) : l \in r.new} : <<o.lobby, o.started>> \notin taken}
  <2>1. rows' = rows \cup added /\ Becomes(s, Onward(r, "observe")) /\ UNCHANGED world /\ r.pc = "observe"
    BY <1>4 DEF lobbiesObserve, At
  <2>2. \A l \in r.new : Own(f[l])
    <3> SUFFICES ASSUME NEW l \in r.new PROVE Own(f[l])
      OBVIOUS
    <3>1. l \in Lobbies /\ r.page[l] \in PageEntry /\ r.read[l] \subseteq Roster[l] /\ r.read[l] \subseteq Nat
      BY <1>1, <1>2, <1>3, <2>1
    <3>2. now - r.page[l].elapsed \in Int
      <4>1. now \in Int /\ r.page[l].elapsed \in Int
        BY <3>1 DEF TypeOk, GamesOk, PageEntry
      <4> QED
        BY <4>1
    <3> QED
      BY <3>1, <3>2 DEF Own, Observation, PageEntry, Unknown
  <2>3. IsFiniteSet({f[l] : l \in r.new})
    <3>1. IsFiniteSet(r.new)
      BY <1>0, FS_Subset DEF SyncRecord, LobbyAssumption
    <3>2. DOMAIN f = r.new
      OBVIOUS
    <3> HIDE DEF f, r
    <3> QED
      BY <3>1, <3>2, FiniteImage
  <2>4. added \subseteq {f[l] : l \in r.new}
    OBVIOUS
  <2> HIDE DEF added
  <2>5. RowsOk'
    <3>1. IsFiniteSet(added) /\ \A o \in added : Own(o)
      <4> HIDE DEF f, r
      <4>1. IsFiniteSet(added)
        BY <2>3, <2>4, FS_Subset
      <4> QED
        BY <2>2, <2>4, <4>1
    <3>2. IsFiniteSet(rows \cup added)
      BY <1>0, <3>1, FS_Union DEF RowsOk
    <3> QED
      BY <1>0, <2>1, <3>1, <3>2 DEF RowsOk
  <2> QED
    BY <1>2, <2>1, <2>5, TypeOfSync
<1>5. CASE lobbiesUpdate(s)
  <2> DEFINE Moved(o) == <<o.lobby, o.started>> \in sync[s].moved /\ Open(o)
             Updated(o) == [o EXCEPT !.sig = sync[s].page[o.lobby].sig,
                                     !.endMap = {sync[s].page[o.lobby].map},
                                     !.endPlayers = sync[s].read[o.lobby],
                                     !.endOf = sync[s].page[o.lobby].of]
             f == [o \in rows |-> IF Moved(o) THEN Updated(o) ELSE o]
  <2>1. /\ rows' = {IF Moved(o) THEN Updated(o) ELSE o : o \in rows} /\ Becomes(s, Onward(r, "update"))
        /\ UNCHANGED world /\ r.pc = "update"
    BY <1>5 DEF lobbiesUpdate, At
  <2>2. rows' = {f[o] : o \in rows}
    BY <2>1
  <2>3. \A o \in rows : Own(f[o])
    <3> SUFFICES ASSUME NEW o \in rows, Moved(o) PROVE Own(Updated(o))
      BY <1>0 DEF RowsOk
    <3>1. o.lobby \in DOMAIN r.page /\ o.lobby \in DOMAIN r.read
      BY <1>2, <2>1
    <3>2. /\ o.lobby \in Lobbies /\ r.page[o.lobby] \in PageEntry
          /\ r.read[o.lobby] \subseteq Roster[o.lobby] /\ r.read[o.lobby] \subseteq Nat
      BY <1>1, <1>2, <1>3, <2>1, <3>1
    <3>3. Own(o)
      BY <1>0 DEF RowsOk
    <3> QED
      BY <3>2, <3>3 DEF Own, Observation, PageEntry
  <2>4. RowsOk'
    <3> DOMAIN f = rows
      OBVIOUS
    <3> HIDE DEF f
    <3> QED
      BY <1>0, <2>2, <2>3, RowsMapped DEF RowsOk
  <2> QED
    BY <1>2, <2>1, <2>4, TypeOfSync
<1>6. CASE lobbiesEnd(s)
  <2> DEFINE f == [o \in rows |-> IF o.lobby \in sync[s].gone THEN [o EXCEPT !.ended = TRUE] ELSE o]
  <2>1. rows' = {f[o] : o \in rows} /\ Becomes(s, [Idle EXCEPT !.pc = "match"]) /\ UNCHANGED world
    BY <1>6 DEF lobbiesEnd
  <2>2. \A o \in rows : Own(f[o])
    <3> SUFFICES ASSUME NEW o \in rows PROVE Own([o EXCEPT !.ended = TRUE]) /\ Own(o)
      OBVIOUS
    <3>1. Own(o)
      BY <1>0 DEF RowsOk
    <3> QED
      BY <3>1 DEF Own, Observation
  <2>3. RowsOk'
    <3> DOMAIN f = rows
      OBVIOUS
    <3> HIDE DEF f
    <3> QED
      BY <1>0, <2>1, <2>2, RowsMapped DEF RowsOk
  <2> QED
    BY <2>1, <2>3, Blank, TypeOfSync
<1>7. CASE lobbiesMatch(s)
  <2> DEFINE Matched(o) == IF \E c \in Picks : c.o = o
                           THEN [o EXCEPT !.matched = (CHOOSE c \in Picks : c.o = o).g, !.ended = TRUE]
                           ELSE o
             f == [o \in rows |-> Matched(o)]
  <2>1. /\ rows' = {o \in {Matched(o) : o \in rows} : o.matched = 0 \/ o.started >= now - KeepMatched}
        /\ arrivals' = {} /\ Becomes(s, Idle) /\ UNCHANGED <<now, lobby, played, mirror>>
    BY <1>7 DEF lobbiesMatch, Picks
  <2>2. rows' \subseteq {f[o] : o \in rows}
    BY <2>1
  <2>3. \A o \in rows : Own(f[o])
    <3> SUFFICES ASSUME NEW o \in rows, \E c \in Picks : c.o = o
                 PROVE  Own([o EXCEPT !.matched = (CHOOSE c \in Picks : c.o = o).g, !.ended = TRUE])
      BY <1>0 DEF RowsOk
    <3>1. (CHOOSE c \in Picks : c.o = o).g \in Nat
      BY PicksFit
    <3>2. Own(o)
      BY <1>0 DEF RowsOk
    <3> HIDE DEF Matched, f
    <3> QED
      BY <3>1, <3>2 DEF Own, Observation
  <2>4. RowsOk'
    <3> DOMAIN f = rows
      OBVIOUS
    <3> HIDE DEF f
    <3> QED
      BY <1>0, <2>2, <2>3, RowsMapped DEF RowsOk
  <2>5. SyncsOk'
    <3>1. sync' = [sync EXCEPT ![s] = Idle] /\ SyncOk(Idle) /\ Idle \in SyncRecord
      BY <2>1, Blank DEF Becomes, SyncOk
    <3> QED
      BY <3>1 DEF TypeOk, SyncsOk
  <2>6. GamesOk' /\ LobbiesOk'
    BY <2>1 DEF TypeOk, GamesOk, Games, OwnGame, LobbiesOk
  <2> QED
    BY <2>4, <2>5, <2>6 DEF TypeOk
<1> QED
  BY <1>4, <1>5, <1>6, <1>7
\* Every step keeps the types.
LEMMA TypeNext == ASSUME LobbyAssumption, TypeOk, [Next]_vars PROVE TypeOk'
<1>1. CASE UNCHANGED vars
  BY <1>1 DEF vars, world, TypeOk, GamesOk, Games, OwnGame, LobbiesOk, SyncsOk, RowsOk
<1> QED
  BY <1>1, TypeOutside, TypeReads, TypeWrites DEF Next, SyncStep

-----------------------------------------------------------------------------
(* Names, and what is settled. *)

\* A game that starts comes after the others.
LEMMA StartsLater ==
    ASSUME LobbyAssumption, TypeOk, NEW l \in Lobbies, NEW shown, NEW map \in Maps, Starts(l, shown, map)
    PROVE  \A g \in Games : g \in Games' /\ played'[g] = played[g]
<1> DEFINE Game == [lobby : Lobbies, start : Nat, map : Maps, players : SUBSET Nat]
           new == [lobby |-> l, start |-> now, map |-> map, players |-> Roster[l]]
<1>1. played' = Append(played, new) /\ played \in Seq(Game)
  BY DEF Starts, TypeOk, GamesOk
<1>2. new \in Game
  BY DEF TypeOk, GamesOk, LobbyAssumption
<1> HIDE DEF Game, new
<1> QED
  BY <1>1, <1>2, AppendProperties DEF Games

\* A name given stays one that was right, and those a match gives are.
LEMMA NamesNext == ASSUME LobbyAssumption, TypeOk, NamesOk, [Next]_vars PROVE NamesOk'
<1>1. CASE UNCHANGED <<played, named>>
  BY <1>1 DEF NamesOk, Games
<1>2. ASSUME NEW l \in Lobbies, NEW shown \in Maps, NEW map \in Maps, Starts(l, shown, map) PROVE NamesOk'
  <2>1. \A g \in Games : g \in Games' /\ played'[g] = played[g]
    BY <1>2, StartsLater
  <2>2. named' = named
    BY <1>2 DEF Starts
  <2> QED
    BY <2>1, <2>2 DEF NamesOk
<1>3. ASSUME NEW s \in Syncs, lobbiesMatch(s) PROVE NamesOk'
  <2>1. named' = [g \in 1 .. MaxGames |-> named[g] \cup {c.o : c \in {c \in Picks : c.g = g}}] /\ played' = played
    BY <1>3 DEF lobbiesMatch, Picks
  <2> SUFFICES ASSUME NEW g \in 1 .. MaxGames, NEW o \in named'[g]
               PROVE  g \in Games /\ (lobbyRosters(o) # {} => o.lobby = played[g].lobby)
    BY <2>1 DEF NamesOk, Games, lobbyRosters
  <2>2. CASE o \in named[g]
    BY <2>2 DEF NamesOk
  <2>3. CASE \E c \in Picks : c.o = o /\ c.g = g
    <3>1. o \in rows /\ g \in arrivals /\ Fits(o, g)
      BY <2>3, PicksFit
    <3>2. Own(o) /\ g \in Games /\ OwnGame(g)
      BY <3>1 DEF TypeOk, RowsOk, GamesOk
    <3> QED
      BY <3>1, <3>2, FitsOwn
  <2> QED
    BY <2>1, <2>2, <2>3
<1> QED
  BY <1>1, <1>2, <1>3 DEF Next, Outside, SyncStep, vars, world, Changes, Ends, gamesInsert, Clock,
     Poll, lobbiesOpen, Shows, lobbiesObserve, lobbiesUpdate, lobbiesEnd, Dies
\* What was played stays as it was.
LEMMA PlayedStays == ASSUME LobbyAssumption, TypeOk, [Next]_vars PROVE \A g \in Games : played'[g] = played[g]
<1>1. CASE UNCHANGED played
  BY <1>1
<1>2. ASSUME NEW l \in Lobbies, NEW shown \in Maps, NEW map \in Maps, Starts(l, shown, map)
      PROVE  \A g \in Games : played'[g] = played[g]
  BY <1>2, StartsLater
<1> QED
  BY <1>1, <1>2 DEF Next, Outside, SyncStep, vars, world, Changes, Ends, gamesInsert, Clock,
     Poll, lobbiesOpen, Shows, lobbiesObserve, lobbiesUpdate, lobbiesEnd, lobbiesMatch, Dies

\* Going on to the next RPC, a sync keeps its page or lets it go.
LEMMA OnwardPage == ASSUME NEW r, "page" \in DOMAIN r, NEW pc PROVE Onward(r, pc).page \in {r.page, << >>}
  BY DEF Onward, Idle

\* What one sync does alone leaves the rest apart.
LEMMA ApartOfSync ==
    ASSUME Settled, NEW s \in Syncs, NEW r, Becomes(s, r), sync \in [Syncs -> SyncRecord],
           \A t \in Syncs \ {s} : sync[t].pc = "idle",
           UNCHANGED <<mirror, arrivals>>,
           r.pc = "idle" \/ \A l \in DOMAIN r.page : r.page[l].of \notin mirror \ arrivals
    PROVE  Alone' /\ PagesApart'
<1>1. \A t \in Syncs : sync'[t] = IF t = s THEN r ELSE sync[t]
  BY DEF Becomes
<1> QED
  BY <1>1 DEF Alone, PagesApart

\* Rows that a step adds or changes stay out of reach of the games that were looked at.
LEMMA LeftByRows ==
    ASSUME LobbyAssumption, TypeOk, LeftForGood, [Next]_vars, UNCHANGED <<mirror, arrivals, named>>,
           \A o \in rows' : \A g \in mirror \ arrivals : o.of = g /\ o.endOf = g /\ o.matched = 0 =>
               \E p \in rows : /\ p.of = g /\ p.endOf = g /\ p.matched = 0
                               /\ o.map = p.map /\ o.endMap = p.endMap /\ o.players = p.players
                               /\ o.endPlayers = p.endPlayers /\ o.started = p.started
    PROVE  LeftForGood'
<1> SUFFICES ASSUME NEW g \in mirror \ arrivals, named[g] = {}, NEW o \in rows',
                    o.of = g, o.endOf = g, o.matched = 0
             PROVE  ~Fits(o, g)'
  BY DEF LeftForGood
<1>1. PICK p \in rows : /\ p.of = g /\ p.endOf = g /\ p.matched = 0
                        /\ o.map = p.map /\ o.endMap = p.endMap /\ o.players = p.players
                        /\ o.endPlayers = p.endPlayers /\ o.started = p.started
  OBVIOUS
<1>2. ~Fits(p, g)
  BY <1>1 DEF LeftForGood
<1>3. ~Fits(o, g)
  BY <1>1, <1>2, FitsDepends
<1>4. played'[g] = played[g]
  BY PlayedStays DEF TypeOk, GamesOk
<1> QED
  BY <1>3, <1>4, FitsRemains

\* Every step of syncs that do not overlap keeps what was looked at settled.
LEMMA SettledNext ==
    ASSUME LobbyAssumption, TypeOk, Settled, [Next]_vars, ~overlapped'
    PROVE  Settled'
<1>1. \A g \in mirror : played'[g] = played[g]
  BY PlayedStays DEF TypeOk, GamesOk
<1>2. ASSUME UNCHANGED <<rows, sync, named>>, mirror' \ arrivals' = mirror \ arrivals PROVE Settled'
  <2>1. LeftForGood'
    <3> SUFFICES ASSUME NEW g \in mirror \ arrivals, NEW o \in rows, ~Fits(o, g) PROVE ~Fits(o, g)'
      BY <1>2 DEF Settled, LeftForGood
    <3> QED
      BY <1>1, FitsRemains
  <2> QED
    BY <1>2, <2>1 DEF Settled, Alone, PagesApart
<1>3. CASE Outside \/ UNCHANGED vars
  <2>1. UNCHANGED <<rows, sync, named>>
    BY <1>3 DEF Outside, Starts, Changes, Ends, gamesInsert, Clock, vars
  <2>2. mirror' \ arrivals' = mirror \ arrivals
    BY <1>3 DEF Outside, Starts, Changes, Ends, gamesInsert, Clock, vars, TypeOk, GamesOk
  <2> QED
    BY <1>2, <2>1, <2>2
<1>4. ASSUME NEW s \in Syncs, SyncStep(s) PROVE Settled'
  <2> DEFINE r == sync[s]
  <2>0. /\ sync \in [Syncs -> SyncRecord] /\ SyncOk(r) /\ r \in SyncRecord
        /\ (r.pc # "idle" => \A t \in Syncs \ {s} : sync[t].pc = "idle")
        /\ (r.pc # "idle" => \A l \in DOMAIN r.page : r.page[l].of \notin mirror \ arrivals)
    BY DEF TypeOk, SyncsOk, Settled, Alone, PagesApart
  <2>1. ASSUME UNCHANGED <<mirror, arrivals, named, rows>> PROVE LeftForGood'
    BY <1>1, <2>1, FitsRemains DEF Settled, LeftForGood
  <2>2. ASSUME NEW new, "page" \in DOMAIN new, new.page = r.page, r.pc # "idle", NEW pc,
               Becomes(s, Onward(new, pc)), UNCHANGED <<mirror, arrivals>>
        PROVE  Alone' /\ PagesApart'
    <3>1. \A p \in {r.page, << >>} : \A l \in DOMAIN p : p[l].of \notin mirror \ arrivals
      <4> DOMAIN << >> = {}
        OBVIOUS
      <4> HIDE DEF r
      <4> QED
        BY <2>0, <2>2
    <3>2. Onward(new, pc).page \in {r.page, << >>}
      BY <2>2, OnwardPage
    <3> HIDE DEF r
    <3> QED
      BY <2>0, <2>2, <3>1, <3>2, ApartOfSync
  <2>3. CASE Poll(s)
    <3> DEFINE running == {l \in Lobbies : lobby[l].game # 0}
               page == [l \in running |-> [of |-> lobby[l].game, map |-> lobby[l].map, sig |-> sig(l),
                                           elapsed |-> now - played[lobby[l].game].start]]
               new == [Idle EXCEPT !.pc = "open", !.page = page]
    <3>1. Becomes(s, new) /\ UNCHANGED <<mirror, arrivals, named, rows>> /\ \A t \in Syncs : sync[t].pc = "idle"
      BY <2>3 DEF Poll, At, world
    <3>2. \A l \in DOMAIN new.page : new.page[l].of \notin mirror \ arrivals
      <4>1. new.page = page
        BY DEF Idle
      <4>2. \A l \in running : page[l].of = lobby[l].game /\ lobby[l].game \notin mirror
        BY DEF TypeOk, LobbiesOk
      <4> HIDE DEF new
      <4> QED
        BY <4>1, <4>2
    <3> HIDE DEF new
    <3> QED
      BY <2>0, <2>1, <3>1, <3>2, ApartOfSync DEF Settled
  <2>4. CASE lobbiesOpen(s)
    <3> DEFINE open == {o \in rows : Open(o)}
               new == DOMAIN r.page \ {o.lobby : o \in open}
               moved == {o \in open : o.lobby \in DOMAIN r.page /\ o.sig # r.page[o.lobby].sig}
               found == [r EXCEPT !.new = new, !.moved = {<<o.lobby, o.started>> : o \in moved},
                                  !.gone = {o.lobby : o \in open} \ DOMAIN r.page, !.pc = "shows"]
    <3>1. /\ Becomes(s, IF new = {} /\ moved = {} THEN Onward(found, "shows") ELSE found)
          /\ UNCHANGED <<mirror, arrivals, named, rows>> /\ r.pc # "idle"
      BY <2>4 DEF lobbiesOpen, At, world
    <3>2. found.page = r.page
      BY <2>0 DEF SyncRecord
    <3>3. CASE new = {} /\ moved = {}
      <4>1. Becomes(s, Onward(found, "shows"))
        BY <3>1, <3>3
      <4>2. "page" \in DOMAIN found
        BY <2>0 DEF SyncRecord
      <4> HIDE DEF found, r
      <4> QED
        BY <2>1, <2>2, <3>1, <3>2, <4>1, <4>2 DEF Settled
    <3>4. CASE ~(new = {} /\ moved = {})
      <4>1. Becomes(s, found)
        BY <3>1, <3>4
      <4> HIDE DEF found, r
      <4> QED
        BY <2>0, <2>1, <3>1, <3>2, <4>1, ApartOfSync DEF Settled
    <3> QED
      BY <3>3, <3>4
  <2>5. CASE Shows(s)
    <3> DEFINE wanted == sync[s].new \cup {k[1] : k \in sync[s].moved}
               with(failed) == [r EXCEPT !.read = [l \in wanted |-> IF l \in failed THEN Unknown ELSE lobby[l].players]]
    <3>1. PICK failed \in SUBSET wanted : Becomes(s, Onward(with(failed), "shows"))
      BY <2>5 DEF Shows
    <3>2. UNCHANGED <<mirror, arrivals, named, rows>> /\ r.pc # "idle"
      BY <2>5 DEF Shows, At, world
    <3>3. "page" \in DOMAIN with(failed) /\ with(failed).page = r.page
      BY <2>0 DEF SyncRecord
    <3> HIDE DEF with, r
    <3> QED
      BY <2>1, <2>2, <3>1, <3>2, <3>3 DEF Settled
  <2>6. CASE lobbiesObserve(s)
    <3> DEFINE Row(l) == LET p == sync[s].page[l] IN
               [lobby |-> l, started |-> now - p.elapsed, map |-> p.map, players |-> sync[s].read[l],
                endMap |-> {}, endPlayers |-> Unknown, sig |-> p.sig, ended |-> FALSE,
                matched |-> 0, of |-> p.of, endOf |-> p.of]
    <3>1. /\ \A o \in rows' : o \in rows \/ \E l \in r.new : o = Row(l)
          /\ Becomes(s, Onward(r, "observe")) /\ UNCHANGED <<mirror, arrivals, named>> /\ r.pc # "idle"
      BY <2>6 DEF lobbiesObserve, At, world
    <3>2. "page" \in DOMAIN r
      BY <2>0 DEF SyncRecord
    <3>3. \A l \in r.new : Row(l).of \notin mirror \ arrivals
      BY <2>0, <3>1 DEF SyncOk
    <3>4. LeftForGood'
      <4> HIDE DEF Row, r
      <4> QED
        BY <3>1, <3>3, LeftByRows DEF Settled
    <3> HIDE DEF r
    <3> QED
      BY <2>2, <3>1, <3>2, <3>4 DEF Settled
  <2>7. CASE lobbiesUpdate(s)
    <3> DEFINE Moved(o) == <<o.lobby, o.started>> \in sync[s].moved /\ Open(o)
               Updated(o) == [o EXCEPT !.sig = sync[s].page[o.lobby].sig,
                                       !.endMap = {sync[s].page[o.lobby].map},
                                       !.endPlayers = sync[s].read[o.lobby],
                                       !.endOf = sync[s].page[o.lobby].of]
    <3>1. /\ rows' = {IF Moved(o) THEN Updated(o) ELSE o : o \in rows}
          /\ Becomes(s, Onward(r, "update")) /\ UNCHANGED <<mirror, arrivals, named>> /\ r.pc # "idle"
      BY <2>7 DEF lobbiesUpdate, At, world
    <3>2. "page" \in DOMAIN r
      BY <2>0 DEF SyncRecord
    <3>3. \A o \in rows : Moved(o) => Updated(o).endOf \notin mirror \ arrivals
      <4> SUFFICES ASSUME NEW o \in rows, Moved(o) PROVE Updated(o).endOf \notin mirror \ arrivals
        OBVIOUS
      <4>1. o.lobby \in DOMAIN r.page
        BY <2>0 DEF SyncOk
      <4>2. Updated(o).endOf = r.page[o.lobby].of
        BY DEF TypeOk, RowsOk, Own, Observation
      <4> HIDE DEF r, Updated
      <4> QED
        BY <2>0, <3>1, <4>1, <4>2
    <3>4. LeftForGood'
      <4> HIDE DEF Moved, Updated, r
      <4>1. \A o \in rows' : o \in rows \/ o.endOf \notin mirror \ arrivals
        BY <3>1, <3>3
      <4> QED
        BY <3>1, <4>1, LeftByRows DEF Settled
    <3> HIDE DEF r
    <3> QED
      BY <2>2, <3>1, <3>2, <3>4 DEF Settled
  <2>8. CASE lobbiesEnd(s)
    <3>1. /\ rows' = {IF o.lobby \in sync[s].gone THEN [o EXCEPT !.ended = TRUE] ELSE o : o \in rows}
          /\ Becomes(s, [Idle EXCEPT !.pc = "match"]) /\ UNCHANGED <<mirror, arrivals, named>> /\ r.pc # "idle"
      BY <2>8 DEF lobbiesEnd, At, world
    <3> DEFINE Same(o, p) == /\ p.of = o.of /\ p.endOf = o.endOf /\ p.matched = o.matched
                             /\ o.map = p.map /\ o.endMap = p.endMap /\ o.players = p.players
                             /\ o.endPlayers = p.endPlayers /\ o.started = p.started
    <3>2. \A o \in rows' : \E p \in rows : Same(o, p)
      <4>1. \A o \in rows : o \in Observation
        BY DEF TypeOk, RowsOk, Own
      <4> DEFINE over(p) == [p EXCEPT !.ended = TRUE]
      <4>2. \A p \in rows : Same(p, p) /\ Same(over(p), p)
        BY <4>1 DEF Observation
      <4>3. \A o \in rows' : \E p \in rows : o = p \/ o = over(p)
        BY <3>1
      <4> HIDE DEF Same, over
      <4> QED
        BY <4>2, <4>3
    <3>3. LeftForGood'
      BY <3>1, <3>2, LeftByRows DEF Settled
    <3>4. DOMAIN [Idle EXCEPT !.pc = "match"].page = {}
      BY Blank
    <3> HIDE DEF r
    <3> QED
      BY <2>0, <3>1, <3>3, <3>4, ApartOfSync DEF Settled
  <2>9. CASE Dies(s)
    <3>1. Becomes(s, Idle) /\ UNCHANGED <<mirror, arrivals, named, rows>> /\ r.pc # "idle"
      BY <2>9 DEF Dies, At, world
    <3> HIDE DEF r
    <3> QED
      BY <2>0, <2>1, <3>1, Blank, ApartOfSync DEF Settled
  <2>10. CASE lobbiesMatch(s)
    <3> DEFINE Matched(o) == IF \E c \in Picks : c.o = o
                             THEN [o EXCEPT !.matched = (CHOOSE c \in Picks : c.o = o).g, !.ended = TRUE]
                             ELSE o
    <3>1. /\ rows' \subseteq {Matched(o) : o \in rows} /\ arrivals' = {} /\ mirror' = mirror
          /\ Becomes(s, Idle) /\ r.pc # "idle"
          /\ named' = [g \in 1 .. MaxGames |-> named[g] \cup {c.o : c \in {c \in Picks : c.g = g}}]
      BY <2>10 DEF lobbiesMatch, Picks, At
    <3>2. \A o \in rows' : o.matched = 0 => o \in rows /\ ~\E c \in Picks : c.o = o
      <4>1. ASSUME NEW o \in rows, \E c \in Picks : c.o = o PROVE Matched(o).matched # 0
        <5>1. (CHOOSE c \in Picks : c.o = o).g # 0
          BY <4>1, PicksFit
        <5>2. "matched" \in DOMAIN o
          BY DEF TypeOk, RowsOk, Own, Observation
        <5> QED
          BY <4>1, <5>1, <5>2
      <4>2. \A o \in rows : ~(\E c \in Picks : c.o = o) => Matched(o) = o
        OBVIOUS
      <4> HIDE DEF Matched
      <4> QED
        BY <3>1, <4>1, <4>2
    <3>3. \A g \in mirror : g \in 1 .. MaxGames
      BY DEF TypeOk, GamesOk, Games, LobbyAssumption
    <3>4. LeftForGood'
      <4> SUFFICES ASSUME NEW g \in mirror, named'[g] = {}, NEW o \in rows', o.of = g, o.endOf = g, o.matched = 0
                   PROVE  ~Fits(o, g)'
        BY <3>1 DEF LeftForGood
      <4>1. named[g] = {} /\ ~\E c \in Picks : c.g = g
        <5>1. named'[g] = named[g] \cup {c.o : c \in {c \in Picks : c.g = g}}
          BY <3>1, <3>3
        <5> QED
          BY <5>1
      <4>2. o \in rows /\ ~\E c \in Picks : c.o = o
        BY <3>2
      <4>3. ~Fits(o, g)
        <5>1. CASE g \in arrivals
          BY <4>1, <4>2, <5>1, PicksFit
        <5>2. CASE g \notin arrivals
          BY <4>1, <4>2, <5>2 DEF Settled, LeftForGood
        <5> QED
          BY <5>1, <5>2
      <4> QED
        BY <1>1, <4>3, FitsRemains
    <3>5. \A t \in Syncs : sync'[t].pc = "idle"
      <4>1. sync' = [sync EXCEPT ![s] = Idle]
        BY <3>1 DEF Becomes
      <4> HIDE DEF r
      <4> QED
        BY <2>0, <3>1, <4>1, Blank
    <3> QED
      BY <3>4, <3>5 DEF Settled, Alone, PagesApart
  <2> QED
    BY <1>4, <2>3, <2>4, <2>5, <2>6, <2>7, <2>8, <2>9, <2>10 DEF SyncStep
<1> QED
  BY <1>3, <1>4 DEF Next
-----------------------------------------------------------------------------
(* What the report says of them. *)

\* What fits by the report's verdict fits by the matcher's: the roster it looks at is as good as none better.
LEMMA ReportedFits ==
    ASSUME LobbyAssumption, NEW o, NEW g, Own(o), OwnGame(g), NEW near, o \in DOMAIN lobbyNearMisses(g, near),
           LET m == lobbyNearMisses(g, near)[o] IN m.mapOk /\ m.timeOk /\ m.overlapOk
    PROVE  Fits(o, g)
<1> DEFINE Best == CHOOSE r \in lobbyRosters(o) : \A q \in lobbyRosters(o) : Share(q, g) <= Share(r, g)
<1>1. /\ MapOk(o, g) /\ TimeOk(o, g)
      /\ lobbyRosters(o) = {} \/ (played[g].players # {} /\ Half(rosterOverlap(Best, g)))
  BY DEF lobbyNearMisses
<1>2. ASSUME lobbyRosters(o) # {} PROVE Half(Score(o, g))
  <2>1. \A r \in lobbyRosters(o) : Share(r, g) \in Nat
    BY ScoreIsBest DEF rosterOverlap, Fraction
  <2>2. \E r \in lobbyRosters(o) : \A q \in lobbyRosters(o) : Share(q, g) <= Share(r, g)
    <3>1. \A r \in lobbyRosters(o) : r = o.players \/ r = o.endPlayers
      BY DEF lobbyRosters
    <3> QED
      BY <1>2, <2>1, <3>1
  <2>3. Best \in lobbyRosters(o)
    BY <2>2
  <2> HIDE DEF Best
  <2>4. rosterOverlap(Best, g) \in Fraction /\ Score(o, g) \in Fraction /\ ~Exceeds(rosterOverlap(Best, g), Score(o, g))
    BY <2>3, ScoreIsBest
  <2> QED
    BY <1>1, <1>2, <2>4, Halves
<1> QED
  BY <1>1, <1>2 DEF Fits

\* The invariant says of every state what the runs check.
LEMMA Promised == ASSUME LobbyAssumption, IInv PROVE NamedByItsHost /\ ArrivalsSettled
<1>1. NamedByItsHost
  <2>1. DOMAIN played = 1 .. Len(played) /\ Len(played) \in Nat /\ Len(played) <= MaxGames /\ MaxGames \in Nat
    BY DEF IInv, TypeOk, GamesOk, LobbyAssumption
  <2>2. Games \subseteq 1 .. MaxGames
    BY <2>1 DEF Games
  <2> QED
    BY <2>2 DEF IInv, NamesOk, NamedByItsHost
<1>2. ArrivalsSettled
  <2> SUFFICES ASSUME ~overlapped, NEW g \in DOMAIN lobbyMisses \ arrivals, NEW o \in DOMAIN lobbyMisses[g],
                      o.of = g, o.endOf = g,
                      LET m == lobbyMisses[g][o] IN m.matched = 0 /\ m.mapOk /\ m.timeOk /\ m.overlapOk
               PROVE  FALSE
    BY DEF ArrivalsSettled
  <2> DEFINE near == {o_1 \in rows : Abs(Delta(o_1, g)) <= MissSpan}
  <2>1. g \in mirror /\ named[g] = {} /\ lobbyMisses[g] = lobbyNearMisses(g, near)
    BY DEF lobbyMisses
  <2>2. o \in rows /\ lobbyNearMisses(g, near)[o].matched = o.matched
    BY <2>1 DEF lobbyNearMisses
  <2>3. Own(o) /\ OwnGame(g)
    BY <2>1, <2>2 DEF IInv, TypeOk, RowsOk, GamesOk
  <2> HIDE DEF near
  <2>4. Fits(o, g)
    BY <2>1, <2>3, ReportedFits
  <2> QED
    BY <2>1, <2>2, <2>4 DEF IInv, Settled, LeftForGood
<1> QED
  BY <1>1, <1>2

\* The invariant holds at the start.
LEMMA IInvInit == ASSUME LobbyAssumption PROVE Init => IInv
<1> SUFFICES ASSUME Init PROVE IInv
  OBVIOUS
<1>1. NamesOk /\ Settled
  BY DEF Init, NamesOk, Settled, Alone, PagesApart, LeftForGood, Idle
<1> QED
  BY <1>1, TypeInit DEF IInv

\* And every step keeps it.
LEMMA IInvNext == ASSUME LobbyAssumption PROVE IInv /\ [Next]_vars => IInv'
<1> SUFFICES ASSUME IInv, [Next]_vars PROVE IInv'
  OBVIOUS
<1>1. overlapped => overlapped'
  BY DEF Next, Outside, SyncStep, vars, world, Starts, Changes, Ends, gamesInsert, Clock,
     Poll, lobbiesOpen, Shows, lobbiesObserve, lobbiesUpdate, lobbiesEnd, lobbiesMatch, Dies
<1>2. TypeOk' /\ NamesOk'
  BY TypeNext, NamesNext DEF IInv
<1>3. ~overlapped' => Settled'
  BY <1>1, SettledNext DEF IInv
<1> QED
  BY <1>2, <1>3 DEF IInv

\* The invariant holds always: the types, whose names a roster holds, and, while no two syncs have
\* overlapped, what an observation, a page under way and a game left unnamed have to do with each
\* other.
THEOREM LobbiesAlways == Spec => []IInv
<1> QED
  BY LobbyAssumption, IInvInit, IInvNext, PTL DEF Spec

\* For any lobbies, maps, rosters, windows, faults and overlapping syncs: an observation whose
\* roster was read names a game of its own lobby only.
THEOREM NamedRight == Spec => []NamedByItsHost
<1>1. IInv => NamedByItsHost
  BY LobbyAssumption, Promised
<1> QED
  BY <1>1, LobbyAssumption, IInvInit, IInvNext, PTL DEF Spec

\* And while syncs do not overlap, a game that has been looked at and left has no observation of
\* its own that the report would call a match.
THEOREM LookedAtOnce == Spec => []ArrivalsSettled
<1>1. IInv => ArrivalsSettled
  BY LobbyAssumption, Promised
<1> QED
  BY <1>1, LobbyAssumption, IInvInit, IInvNext, PTL DEF Spec

=============================================================================
