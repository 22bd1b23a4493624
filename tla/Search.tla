------------------------------- MODULE Search -------------------------------
(***************************************************************************)
(* index search: the mails of the local index are ranked by the words of   *)
(* a query, by the nearness of their vectors, or by both, and the best are *)
(* shown.  Each step is a SELECT of its own, outside any transaction, so a *)
(* sync in another process may write between two of them.                  *)
(*                                                                         *)
(* How well a mail matches is a number of its own for each side: bm25 is   *)
(* what SQLite computes of the words (0: no match), cosine the similarity  *)
(* of the vectors.                                                         *)
(***************************************************************************)
EXTENDS Integers, Sequences, FiniteSets, FiniteSetsExt, SequencesExt, Ordering

CONSTANTS
  MaxMail,      \* bound on mails, numbered in the order they came
  MaxId,        \* bound on row ids
  MaxWrites,    \* bound on others' writes during a search
  WordScores,   \* what bm25 and cosine may be
  Nearnesses,
  hybridPool,   \* candidates per side for hybrid
  rrfK,
  Limits,       \* the values of --limit,
  Wanteds       \* and what --folder, --since and --before may let through

NoMail == 0
Mails  == 1..MaxMail
Ids    == 1..MaxId

ASSUME SearchAssumption ==
  /\ MaxMail \in Nat /\ MaxId \in Nat /\ MaxWrites \in Nat
  /\ WordScores \subseteq Nat /\ 0 \in WordScores
  /\ Nearnesses \subseteq Nat /\ 0 \in Nearnesses
  /\ hybridPool \in Nat \ {0} /\ rrfK \in Nat
  /\ Limits \subseteq Nat \ {0}
  /\ Wanteds \subseteq SUBSET Mails

Modes == {"fts", "semantic", "hybrid"}

VARIABLES
  rows,      \* rows[i]: the mail of row i, or NoMail
  embedded,  \* the rows with a vector of the query's model
  bm25, cosine,
  query,     \* mode, words (some are left after safeMatch), limit, wanted:
             \* the mails its --folder, --since and --before let through
  at,        \* where the search stands
  found,     \* the ids each side has ranked
  list,      \* the ids yet to be loaded
  hits,      \* what is shown
  \* auxiliary
  freed,     \* rows removed since the search began
  writes     \* how often others wrote since then

index == <<rows, embedded, bm25, cosine>>
searchVars == <<index, query, at, found, list, hits, freed, writes>>

NoQuery == [mode |-> "fts", words |-> FALSE, limit |-> 0, wanted |-> {}]
NoneFound == [fts |-> <<>>, vec |-> <<>>]
Present == {i \in Ids : rows[i] # NoMail}

SearchTypeOK ==
  /\ rows \in [Ids -> Mails \cup {NoMail}]
  /\ embedded \subseteq Present
  /\ bm25 \in [Mails -> WordScores] /\ cosine \in [Mails -> Nearnesses]
  /\ query \in [mode : Modes, words : BOOLEAN, limit : Limits \cup {0}, wanted : SUBSET Mails]
  /\ at \in {"start", "fts", "vec", "fuse", "load", "done", "error"}
  /\ found \in [fts : Seq(Ids), vec : Seq(Ids)]
  /\ list \in Seq(Ids)
  /\ hits \in Seq([id : Ids, mail : Mails])
  /\ freed \subseteq Ids /\ writes \in 0..MaxWrites

SearchInit ==
  /\ rows = [i \in Ids |-> NoMail] /\ embedded = {}
  /\ bm25 = [m \in Mails |-> 0] /\ cosine = [m \in Mails |-> 0]
  /\ query = NoQuery /\ at = "start"
  /\ found = NoneFound /\ list = <<>> /\ hits = <<>>
  /\ freed = {} /\ writes = 0

-----------------------------------------------------------------------------
(***************************************************************************)
(* Search.                                                                 *)
(***************************************************************************)
\* The ids of S by descending score, at most n of them; ties fall anyhow.
Ranked(S, Score(_), n) ==
  {SubSeq(s, 1, Min({n, Len(s)})) : s \in
     {t \in SetToSeqs(S) : \A i, j \in DOMAIN t : i < j => Score(t[i]) >= Score(t[j])}}

WordScore(i) == bm25[rows[i]]
Nearness(i)  == cosine[rows[i]]

\* filters
Filtered(S) == {i \in S : rows[i] \in query.wanted}

Matching == {i \in Filtered(Present) : WordScore(i) > 0}

\* Seeded fault: the filters are applied to the full-text side only.
AllEmbedded == embedded

Comparable == Filtered(embedded)

\* A user searches; the index holds the first k mails, embedded or not.  A
\* semantic search does not look at the words, a full-text one not at vectors:
\* a score no side of this search asks for is 0.
StartSearch ==
  /\ at = "start"
  /\ \E k \in 0..Min({MaxMail, MaxId}) :
       /\ rows' = [i \in Ids |-> IF i <= k THEN i ELSE NoMail]
       /\ embedded' \in SUBSET (1..k)
       /\ bm25' \in {w \in [Mails -> WordScores] : \A m \in Mails : m > k => w[m] = 0}
       /\ cosine' \in {n \in [Mails -> Nearnesses] : \A m \in Mails : m > k => n[m] = 0}
  /\ query' \in [mode : Modes, words : BOOLEAN, limit : Limits, wanted : Wanteds]
  /\ query'.mode = "semantic" => query'.words
  /\ query'.mode = "semantic" \/ ~query'.words => bm25' = [m \in Mails |-> 0]
  /\ query'.mode = "fts" => cosine' = [m \in Mails |-> 0]
  /\ at' = IF query'.mode = "semantic" THEN "vec" ELSE "fts"
  /\ UNCHANGED <<found, list, hits, freed, writes>>

\* How many a side may return.
Share(limit) == IF query.mode = "hybrid" THEN hybridPool ELSE limit

\* ftsRanked; a query without words is an error but in hybrid mode.
FtsRanked ==
  /\ at = "fts"
  /\ \/ /\ query.words \/ query.mode = "hybrid"
        /\ found' \in {[found EXCEPT !.fts = s] :
             s \in IF query.words THEN Ranked(Matching, WordScore, Share(query.limit))
                                  ELSE {<<>>}}
        /\ at' = IF query.mode = "hybrid" THEN "vec" ELSE "fuse"
     \/ /\ ~query.words /\ query.mode = "fts"
        /\ at' = "error"
        /\ UNCHANGED found
  /\ UNCHANGED <<index, query, list, hits, freed, writes>>

\* vecRanked
VecRanked ==
  /\ at = "vec"
  /\ found' \in {[found EXCEPT !.vec = s] :
                   s \in Ranked(Comparable, Nearness, Share(query.limit))}
  /\ at' = "fuse"
  /\ UNCHANGED <<index, query, list, hits, freed, writes>>

\* What an id is worth in one list, as a fraction: 1/(rrfK + rank), or nothing.
Worth(i, s) ==
  IF i \in ToSet(s)
  THEN [num |-> 1, den |-> rrfK + (CHOOSE r \in DOMAIN s : s[r] = i)]
  ELSE [num |-> 0, den |-> 1]

Plus(x, y) == [num |-> x.num * y.den + y.num * x.den, den |-> x.den * y.den]
More(x, y) == x.num * y.den > y.num * x.den

\* Seeded fault: the sides are not added up, the later one counts.
LaterSide(i) ==
  IF i \in ToSet(found.vec) THEN Worth(i, found.vec) ELSE Worth(i, found.fts)

\* fuse: reciprocal rank fusion,
Fused(i) == Plus(Worth(i, found.fts), Worth(i, found.vec))

\* the newer row first among equals.
ByFused ==
  {p \in Ids \X Ids :
     \/ More(Fused(p[1]), Fused(p[2]))
     \/ ~More(Fused(p[2]), Fused(p[1])) /\ p[1] > p[2]}

Fuse ==
  /\ at = "fuse"
  /\ LET s == Arranged(ToSet(found.fts) \cup ToSet(found.vec), ByFused)
     IN  list' = CASE query.mode = "fts"      -> found.fts
                   [] query.mode = "semantic" -> found.vec
                   [] query.mode = "hybrid"   -> SubSeq(s, 1, Min({query.limit, Len(s)}))
  /\ at' = "load" /\ found' = NoneFound
  /\ UNCHANGED <<index, query, hits, freed, writes>>

\* load: a row that has gone meanwhile is left out.
LoadHit ==
  /\ at = "load"
  /\ IF list = <<>>
     THEN at' = "done" /\ UNCHANGED <<list, hits>>
     ELSE /\ hits' = IF rows[Head(list)] = NoMail THEN hits
                     ELSE Append(hits, [id |-> Head(list), mail |-> rows[Head(list)]])
          /\ list' = Tail(list)
          /\ UNCHANGED at
  /\ UNCHANGED <<index, query, found, freed, writes>>

-----------------------------------------------------------------------------
(***************************************************************************)
(* A sync, or an embedding run, of another process.                        *)
(***************************************************************************)
Write ==
  /\ at \in {"fts", "vec", "fuse", "load"}
  /\ writes < MaxWrites /\ writes' = writes + 1
  /\ UNCHANGED <<bm25, cosine, query, at, found, list, hits>>

\* A new row takes the id after the largest, which may have been used before.
NextRow == Max(Present \cup {0}) + 1

SyncPut(m) ==
  /\ Write /\ NextRow \in Ids
  /\ \A i \in Ids : rows[i] # m
  /\ rows' = [rows EXCEPT ![NextRow] = m]
  /\ UNCHANGED <<embedded, freed>>

\* Seeded fault: the vector of the message stays behind.
SyncDeleteRow(i) ==
  /\ Write /\ i \in Present
  /\ rows' = [rows EXCEPT ![i] = NoMail]
  /\ freed' = freed \cup {i}
  /\ UNCHANGED embedded

SyncDelete(i) ==
  /\ Write /\ i \in Present
  /\ rows' = [rows EXCEPT ![i] = NoMail]
  /\ embedded' = embedded \ {i}
  /\ freed' = freed \cup {i}

Embedded(i) ==
  /\ Write /\ i \in Present \ embedded
  /\ embedded' = embedded \cup {i}
  /\ UNCHANGED <<rows, freed>>

SearchNext ==
  \/ StartSearch \/ FtsRanked \/ VecRanked \/ Fuse \/ LoadHit
  \/ \E m \in Mails : SyncPut(m)
  \/ \E i \in Ids : SyncDelete(i) \/ Embedded(i)

-----------------------------------------------------------------------------
(***************************************************************************)
(* Properties.                                                             *)
(***************************************************************************)
\* The sides the search looks at, and the rows each can rank.
ByWords  == query.words /\ query.mode # "semantic"
ByVector == query.mode # "fts"
Candidates == (IF ByWords THEN Matching ELSE {}) \cup (IF ByVector THEN Comparable ELSE {})

\* Row i is a better answer than row j on every side there is.
Beats(i, j) ==
  /\ ByWords  => i \in Matching /\ (j \in Matching => WordScore(i) > WordScore(j))
  /\ ByVector => i \in Comparable /\ (j \in Comparable => Nearness(i) > Nearness(j))

\* While nobody writes, a search shows as many of the candidates as its limit
\* and the pools allow, none twice, and none without, and after, every row that
\* beats it on all sides (search.go:57, 165).
BestShown ==
  at = "done" /\ writes = 0 =>
    /\ \A n \in DOMAIN hits : hits[n].id \in Candidates
    /\ \A m, n \in DOMAIN hits : hits[m].id = hits[n].id => m = n
    /\ query.limit <= hybridPool =>
         Len(hits) = Min({query.limit, Cardinality(Candidates)})
    /\ \A n \in DOMAIN hits, i \in Candidates :
         Beats(i, hits[n].id) => \E m \in 1..(n - 1) : hits[m].id = i

\* Whatever a sync writes meanwhile, a hit is a mail the query's filters let
\* through; but a row id that was freed may by then be another mail's.
WantedOnly ==
  \A n \in DOMAIN hits : hits[n].mail \in query.wanted \/ hits[n].id \in freed

RightHits == BestShown /\ WantedOnly
=============================================================================
