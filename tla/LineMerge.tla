----------------------------- MODULE LineMerge -----------------------------
(***************************************************************************)
(* ThreeWayMerge: the merge of two texts over the text both come from, by  *)
(* lines, and the file with conflict blocks that stands for a merge that   *)
(* is not clean.                                                           *)
(*                                                                         *)
(* A text is the sequence of its lines, as splitLines returns it; the line *)
(* Blank is empty.  The other lines of a text are pairwise different, so   *)
(* that the diff of two texts (go-diff, a library) is known: it matches    *)
(* the lines that both have.                                               *)
(***************************************************************************)
EXTENDS Integers, FiniteSets, SequencesExt

Blank == 0

(***************************************************************************)
(* computeHunks                                                            *)
(***************************************************************************)
\* The diff is fed the lines joined again: the last one has no newline, which
\* makes it another line than the same line higher up, and an empty last one
\* has gone.
Tokens(text) ==
  IF text = << >> THEN << >>
  ELSE IF Last(text) = Blank THEN [i \in 1 .. Len(text) - 1 |-> <<text[i], TRUE>>]
  ELSE [i \in DOMAIN text |-> <<text[i], i < Len(text)>>]

\* The lines base[start + 1] .. base[end] become lines.
Hunk(start, end, lines) == [start |-> start, end |-> end, lines |-> lines]

\* The hunks lie between two lines that are kept and have none between them.
Hunks(base, text) ==
  LET b == Tokens(base)
      t == Tokens(text)
      kept == {<<0, 0>>, <<Len(b) + 1, Len(t) + 1>>} \cup
                {<<i, j>> \in (1 .. Len(b)) \X (1 .. Len(t)) : b[i] = t[j]}
      next(k) == CHOOSE l \in kept : l[1] > k[1] /\ \A o \in kept : o[1] > k[1] => l[1] <= o[1]
      gaps == {<<k, next(k)>> : k \in {k \in kept : k[1] <= Len(b)}}
      hunk(g) == Hunk(g[1][1], g[2][1] - 1,
                      [i \in 1 .. g[2][2] - g[1][2] - 1 |-> t[g[1][2] + i][1]])
  IN {hunk(g) : g \in {g \in gaps : g[2][1] > g[1][1] + 1 \/ g[2][2] > g[1][2] + 1}}

\* By position; where a hunk of each side changes the same lines, the server's
\* comes first.
Before(h, k) ==
  \/ h.start < k.start
  \/ h.start = k.start /\ h.end < k.end
  \/ h.start = k.start /\ h.end = k.end /\ "side" \in DOMAIN h /\ h.side = "server" /\ k.side = "client"
InOrder(hs) ==
  [n \in 1 .. Cardinality(hs) |->
     CHOOSE h \in hs : Cardinality({k \in hs : Before(k, h)}) = n - 1]

(***************************************************************************)
(* hasOverlap, applyHunks                                                  *)
(***************************************************************************)
RangesOverlap(h, k) ==
  \/ h.start = h.end /\ k.start = k.end /\ h.start = k.start
  \/ h.start = h.end /\ k.start < h.start /\ h.start < k.end
  \/ k.start = k.end /\ h.start < k.start /\ k.start < h.end
  \/ h.start < h.end /\ k.start < k.end /\ h.start < k.end /\ k.start < h.end

HasOverlap(hs, ks) == \E h \in hs, k \in ks : RangesOverlap(h, k)

\* base with the lines of every piece in place of its range.
Spliced(base, pieces) ==
  LET step(acc, h) ==
        [out |-> acc.out \o SubSeq(base, acc.pos + 1, h.start) \o h.lines,
         pos |-> h.end]
      done == FoldLeft(step, [out |-> << >>, pos |-> 0], InOrder(pieces))
  IN done.out \o SubSeq(base, done.pos + 1, Len(base))

\* Joined and read again, a last empty line is the final newline.
Reread(text) == IF text # << >> /\ Last(text) = Blank THEN Front(text) ELSE text

Merged(base, hs, ks) == Reread(Spliced(base, hs \cup ks))

(***************************************************************************)
(* partitionHunks, renderConflictFile                                      *)
(***************************************************************************)
Lonely(hs, ks) == {h \in hs : \A k \in ks : ~RangesOverlap(h, k)}

\* The hunks that meet one of the other side, in order, with their side.
Pool(hs, ks) ==
  InOrder({[start |-> h.start, end |-> h.end, lines |-> h.lines, side |-> "server"] :
             h \in hs \ Lonely(hs, ks)} \cup
          {[start |-> k.start, end |-> k.end, lines |-> k.lines, side |-> "client"] :
             k \in ks \ Lonely(ks, hs)})

Low(a, b) == IF a < b THEN a ELSE b
High(a, b) == IF a < b THEN b ELSE a

\* Faulty: of two hunks of a side the later one stays.
JoinedLast(region, x) ==
  [start |-> Low(region.start, x.start), end |-> High(region.end, x.end),
   server |-> IF x.side = "server" THEN x.lines ELSE region.server,
   client |-> IF x.side = "server" THEN region.client ELSE x.lines]

Joined(region, x) ==
  [start |-> Low(region.start, x.start), end |-> High(region.end, x.end),
   server |-> IF x.side = "server" THEN region.server \o x.lines ELSE region.server,
   client |-> IF x.side = "server" THEN region.client ELSE region.client \o x.lines]

\* One sweep over the pool: what meets the region goes into it.
Sweep(region, pool) ==
  FoldLeft(LAMBDA acc, x :
             IF RangesOverlap(acc.region, x)
             THEN [acc EXCEPT !.region = Joined(@, x)]
             ELSE [acc EXCEPT !.rest = Append(@, x)],
           [region |-> region, rest |-> << >>], pool)

RECURSIVE Grown(_, _)
Grown(region, pool) ==
  LET swept == Sweep(region, pool)
  IN IF swept.rest = pool THEN swept ELSE Grown(swept.region, swept.rest)

RECURSIVE RegionsOf(_)
RegionsOf(pool) ==
  IF pool = << >> THEN {}
  ELSE LET x == Head(pool)
           grown == Grown(Joined([start |-> x.start, end |-> x.end,
                                  server |-> << >>, client |-> << >>], x), Tail(pool))
       IN {grown.region} \cup RegionsOf(grown.rest)

Regions(hs, ks) == RegionsOf(Pool(hs, ks))

\* The file: each region as the lines of both sides, the lone hunks applied.
Rendered(base, hs, ks) ==
  Spliced(base, {Hunk(r.start, r.end, r.server \o r.client) : r \in Regions(hs, ks)}
                  \cup Lonely(hs, ks) \cup Lonely(ks, hs))

ThreeWayMerge(base, server, client) ==
  LET hs == Hunks(base, server)
      ks == Hunks(base, client)
  IN IF server = client THEN [conflict |-> FALSE, text |-> server]
     ELSE IF HasOverlap(hs, ks) THEN [conflict |-> TRUE, text |-> Rendered(base, hs, ks)]
     ELSE [conflict |-> FALSE, text |-> Merged(base, hs, ks)]
-----------------------------------------------------------------------------
(***************************************************************************)
(* What a merge is for, said without hunks                                 *)
(***************************************************************************)
Has(text) == ToSet(text)
New(base, text) == Has(text) \ Has(base)
Gone(base, text) == Has(base) \ Has(text)
Without(text, lines) == SelectSeq(text, LAMBDA l : l \notin lines \cup {Blank})

\* A clean merge makes both edits and nothing else: leave out what the client
\* brought and it is the server's text less what the client took out, and the
\* other way round.
BothEdits(base, server, client, text) ==
  /\ Without(text, New(base, client)) = Without(server, Gone(base, client))
  /\ Without(text, New(base, server)) = Without(client, Gone(base, server))

\* The lines that all three texts have.
Common(base, server, client) == Has(base) \cap Has(server) \cap Has(client)
=============================================================================
