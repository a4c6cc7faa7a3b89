------------------------------ MODULE PdfPages ------------------------------
(***************************************************************************)
(* PDF pages at the web gateway.  A request for the index of a PDF, or for *)
(* the image of a page, looks into a cache on disk whose directories are   *)
(* named after what stat says of the PDF; on a miss it runs poppler, once  *)
(* for all who ask at the same time: the others wait for a channel.        *)
(*                                                                         *)
(* One PDF, which is replaced while requests are under way, and one page   *)
(* of it.  The number of a version stands for path, time and size.         *)
(***************************************************************************)
EXTENDS Integers, SequencesExt, FiniteSets

CONSTANTS
  MaxVersions,   \* bound: versions of the PDF
  MaxPdfEvents,  \* bound: versions and requests together
  MaxBroken      \* bound: requests that end amid their work

ASSUME PdfBoundsAssumption ==
  MaxVersions \in Nat \ {0} /\ MaxPdfEvents \in Nat /\ MaxBroken \in Nat

Versions == 1 .. MaxVersions
Phases == {"meta", "page"}

VARIABLES
  source,     \* the version of the PDF in the vault
  long,       \* 100 to 999 pages: poppler's names are those of the cache
  meta,       \* meta.json of every version: of which version, 0: none, -1: cut off
  drawn,      \* the image under poppler's own name (0: none)
  image,      \* the image under the name of the cache
  pngs,       \* the image files: their version, who emptied them last, whether
              \* that one has come to the end
  inFlight,   \* the channel of the producer at work, named after it, 0: none
  asked,      \* the requests
  broken      \* history: the versions of whose page an attempt ended early

pdfVars == <<source, long, meta, drawn, image, pngs, inFlight, asked, broken>>
cache == <<meta, drawn, image, pngs>>
-----------------------------------------------------------------------------
PdfInit ==
  /\ source = 1 /\ long \in BOOLEAN
  /\ meta = [v \in Versions |-> 0]
  /\ drawn = meta /\ image = meta
  /\ pngs = << >>
  /\ inFlight = [p \in Phases |-> meta]
  /\ asked = << >> /\ broken = {}

\* The vault gets a new version.
Swap ==
  /\ source < MaxVersions /\ source + Len(asked) < MaxPdfEvents
  /\ source' = source + 1
  /\ UNCHANGED <<long, cache, inFlight, asked, broken>>

\* A request for meta.json, or for the page, which needs the metadata as well.
Ask(artifact) ==
  /\ source + Len(asked) < MaxPdfEvents
  /\ asked' = Append(asked,
       [artifact |-> artifact, since |-> source, phase |-> "meta", at |-> "stat",
        key |-> 0, doc |-> 0, wait |-> 0, png |-> 0, failed |-> FALSE,
        got |-> [version |-> 0, whole |-> FALSE]])
  /\ UNCHANGED <<source, long, cache, inFlight, broken>>
-----------------------------------------------------------------------------
(***************************************************************************)
(* Metadata and RenderPageWithMeta: look, wait, work                       *)
(***************************************************************************)
Put(r, rec) == asked' = [asked EXCEPT ![r] = rec]

\* readMeta (a file that is cut off is none), or stat of the image.
Hit(phase, key) == IF phase = "meta" THEN meta[key] > 0 ELSE image[key] # 0

\* The end of a phase, and of a request for meta.json.
Found(q, doc) ==
  CASE q.phase = "page" -> [q EXCEPT !.at = "serve"]
    [] q.phase = "meta" /\ q.artifact = "meta" ->
         [q EXCEPT !.at = "told", !.got = [version |-> doc, whole |-> TRUE]]
    [] OTHER -> [q EXCEPT !.phase = "page", !.at = "stat", !.doc = doc]

\* Faulty: a key of the path alone.
PathOnly == 1

\* cacheKey: path, time and size.
CacheKey == source

Stat(r) ==
  /\ asked[r].at = "stat"
  /\ LET q == [asked[r] EXCEPT !.key = CacheKey]
     IN Put(r, IF Hit(q.phase, q.key) THEN Found(q, meta[q.key])
               ELSE [q EXCEPT !.at = "acquire"])
  /\ UNCHANGED <<source, long, cache, inFlight, broken>>

\* acquire: the producer, or one who waits for it.
Acquire(r) ==
  /\ asked[r].at = "acquire"
  /\ LET q == asked[r]
         channel == inFlight[q.phase][q.key]
     IN IF channel = 0
        THEN /\ Put(r, [q EXCEPT !.at = "produce"])
             /\ inFlight' = [inFlight EXCEPT ![q.phase][q.key] = r]
        ELSE /\ Put(r, [q EXCEPT !.at = "wait", !.wait = channel])
             /\ UNCHANGED inFlight
  /\ UNCHANGED <<source, long, cache, broken>>

\* When the producer came to nothing the one who waited works, unregistered.
Wake(r) ==
  /\ asked[r].at = "wait" /\ inFlight[asked[r].phase][asked[r].key] # asked[r].wait
  /\ LET q == asked[r]
     IN Put(r, IF Hit(q.phase, q.key) THEN Found(q, meta[q.key])
               ELSE [q EXCEPT !.at = "produce"])
  /\ UNCHANGED <<source, long, cache, inFlight, broken>>

\* release closes the channel that is there, whoever has made it.
Release(r) ==
  /\ asked[r].at = "release"
  /\ inFlight' = [inFlight EXCEPT ![asked[r].phase][asked[r].key] = 0]
  /\ Put(r, IF asked[r].failed THEN [asked[r] EXCEPT !.at = "error"]
            ELSE Found(asked[r], asked[r].doc))
  /\ UNCHANGED <<source, long, cache, broken>>
-----------------------------------------------------------------------------
(***************************************************************************)
(* The work: pdftotext and meta.json                                       *)
(***************************************************************************)
ExtractMetadata(r) ==
  /\ asked[r].at = "produce" /\ asked[r].phase = "meta"
  /\ Put(r, [asked[r] EXCEPT !.at = "write", !.doc = source])
  /\ UNCHANGED <<source, long, cache, inFlight, broken>>

\* os.WriteFile: the file is emptied, then written.
WriteMeta(r) ==
  /\ asked[r].at \in {"write", "writing"}
  /\ LET q == asked[r] IN
       IF q.at = "write"
       THEN Put(r, [q EXCEPT !.at = "writing"]) /\ meta' = [meta EXCEPT ![q.key] = -1]
       ELSE Put(r, [q EXCEPT !.at = "release"]) /\ meta' = [meta EXCEPT ![q.key] = q.doc]
  /\ UNCHANGED <<source, long, drawn, image, pngs, inFlight, broken>>
-----------------------------------------------------------------------------
(***************************************************************************)
(* The work: pdftocairo, which writes under a name of its own unless the   *)
(* document is long, and the rename                                        *)
(***************************************************************************)
Rasterize(r) ==
  /\ asked[r].at = "produce" /\ asked[r].phase = "page"
  /\ LET q == asked[r]
         there == IF long THEN image[q.key] ELSE drawn[q.key]
         png == IF there = 0 THEN Len(pngs) + 1 ELSE there
         emptied == [version |-> source, by |-> r, done |-> FALSE]
     IN /\ pngs' = IF there = 0 THEN Append(pngs, emptied) ELSE [pngs EXCEPT ![png] = emptied]
        /\ image' = IF long THEN [image EXCEPT ![q.key] = png] ELSE image
        /\ drawn' = IF long THEN drawn ELSE [drawn EXCEPT ![q.key] = png]
        /\ Put(r, [q EXCEPT !.at = "drawing", !.png = png])
  /\ UNCHANGED <<source, long, meta, inFlight, broken>>

Rasterized(r) ==
  /\ asked[r].at = "drawing"
  /\ LET q == asked[r] IN
       /\ pngs' = IF pngs[q.png].by = r THEN [pngs EXCEPT ![q.png].done = TRUE] ELSE pngs
       /\ IF image[q.key] = 0
          THEN image' = [image EXCEPT ![q.key] = drawn[q.key]] /\ drawn' = [drawn EXCEPT ![q.key] = 0]
          ELSE UNCHANGED <<image, drawn>>
       /\ Put(r, [q EXCEPT !.at = "release"])
  /\ UNCHANGED <<source, long, meta, inFlight, broken>>

\* Poppler is missing, cannot read the PDF or is killed with the request whose
\* browser has gone; the disk is full.  What is written stays.
Break(r) ==
  /\ asked[r].at \in {"produce", "writing", "drawing"}
  /\ Cardinality({s \in DOMAIN asked : asked[s].failed}) < MaxBroken
  /\ Put(r, [asked[r] EXCEPT !.at = "release", !.failed = TRUE])
  /\ broken' = IF asked[r].phase = "page" THEN broken \cup {asked[r].key} ELSE broken
  /\ UNCHANGED <<source, long, cache, inFlight>>

\* http.ServeFile
ServeFile(r) ==
  /\ asked[r].at = "serve"
  /\ LET png == pngs[image[asked[r].key]]
     IN Put(r, [asked[r] EXCEPT !.at = "told",
                  !.got = [version |-> png.version, whole |-> png.done]])
  /\ UNCHANGED <<source, long, cache, inFlight, broken>>

PdfDispatch(r) ==
  \/ Stat(r) \/ Acquire(r) \/ Wake(r) \/ Release(r) \/ ServeFile(r)
  \/ ExtractMetadata(r) \/ WriteMeta(r) \/ Rasterize(r) \/ Rasterized(r) \/ Break(r)

PdfNext ==
  \/ Swap
  \/ \E artifact \in Phases : Ask(artifact)
  \/ \E r \in DOMAIN asked : PdfDispatch(r)

PdfSpec == PdfInit /\ [][PdfNext]_pdfVars
-----------------------------------------------------------------------------
(***************************************************************************)
(* Properties                                                              *)
(***************************************************************************)
\* An index or a page is of a version that the PDF had while the request was
\* under way, although the directory is named before poppler reads the PDF, and
\* requests share directories, channels and files (Metadata, RenderPageWithMeta).
\* A page of a document whose pages poppler numbers with fewer or more digits is
\* whole, and drawn by one process at a time, unless an attempt at it ended early.
PdfPagesServed ==
  /\ \A r \in DOMAIN asked :
       asked[r].at = "told" =>
         /\ asked[r].got.version >= asked[r].since
         /\ long \/ asked[r].key \in broken \/ asked[r].got.whole
  /\ \A r, s \in DOMAIN asked :
       asked[r].at = "drawing" /\ asked[s].at = "drawing" /\ asked[r].key = asked[s].key =>
         r = s \/ long \/ asked[r].key \in broken
-----------------------------------------------------------------------------
(***************************************************************************)
(* Why: PdfInv is the inductive invariant                                  *)
(***************************************************************************)
Steps == {"stat", "acquire", "wait", "produce", "write", "writing", "drawing",
          "release", "serve", "told", "error"}
Answers == [version : Int, whole : BOOLEAN]
Requests ==
  [artifact : Phases, since : Nat, phase : Phases, at : Steps, key : Nat,
   doc : Int, wait : Nat, png : Nat, failed : BOOLEAN, got : Answers]
Images == [version : Versions, by : Nat, done : BOOLEAN]

PdfTypeOK ==
  /\ source \in Versions /\ long \in BOOLEAN /\ broken \subseteq Versions
  /\ meta \in [Versions -> Int] /\ pngs \in Seq(Images)
  /\ drawn \in [Versions -> 0 .. Len(pngs)] /\ image \in [Versions -> 0 .. Len(pngs)]
  /\ inFlight \in [Phases -> [Versions -> Nat]]
  /\ asked \in Seq(Requests)

\* A directory is named after a version that the PDF had since the request.
KeysSince ==
  \A r \in DOMAIN asked :
    /\ asked[r].since \in 1 .. source
    /\ asked[r].at # "stat" => asked[r].key \in asked[r].since .. source
    /\ asked[r].failed => asked[r].at \in {"release", "error"}
    /\ asked[r].at \in {"write", "writing"} => asked[r].phase = "meta"
    /\ asked[r].at \in {"drawing", "serve"} => asked[r].phase = "page"

\* Whoever has written the metadata of a directory read no older PDF.
MetaCurrent ==
  /\ \A v \in Versions : meta[v] > 0 => meta[v] >= v
  /\ \A r \in DOMAIN asked :
       /\ asked[r].phase = "meta"
       /\ asked[r].at \in {"write", "writing"} \/ (asked[r].at = "release" /\ ~asked[r].failed)
       => asked[r].doc >= asked[r].key

\* Nor whoever has drawn the page, which is there when it is served.
PageCurrent ==
  /\ \A v \in Versions :
       /\ drawn[v] # 0 => v <= source /\ pngs[drawn[v]].version >= v
       /\ image[v] # 0 => v <= source /\ pngs[image[v]].version >= v
  /\ \A r \in DOMAIN asked :
       /\ asked[r].at = "drawing" =>
            image[asked[r].key] # 0 \/ (~long /\ drawn[asked[r].key] # 0)
       /\ asked[r].at = "serve"
            \/ (asked[r].at = "release" /\ asked[r].phase = "page" /\ ~asked[r].failed)
          => image[asked[r].key] # 0

\* A file that poppler writes has one name.
OneName ==
  \A v, w \in Versions :
    drawn[v] # 0 => ~long /\ drawn[v] # image[w] /\ (v # w => drawn[v] # drawn[w])

\* As long as no attempt at a page ended early, who works on it is registered,
\* who waits for it finds it, and what has the name of the cache is whole.
Whole(v) == ~long /\ v \notin broken
AtPage(r) == asked[r].phase = "page" /\ asked[r].at # "stat" /\ Whole(asked[r].key)
OneProducer ==
  /\ \A v \in Versions : Whole(v) /\ image[v] # 0 => pngs[image[v]].done
  /\ \A r \in DOMAIN asked : AtPage(r) =>
       LET q == asked[r] IN
       /\ q.at = "release" => ~q.failed
       /\ q.at \in {"produce", "drawing", "release"} => inFlight["page"][q.key] = r
       /\ q.at = "wait" =>
            q.wait # 0 /\ (inFlight["page"][q.key] = q.wait \/ image[q.key] # 0)
       /\ q.at = "drawing" => /\ q.png = drawn[q.key] /\ q.png # 0
                              /\ pngs[q.png].by = r

\* What was answered.
ToldCurrent ==
  \A r \in DOMAIN asked : asked[r].at = "told" =>
    /\ asked[r].got.version >= asked[r].since
    /\ long \/ asked[r].key \in broken \/ asked[r].got.whole

PdfInv ==
  /\ PdfTypeOK /\ KeysSince /\ MetaCurrent /\ PageCurrent /\ OneName
  /\ OneProducer /\ ToldCurrent
=============================================================================
