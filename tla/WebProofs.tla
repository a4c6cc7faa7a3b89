----------------------------- MODULE WebProofs ------------------------------
(***************************************************************************)
(* What WebVault keeps when no known defect is let loose (Risks = {}), for *)
(* every set of browsers and contents and every bound: a request at rest   *)
(* is answered with the vault as it is, and nobody sees a page rendered    *)
(* for another.  WebInv is the inductive invariant.  Its idea: wherever the*)
(* gateway differs from the disk, an event, a timer, a build or a bump is  *)
(* due, and whatever is kept under the epoch of now is what a rendering    *)
(* with the PageDeps of now would be.                                      *)
(***************************************************************************)
EXTENDS WebVault, Recursion, SequenceTheorems

NoRisk == Risks = {}

\* The members of a sequence that grows or shrinks by one.
LEMMA RangeAppend ==
  ASSUME NEW T, NEW s \in Seq(T), NEW x \in T
  PROVE  Append(s, x) \in Seq(T) /\ Range(Append(s, x)) = Range(s) \cup {x}
<1>1. /\ Append(s, x) \in Seq(T) /\ Len(Append(s, x)) = Len(s) + 1 /\ Len(s) \in Nat
      /\ Append(s, x)[Len(s) + 1] = x
      /\ \A i \in 1 .. Len(s) : Append(s, x)[i] = s[i]
  OBVIOUS
<1>2. DOMAIN Append(s, x) = 1 .. (Len(s) + 1) /\ DOMAIN s = 1 .. Len(s)
  BY <1>1
<1>3. 1 .. (Len(s) + 1) = 1 .. Len(s) \cup {Len(s) + 1}
  BY <1>1
<1> QED BY <1>1, <1>2, <1>3 DEF Range

LEMMA RangeTail ==
  ASSUME NEW T, NEW s \in Seq(T), s # << >>
  PROVE  /\ Tail(s) \in Seq(T) /\ Head(s) \in T
         /\ Range(s) = {Head(s)} \cup Range(Tail(s))
<1>1. /\ Tail(s) \in Seq(T) /\ Head(s) = s[1] /\ Head(s) \in T
      /\ Len(Tail(s)) = Len(s) - 1 /\ Len(s) \in Nat /\ Len(s) > 0
      /\ \A i \in 1 .. Len(s) - 1 : Tail(s)[i] = s[i + 1]
  OBVIOUS
<1>2. DOMAIN Tail(s) = 1 .. (Len(s) - 1) /\ DOMAIN s = 1 .. Len(s)
  BY <1>1
<1>3. \A i \in 1 .. Len(s) : i = 1 \/ i - 1 \in 1 .. (Len(s) - 1)
  BY <1>1
<1>4. \A i \in 1 .. (Len(s) - 1) : i + 1 \in 1 .. Len(s)
  BY <1>1
<1>5. Range(s) \subseteq {Head(s)} \cup Range(Tail(s))
  <2> SUFFICES ASSUME NEW i \in 1 .. Len(s), i # 1 PROVE s[i] \in Range(Tail(s))
    BY <1>1, <1>2 DEF Range
  <2>1. i - 1 \in 1 .. (Len(s) - 1) /\ (i - 1) + 1 = i
    BY <1>3
  <2>2. Tail(s)[i - 1] = s[i]
    BY <1>1, <2>1
  <2> QED BY <1>2, <2>1, <2>2 DEF Range
<1>6. {Head(s)} \cup Range(Tail(s)) \subseteq Range(s)
  <2>1. 1 \in 1 .. Len(s)
    BY <1>1
  <2> QED BY <1>1, <1>2, <1>4, <2>1 DEF Range
<1> QED BY <1>1, <1>5, <1>6

LEMMA RangeEmpty ==
  ASSUME NEW T, NEW s \in Seq(T)
  PROVE  Range(s) = {} <=> s = << >>
<1>1. DOMAIN s = 1 .. Len(s) /\ Len(s) \in Nat
  OBVIOUS
<1>2. s # << >> => 1 \in 1 .. Len(s)
  BY <1>1
<1>3. s = << >> => 1 .. Len(s) = {}
  BY <1>1
<1> QED BY <1>1, <1>2, <1>3 DEF Range

\* Two lists of tags in the order of their names that have the same names, and
\* the same tag for a name, are one.
Ordered(s) == \A i, j \in DOMAIN s : i < j => s[i].name > s[j].name

LEMMA ListsAgree ==
  ASSUME NEW s \in Seq(TagRecords), NEW t \in Seq(TagRecords), Ordered(s), Ordered(t),
         \A i \in DOMAIN s, j \in DOMAIN t : s[i].name = t[j].name => s[i] = t[j],
         \A i \in DOMAIN s : \E j \in DOMAIN t : s[i].name = t[j].name,
         NEW n \in Nat, n < Len(s),
         \A i \in 1 .. n : i \in DOMAIN t /\ s[i] = t[i]
  PROVE  n + 1 \in DOMAIN t /\ t[n + 1].name >= s[n + 1].name
<1>1. /\ DOMAIN s = 1 .. Len(s) /\ DOMAIN t = 1 .. Len(t) /\ Len(s) \in Nat /\ Len(t) \in Nat
      /\ n + 1 \in 1 .. Len(s)
  OBVIOUS
<1>2. PICK j \in DOMAIN t : s[n + 1].name = t[j].name
  BY <1>1
<1>3. \A i \in 1 .. n : s[i].name > s[n + 1].name
  BY <1>1 DEF Ordered
<1>4. /\ \A i \in DOMAIN s : s[i].name \in Nat
      /\ \A i \in DOMAIN t : t[i].name \in Nat
  <2>1. /\ \A i \in DOMAIN s : s[i] \in TagRecords
        /\ \A i \in DOMAIN t : t[i] \in TagRecords
    BY <1>1
  <2>2. \A x \in TagRecords : x.name \in Nat
    BY DEF TagRecords
  <2> QED BY <2>1, <2>2
<1>5. j \notin 1 .. n
  <2> SUFFICES ASSUME j \in 1 .. n PROVE FALSE
    OBVIOUS
  <2>1. s[j] = t[j] /\ s[j].name > s[n + 1].name /\ j \in DOMAIN s
    BY <1>1, <1>3
  <2> QED BY <1>1, <1>2, <1>4, <2>1
<1>6. n + 1 \in DOMAIN t /\ n + 1 <= j
  BY <1>1, <1>5
<1>7. n + 1 < j => t[n + 1].name > t[j].name
  BY <1>6 DEF Ordered
<1>8. t[n + 1].name >= t[j].name
  <2>1. n + 1 = j \/ n + 1 < j
    BY <1>1, <1>6
  <2> QED BY <1>4, <1>6, <1>7, <2>1
<1> QED BY <1>2, <1>6, <1>8

LEMMA SameNamesSameTags ==
  ASSUME NEW s \in Seq(TagRecords), NEW t \in Seq(TagRecords), Ordered(s), Ordered(t),
         \A i \in DOMAIN s, j \in DOMAIN t : s[i].name = t[j].name => s[i] = t[j],
         ToSet(Names(s)) = ToSet(Names(t))
  PROVE  s = t
<1>1. /\ DOMAIN s = 1 .. Len(s) /\ DOMAIN t = 1 .. Len(t) /\ Len(s) \in Nat /\ Len(t) \in Nat
      /\ \A i \in DOMAIN s : s[i] \in TagRecords
      /\ \A i \in DOMAIN t : t[i] \in TagRecords
  OBVIOUS
<1>2. /\ \A i \in DOMAIN s : \E j \in DOMAIN t : s[i].name = t[j].name
      /\ \A j \in DOMAIN t : \E i \in DOMAIN s : t[j].name = s[i].name
  <2>1. /\ ToSet(Names(s)) = {s[i].name : i \in DOMAIN s}
        /\ ToSet(Names(t)) = {t[i].name : i \in DOMAIN t}
    BY DEF ToSet, Names
  <2>2. {s[i].name : i \in DOMAIN s} = {t[i].name : i \in DOMAIN t}
    BY <2>1
  <2>3. \A i \in DOMAIN s : s[i].name \in {t[j].name : j \in DOMAIN t}
    BY <2>2
  <2>4. \A j \in DOMAIN t : t[j].name \in {s[i].name : i \in DOMAIN s}
    BY <2>2
  <2> QED BY <2>3, <2>4
<1>3. \A i \in DOMAIN t, j \in DOMAIN s : t[i].name = s[j].name => t[i] = s[j]
  OBVIOUS
<1> DEFINE Apart == {n \in Nat : n > 0 /\ n <= Len(s) /\ ~(n \in DOMAIN t /\ s[n] = t[n])}
<1>4. Apart = {}
  <2> SUFFICES ASSUME Apart # {} PROVE FALSE
    OBVIOUS
  <2>1. PICK m \in Apart : \A k \in Apart : m <= k
    <3>1. Apart \subseteq Nat
      OBVIOUS
    <3> HIDE DEF Apart
    <3> QED BY <3>1, LeastNatural, Zenon
  <2> DEFINE n == m - 1
  <2>2. /\ n \in Nat /\ n < Len(s) /\ n + 1 = m /\ m \in DOMAIN s
        /\ \A i \in 1 .. n : i \in DOMAIN t /\ s[i] = t[i]
    BY <1>1, <2>1
  <2>3. m \in DOMAIN t /\ t[m].name >= s[m].name
    <3> HIDE DEF n, Apart
    <3> QED BY <1>2, <2>2, ListsAgree
  <2>4. m \in DOMAIN s /\ s[m].name >= t[m].name
    <3>1. n < Len(t) /\ \A i \in 1 .. n : i \in DOMAIN s /\ t[i] = s[i]
      BY <1>1, <2>2, <2>3
    <3> HIDE DEF n, Apart
    <3> QED BY <1>2, <1>3, <2>2, <3>1, ListsAgree
  <2>5. s[m].name \in Nat /\ t[m].name \in Nat
    BY <1>1, <2>3, <2>4 DEF TagRecords
  <2>6. s[m] = t[m]
    BY <2>3, <2>4, <2>5
  <2> QED BY <2>1, <2>3, <2>6
<1>5. \A i \in 1 .. Len(s) : i \in DOMAIN t /\ s[i] = t[i]
  BY <1>4
<1>6. Len(t) <= Len(s)
  <2> SUFFICES ASSUME Len(t) > Len(s) PROVE FALSE
    BY <1>1
  <2> DEFINE m == Len(s) + 1
  <2>1. m \in DOMAIN t
    BY <1>1
  <2>2. PICK i \in DOMAIN s : t[m].name = s[i].name
    BY <1>2, <2>1
  <2>3. i \in DOMAIN t /\ s[i] = t[i] /\ i < m
    BY <1>1, <1>5, <2>2
  <2>4. t[i].name > t[m].name
    BY <2>1, <2>3 DEF Ordered
  <2>5. t[i].name \in Nat /\ t[m].name \in Nat
    BY <1>1, <2>1, <2>3 DEF TagRecords
  <2> QED BY <2>2, <2>3, <2>4, <2>5
<1>7. Len(s) <= Len(t)
  BY <1>1, <1>5
<1> QED BY <1>1, <1>5, <1>6, <1>7

-----------------------------------------------------------------------------
(***************************************************************************)
(* What the definitions say                                                *)
(***************************************************************************)
LEMMA PartFacts ==
  /\ Len(Parts) = 4 /\ DOMAIN Parts = 1 .. 4
  /\ Parts[1] = "yaml" /\ Parts[2] = "hidden" /\ Parts[3] = "q" /\ Parts[4] = "tags"
  /\ Range(Parts) = {"yaml", "hidden", "q", "tags"}
<1>1. /\ Len(Parts) = 4 /\ DOMAIN Parts = 1 .. 4
      /\ Parts[1] = "yaml" /\ Parts[2] = "hidden" /\ Parts[3] = "q" /\ Parts[4] = "tags"
  BY DEF Parts
<1>2. DOMAIN Parts = {1, 2, 3, 4}
  BY <1>1
<1>3. Range(Parts) = {Parts[1], Parts[2], Parts[3], Parts[4]}
  BY <1>2 DEF Range
<1> QED BY <1>1, <1>3

LEMMA NotNone ==
  /\ \A x \in Contents : x # None
  /\ \A x \in PageDeps : x # None
  /\ \A x \in Builds : x # None
  /\ \A x \in Syncs : x # None
  /\ \A x \in Copies : x # None
  /\ \A x \in Requests : x # None
BY NoneAssumption

LEMMA InvParts ==
  ASSUME WebInv
  PROVE  /\ SourceTypeOK /\ DepsFollow /\ BuildsFollow /\ TagsNamed
         /\ ServedTypeOK /\ CacheFollows /\ OwnPage
         /\ \A b \in Browsers : BrowserFollows(b) /\ RequestFollows(b)
BY DEF WebInv, SourceInv, ServedInv

LEMMA SourceTypes ==
  ASSUME SourceTypeOK
  PROVE  /\ disk \in Vaults /\ events \in Seq(Kinds) /\ edits \in Nat /\ deps \in PageDeps
         /\ tagTimer \in BOOLEAN /\ sync \in Syncs \cup {None}
         /\ builder \in [Builders -> Builds \cup {None}]
         /\ disk.p \in Contents \cup {None} /\ disk.q \in BOOLEAN /\ disk.yaml \in Settings
         /\ disk.hidden \in BOOLEAN /\ disk.tags \in Seq(TagRecords)
         /\ deps.q \in BOOLEAN /\ deps.yaml \in Settings
         /\ deps.hidden \in BOOLEAN /\ deps.tags \in Seq(TagRecords)
BY DEF SourceTypeOK, Vaults, PageDeps

\* What a request sees of PageDeps that agree.
LEMMA SameRendered ==
  ASSUME NEW d, NEW e, SameLook(d, e), NEW body, NEW reader
  PROVE  Rendered(body, d, reader) = Rendered(body, e, reader)
BY DEF SameLook, Rendered

LEMMA SameBody ==
  ASSUME NEW d, NEW e, SameLook(d, e), d.hidden = e.hidden
  PROVE  Body(d) = Body(e)
BY DEF SameLook, Body, AtTag

LEMMA BodyType ==
  ASSUME SourceTypeOK, NEW d \in PageDeps
  PROVE  Body(d) \in Contents \cup {None}
<1>1. /\ d.tags \in Seq(TagRecords) /\ disk.p \in Contents \cup {None}
  BY SourceTypes DEF PageDeps
<1>2. d.tags # << >> => d.tags[1] \in TagRecords
  BY <1>1
<1>3. d.tags # << >> => d.tags[1].p \in Contents \cup {None}
  BY <1>2 DEF TagRecords
<1> QED BY <1>1, <1>3 DEF Body, AtTag

LEMMA RenderedType ==
  ASSUME NEW d \in PageDeps, NEW body \in Contents, NEW reader \in Browsers \cup {"guest"}
  PROVE  /\ Rendered(body, d, reader) \in RenderedPages
         /\ Rendered(body, d, reader).reader = reader
<1>1. d.tags \in Seq(TagRecords) /\ d.q \in BOOLEAN /\ d.yaml \in Settings
  BY DEF PageDeps
<1>2. \A i \in DOMAIN d.tags : d.tags[i].name \in Nat
  <2>1. \A i \in DOMAIN d.tags : d.tags[i] \in TagRecords
    BY <1>1
  <2> QED BY <2>1 DEF TagRecords
<1>3. DOMAIN d.tags = 1 .. Len(d.tags) /\ Len(d.tags) \in Nat
  BY <1>1
<1>4. Names(d.tags) \in Seq(Nat)
  BY <1>2, <1>3 DEF Names
<1> QED BY <1>1, <1>4 DEF Rendered, RenderedPages

LEMMA RequestFields ==
  ASSUME NEW r \in Requests
  PROVE  /\ r.at \in {"started", "read", "tagged", "keyed"} /\ r.old \in PageDeps \cup {None}
         /\ r.quiet \in BOOLEAN /\ r.body \in Contents \cup {None} /\ r.epoch \in Nat
         /\ r.key \in Nat /\ r.reader \in Browsers \cup {"guest"} /\ r # None
BY NotNone DEF Requests

LEMMA ServedTypes ==
  ASSUME ServedTypeOK
  PROVE  /\ epoch \in Nat /\ cache \in [Contents -> RenderedPages \cup {None}]
         /\ request \in [Browsers -> Requests \cup {None}]
         /\ browser \in [Browsers -> Copies \cup {None}]
         /\ \A b \in Browsers : request[b] # None => request[b] \in Requests
         /\ \A b \in Browsers : browser[b] # None => browser[b] \in Copies
BY DEF ServedTypeOK

LEMMA HeldType ==
  ASSUME WebInv, NEW b \in Browsers, request[b] # None
  PROVE  Held(b) \in PageDeps
<1>1. request[b] \in Requests /\ deps \in PageDeps
  BY InvParts, SourceTypes, ServedTypes
<1>2. request[b].old \in PageDeps \cup {None}
  BY <1>1, RequestFields
<1> QED BY <1>1, <1>2 DEF Held

LEMMA BuildTypes ==
  ASSUME SourceTypeOK, NEW w \in Builders, builder[w] # None
  PROVE  LET r == builder[w].read IN
         /\ builder[w] \in Builds /\ builder[w].kind \in Kinds \cup {"config"}
         /\ r \in Seq(Seq(TagRecords) \cup Settings \cup BOOLEAN)
         /\ Len(r) \in 0 .. 4 /\ DOMAIN r = 1 .. Len(r)
         /\ \A i \in DOMAIN r : r[i] \in PartType(Parts[i])
<1>1. builder[w] \in Builds
  BY DEF SourceTypeOK
<1>2. builder[w].read \in Seq(Seq(TagRecords) \cup Settings \cup BOOLEAN)
  BY <1>1 DEF Builds
<1>3. Len(builder[w].read) <= 4 /\ Len(builder[w].read) \in Nat
  BY <1>2, PartFacts DEF SourceTypeOK
<1>4. builder[w].kind \in Kinds \cup {"config"}
  BY <1>1 DEF Builds
<1>5. Len(builder[w].read) \in 0 .. 4 /\ DOMAIN builder[w].read = 1 .. Len(builder[w].read)
  <2> DEFINE r == builder[w].read
  <2>1. DOMAIN r = 1 .. Len(r)
    <3> DEFINE S == Seq(TagRecords) \cup Settings \cup BOOLEAN
    <3>1. r \in Seq(S)
      BY <1>2
    <3> HIDE DEF r, S
    <3> QED BY <3>1
  <2>2. Len(r) \in 0 .. 4
    <3> HIDE DEF r
    <3>1. PICK n \in Nat : n = Len(r) /\ n <= 4
      BY <1>3 DEF r
    <3>2. n \in 0 .. 4
      BY <3>1
    <3> QED BY <3>1, <3>2
  <2> QED BY <2>1, <2>2
<1>6. \A i \in DOMAIN builder[w].read : builder[w].read[i] \in PartType(Parts[i])
  BY DEF SourceTypeOK
<1> QED BY <1>1, <1>2, <1>4, <1>5, <1>6

\* What a builder has read when it is done.
LEMMA BuiltFacts ==
  ASSUME SourceTypeOK, BuildsFollow, NEW w \in Builders, Built(w)
  PROVE  LET r == builder[w].read IN
         /\ builder[w] # None
         /\ r[1] \in Settings /\ r[2] \in BOOLEAN /\ r[3] \in BOOLEAN /\ r[4] \in Seq(TagRecords)
         /\ r[1] = disk.yaml \/ "web_yaml" \in Range(events)
         /\ r[2] = disk.hidden \/ "webignore" \in Range(events)
         /\ r[3] = disk.q \/ "content" \in Range(events)
         /\ r[4] = disk.tags \/ "tags" \in Range(events)
<1> DEFINE r == builder[w].read
<1>1. builder[w] # None /\ Len(r) = 4
  BY PartFacts DEF Built
<1>2. /\ DOMAIN r = 1 .. 4
      /\ \A i \in DOMAIN r : r[i] \in PartType(Parts[i])
      /\ \A i \in DOMAIN r : r[i] = disk[Parts[i]] \/ EventOf[Parts[i]] \in Range(events)
  BY <1>1, BuildTypes DEF BuildsFollow
<1>3. 1 \in DOMAIN r /\ 2 \in DOMAIN r /\ 3 \in DOMAIN r /\ 4 \in DOMAIN r
  BY <1>2
<1>4. /\ PartType("yaml") = Settings /\ PartType("hidden") = BOOLEAN
      /\ PartType("q") = BOOLEAN /\ PartType("tags") = Seq(TagRecords)
  BY DEF PartType
<1>5. /\ EventOf["yaml"] = "web_yaml" /\ EventOf["hidden"] = "webignore"
      /\ EventOf["q"] = "content" /\ EventOf["tags"] = "tags"
  BY DEF EventOf
<1>6. /\ r[1] \in Settings /\ r[2] \in BOOLEAN /\ r[3] \in BOOLEAN /\ r[4] \in Seq(TagRecords)
  BY <1>2, <1>3, <1>4, PartFacts
<1>7. /\ r[1] = disk.yaml \/ "web_yaml" \in Range(events)
      /\ r[2] = disk.hidden \/ "webignore" \in Range(events)
      /\ r[3] = disk.q \/ "content" \in Range(events)
      /\ r[4] = disk.tags \/ "tags" \in Range(events)
  BY <1>2, <1>3, <1>5, PartFacts
<1> QED BY <1>1, <1>6, <1>7

LEMMA InitHolds == Init => WebInv
<1> SUFFICES ASSUME Init PROVE WebInv
  OBVIOUS
<1>1. PICK y \in {"head", "latest"} :
        disk = [p |-> CHOOSE c \in Contents : TRUE, q |-> FALSE, yaml |-> y, hidden |-> FALSE,
                tags |-> << >>, granted |-> TRUE]
  BY DEF Init
<1>2. (CHOOSE c \in Contents : TRUE) \in Contents
  BY ContentsAssumption
<1>3. /\ disk \in Vaults /\ disk.yaml = y /\ disk.q = FALSE /\ disk.hidden = FALSE
      /\ disk.tags = << >>
  BY <1>1, <1>2 DEF Vaults, Settings
<1>4. /\ deps = [k \in {"yaml", "hidden", "q", "tags"} |-> disk[k]]
  BY PartFacts DEF Init
<1>5. /\ deps.yaml = disk.yaml /\ deps.q = disk.q /\ deps.hidden = disk.hidden
      /\ deps.tags = disk.tags /\ deps \in PageDeps
  <2>1. PICK d : d = disk
    OBVIOUS
  <2>2. deps = [yaml |-> d.yaml, hidden |-> d.hidden, q |-> d.q, tags |-> d.tags]
    BY <1>4, <2>1
  <2> QED BY <1>3, <2>1, <2>2 DEF PageDeps, Vaults
<1>6. /\ events = << >> /\ edits = 0 /\ \A w \in Builders : builder[w] = None
      /\ ~tagTimer /\ tagTimer \in BOOLEAN /\ sync = None
  BY DEF Init
<1>7. Range(events) = {}
  BY <1>6 DEF Range
<1>8. SourceTypeOK
  <2>1. events \in Seq(Kinds)
    BY <1>6
  <2>2. builder \in [Builders -> Builds \cup {None}]
    BY DEF Init
  <2> QED BY <1>3, <1>5, <1>6, <2>1, <2>2 DEF SourceTypeOK
<1>9. DepsFollow
  BY <1>5, <1>6 DEF DepsFollow
<1>10. BuildsFollow
  BY <1>6, <1>7 DEF BuildsFollow, Builders, IgnorePending
<1>11. TagsNamed
  <2>1. TagLists = {<< >>}
    BY <1>3, <1>5, <1>6 DEF TagLists, Built
  <2> QED BY <2>1 DEF TagsNamed
<1>12. ServedTypeOK /\ CacheFollows /\ OwnPage
  BY DEF Init, ServedTypeOK, CacheFollows, OwnPage
<1>13. \A b \in Browsers : BrowserFollows(b) /\ RequestFollows(b)
  BY DEF Init, BrowserFollows, RequestFollows
<1> QED BY <1>8, <1>9, <1>10, <1>11, <1>12, <1>13 DEF WebInv, SourceInv, ServedInv
-----------------------------------------------------------------------------
(***************************************************************************)
(* Steps that leave a part of the state alone                              *)
(***************************************************************************)
sources == <<disk, events, edits, builder, deps, tagTimer, sync>>

LEMMA SourcesStay ==
  ASSUME WebInv, UNCHANGED sources
  PROVE  SourceInv'
<1>1. UNCHANGED <<disk, events, edits, builder, deps, tagTimer, sync>>
  BY DEF sources
<1>2. SourceTypeOK' /\ DepsFollow'
  BY <1>1, InvParts DEF SourceTypeOK, DepsFollow, SettingsDue, RebuildDue, TagsDue
<1>3. BuildsFollow'
  BY <1>1, InvParts DEF BuildsFollow, IgnorePending, TagsPending
<1>4. TagLists' = TagLists
  BY <1>1 DEF TagLists, Built
<1>5. TagsNamed'
  BY <1>1, <1>4, InvParts DEF TagsNamed
<1> QED BY <1>2, <1>3, <1>5 DEF SourceInv

\* The lists of tags after a step that makes none.
LEMMA TagsStay ==
  ASSUME TagsNamed, TagLists' \subseteq TagLists \cup {<< >>}, edits \in Nat, edits' \in Nat,
         edits' >= edits,
         \A s \in TagLists : \A i \in DOMAIN s : s[i].name \in Nat
  PROVE  TagsNamed'
<1> SUFFICES ASSUME NEW s \in TagLists', NEW t \in TagLists'
             PROVE  /\ \A i, j \in DOMAIN s : i < j => s[i].name > s[j].name
                    /\ \A i \in DOMAIN s, j \in DOMAIN t :
                         s[i].name < edits' /\ (s[i].name = t[j].name => s[i] = t[j])
  BY DEF TagsNamed
<1>1. /\ s \in TagLists \/ DOMAIN s = {}
      /\ t \in TagLists \/ DOMAIN t = {}
  OBVIOUS
<1>2. CASE s \in TagLists /\ t \in TagLists
  BY <1>2 DEF TagsNamed
<1>3. CASE DOMAIN s = {}
  BY <1>3
<1>4. CASE s \in TagLists /\ DOMAIN t = {}
  BY <1>4 DEF TagsNamed
<1> QED BY <1>1, <1>2, <1>3, <1>4

\* The epoch stays, and with it what is kept under it.
Keeps ==
  /\ UNCHANGED epoch
  /\ BumpDue' \/ (~BumpDue /\ SameLook(deps', deps))

LEMMA CopiesStay ==
  ASSUME WebInv, Keeps, UNCHANGED <<cache, browser>>
  PROVE  CacheFollows' /\ OwnPage' /\ \A b \in Browsers : BrowserFollows(b)'
<1>1. CacheFollows'
  <2> SUFFICES ASSUME NEW c \in Contents, cache[c] # None
               PROVE  /\ cache[c].reader = "guest"
                      /\ BumpDue' \/ cache[c] = Rendered(c, deps', "guest")
    BY DEF CacheFollows
  <2>1. /\ cache[c].reader = "guest"
        /\ BumpDue \/ cache[c] = Rendered(c, deps, "guest")
    BY InvParts DEF CacheFollows
  <2> QED BY <2>1, SameRendered DEF Keeps
<1>2. OwnPage'
  BY InvParts DEF OwnPage
<1>3. ASSUME NEW b \in Browsers PROVE BrowserFollows(b)'
  <2>1. PICK copy : copy = browser[b]
    OBVIOUS
  <2>2. BrowserFollows(b)
    BY InvParts
  <2> SUFFICES ASSUME copy # None
               PROVE  /\ copy.epoch <= epoch
                      /\ BumpDue' \/ copy.epoch < epoch
                           \/ copy.page = Rendered(copy.body, deps', copy.page.reader)
    BY <2>1 DEF BrowserFollows, Keeps
  <2>3. /\ copy.epoch <= epoch
        /\ BumpDue \/ copy.epoch < epoch
             \/ copy.page = Rendered(copy.body, deps, copy.page.reader)
    BY <2>1, <2>2 DEF BrowserFollows
  <2> QED BY <2>3, SameRendered DEF Keeps
<1> QED BY <1>1, <1>2, <1>3

\* A request is left alone.
LEMMA RequestStays ==
  ASSUME WebInv, NEW b \in Browsers, request'[b] = request[b], Keeps,
         BumpDue' \/ UNCHANGED deps,
         request[b] # None /\ request[b].quiet =>
           /\ UNCHANGED <<disk, events, tagTimer, sync, deps>>
           /\ builder'["watcher"] = builder["watcher"]
  PROVE  RequestFollows(b)'
<1>1. PICK r : r = request[b]
  OBVIOUS
<1> SUFFICES ASSUME r # None PROVE RequestFollows(b)'
  BY <1>1 DEF RequestFollows
<1>2. RequestFollows(b)
  BY InvParts
<1>3. /\ r.at # "keyed" => r.old = None
      /\ r.at \in {"tagged", "keyed"} => r.epoch <= epoch
      /\ r.at = "keyed" => /\ r.epoch <= r.key /\ r.key <= epoch /\ r.reader \in {b, "guest"}
                           /\ BumpDue \/ r.key < epoch \/ SameLook(Held(b), deps)
      /\ r.at # "started" => r.body \in Contents
  BY <1>1, <1>2 DEF RequestFollows
<1>4. r.at = "keyed" => BumpDue' \/ r.key < epoch' \/ SameLook(Held(b)', deps')
  <2>1. UNCHANGED deps => Held(b)' = Held(b)
    BY DEF Held
  <2> QED BY <1>3, <2>1 DEF Keeps
<1>5. r.quiet =>
        /\ events' = << >> /\ builder'["watcher"] = None /\ ~tagTimer' /\ sync' = None
        /\ disk'.yaml # "broken"
        /\ Held(b)'.hidden = disk'.hidden /\ SameLook(Held(b)', disk')
        /\ r.at # "started" => r.body = Body(disk)'
  <2> SUFFICES ASSUME r.quiet
               PROVE  /\ events' = << >> /\ builder'["watcher"] = None /\ ~tagTimer' /\ sync' = None
                      /\ disk'.yaml # "broken"
                      /\ Held(b)'.hidden = disk'.hidden /\ SameLook(Held(b)', disk')
                      /\ r.at # "started" => r.body = Body(disk)'
    OBVIOUS
  <2>1. /\ UNCHANGED <<disk, events, tagTimer, sync, deps>>
        /\ builder'["watcher"] = builder["watcher"]
    BY <1>1
  <2>2. Held(b)' = Held(b) /\ Body(disk)' = Body(disk)
    BY <2>1 DEF Held, Body, AtTag
  <2>3. /\ events = << >> /\ builder["watcher"] = None /\ ~tagTimer /\ sync = None
        /\ disk.yaml # "broken"
        /\ Held(b).hidden = disk.hidden /\ SameLook(Held(b), disk)
        /\ r.at # "started" => r.body = Body(disk)
    BY <1>1, <1>2 DEF RequestFollows
  <2> QED BY <2>1, <2>2, <2>3
<1>6. request'[b] = r /\ epoch' = epoch
  BY <1>1 DEF Keeps
<1> QED BY <1>3, <1>4, <1>5, <1>6 DEF RequestFollows

\* Nothing happens to requests, browsers and the cache.
LEMMA ServedStays ==
  ASSUME WebInv, Keeps, BumpDue' \/ UNCHANGED deps, UNCHANGED <<cache, request, browser>>,
         \A b \in Browsers : request[b] # None /\ request[b].quiet =>
           /\ UNCHANGED <<disk, events, tagTimer, sync, deps>>
           /\ builder'["watcher"] = builder["watcher"]
  PROVE  ServedInv'
<1>1. ServedTypeOK'
  BY InvParts DEF ServedTypeOK, Keeps
<1>2. CacheFollows' /\ OwnPage' /\ \A b \in Browsers : BrowserFollows(b)'
  BY CopiesStay
<1>3. \A b \in Browsers : RequestFollows(b)'
  BY RequestStays
<1> QED BY <1>1, <1>2, <1>3 DEF ServedInv
-----------------------------------------------------------------------------
(***************************************************************************)
(* The vault changes                                                       *)
(***************************************************************************)
LEMMA RequestUnquiet ==
  ASSUME WebInv, NEW b \in Browsers, request[b] # None,
         request'[b] = [request[b] EXCEPT !.quiet = FALSE], Keeps, UNCHANGED deps
  PROVE  RequestFollows(b)' /\ request'[b] \in Requests
<1>1. PICK r : r = request[b]
  OBVIOUS
<1>2. r \in Requests /\ RequestFollows(b)
  BY <1>1, InvParts, ServedTypes
<1>3. PICK next : next = [r EXCEPT !.quiet = FALSE]
  OBVIOUS
<1>4. /\ next \in Requests /\ next.quiet = FALSE /\ next.at = r.at /\ next.old = r.old
      /\ next.body = r.body /\ next.epoch = r.epoch /\ next.key = r.key /\ next.reader = r.reader
  BY <1>2, <1>3 DEF Requests
<1>5. request'[b] = next
  BY <1>1, <1>3
<1>6. Held(b)' = Held(b)
  BY <1>1, <1>4, <1>5 DEF Held
<1>7. /\ r.at # "keyed" => r.old = None
      /\ r.at \in {"tagged", "keyed"} => r.epoch <= epoch
      /\ r.at = "keyed" => /\ r.epoch <= r.key /\ r.key <= epoch /\ r.reader \in {b, "guest"}
                           /\ BumpDue \/ r.key < epoch \/ SameLook(Held(b), deps)
      /\ r.at # "started" => r.body \in Contents
  BY <1>1, <1>2 DEF RequestFollows
<1>8. r.at = "keyed" => BumpDue' \/ r.key < epoch' \/ SameLook(Held(b)', deps')
  BY <1>6, <1>7 DEF Keeps
<1>9. epoch' = epoch
  BY DEF Keeps
<1> QED BY <1>4, <1>5, <1>7, <1>8, <1>9 DEF RequestFollows

LEMMA EditSound ==
  ASSUME WebInv, NoRisk, NEW kind \in Kinds, Edit(kind), disk' \in Vaults,
         disk'.yaml # disk.yaml => kind = "web_yaml",
         disk'.hidden # disk.hidden => kind = "webignore",
         disk'.q # disk.q => kind = "content",
         disk'.tags # disk.tags => kind = "tags",
         kind = "webignore" => ~TagsPending, kind = "tags" => ~IgnorePending,
         TagsNamed'
  PROVE  WebInv'
<1>1. /\ edits' = edits + 1 /\ events' = Append(events, kind)
      /\ kind = "write" \/ builder["reload"] = None
      /\ request' = [b \in Browsers |-> IF request[b] = None THEN None
                                        ELSE [request[b] EXCEPT !.quiet = FALSE]]
      /\ UNCHANGED <<builder, deps, epoch, cache, tagTimer, sync, browser>>
  BY DEF Edit, NoRisk, pages, timers
<1>2. events' \in Seq(Kinds) /\ Range(events)' = Range(events) \cup {kind}
  BY <1>1, InvParts, SourceTypes, RangeAppend
<1>3. SourceTypeOK'
  BY <1>1, <1>2, InvParts DEF SourceTypeOK
<1>4. (SettingsDue => SettingsDue') /\ (RebuildDue => RebuildDue')
  BY <1>1, <1>2 DEF SettingsDue, RebuildDue, Bumping
<1>5. DepsFollow'
  <2>1. SettingsDue' \/ (deps'.yaml = disk'.yaml /\ deps'.q = disk'.q)
    <3>1. kind \in {"web_yaml", "content"} => SettingsDue'
      BY <1>2 DEF SettingsDue, Bumping
    <3> QED BY <1>1, <1>4, <3>1, InvParts DEF DepsFollow
  <2>2. RebuildDue' \/ deps'.hidden = disk'.hidden
    <3>1. kind = "webignore" => RebuildDue'
      BY <1>2 DEF RebuildDue
    <3> QED BY <1>1, <1>4, <3>1, InvParts DEF DepsFollow
  <2>3. TagsDue' \/ deps'.tags = disk'.tags
    <3>1. kind = "tags" => TagsDue'
      BY <1>2 DEF TagsDue
    <3>2. disk'.tags = disk.tags /\ TagsDue => TagsDue'
      BY <1>1, <1>2 DEF TagsDue
    <3> QED BY <1>1, <3>1, <3>2, InvParts DEF DepsFollow
  <2>4. sync' # None /\ sync'.live /\ sync'.at = "read" =>
          sync'.tags = disk'.tags \/ "tags" \in Range(events)' \/ tagTimer'
    BY <1>1, <1>2, InvParts DEF DepsFollow
  <2> QED BY <2>1, <2>2, <2>3, <2>4 DEF DepsFollow
<1>6. BuildsFollow'
  <2>1. ASSUME NEW w \in Builders, builder[w] # None, NEW i \in DOMAIN builder[w].read
        PROVE  builder[w].read[i] = disk'[Parts[i]] \/ EventOf[Parts[i]] \in Range(events')
    <3>1. builder[w].read[i] = disk[Parts[i]] \/ EventOf[Parts[i]] \in Range(events)
      BY <2>1, InvParts DEF BuildsFollow
    <3>2. i \in 1 .. 4
      <4>1. /\ DOMAIN builder[w].read = 1 .. Len(builder[w].read)
            /\ Len(builder[w].read) \in 0 .. 4
        BY <2>1, InvParts, BuildTypes
      <4>2. PICK n \in 0 .. 4 : n = Len(builder[w].read)
        BY <4>1
      <4>3. i \in 1 .. n
        BY <2>1, <4>1, <4>2
      <4> QED BY <4>3
    <3>3. i \in {1, 2, 3, 4}
      BY <3>2
    <3>4. disk'[Parts[i]] = disk[Parts[i]] \/ EventOf[Parts[i]] = kind
      BY <3>3, PartFacts DEF EventOf
    <3> QED BY <1>2, <3>1, <3>4
  <2>2. builder'["reload"] # None =>
          Range(events') \subseteq {"write"} /\ builder'["watcher"] = None /\ ~tagTimer' /\ sync' = None
    BY <1>1, <1>2, InvParts DEF BuildsFollow
  <2>3. IgnorePending' => ~TagsPending'
    <3>1. IgnorePending' => IgnorePending \/ kind = "webignore"
      BY <1>1, <1>2 DEF IgnorePending
    <3>2. TagsPending' => TagsPending \/ kind = "tags"
      BY <1>1, <1>2 DEF TagsPending
    <3> QED BY <3>1, <3>2, InvParts DEF BuildsFollow
  <2> QED BY <1>1, <2>1, <2>2, <2>3 DEF BuildsFollow
<1>7. Keeps
  <2>1. BumpDue => BumpDue'
    BY <1>1, <1>4 DEF BumpDue
  <2> QED BY <1>1, <2>1 DEF Keeps, SameLook
<1>8. \A b \in Browsers : RequestFollows(b)' /\ request'[b] \in Requests \cup {None}
  <2> SUFFICES ASSUME NEW b \in Browsers
               PROVE  RequestFollows(b)' /\ request'[b] \in Requests \cup {None}
    OBVIOUS
  <2>1. CASE request[b] = None
    BY <1>1, <2>1 DEF RequestFollows
  <2>2. CASE request[b] # None
    BY <1>1, <1>7, <2>2, RequestUnquiet
  <2> QED BY <2>1, <2>2
<1>9. ServedTypeOK'
  <2>1. request' \in [Browsers -> Requests \cup {None}]
    BY <1>1, <1>8
  <2> QED BY <1>1, <2>1, InvParts DEF ServedTypeOK
<1>10. CacheFollows' /\ OwnPage' /\ \A b \in Browsers : BrowserFollows(b)'
  BY <1>1, <1>7, CopiesStay
<1> QED BY <1>3, <1>5, <1>6, <1>8, <1>9, <1>10 DEF WebInv, SourceInv, ServedInv

LEMMA ListTypes ==
  ASSUME WebInv, NEW s \in TagLists
  PROVE  s \in Seq(TagRecords) /\ \A i \in DOMAIN s : s[i].name \in Nat
<1>1. s \in Seq(TagRecords)
  <2>1. disk.tags \in Seq(TagRecords) /\ deps.tags \in Seq(TagRecords)
    BY InvParts, SourceTypes
  <2>2. sync # None => sync.tags \in Seq(TagRecords)
    BY InvParts, SourceTypes DEF Syncs
  <2>3. \A w \in Builders : Built(w) => builder[w].read[4] \in Seq(TagRecords)
    BY InvParts, BuiltFacts
  <2> QED BY <2>1, <2>2, <2>3 DEF TagLists
<1>2. \A i \in DOMAIN s : s[i] \in TagRecords
  BY <1>1
<1> QED BY <1>1, <1>2 DEF TagRecords

\* No tag is made or deleted: the lists are those that were, or empty.
LEMMA ListsStay ==
  ASSUME WebInv, TagLists' \subseteq TagLists \cup {<< >>}, edits' \in Nat, edits' >= edits
  PROVE  TagsNamed'
BY InvParts, SourceTypes, ListTypes, TagsStay

\* A change that makes or deletes no tag.
LEMMA PlainEditSound ==
  ASSUME WebInv, NoRisk, NEW kind \in Kinds, Edit(kind), disk' \in Vaults,
         disk'.yaml # disk.yaml => kind = "web_yaml",
         disk'.hidden # disk.hidden => kind = "webignore",
         disk'.q # disk.q => kind = "content",
         disk'.tags = disk.tags, kind # "tags",
         kind = "webignore" => ~TagsPending
  PROVE  WebInv'
<1>1. edits' = edits + 1 /\ UNCHANGED <<builder, deps, sync>>
  BY DEF Edit, pages, timers
<1>2. TagLists' = TagLists
  BY <1>1 DEF TagLists, Built
<1>3. edits \in Nat
  BY InvParts, SourceTypes
<1>4. TagsNamed'
  BY <1>1, <1>2, <1>3, ListsStay
<1> QED BY <1>4, EditSound

LEMMA ContentSound ==
  ASSUME WebInv, NoRisk, WriteInPlace \/ Replace \/ Link \/ EditYaml \/ EditIgnore \/ EditAccess
  PROVE  WebInv'
<1>0. disk \in Vaults
  BY InvParts, SourceTypes
<1>1. CASE WriteInPlace \/ Replace
  <2>1. PICK c \in Contents \cup {None}, kind \in {"write", "content"} :
          disk' = [disk EXCEPT !.p = c] /\ Edit(kind)
    BY <1>1 DEF WriteInPlace, Replace
  <2>2. /\ disk' \in Vaults /\ disk'.yaml = disk.yaml /\ disk'.hidden = disk.hidden
        /\ disk'.q = disk.q /\ disk'.tags = disk.tags
    BY <1>0, <2>1 DEF Vaults
  <2>3. kind \in Kinds /\ kind # "tags" /\ kind # "webignore"
    BY DEF Kinds
  <2> QED BY <2>1, <2>2, <2>3, PlainEditSound
<1>2. CASE Link
  <2>1. disk' = [disk EXCEPT !.q = ~@] /\ Edit("content")
    BY <1>2 DEF Link
  <2>2. /\ disk' \in Vaults /\ disk'.yaml = disk.yaml /\ disk'.hidden = disk.hidden
        /\ disk'.tags = disk.tags
    BY <1>0, <2>1 DEF Vaults
  <2>3. "content" \in Kinds
    BY DEF Kinds
  <2> QED BY <2>1, <2>2, <2>3, PlainEditSound
<1>3. CASE EditYaml
  <2>1. PICK y \in Settings : disk' = [disk EXCEPT !.yaml = y] /\ Edit("web_yaml")
    BY <1>3 DEF EditYaml
  <2>2. /\ disk' \in Vaults /\ disk'.hidden = disk.hidden
        /\ disk'.q = disk.q /\ disk'.tags = disk.tags
    BY <1>0, <2>1 DEF Vaults
  <2>3. "web_yaml" \in Kinds
    BY DEF Kinds
  <2> QED BY <2>1, <2>2, <2>3, PlainEditSound
<1>4. CASE EditIgnore
  <2>1. disk' = [disk EXCEPT !.hidden = ~@] /\ Edit("webignore") /\ ~TagsPending
    BY <1>4 DEF EditIgnore, NoRisk
  <2>2. /\ disk' \in Vaults /\ disk'.yaml = disk.yaml
        /\ disk'.q = disk.q /\ disk'.tags = disk.tags
    BY <1>0, <2>1 DEF Vaults
  <2>3. "webignore" \in Kinds
    BY DEF Kinds
  <2> QED BY <2>1, <2>2, <2>3, PlainEditSound
<1>5. CASE EditAccess
  <2>1. disk' = [disk EXCEPT !.granted = ~@] /\ Edit("access")
    BY <1>5 DEF EditAccess
  <2>2. /\ disk' \in Vaults /\ disk'.yaml = disk.yaml /\ disk'.hidden = disk.hidden
        /\ disk'.q = disk.q /\ disk'.tags = disk.tags
    BY <1>0, <2>1 DEF Vaults
  <2>3. "access" \in Kinds
    BY DEF Kinds
  <2> QED BY <2>1, <2>2, <2>3, PlainEditSound
<1> QED BY <1>1, <1>2, <1>3, <1>4, <1>5

LEMMA JoinedLists ==
  ASSUME NEW T, NEW s \in Seq(T), NEW t \in Seq(T)
  PROVE  /\ s \o t \in Seq(T) /\ Len(s \o t) = Len(s) + Len(t)
         /\ DOMAIN (s \o t) = 1 .. (Len(s) + Len(t)) /\ Len(s) \in Nat /\ Len(t) \in Nat
         /\ \A j \in 1 .. (Len(s) + Len(t)) :
              (s \o t)[j] = IF j <= Len(s) THEN s[j] ELSE t[j - Len(s)]
<1>1. s \o t \in Seq(T) /\ Len(s \o t) = Len(s) + Len(t) /\ Len(s) \in Nat /\ Len(t) \in Nat
  OBVIOUS
<1>2. DOMAIN (s \o t) = 1 .. (Len(s) + Len(t))
  BY <1>1
<1>3. \A j \in 1 .. (Len(s) + Len(t)) :
         (s \o t)[j] = IF j <= Len(s) THEN s[j] ELSE t[j - Len(s)]
  OBVIOUS
<1> QED BY <1>1, <1>2, <1>3

LEMMA Prepended ==
  ASSUME NEW T, NEW s \in Seq(T), NEW x \in T
  PROVE  LET t == <<x>> \o s IN
         /\ t \in Seq(T) /\ t[1] = x /\ DOMAIN t = 1 .. (Len(s) + 1) /\ Len(s) \in Nat
         /\ \A i \in 1 .. (Len(s) + 1) : i # 1 => i - 1 \in DOMAIN s /\ t[i] = s[i - 1]
<1>1. <<x>> \in Seq(T) /\ Len(<<x>>) = 1 /\ <<x>>[1] = x
  OBVIOUS
<1>2. PICK u : u = <<x>>
  OBVIOUS
<1>3. u \in Seq(T) /\ Len(u) = 1 /\ u[1] = x
  BY <1>1, <1>2
<1>4. /\ u \o s \in Seq(T) /\ Len(u \o s) = Len(s) + 1 /\ Len(s) \in Nat
      /\ (u \o s)[1] = u[1]
      /\ \A i \in 1 .. (Len(s) + 1) : i # 1 => (u \o s)[i] = s[i - 1]
  <2>1. /\ u \o s \in Seq(T) /\ Len(u \o s) = 1 + Len(s) /\ Len(s) \in Nat
        /\ \A j \in 1 .. (1 + Len(s)) : (u \o s)[j] = IF j <= 1 THEN u[j] ELSE s[j - 1]
    <3>1. /\ u \o s \in Seq(T) /\ Len(u \o s) = Len(u) + Len(s) /\ Len(s) \in Nat
          /\ \A j \in 1 .. (Len(u) + Len(s)) :
               (u \o s)[j] = IF j <= Len(u) THEN u[j] ELSE s[j - Len(u)]
      <4>1. u \in Seq(T)
        BY <1>3
      <4> QED BY <4>1, JoinedLists
    <3> QED BY <1>3, <3>1
  <2>2. 1 + Len(s) = Len(s) + 1 /\ 1 \in 1 .. (1 + Len(s))
    BY <2>1
  <2>3. \A i \in 1 .. (1 + Len(s)) : i # 1 => ~(i <= 1)
    BY <2>1
  <2> QED BY <2>1, <2>2, <2>3
<1>5. DOMAIN (u \o s) = 1 .. (Len(s) + 1) /\ DOMAIN s = 1 .. Len(s)
  BY <1>4
<1>6. \A i \in 1 .. (Len(s) + 1) : i # 1 => i - 1 \in 1 .. Len(s)
  BY <1>4
<1> QED BY <1>2, <1>3, <1>4, <1>5, <1>6

LEMMA Without ==
  ASSUME NEW T, NEW s \in Seq(T), NEW k \in DOMAIN s
  PROVE  LET t == RemoveAt(s, k) IN
         /\ t \in Seq(T) /\ DOMAIN t = 1 .. (Len(s) - 1) /\ DOMAIN s = 1 .. Len(s)
         /\ \A i \in DOMAIN t : t[i] = s[IF i < k THEN i ELSE i + 1]
<1> DEFINE a == SubSeq(s, 1, k - 1)
    b == SubSeq(s, k + 1, Len(s))
<1>1. Len(s) \in Nat /\ DOMAIN s = 1 .. Len(s) /\ k \in 1 .. Len(s)
  OBVIOUS
<1>2. /\ a \in Seq(T) /\ Len(a) = k - 1 /\ \A i \in 1 .. (k - 1) : a[i] = s[i]
  <2>1. \A i \in 1 .. (k - 1) : s[i] \in T
    BY <1>1
  <2> QED BY <1>1, <2>1, SubSeqProperties
<1>3. /\ b \in Seq(T) /\ Len(b) = Len(s) - k
      /\ \A i \in 1 .. (Len(s) - k) : b[i] = s[i + k]
  <2>1. \A i \in (k + 1) .. Len(s) : s[i] \in T
    BY <1>1
  <2> QED BY <1>1, <2>1, SubSeqProperties
<1>4. RemoveAt(s, k) = a \o b
  BY DEF RemoveAt
<1> HIDE DEF a, b
<1>5. /\ a \o b \in Seq(T) /\ Len(a \o b) = Len(s) - 1
      /\ \A i \in 1 .. (Len(s) - 1) : (a \o b)[i] = IF i <= k - 1 THEN a[i] ELSE b[i - (k - 1)]
  <2>1. (k - 1) + (Len(s) - k) = Len(s) - 1
    BY <1>1
  <2>2. /\ a \o b \in Seq(T) /\ Len(a \o b) = Len(a) + Len(b)
        /\ \A j \in 1 .. (Len(a) + Len(b)) :
             (a \o b)[j] = IF j <= Len(a) THEN a[j] ELSE b[j - Len(a)]
    <3>1. a \in Seq(T) /\ b \in Seq(T)
      BY <1>2, <1>3
    <3> QED BY <3>1, JoinedLists
  <2>3. Len(a) = k - 1 /\ Len(b) = Len(s) - k
    BY <1>2, <1>3
  <2> QED BY <2>1, <2>2, <2>3
<1>6. \A i \in 1 .. (Len(s) - 1) : (a \o b)[i] = s[IF i < k THEN i ELSE i + 1]
  <2> SUFFICES ASSUME NEW i \in 1 .. (Len(s) - 1)
               PROVE  (a \o b)[i] = s[IF i < k THEN i ELSE i + 1]
    OBVIOUS
  <2>1. CASE i < k
    <3>1. i \in 1 .. (k - 1) /\ i <= k - 1
      BY <1>1, <2>1
    <3> QED BY <1>2, <1>5, <2>1, <3>1
  <2>2. CASE ~(i < k)
    <3> DEFINE l == i - (k - 1)
    <3>1. l \in 1 .. (Len(s) - k) /\ ~(i <= k - 1) /\ l + k = i + 1
      BY <1>1, <2>2
    <3>2. (a \o b)[i] = b[l]
      BY <1>5, <3>1
    <3> HIDE DEF l
    <3>3. b[l] = s[l + k]
      BY <1>3, <3>1
    <3> QED BY <2>2, <3>1, <3>2, <3>3
  <2> QED BY <2>1, <2>2
<1>7. DOMAIN (a \o b) = 1 .. (Len(s) - 1)
  <2>1. DOMAIN (a \o b) = 1 .. Len(a \o b)
    BY <1>5
  <2> QED BY <1>5, <2>1
<1> QED BY <1>1, <1>4, <1>5, <1>6, <1>7

LEMMA TagSound ==
  ASSUME WebInv, NoRisk, Tag
  PROVE  WebInv'
<1> DEFINE rec == [name |-> edits, p |-> disk.p]
    old == disk.tags
    new == <<rec>> \o old
<1>1. /\ ~IgnorePending /\ disk' = [disk EXCEPT !.tags = new] /\ Edit("tags")
  BY DEF Tag, NoRisk
<1>2. /\ disk \in Vaults /\ edits \in Nat /\ old \in Seq(TagRecords) /\ rec \in TagRecords
      /\ rec.name = edits
  BY InvParts, SourceTypes DEF TagRecords
<1>3. /\ new \in Seq(TagRecords) /\ new[1] = rec /\ DOMAIN new = 1 .. (Len(old) + 1)
      /\ Len(old) \in Nat /\ DOMAIN old = 1 .. Len(old)
      /\ \A i \in 1 .. (Len(old) + 1) : i # 1 => i - 1 \in DOMAIN old /\ new[i] = old[i - 1]
  <2> HIDE DEF rec, old
  <2> QED BY <1>2, Prepended
<1> HIDE DEF rec, new
<1>4. /\ disk' \in Vaults /\ disk'.yaml = disk.yaml /\ disk'.hidden = disk.hidden
      /\ disk'.q = disk.q /\ disk'.tags = new
  BY <1>1, <1>2, <1>3 DEF Vaults
<1>5. edits' = edits + 1 /\ UNCHANGED <<builder, deps, sync>>
  BY <1>1 DEF Edit, pages, timers
<1>6. TagLists' \subseteq TagLists \cup {new} /\ old \in TagLists
  BY <1>4, <1>5 DEF TagLists, Built
<1>7. \A s \in TagLists : \A i \in DOMAIN s : s[i].name \in Nat /\ s[i].name < edits
  BY InvParts, ListTypes DEF TagsNamed
<1>8. \A s \in TagLists' : \A i \in DOMAIN s :
         s[i] = rec \/ \E t \in TagLists : \E j \in DOMAIN t : s[i] = t[j]
  <2> SUFFICES ASSUME NEW s \in TagLists', NEW i \in DOMAIN s
               PROVE  s[i] = rec \/ \E t \in TagLists : \E j \in DOMAIN t : s[i] = t[j]
    OBVIOUS
  <2>1. CASE s \in TagLists
    BY <2>1
  <2>2. CASE s = new
    <3>1. i = 1 \/ (i - 1 \in DOMAIN old /\ s[i] = old[i - 1])
      BY <1>3, <2>2
    <3> QED BY <1>3, <1>6, <2>2, <3>1
  <2> QED BY <1>6, <2>1, <2>2
<1>9. ASSUME NEW s \in TagLists', NEW i \in DOMAIN s, NEW j \in DOMAIN s, i < j
      PROVE  s[i].name > s[j].name
  <2>1. CASE s \in TagLists
    BY <1>9, <2>1, InvParts DEF TagsNamed
  <2>2. CASE s = new
    <3>1. j \in 1 .. (Len(old) + 1) /\ i \in 1 .. (Len(old) + 1)
      BY <1>3, <2>2
    <3>2. j # 1
      BY <1>3, <1>9, <3>1
    <3>3. j - 1 \in DOMAIN old /\ s[j] = old[j - 1]
      BY <1>3, <2>2, <3>1, <3>2
    <3>4. CASE i = 1
      BY <1>2, <1>3, <1>6, <1>7, <2>2, <3>3, <3>4
    <3>5. CASE i # 1
      <4>1. i - 1 \in DOMAIN old /\ s[i] = old[i - 1]
        BY <1>3, <2>2, <3>1, <3>5
      <4>2. i - 1 < j - 1
        BY <1>3, <1>9, <3>1
      <4>3. old[i - 1].name > old[j - 1].name
        BY <1>6, <3>3, <4>1, <4>2, InvParts DEF TagsNamed
      <4> QED BY <3>3, <4>1, <4>3
    <3> QED BY <3>4, <3>5
  <2> QED BY <1>6, <2>1, <2>2
<1>10. ASSUME NEW s \in TagLists', NEW t \in TagLists', NEW i \in DOMAIN s, NEW j \in DOMAIN t
       PROVE  s[i].name < edits' /\ (s[i].name = t[j].name => s[i] = t[j])
  <2>1. s[i].name < edits'
    BY <1>2, <1>5, <1>7, <1>8
  <2>2. ASSUME s[i].name = t[j].name PROVE s[i] = t[j]
    <3>1. CASE s[i] = rec /\ t[j] = rec
      BY <3>1
    <3>2. CASE s[i] = rec /\ t[j] # rec
      <4>1. t[j].name < edits /\ t[j].name \in Nat
        BY <1>7, <1>8, <3>2
      <4> QED BY <1>2, <2>2, <3>2, <4>1
    <3>3. CASE s[i] # rec /\ t[j] = rec
      <4>1. s[i].name < edits /\ s[i].name \in Nat
        BY <1>7, <1>8, <3>3
      <4> QED BY <1>2, <2>2, <3>3, <4>1
    <3>4. CASE s[i] # rec /\ t[j] # rec
      <4>1. PICK u \in TagLists : \E k \in DOMAIN u : s[i] = u[k]
        BY <1>8, <3>4
      <4>1a. PICK k \in DOMAIN u : s[i] = u[k]
        BY <4>1
      <4>2. PICK v \in TagLists : \E l \in DOMAIN v : t[j] = v[l]
        BY <1>8, <3>4
      <4>2a. PICK l \in DOMAIN v : t[j] = v[l]
        BY <4>2
      <4>3. u[k].name = v[l].name => u[k] = v[l]
        BY InvParts DEF TagsNamed
      <4> QED BY <2>2, <4>1a, <4>2a, <4>3
    <3> QED BY <3>1, <3>2, <3>3, <3>4
  <2> QED BY <2>1, <2>2
<1>11. TagsNamed'
  BY <1>9, <1>10 DEF TagsNamed
<1>12. "tags" \in Kinds
  BY DEF Kinds
<1> QED BY <1>1, <1>4, <1>11, <1>12, EditSound

LEMMA UntagSound ==
  ASSUME WebInv, NoRisk, Untag
  PROVE  WebInv'
<1> DEFINE old == disk.tags
<1>1. PICK k \in DOMAIN old :
         /\ disk' = [disk EXCEPT !.tags = RemoveAt(@, k)] /\ Edit("tags") /\ ~IgnorePending
  BY DEF Untag, NoRisk
<1>2. disk \in Vaults /\ edits \in Nat /\ old \in Seq(TagRecords)
  BY InvParts, SourceTypes
<1>3. PICK new : new = RemoveAt(old, k)
  OBVIOUS
<1>4. /\ new \in Seq(TagRecords) /\ DOMAIN new = 1 .. (Len(old) - 1)
      /\ DOMAIN old = 1 .. Len(old) /\ Len(old) \in Nat
      /\ \A i \in DOMAIN new : new[i] = old[IF i < k THEN i ELSE i + 1]
  <2> HIDE DEF old
  <2> QED BY <1>2, <1>3, Without
<1>5. /\ disk' \in Vaults /\ disk'.yaml = disk.yaml /\ disk'.hidden = disk.hidden
      /\ disk'.q = disk.q /\ disk'.tags = new
  BY <1>1, <1>2, <1>3, <1>4 DEF Vaults
<1>6. edits' = edits + 1 /\ UNCHANGED <<builder, deps, sync>>
  BY <1>1 DEF Edit, pages, timers
<1>7. TagLists' \subseteq TagLists \cup {new} /\ old \in TagLists
  BY <1>5, <1>6 DEF TagLists, Built
<1> HIDE DEF old
<1>8. \A i \in DOMAIN new : (IF i < k THEN i ELSE i + 1) \in DOMAIN old
  BY <1>4
<1>9. \A s \in TagLists' : \A i \in DOMAIN s : \E t \in TagLists : \E j \in DOMAIN t : s[i] = t[j]
  <2> SUFFICES ASSUME NEW s \in TagLists', NEW i \in DOMAIN s
               PROVE  \E t \in TagLists : \E j \in DOMAIN t : s[i] = t[j]
    OBVIOUS
  <2>1. CASE s \in TagLists
    BY <2>1
  <2>2. CASE s = new
    <3>1. PICK j \in DOMAIN old : s[i] = old[j]
      BY <1>4, <1>8, <2>2
    <3> QED BY <1>7, <3>1
  <2> QED BY <1>7, <2>1, <2>2
<1>10. ASSUME NEW s \in TagLists', NEW i \in DOMAIN s, NEW j \in DOMAIN s, i < j
       PROVE  s[i].name > s[j].name
  <2>1. CASE s \in TagLists
    BY <1>10, <2>1, InvParts DEF TagsNamed
  <2>2. CASE s = new
    <3>1. PICK l : l = IF i < k THEN i ELSE i + 1
      OBVIOUS
    <3>2. PICK m : m = IF j < k THEN j ELSE j + 1
      OBVIOUS
    <3>3. l \in DOMAIN old /\ m \in DOMAIN old /\ s[i] = old[l] /\ s[j] = old[m]
      BY <1>4, <1>8, <2>2, <3>1, <3>2
    <3>4. l < m
      BY <1>4, <1>10, <2>2, <3>1, <3>2
    <3>5. old[l].name > old[m].name
      BY <1>7, <3>3, <3>4, InvParts DEF TagsNamed
    <3> QED BY <3>3, <3>5
  <2> QED BY <1>7, <2>1, <2>2
<1>11. ASSUME NEW s \in TagLists', NEW t \in TagLists', NEW i \in DOMAIN s, NEW j \in DOMAIN t
       PROVE  s[i].name < edits' /\ (s[i].name = t[j].name => s[i] = t[j])
  <2>1. PICK u \in TagLists : \E l \in DOMAIN u : s[i] = u[l]
    BY <1>9
  <2>1a. PICK l \in DOMAIN u : s[i] = u[l]
    BY <2>1
  <2>2. PICK v \in TagLists : \E m \in DOMAIN v : t[j] = v[m]
    BY <1>9
  <2>2a. PICK m \in DOMAIN v : t[j] = v[m]
    BY <2>2
  <2>3. u[l].name < edits /\ (u[l].name = v[m].name => u[l] = v[m]) /\ u[l].name \in Nat
    BY InvParts, ListTypes DEF TagsNamed
  <2> QED BY <1>2, <1>6, <2>1a, <2>2a, <2>3
<1>12. TagsNamed'
  BY <1>10, <1>11 DEF TagsNamed
<1>13. "tags" \in Kinds
  BY DEF Kinds
<1> QED BY <1>1, <1>5, <1>12, <1>13, EditSound

LEMMA ChangeSound ==
  ASSUME WebInv, NoRisk, Change
  PROVE  WebInv'
BY ContentSound, TagSound, UntagSound DEF Change
-----------------------------------------------------------------------------
(***************************************************************************)
(* The watcher and the builders                                            *)
(***************************************************************************)
LEMMA SameDepsKeep ==
  ASSUME BumpDue => BumpDue', UNCHANGED <<deps, epoch>>
  PROVE  Keeps
BY DEF Keeps, SameLook

\* A step that concerns the sources alone, when no request is quiet or the step
\* is one that a quiet request does not mind.
LEMMA SourceStep ==
  ASSUME WebInv, SourceInv', BumpDue => BumpDue', UNCHANGED <<deps, pages, clients>>,
         \A b \in Browsers : request[b] # None /\ request[b].quiet =>
           UNCHANGED <<disk, events, tagTimer, sync>> /\ builder'["watcher"] = builder["watcher"]
  PROVE  WebInv'
<1>1. UNCHANGED <<epoch, cache, request, browser, deps>>
  BY DEF pages, clients
<1>2. Keeps
  BY <1>1, SameDepsKeep
<1>3. ServedInv'
  BY <1>1, <1>2, ServedStays
<1> QED BY <1>3 DEF WebInv

LEMMA QuietFacts ==
  ASSUME WebInv, NEW b \in Browsers, request[b] # None, request[b].quiet
  PROVE  /\ events = << >> /\ builder["watcher"] = None /\ ~tagTimer /\ sync = None
         /\ disk.yaml # "broken"
         /\ Held(b).hidden = disk.hidden /\ SameLook(Held(b), disk)
         /\ request[b].at # "started" => request[b].body = Body(disk)
BY InvParts DEF RequestFollows

\* A SIGHUP reads the vault as it is.
LEMMA ReloadFacts ==
  ASSUME SourceTypeOK, BuildsFollow, builder["reload"] # None
  PROVE  /\ Range(events) \subseteq {"write"} /\ builder["watcher"] = None
         /\ ~tagTimer /\ sync = None
         /\ \A i \in DOMAIN builder["reload"].read : builder["reload"].read[i] = disk[Parts[i]]
<1>1. "reload" \in Builders
  BY DEF Builders
<1>2. Range(events) \subseteq {"write"}
  BY DEF BuildsFollow
<1>3. ASSUME NEW i \in DOMAIN builder["reload"].read
      PROVE  builder["reload"].read[i] = disk[Parts[i]]
  <2>1. builder["reload"].read[i] = disk[Parts[i]] \/ EventOf[Parts[i]] \in Range(events)
    BY <1>1 DEF BuildsFollow
  <2>2. /\ DOMAIN builder["reload"].read = 1 .. Len(builder["reload"].read)
        /\ Len(builder["reload"].read) \in 0 .. 4
    BY <1>1, BuildTypes
  <2>3. PICK n \in 0 .. 4 : n = Len(builder["reload"].read)
    BY <2>2
  <2>4. i \in 1 .. n
    BY <1>3, <2>2, <2>3
  <2>5. i \in {1, 2, 3, 4}
    BY <2>4
  <2>6. EventOf[Parts[i]] # "write"
    BY <2>5, PartFacts DEF EventOf
  <2> QED BY <1>2, <2>1, <2>6
<1> QED BY <1>2, <1>3 DEF BuildsFollow

LEMMA StartType ==
  ASSUME NEW kind \in Kinds \cup {"config"}, NEW start, start = [kind |-> kind, read |-> << >>]
  PROVE  start \in Builds /\ start # None /\ start.kind = kind /\ start.read = << >>
<1> DEFINE S == Seq(TagRecords) \cup Settings \cup BOOLEAN
<1>1. << >> \in Seq(S)
  OBVIOUS
<1> HIDE DEF S
<1>2. start \in [kind : Kinds \cup {"config"}, read : Seq(S)]
  BY <1>1
<1>3. start \in Builds
  BY <1>2 DEF Builds, S
<1> QED BY <1>3, NotNone

LEMMA DispatchSound ==
  ASSUME WebInv, Dispatch
  PROVE  WebInv'
<1> DEFINE e == Head(events)
<1>1. /\ events # << >> /\ builder["watcher"] = None /\ events' = Tail(events)
      /\ UNCHANGED <<disk, edits, pages, sync, clients>>
      /\ \/ e = "write" /\ UNCHANGED <<tagTimer, builder>>
         \/ e = "tags" /\ tagTimer' = TRUE /\ UNCHANGED builder
         \/ e = "access" /\ UNCHANGED <<tagTimer, builder>>
         \/ e \in {"content", "web_yaml", "webignore"} /\ StartBuild("watcher", e)
              /\ UNCHANGED tagTimer
  BY DEF Dispatch, Arm
<1>2. events' \in Seq(Kinds) /\ e \in Kinds /\ Range(events) = {e} \cup Range(events)'
  BY <1>1, InvParts, SourceTypes, RangeTail
<1> HIDE DEF e
<1>3. PICK start : start = [kind |-> e, read |-> << >>]
  OBVIOUS
<1>4. /\ start \in Builds /\ start # None /\ start.kind = e /\ start.read = << >>
  BY <1>2, <1>3, StartType
<1>5. builder \in [Builders -> Builds \cup {None}] /\ Builders = {"watcher", "reload"}
  BY InvParts, SourceTypes DEF Builders
<1>6. /\ builder' \in [Builders -> Builds \cup {None}]
      /\ builder'["reload"] = builder["reload"]
      /\ IF e \in {"content", "web_yaml", "webignore"}
         THEN builder'["watcher"] = start ELSE builder'["watcher"] = None
  <2>1. CASE e \in {"content", "web_yaml", "webignore"}
    <3>1. builder' = [builder EXCEPT !["watcher"] = start]
      BY <1>1, <1>3, <2>1 DEF StartBuild
    <3> QED BY <1>4, <1>5, <2>1, <3>1
  <2>2. CASE e \notin {"content", "web_yaml", "webignore"}
    BY <1>1, <1>5, <2>2
  <2> QED BY <2>1, <2>2
<1>7. SourceTypeOK'
  <2>1. ASSUME NEW w \in Builders, builder'[w] # None
        PROVE  /\ Len(builder'[w].read) <= Len(Parts)
               /\ \A i \in DOMAIN builder'[w].read : builder'[w].read[i] \in PartType(Parts[i])
    <3>1. CASE builder'[w] = start
      <4>1. Len(start.read) = 0 /\ DOMAIN start.read = {}
        BY <1>4
      <4> QED BY <3>1, <4>1, PartFacts
    <3>2. CASE builder'[w] = builder[w]
      BY <2>1, <3>2, InvParts DEF SourceTypeOK
    <3> QED BY <1>1, <1>5, <1>6, <2>1, <3>1, <3>2
  <2> QED BY <1>1, <1>2, <1>6, <2>1, InvParts DEF SourceTypeOK, pages
<1>8. /\ SettingsDue => SettingsDue'
      /\ RebuildDue => RebuildDue'
      /\ TagsDue => TagsDue'
  <2>1. SettingsDue => SettingsDue'
    BY <1>1, <1>2, <1>4, <1>6 DEF SettingsDue, Bumping
  <2>2. RebuildDue => RebuildDue'
    BY <1>1, <1>2, <1>4, <1>6 DEF RebuildDue, Bumping
  <2>3. TagsDue => TagsDue'
    BY <1>1, <1>2 DEF TagsDue
  <2> QED BY <2>1, <2>2, <2>3
<1>9. DepsFollow'
  BY <1>1, <1>2, <1>8, InvParts DEF DepsFollow, pages
<1>10. BuildsFollow'
  <2>1. ASSUME builder["reload"] # None
        PROVE  /\ Range(events)' \subseteq {"write"} /\ builder'["watcher"] = None
               /\ ~tagTimer' /\ sync' = None
    <3>1. /\ Range(events) \subseteq {"write"} /\ ~tagTimer /\ sync = None
      BY <2>1, InvParts, ReloadFacts
    <3>2. e = "write"
      BY <1>2, <3>1
    <3> QED BY <1>1, <1>2, <1>6, <3>1, <3>2
  <2>2. ASSUME NEW w \in Builders, builder'[w] # None, NEW i \in DOMAIN builder'[w].read
        PROVE  builder'[w].read[i] = disk'[Parts[i]] \/ EventOf[Parts[i]] \in Range(events)'
    <3>1. CASE w = "watcher"
      <4>1. DOMAIN start.read = {}
        BY <1>4
      <4> QED BY <1>6, <2>2, <3>1, <4>1
    <3>2. CASE w = "reload"
      BY <1>1, <1>6, <2>2, <3>2, InvParts, ReloadFacts
    <3> QED BY <1>5, <3>1, <3>2
  <2>3. IgnorePending' => ~TagsPending'
    <3>1. IgnorePending' => IgnorePending
      BY <1>1, <1>2, <1>4, <1>6 DEF IgnorePending
    <3>2. TagsPending' => TagsPending
      BY <1>1, <1>2 DEF TagsPending
    <3> QED BY <3>1, <3>2, InvParts DEF BuildsFollow
  <2> QED BY <1>6, <2>1, <2>2, <2>3 DEF BuildsFollow
<1>11. TagsNamed'
  <2>1. ASSUME NEW w \in Builders, Built(w)' PROVE Built(w) /\ builder'[w] = builder[w]
    <3>1. builder'[w] # start
      <4>1. Len(start.read) = 0
        BY <1>4
      <4> QED BY <2>1, <4>1, PartFacts DEF Built
    <3>2. builder'[w] = builder[w]
      BY <1>1, <1>5, <1>6, <2>1, <3>1 DEF Built
    <3> QED BY <2>1, <3>2 DEF Built
  <2>2. TagLists' \subseteq TagLists
    BY <1>1, <2>1 DEF TagLists, pages
  <2>3. edits \in Nat
    BY InvParts, SourceTypes
  <2> QED BY <1>1, <2>2, <2>3, ListsStay
<1>12. BumpDue => BumpDue'
  BY <1>1, <1>8 DEF BumpDue
<1>13. \A b \in Browsers : ~(request[b] # None /\ request[b].quiet)
  BY <1>1, QuietFacts
<1>14. SourceInv'
  BY <1>7, <1>9, <1>10, <1>11 DEF SourceInv
<1> QED BY <1>1, <1>12, <1>13, <1>14, SourceStep DEF pages

LEMMA ReloadConfigSound ==
  ASSUME WebInv, NoRisk, ReloadConfig
  PROVE  WebInv'
<1>1. PICK start : start = [kind |-> "config", read |-> << >>]
  OBVIOUS
<1>2. /\ AtRest /\ edits' = edits + 1 /\ builder' = [builder EXCEPT !["reload"] = start]
      /\ UNCHANGED <<disk, events, pages, grant, timers, index, clients>>
  BY <1>1 DEF ReloadConfig, StartBuild, NoRisk
<1>3. start \in Builds /\ start # None /\ start.kind = "config" /\ start.read = << >>
  BY <1>1, StartType
<1>4. builder \in [Builders -> Builds \cup {None}] /\ Builders = {"watcher", "reload"}
  BY InvParts, SourceTypes DEF Builders
<1>5. /\ builder' \in [Builders -> Builds \cup {None}]
      /\ builder'["watcher"] = builder["watcher"] /\ builder'["reload"] = start
  BY <1>2, <1>3, <1>4
<1>6. /\ UNCHANGED <<disk, events, deps, epoch, cache, request, browser, tagTimer, sync>>
      /\ Range(events)' = Range(events)
  BY <1>2 DEF pages, timers, clients
<1>7. events = << >> /\ builder["watcher"] = None /\ ~tagTimer /\ sync = None /\ Range(events) = {}
  BY <1>2, <1>4 DEF AtRest, Range
<1>8. Len(start.read) = 0 /\ DOMAIN start.read = {}
  BY <1>3
<1>9. SourceTypeOK'
  BY <1>2, <1>4, <1>5, <1>6, <1>7, <1>8, PartFacts, InvParts DEF SourceTypeOK
<1>10. DepsFollow'
  BY <1>5, <1>6, InvParts DEF DepsFollow, SettingsDue, RebuildDue, TagsDue
<1>11. BuildsFollow'
  BY <1>4, <1>5, <1>6, <1>7, <1>8 DEF BuildsFollow, IgnorePending
<1>12. TagsNamed'
  <2>1. \A w \in Builders : ~Built(w)'
    BY <1>4, <1>5, <1>7, <1>8, PartFacts DEF Built
  <2>2. TagLists' \subseteq TagLists
    BY <1>6, <2>1 DEF TagLists
  <2>3. edits \in Nat
    BY InvParts, SourceTypes
  <2> QED BY <1>2, <2>2, <2>3, ListsStay
<1>13. BumpDue => BumpDue'
  BY <1>5, <1>6 DEF BumpDue, SettingsDue
<1>14. SourceInv'
  BY <1>9, <1>10, <1>11, <1>12 DEF SourceInv
<1> QED BY <1>2, <1>5, <1>6, <1>13, <1>14, SourceStep

LEMMA BuildSound ==
  ASSUME WebInv, NEW w \in Builders, Build(w)
  PROVE  WebInv'
<1> DEFINE was == builder[w]
    x == disk[Part(w)]
<1>1. /\ was # None /\ ~Built(w)
      /\ UNCHANGED <<source, pages, grant, timers, index, clients>>
  BY DEF Build
<1>2. /\ was \in Builds /\ was.read \in Seq(Seq(TagRecords) \cup Settings \cup BOOLEAN)
      /\ Len(was.read) \in 0 .. 4 /\ DOMAIN was.read = 1 .. Len(was.read)
      /\ \A i \in DOMAIN was.read : was.read[i] \in PartType(Parts[i])
      /\ \A i \in DOMAIN was.read :
           was.read[i] = disk[Parts[i]] \/ EventOf[Parts[i]] \in Range(events)
  BY <1>1, InvParts, BuildTypes DEF BuildsFollow
<1>3. PICK n \in 0 .. 3 : n = Len(was.read)
  <2>1. PICK n \in 0 .. 4 : n = Len(was.read)
    BY <1>2
  <2>2. n # 4
    BY <1>1, <2>1, PartFacts DEF Built
  <2>3. n \in 0 .. 3
    BY <2>2
  <2> QED BY <2>1, <2>3
<1>4. /\ disk.yaml \in Settings /\ disk.hidden \in BOOLEAN /\ disk.q \in BOOLEAN
      /\ disk.tags \in Seq(TagRecords)
  BY InvParts, SourceTypes
<1>5. /\ Part(w) = Parts[n + 1] /\ x \in PartType(Parts[n + 1])
      /\ x \in Seq(TagRecords) \cup Settings \cup BOOLEAN
      /\ x = disk[Parts[n + 1]] /\ (n = 3 => x = disk.tags)
  <2>1. Part(w) = Parts[n + 1]
    BY <1>3 DEF Part
  <2>2. n \in {0, 1, 2, 3}
    BY <1>3
  <2> QED BY <1>4, <2>1, <2>2, PartFacts DEF PartType
<1>6. /\ UNCHANGED <<disk, events, edits, deps, epoch, cache, request, browser, tagTimer, sync>>
      /\ Range(events)' = Range(events)
  BY <1>1 DEF source, pages, timers, clients
<1>7. builder \in [Builders -> Builds \cup {None}] /\ Builders = {"watcher", "reload"}
  BY InvParts, SourceTypes DEF Builders
<1>8. PICK next : /\ next = IF Part(w) = "yaml" /\ disk.yaml = "broken" THEN None
                            ELSE [was EXCEPT !.read = Append(was.read, x)]
                  /\ builder' = [builder EXCEPT ![w] = next]
  BY Zenon DEF Build
<1>9. builder' = [builder EXCEPT ![w] = next]
  BY <1>8
<1>10. next # None =>
         /\ next \in Builds /\ next.kind = was.kind /\ next.read = Append(was.read, x)
  <2>1. PICK read : read = Append(was.read, x)
    OBVIOUS
  <2>2. read \in Seq(Seq(TagRecords) \cup Settings \cup BOOLEAN)
    <3> DEFINE S == Seq(TagRecords) \cup Settings \cup BOOLEAN
    <3>1. was.read \in Seq(S) /\ x \in S
      BY <1>2, <1>5
    <3> HIDE DEF S, was, x
    <3>2. Append(was.read, x) \in Seq(S)
      BY <3>1
    <3> QED BY <2>1, <3>2 DEF S
  <2> QED BY <1>2, <1>8, <2>1, <2>2 DEF Builds
<1>11. next = None => disk.yaml = "broken"
  <2>1. PICK read : read = Append(was.read, x)
    OBVIOUS
  <2>2. read \in Seq(Seq(TagRecords) \cup Settings \cup BOOLEAN)
    <3> DEFINE S == Seq(TagRecords) \cup Settings \cup BOOLEAN
    <3>1. was.read \in Seq(S) /\ x \in S
      BY <1>2, <1>5
    <3> HIDE DEF S, was, x
    <3>2. Append(was.read, x) \in Seq(S)
      BY <3>1
    <3> QED BY <2>1, <3>2 DEF S
  <2>3. [was EXCEPT !.read = read] \in Builds
    BY <1>2, <2>2 DEF Builds
  <2> QED BY <1>8, <2>1, <2>3, NotNone
<1>12. next # None =>
         /\ Len(next.read) = n + 1 /\ DOMAIN next.read = 1 .. (n + 1) /\ next.read[n + 1] = x
         /\ \A i \in 1 .. n : next.read[i] = was.read[i]
  <2> DEFINE S == Seq(TagRecords) \cup Settings \cup BOOLEAN
  <2>1. was.read \in Seq(S) /\ x \in S
    BY <1>2, <1>5
  <2> HIDE DEF S, was, x
  <2>2. PICK s \in Seq(S) : s = was.read /\ Len(s) = n
    BY <1>3, <2>1
  <2>3. /\ Len(Append(s, x)) = n + 1 /\ DOMAIN Append(s, x) = 1 .. (n + 1)
        /\ Append(s, x)[n + 1] = x /\ \A i \in 1 .. n : Append(s, x)[i] = s[i]
    BY <2>1, <2>2
  <2> QED BY <1>10, <2>2, <2>3
<1> HIDE DEF was, x
<1>13. \A v \in Builders : builder'[v] = IF v = w THEN next ELSE builder[v]
  BY <1>7, <1>9
<1>14. builder' \in [Builders -> Builds \cup {None}]
  BY <1>7, <1>9, <1>10
<1>15. next # None =>
         \A i \in DOMAIN next.read :
           /\ next.read[i] \in PartType(Parts[i])
           /\ next.read[i] = disk[Parts[i]] \/ EventOf[Parts[i]] \in Range(events)
  <2> SUFFICES ASSUME next # None, NEW i \in 1 .. (n + 1)
               PROVE  /\ next.read[i] \in PartType(Parts[i])
                      /\ next.read[i] = disk[Parts[i]] \/ EventOf[Parts[i]] \in Range(events)
    BY <1>12
  <2>1. CASE i = n + 1
    BY <1>5, <1>12, <2>1
  <2>2. CASE i # n + 1
    <3>1. i \in 1 .. n /\ i \in DOMAIN was.read
      BY <1>2, <1>3, <2>2
    <3> QED BY <1>2, <1>12, <3>1
  <2> QED BY <2>1, <2>2
<1>16. SourceTypeOK'
  <2>1. \A v \in Builders : builder'[v] # None =>
          /\ Len(builder'[v].read) <= Len(Parts)
          /\ \A i \in DOMAIN builder'[v].read : builder'[v].read[i] \in PartType(Parts[i])
    <3> SUFFICES ASSUME NEW v \in Builders, builder'[v] # None
                 PROVE  /\ Len(builder'[v].read) <= Len(Parts)
                        /\ \A i \in DOMAIN builder'[v].read :
                             builder'[v].read[i] \in PartType(Parts[i])
      OBVIOUS
    <3>1. CASE v = w
      <4>1. builder'[v] = next /\ next # None
        BY <1>13, <3>1
      <4>2. Len(next.read) = n + 1 /\ n + 1 <= 4
        BY <1>3, <1>12, <4>1
      <4> QED BY <1>15, <4>1, <4>2, PartFacts
    <3>2. CASE v # w
      <4>1. builder'[v] = builder[v]
        BY <1>13, <3>2
      <4> QED BY <4>1, InvParts DEF SourceTypeOK
    <3> QED BY <3>1, <3>2
  <2> QED BY <1>6, <1>14, <2>1, InvParts DEF SourceTypeOK
<1>17. (SettingsDue => SettingsDue') /\ (RebuildDue => RebuildDue') /\ (TagsDue => TagsDue')
  <2>1. SettingsDue => SettingsDue'
    BY <1>6, <1>7, <1>10, <1>11, <1>13 DEF SettingsDue, was
  <2>2. RebuildDue => RebuildDue'
    BY <1>6, <1>7, <1>11, <1>13 DEF RebuildDue
  <2>3. TagsDue => TagsDue'
    BY <1>6 DEF TagsDue
  <2> QED BY <2>1, <2>2, <2>3
<1>18. DepsFollow'
  BY <1>6, <1>17, InvParts DEF DepsFollow
<1>19. BuildsFollow'
  <2>1. \A v \in Builders : builder'[v] # None =>
          \A i \in DOMAIN builder'[v].read :
            builder'[v].read[i] = disk'[Parts[i]] \/ EventOf[Parts[i]] \in Range(events)'
    BY <1>6, <1>13, <1>15, InvParts DEF BuildsFollow
  <2>2. builder'["reload"] # None =>
          Range(events)' \subseteq {"write"} /\ builder'["watcher"] = None /\ ~tagTimer' /\ sync' = None
    <3> SUFFICES ASSUME builder'["reload"] # None
                 PROVE  /\ Range(events)' \subseteq {"write"} /\ builder'["watcher"] = None
                        /\ ~tagTimer' /\ sync' = None
      OBVIOUS
    <3>1. builder["reload"] # None
      BY <1>1, <1>7, <1>13 DEF was
    <3>2. /\ Range(events) \subseteq {"write"} /\ builder["watcher"] = None
          /\ ~tagTimer /\ sync = None
      BY <3>1, InvParts, ReloadFacts
    <3>3. w # "watcher"
      BY <1>1, <3>2 DEF was
    <3> QED BY <1>6, <1>7, <1>13, <3>2, <3>3
  <2>3. IgnorePending' => ~TagsPending'
    <3>1. IgnorePending' => IgnorePending
      BY <1>1, <1>6, <1>7, <1>10, <1>13 DEF IgnorePending, was
    <3>2. TagsPending' => TagsPending
      BY <1>6 DEF TagsPending
    <3> QED BY <3>1, <3>2, InvParts DEF BuildsFollow
  <2> QED BY <2>1, <2>2, <2>3 DEF BuildsFollow
<1>20. TagsNamed'
  <2>1. ASSUME NEW v \in Builders, Built(v)' PROVE builder'[v].read[4] \in TagLists
    <3>1. CASE v = w
      <4>1. next # None /\ n = 3
        <5>1. builder'[v] = next /\ next # None /\ Len(next.read) = 4
          BY <1>13, <2>1, <3>1, PartFacts DEF Built
        <5>2. n + 1 = 4
          BY <1>12, <5>1
        <5>3. n = 3
          BY <5>2
        <5> QED BY <5>1, <5>3
      <4> QED BY <1>5, <1>12, <1>13, <3>1, <4>1 DEF TagLists
    <3>2. CASE v # w
      BY <1>13, <2>1, <3>2 DEF Built, TagLists
    <3> QED BY <3>1, <3>2
  <2>2. TagLists' \subseteq TagLists
    BY <1>6, <2>1 DEF TagLists
  <2>3. edits \in Nat /\ edits' = edits
    BY <1>6, InvParts, SourceTypes
  <2> QED BY <2>2, <2>3, ListsStay
<1>21. BumpDue => BumpDue'
  BY <1>6, <1>17 DEF BumpDue
<1>22. SourceInv'
  BY <1>16, <1>18, <1>19, <1>20 DEF SourceInv
<1>23. ASSUME NEW b \in Browsers, request[b] # None, request[b].quiet
       PROVE  builder'["watcher"] = builder["watcher"]
  <2>1. builder["watcher"] = None
    BY <1>23, QuietFacts
  <2>2. w # "watcher"
    BY <1>1, <2>1 DEF was
  <2> QED BY <1>7, <1>13, <2>2
<1> QED BY <1>1, <1>6, <1>21, <1>22, <1>23, SourceStep

\* An epoch begins: nothing is kept under it.
LEMMA BumpFacts ==
  ASSUME WebInv, Bump, UNCHANGED browser
  PROVE  /\ epoch' = epoch + 1 /\ epoch \in Nat /\ epoch' \in Nat
         /\ cache' \in [Contents -> RenderedPages \cup {None}]
         /\ CacheFollows' /\ OwnPage' /\ \A b \in Browsers : BrowserFollows(b)'
<1>1. /\ epoch' = epoch + 1 /\ cache' = [c \in Contents |-> None] /\ epoch \in Nat
  BY InvParts, ServedTypes DEF Bump
<1>2. CacheFollows' /\ OwnPage'
  BY <1>1, InvParts DEF CacheFollows, OwnPage
<1>3. ASSUME NEW b \in Browsers PROVE BrowserFollows(b)'
  <2>1. PICK copy : copy = browser[b]
    OBVIOUS
  <2> SUFFICES ASSUME copy # None PROVE copy.epoch <= epoch + 1 /\ copy.epoch < epoch + 1
    BY <1>1, <2>1 DEF BrowserFollows
  <2>2. copy.epoch <= epoch
    BY <2>1, InvParts DEF BrowserFollows
  <2>3. copy.epoch \in Nat
    BY <2>1, InvParts, ServedTypes DEF Copies
  <2> QED BY <1>1, <2>2, <2>3
<1> QED BY <1>1, <1>2, <1>3

\* The PageDeps that are installed.
LEMMA InstalledFacts ==
  ASSUME WebInv, NEW w \in Builders, Install(w)
  PROVE  LET r == builder[w].read IN
         /\ deps'.yaml = r[1] /\ deps'.hidden = r[2] /\ deps'.q = r[3] /\ deps'.tags = r[4]
         /\ deps' \in PageDeps
<1> DEFINE r == builder[w].read
    At(k) == CHOOSE i \in DOMAIN Parts : Parts[i] = k
<1>1. At("yaml") = 1 /\ At("hidden") = 2 /\ At("q") = 3 /\ At("tags") = 4
  <2>1. \A i \in DOMAIN Parts : /\ Parts[i] = "yaml" <=> i = 1
                                /\ Parts[i] = "hidden" <=> i = 2
                                /\ Parts[i] = "q" <=> i = 3
                                /\ Parts[i] = "tags" <=> i = 4
    <3>1. DOMAIN Parts = {1, 2, 3, 4}
      BY PartFacts
    <3> QED BY <3>1, PartFacts
  <2>2. 1 \in DOMAIN Parts /\ 2 \in DOMAIN Parts /\ 3 \in DOMAIN Parts /\ 4 \in DOMAIN Parts
    BY PartFacts
  <2> QED BY <2>1, <2>2
<1>2. deps' = [k \in {"yaml", "hidden", "q", "tags"} |-> r[At(k)]]
  BY PartFacts DEF Install
<1> HIDE DEF At
<1>3. deps'.yaml = r[1] /\ deps'.hidden = r[2] /\ deps'.q = r[3] /\ deps'.tags = r[4]
  BY <1>1, <1>2
<1>4. /\ r[1] \in Settings /\ r[2] \in BOOLEAN /\ r[3] \in BOOLEAN /\ r[4] \in Seq(TagRecords)
  BY InvParts, BuiltFacts DEF Install
<1>5. deps' = [yaml |-> r[1], hidden |-> r[2], q |-> r[3], tags |-> r[4]]
  BY <1>1, <1>2
<1> QED BY <1>3, <1>4, <1>5 DEF PageDeps

LEMMA InstallSource ==
  ASSUME WebInv, NEW w \in Builders, Install(w)
  PROVE  /\ SourceInv' /\ UNCHANGED <<disk, events, tagTimer>> /\ Range(events)' = Range(events)
         /\ builder'["watcher"] = None /\ (sync = None <=> sync' = None)
         /\ sync # None => sync'.at = sync.at
         /\ w = "reload" => ~TagsPending /\ builder["watcher"] = None
<1> DEFINE r == builder[w].read
<1>1. /\ Built(w) /\ builder' = [builder EXCEPT ![w] = None]
      /\ sync' = IF sync = None THEN None ELSE [sync EXCEPT !.live = FALSE]
      /\ UNCHANGED <<disk, events, edits, tagTimer>> /\ Range(events)' = Range(events)
  BY DEF Install, source
<1>2. builder \in [Builders -> Builds \cup {None}] /\ Builders = {"watcher", "reload"}
  BY InvParts, SourceTypes DEF Builders
<1>3. \A v \in Builders : builder'[v] = IF v = w THEN None ELSE builder[v]
  BY <1>1, <1>2
<1>4. builder[w] # None
  BY <1>1 DEF Built
<1>5. builder["reload"] # None =>
        /\ Range(events) \subseteq {"write"} /\ builder["watcher"] = None
        /\ ~tagTimer /\ sync = None
  BY InvParts, ReloadFacts
<1>6. /\ builder'["watcher"] = None /\ builder'["reload"] = None
      /\ w = "reload" => ~TagsPending /\ builder["watcher"] = None
  BY <1>2, <1>3, <1>4, <1>5 DEF TagsPending
<1>7. /\ sync' \in Syncs \cup {None} /\ (sync = None <=> sync' = None)
      /\ sync # None => sync'.at = sync.at /\ sync'.live = FALSE /\ sync'.tags = sync.tags
  <2>1. sync \in Syncs \cup {None}
    BY InvParts, SourceTypes
  <2>2. CASE sync = None
    BY <1>1, <2>2
  <2>3. CASE sync # None
    <3>1. sync \in Syncs /\ sync' = [sync EXCEPT !.live = FALSE]
      BY <1>1, <2>1, <2>3
    <3>2. sync' \in Syncs /\ sync'.at = sync.at /\ sync'.live = FALSE /\ sync'.tags = sync.tags
      BY <3>1 DEF Syncs
    <3> QED BY <2>3, <3>2, NotNone
  <2> QED BY <2>2, <2>3
<1>8. /\ r[1] = disk.yaml \/ "web_yaml" \in Range(events)
      /\ r[2] = disk.hidden \/ "webignore" \in Range(events)
      /\ r[3] = disk.q \/ "content" \in Range(events)
      /\ r[4] = disk.tags \/ "tags" \in Range(events)
  BY <1>1, InvParts, BuiltFacts
<1>9. /\ deps'.yaml = r[1] /\ deps'.hidden = r[2] /\ deps'.q = r[3] /\ deps'.tags = r[4]
      /\ deps' \in PageDeps
  BY InstalledFacts
<1> HIDE DEF r
<1>10. SourceTypeOK'
  <2>1. builder' \in [Builders -> Builds \cup {None}]
    BY <1>1, <1>2
  <2> QED BY <1>1, <1>2, <1>6, <1>7, <1>9, <2>1, InvParts DEF SourceTypeOK
<1>11. DepsFollow'
  BY <1>1, <1>7, <1>8, <1>9 DEF DepsFollow, SettingsDue, RebuildDue, TagsDue, Bumping
<1>12. BuildsFollow'
  <2>1. IgnorePending' => ~TagsPending'
    <3>1. IgnorePending' => IgnorePending
      BY <1>1, <1>6 DEF IgnorePending
    <3>2. TagsPending' => TagsPending
      BY <1>1, <1>7 DEF TagsPending
    <3> QED BY <3>1, <3>2, InvParts DEF BuildsFollow
  <2> QED BY <1>2, <1>6, <2>1 DEF BuildsFollow
<1>13. TagsNamed'
  <2>1. \A v \in Builders : ~Built(v)'
    BY <1>2, <1>6 DEF Built
  <2>2. r[4] \in TagLists /\ disk.tags \in TagLists
    BY <1>1 DEF TagLists, r
  <2>3. sync # None => sync'.tags \in TagLists
    BY <1>7 DEF TagLists
  <2>4. TagLists' \subseteq TagLists
    BY <1>1, <1>7, <1>9, <2>1, <2>2, <2>3 DEF TagLists
  <2>5. edits \in Nat /\ edits' = edits
    BY <1>1, InvParts, SourceTypes
  <2> QED BY <2>4, <2>5, ListsStay
<1> QED BY <1>1, <1>6, <1>7, <1>10, <1>11, <1>12, <1>13 DEF SourceInv

\* A build that keeps the epoch installs nothing that a page shows, unless a build
\* that does not is due.
LEMMA InstallKeeps ==
  ASSUME WebInv, NEW w \in Builders, Install(w), KeepsEpoch(builder[w].kind)
  PROVE  Keeps
<1> DEFINE r == builder[w].read
<1>1. /\ UNCHANGED <<disk, events, tagTimer, epoch>> /\ Range(events)' = Range(events)
      /\ builder'["watcher"] = None /\ (sync = None <=> sync' = None)
      /\ sync # None => sync'.at = sync.at
      /\ w = "reload" => ~TagsPending /\ builder["watcher"] = None
  BY InstallSource DEF Install
<1> SUFFICES ASSUME ~BumpDue' PROVE ~BumpDue /\ SameLook(deps', deps)
  BY <1>1 DEF Keeps
<1>2. /\ disk.yaml # "broken" /\ Range(events) \cap Bumping = {}
      /\ ~(sync # None /\ sync.at = "set")
  BY <1>1 DEF BumpDue, SettingsDue
<1>3. builder[w] # None /\ builder[w].kind = "webignore" /\ w \in {"watcher", "reload"}
  BY DEF Install, Built, KeepsEpoch, Builders
<1>4. ~SettingsDue
  BY <1>1, <1>2, <1>3 DEF SettingsDue, Bumping
<1>5. ~TagsPending
  <2>1. w = "watcher" => IgnorePending
    BY <1>3 DEF IgnorePending
  <2> QED BY <1>1, <1>3, <2>1, InvParts DEF BuildsFollow
<1>6. ~TagsDue /\ "tags" \notin Range(events)
  BY <1>5 DEF TagsDue, TagsPending
<1>7. deps.yaml = disk.yaml /\ deps.q = disk.q /\ deps.tags = disk.tags
  BY <1>4, <1>6, InvParts DEF DepsFollow
<1>8. /\ r[1] = disk.yaml \/ "web_yaml" \in Range(events)
      /\ r[3] = disk.q \/ "content" \in Range(events)
      /\ r[4] = disk.tags \/ "tags" \in Range(events)
  BY InvParts, BuiltFacts DEF Install
<1>9. deps'.yaml = r[1] /\ deps'.q = r[3] /\ deps'.tags = r[4]
  BY InstalledFacts
<1>10. SameLook(deps', deps)
  BY <1>2, <1>6, <1>7, <1>8, <1>9 DEF SameLook, Bumping
<1> QED BY <1>2, <1>4, <1>10 DEF BumpDue

LEMMA InstallSound ==
  ASSUME WebInv, NoRisk, NEW w \in Builders, Install(w)
  PROVE  WebInv'
<1>1. /\ SourceInv' /\ UNCHANGED <<disk, events, tagTimer>>
      /\ builder'["watcher"] = None /\ (sync = None <=> sync' = None)
  BY InstallSource
<1>2. /\ \A b \in Browsers : request[b] # None => request[b].at = "keyed"
      /\ \A b \in Browsers : request'[b] = IF request[b] = None THEN None
                                           ELSE [request[b] EXCEPT !.old = Held(b)]
      /\ request' = [b \in Browsers |-> IF request[b] = None THEN None
                                        ELSE [request[b] EXCEPT !.old = Held(b)]]
      /\ UNCHANGED browser
  BY DEF Install, Early, NoRisk
<1>3. /\ epoch' \in Nat /\ cache' \in [Contents -> RenderedPages \cup {None}]
      /\ CacheFollows' /\ OwnPage' /\ \A b \in Browsers : BrowserFollows(b)'
      /\ epoch \in Nat /\ (Keeps \/ epoch' = epoch + 1)
  <2>0. epoch \in Nat /\ cache \in [Contents -> RenderedPages \cup {None}]
    BY InvParts, ServedTypes
  <2>1. CASE KeepsEpoch(builder[w].kind)
    <3>1. UNCHANGED <<epoch, cache>> /\ Keeps
      BY <2>1, InstallKeeps DEF Install
    <3> QED BY <1>2, <2>0, <3>1, CopiesStay
  <2>2. CASE ~KeepsEpoch(builder[w].kind)
    <3>1. Bump
      BY <2>2 DEF Install
    <3> QED BY <1>2, <3>1, BumpFacts
  <2> QED BY <2>1, <2>2
<1>4. ASSUME NEW b \in Browsers
      PROVE  request'[b] \in Requests \cup {None} /\ RequestFollows(b)'
  <2>1. CASE request[b] = None
    BY <1>2, <2>1 DEF RequestFollows
  <2>2. CASE request[b] # None
    <3>1. PICK r \in Requests : r = request[b]
      BY <2>2, InvParts, ServedTypes
    <3>2. PICK held \in PageDeps : held = Held(b)
      BY <2>2, HeldType
    <3>3. PICK next : next = [r EXCEPT !.old = held]
      OBVIOUS
    <3>4. /\ next \in Requests /\ next.at = "keyed" /\ next.old = held /\ next.quiet = r.quiet
          /\ next.body = r.body /\ next.epoch = r.epoch /\ next.key = r.key
          /\ next.reader = r.reader
      BY <1>2, <2>2, <3>1, <3>3 DEF Requests
    <3>5. request'[b] = next
      BY <1>2, <2>2, <3>1, <3>2, <3>3
    <3>6. Held(b)' = held
      BY <3>2, <3>4, <3>5, NotNone DEF Held
    <3>7. /\ r.epoch <= r.key /\ r.key <= epoch /\ r.reader \in {b, "guest"}
          /\ BumpDue \/ r.key < epoch \/ SameLook(held, deps)
          /\ r.body \in Contents /\ r.epoch \in Nat /\ r.key \in Nat
      BY <1>2, <2>2, <3>1, <3>2, InvParts, RequestFields DEF RequestFollows
    <3>8. BumpDue' \/ r.key < epoch' \/ SameLook(held, deps')
      <4>1. CASE Keeps
        BY <3>7, <4>1 DEF Keeps, SameLook
      <4>2. CASE epoch' = epoch + 1
        BY <1>3, <3>7, <4>2
      <4> QED BY <1>3, <4>1, <4>2
    <3>9. r.key <= epoch' /\ r.epoch <= epoch'
      <4>1. epoch <= epoch'
        BY <1>3 DEF Keeps
      <4> QED BY <1>3, <3>7, <4>1
    <3>10. r.quiet =>
             /\ events' = << >> /\ builder'["watcher"] = None /\ ~tagTimer' /\ sync' = None
             /\ disk'.yaml # "broken"
             /\ held.hidden = disk'.hidden /\ SameLook(held, disk')
             /\ r.body = Body(disk)'
      <4>1. Body(disk)' = Body(disk) /\ SameLook(held, disk') = SameLook(held, disk)
        BY <1>1 DEF Body, AtTag, SameLook
      <4> QED BY <1>1, <1>2, <2>2, <3>1, <3>2, <4>1, QuietFacts
    <3> QED BY <3>4, <3>5, <3>6, <3>7, <3>8, <3>9, <3>10 DEF RequestFollows
  <2> QED BY <2>1, <2>2
<1>5. ServedTypeOK'
  <2>1. request' \in [Browsers -> Requests \cup {None}]
    BY <1>2, <1>4
  <2> QED BY <1>2, <1>3, <2>1, InvParts DEF ServedTypeOK
<1> QED BY <1>1, <1>3, <1>4, <1>5 DEF WebInv, ServedInv
-----------------------------------------------------------------------------
(***************************************************************************)
(* The timers                                                              *)
(***************************************************************************)
LEMMA SyncFacts ==
  ASSUME SourceTypeOK, sync # None
  PROVE  sync \in Syncs /\ sync.tags \in Seq(TagRecords) /\ sync.live \in BOOLEAN
BY SourceTypes DEF Syncs

\* No build runs on SIGHUP and no request is quiet while tags are synced.
LEMMA SyncRuns ==
  ASSUME WebInv, tagTimer \/ sync # None
  PROVE  /\ builder["reload"] = None /\ ~IgnorePending
         /\ \A b \in Browsers : ~(request[b] # None /\ request[b].quiet)
<1>1. TagsPending
  BY DEF TagsPending
<1> QED BY <1>1, InvParts, ReloadFacts, QuietFacts DEF BuildsFollow

\* What holds of the builders when only the sync of the tags moves.
LEMMA BuildsStay ==
  ASSUME WebInv, tagTimer \/ sync # None, UNCHANGED <<disk, events, builder>>
  PROVE  BuildsFollow'
<1>1. builder["reload"] = None /\ ~IgnorePending
  BY SyncRuns
<1>2. ~IgnorePending'
  BY <1>1 DEF IgnorePending
<1> QED BY <1>1, <1>2, InvParts DEF BuildsFollow

LEMMA TagFireSound ==
  ASSUME WebInv, NoRisk, TagFire
  PROVE  WebInv'
<1>1. PICK next : next = [at |-> "fired", live |-> TRUE, tags |-> << >>]
  OBVIOUS
<1>2. /\ tagTimer /\ sync = None /\ tagTimer' = FALSE /\ sync' = next
      /\ UNCHANGED <<disk, events, edits, builder, deps, epoch, cache, request, browser>>
  BY <1>1 DEF TagFire, NoRisk, source, pages, clients
<1>3. /\ next \in Syncs /\ next # None /\ next.at = "fired" /\ next.live = TRUE
      /\ next.tags = << >>
  <2>1. << >> \in Seq(TagRecords)
    OBVIOUS
  <2> QED BY <1>1, <2>1, NotNone DEF Syncs
<1>4. SourceTypeOK'
  BY <1>2, <1>3, InvParts DEF SourceTypeOK
<1>5. DepsFollow'
  BY <1>2, <1>3, InvParts DEF DepsFollow, SettingsDue, RebuildDue, TagsDue
<1>6. BuildsFollow'
  BY <1>2, BuildsStay
<1>7. TagsNamed'
  <2>1. TagLists' \subseteq TagLists \cup {<< >>}
    BY <1>2, <1>3 DEF TagLists, Built
  <2>2. edits \in Nat /\ edits' = edits
    BY <1>2, InvParts, SourceTypes
  <2> QED BY <2>1, <2>2, ListsStay
<1>8. BumpDue => BumpDue'
  BY <1>2 DEF BumpDue, SettingsDue
<1>9. SourceInv'
  BY <1>4, <1>5, <1>6, <1>7 DEF SourceInv
<1>10. \A b \in Browsers : ~(request[b] # None /\ request[b].quiet)
  BY <1>2, SyncRuns
<1> QED BY <1>2, <1>8, <1>9, <1>10, SourceStep DEF pages, clients

LEMMA TagReadSound ==
  ASSUME WebInv, TagRead
  PROVE  WebInv'
<1>1. /\ sync # None /\ sync.at = "fired"
      /\ UNCHANGED <<disk, events, edits, builder, deps, tagTimer, epoch, cache, request, browser>>
  BY DEF TagRead, source, pages, clients
<1>2. sync \in Syncs /\ disk.tags \in Seq(TagRecords) /\ deps.tags \in Seq(TagRecords)
  BY <1>1, InvParts, SyncFacts, SourceTypes
<1>3. PICK next : next = [sync EXCEPT !.at = "read", !.tags = disk.tags]
  OBVIOUS
<1>4. /\ next \in Syncs /\ next # None /\ next.at = "read" /\ next.live = sync.live
      /\ next.tags = disk.tags
  BY <1>2, <1>3, NotNone DEF Syncs
<1>5. \/ sync' = None /\ (sync.live => ToSet(Names(disk.tags)) = ToSet(Names(deps.tags)))
      \/ sync' = next
  BY <1>3 DEF TagRead
<1>6. ToSet(Names(disk.tags)) = ToSet(Names(deps.tags)) => deps.tags = disk.tags
  <2>1. disk.tags \in TagLists /\ deps.tags \in TagLists
    BY DEF TagLists
  <2>2. /\ Ordered(disk.tags) /\ Ordered(deps.tags)
        /\ \A i \in DOMAIN disk.tags, j \in DOMAIN deps.tags :
             disk.tags[i].name = deps.tags[j].name => disk.tags[i] = deps.tags[j]
    BY <2>1, InvParts DEF TagsNamed, Ordered
  <2> QED BY <1>2, <2>2, SameNamesSameTags
<1>7. SourceTypeOK'
  BY <1>1, <1>4, <1>5, InvParts DEF SourceTypeOK
<1>8. DepsFollow'
  <2>1. TagsDue' \/ deps'.tags = disk'.tags
    BY <1>1, <1>4, <1>5, <1>6, InvParts DEF DepsFollow, TagsDue
  <2>2. /\ SettingsDue' \/ (deps'.yaml = disk'.yaml /\ deps'.q = disk'.q)
        /\ RebuildDue' \/ deps'.hidden = disk'.hidden
    BY <1>1, InvParts DEF DepsFollow, SettingsDue, RebuildDue
  <2>3. sync' # None => sync'.tags = disk'.tags
    BY <1>1, <1>4, <1>5
  <2> QED BY <2>1, <2>2, <2>3 DEF DepsFollow
<1>9. BuildsFollow'
  BY <1>1, BuildsStay
<1>10. TagsNamed'
  <2>1. sync' # None => sync'.tags = disk.tags
    BY <1>4, <1>5
  <2>2. TagLists' \subseteq TagLists
    BY <1>1, <2>1 DEF TagLists, Built
  <2>3. edits \in Nat /\ edits' = edits
    BY <1>1, InvParts, SourceTypes
  <2> QED BY <2>2, <2>3, ListsStay
<1>11. BumpDue => BumpDue'
  BY <1>1 DEF BumpDue, SettingsDue
<1>12. SourceInv'
  BY <1>7, <1>8, <1>9, <1>10 DEF SourceInv
<1>13. \A b \in Browsers : ~(request[b] # None /\ request[b].quiet)
  BY <1>1, SyncRuns
<1> QED BY <1>1, <1>11, <1>12, <1>13, SourceStep DEF pages, clients

LEMMA TagSetSound ==
  ASSUME WebInv, TagSet
  PROVE  WebInv'
<1>1. /\ sync # None /\ sync.at = "read"
      /\ deps' = IF sync.live THEN [deps EXCEPT !.tags = sync.tags] ELSE deps
      /\ UNCHANGED <<disk, events, edits, builder, tagTimer, epoch, cache, request, browser>>
  BY DEF TagSet, source, clients
<1>2. sync \in Syncs /\ sync.tags \in Seq(TagRecords) /\ sync.live \in BOOLEAN /\ deps \in PageDeps
  BY <1>1, InvParts, SyncFacts, SourceTypes
<1>3. PICK next : next = [sync EXCEPT !.at = "set", !.tags = << >>]
  OBVIOUS
<1>4. next \in Syncs /\ next # None /\ next.at = "set" /\ next.tags = << >> /\ sync' = next
  <2>1. << >> \in Seq(TagRecords)
    OBVIOUS
  <2> QED BY <1>2, <1>3, <2>1, NotNone DEF Syncs, TagSet
<1>5. /\ deps' \in PageDeps /\ deps'.yaml = deps.yaml /\ deps'.q = deps.q
      /\ deps'.hidden = deps.hidden
      /\ deps'.tags = IF sync.live THEN sync.tags ELSE deps.tags
  BY <1>1, <1>2 DEF PageDeps
<1>6. SourceTypeOK'
  BY <1>1, <1>4, <1>5, InvParts DEF SourceTypeOK
<1>7. DepsFollow'
  <2>1. TagsDue' \/ deps'.tags = disk'.tags
    BY <1>1, <1>2, <1>5, InvParts DEF DepsFollow, TagsDue
  <2>2. /\ SettingsDue' \/ (deps'.yaml = disk'.yaml /\ deps'.q = disk'.q)
        /\ RebuildDue' \/ deps'.hidden = disk'.hidden
    BY <1>1, <1>5, InvParts DEF DepsFollow, SettingsDue, RebuildDue
  <2> QED BY <1>4, <2>1, <2>2 DEF DepsFollow
<1>8. BuildsFollow'
  BY <1>1, BuildsStay
<1>9. TagsNamed'
  <2>1. TagLists' \subseteq TagLists \cup {<< >>}
    BY <1>1, <1>4, <1>5 DEF TagLists, Built
  <2>2. edits \in Nat /\ edits' = edits
    BY <1>1, InvParts, SourceTypes
  <2> QED BY <2>1, <2>2, ListsStay
<1>10. BumpDue'
  BY <1>4 DEF BumpDue
<1>11. \A b \in Browsers : ~(request[b] # None /\ request[b].quiet)
  BY <1>1, SyncRuns
<1>12. Keeps
  BY <1>1, <1>10 DEF Keeps
<1>13. ServedInv'
  BY <1>1, <1>10, <1>11, <1>12, ServedStays
<1> QED BY <1>6, <1>7, <1>8, <1>9, <1>13 DEF WebInv, SourceInv

LEMMA TagBumpSound ==
  ASSUME WebInv, TagBump
  PROVE  WebInv'
<1>1. /\ sync # None /\ sync.at = "set" /\ Bump /\ sync' = None
      /\ UNCHANGED <<disk, events, edits, builder, deps, tagTimer, request, browser>>
  BY DEF TagBump, source, clients
<1>2. SourceTypeOK'
  BY <1>1, InvParts DEF SourceTypeOK
<1>3. DepsFollow'
  BY <1>1, InvParts DEF DepsFollow, SettingsDue, RebuildDue, TagsDue
<1>4. BuildsFollow'
  BY <1>1, BuildsStay
<1>5. TagsNamed'
  <2>1. TagLists' \subseteq TagLists
    BY <1>1 DEF TagLists, Built
  <2>2. edits \in Nat /\ edits' = edits
    BY <1>1, InvParts, SourceTypes
  <2> QED BY <2>1, <2>2, ListsStay
<1>6. /\ epoch' = epoch + 1 /\ epoch \in Nat /\ epoch' \in Nat
      /\ cache' \in [Contents -> RenderedPages \cup {None}]
      /\ CacheFollows' /\ OwnPage' /\ \A b \in Browsers : BrowserFollows(b)'
  BY <1>1, BumpFacts
<1>7. ServedTypeOK'
  BY <1>1, <1>6, InvParts DEF ServedTypeOK
<1>8. ASSUME NEW b \in Browsers PROVE RequestFollows(b)'
  <2>1. PICK r : r = request[b]
    OBVIOUS
  <2> SUFFICES ASSUME r # None PROVE RequestFollows(b)'
    BY <1>1, <2>1 DEF RequestFollows
  <2>2. r \in Requests /\ ~r.quiet /\ r.epoch \in Nat /\ r.key \in Nat
    BY <1>1, <2>1, InvParts, ServedTypes, SyncRuns, RequestFields
  <2>3. /\ r.at # "keyed" => r.old = None
        /\ r.at \in {"tagged", "keyed"} => r.epoch <= epoch
        /\ r.at = "keyed" => r.epoch <= r.key /\ r.key <= epoch /\ r.reader \in {b, "guest"}
        /\ r.at # "started" => r.body \in Contents
    BY <2>1, InvParts DEF RequestFollows
  <2>4. /\ r.at \in {"tagged", "keyed"} => r.epoch <= epoch'
        /\ r.at = "keyed" => r.key <= epoch' /\ r.key < epoch'
    BY <1>6, <2>2, <2>3
  <2> QED BY <1>1, <2>1, <2>2, <2>3, <2>4 DEF RequestFollows
<1> QED BY <1>2, <1>3, <1>4, <1>5, <1>6, <1>7, <1>8 DEF WebInv, SourceInv, ServedInv

\* What concerns the search alone.
LEMMA SearchSound ==
  ASSUME WebInv, WriteFire \/ WriteRead \/ WriteUpdate \/ SearchWalk \/ SearchBuilt \/ UNCHANGED vars
  PROVE  WebInv'
<1>1. /\ UNCHANGED <<disk, events, edits, builder, deps, tagTimer, sync>>
      /\ UNCHANGED <<epoch, cache, request, browser>>
  BY DEF WriteFire, WriteRead, WriteUpdate, SearchWalk, SearchBuilt, vars, source, pages,
         timers, clients
<1>2. SourceInv'
  BY <1>1, SourcesStay DEF sources
<1>3. BumpDue => BumpDue'
  BY <1>1 DEF BumpDue, SettingsDue
<1> QED BY <1>1, <1>2, <1>3, SourceStep DEF pages, clients
-----------------------------------------------------------------------------
(***************************************************************************)
(* Requests                                                                *)
(***************************************************************************)
\* What has to hold of request r of browser b; RequestFollows says it of the one
\* that is there.
Sees(r) == IF r.old = None THEN deps ELSE r.old
SoundRequest(b, r) ==
  r # None =>
    /\ r.at # "keyed" => r.old = None
    /\ r.at \in {"tagged", "keyed"} => r.epoch <= epoch
    /\ r.at = "keyed" => /\ r.epoch <= r.key /\ r.key <= epoch /\ r.reader \in {b, "guest"}
                         /\ BumpDue \/ r.key < epoch \/ SameLook(Sees(r), deps)
    /\ r.at # "started" => r.body \in Contents
    /\ r.quiet =>
         /\ events = << >> /\ builder["watcher"] = None /\ ~tagTimer /\ sync = None
         /\ disk.yaml # "broken"
         /\ Sees(r).hidden = disk.hidden /\ SameLook(Sees(r), disk)
         /\ r.at # "started" => r.body = Body(disk)

\* The same of the copy that a browser keeps.
SoundCopy(b, copy) ==
  copy # None =>
    /\ copy.page.reader \in {b, "guest"} /\ copy.epoch <= epoch
    /\ BumpDue \/ copy.epoch < epoch \/ copy.page = Rendered(copy.body, deps, copy.page.reader)

LEMMA StepFacts ==
  ASSUME NEW b \in Browsers, NEW next, Step(b, next)
  PROVE  /\ request' = [request EXCEPT ![b] = next]
         /\ UNCHANGED sources /\ UNCHANGED <<disk, events, edits, builder, deps, tagTimer, sync>>
         /\ UNCHANGED epoch /\ BumpDue' = BumpDue /\ Keeps
<1>1. /\ request' = [request EXCEPT ![b] = next] /\ UNCHANGED epoch
      /\ UNCHANGED <<disk, events, edits, builder, deps, tagTimer, sync>>
  BY DEF Step, source, timers
<1>2. BumpDue' = BumpDue
  BY <1>1 DEF BumpDue, SettingsDue
<1> QED BY <1>1, <1>2 DEF sources, Keeps, SameLook

\* A step of a request keeps the invariant when its next state, the cache and
\* the copy that its browser gets are sound.
LEMMA RequestStep ==
  ASSUME WebInv, NEW b \in Browsers, NEW next \in Requests \cup {None}, Step(b, next),
         SoundRequest(b, next),
         cache' \in [Contents -> RenderedPages \cup {None}], CacheFollows',
         browser' = browser \/ \E copy \in Copies \cup {None} :
           browser' = [browser EXCEPT ![b] = copy] /\ SoundCopy(b, copy)
  PROVE  WebInv'
<1>1. /\ request' = [request EXCEPT ![b] = next]
      /\ UNCHANGED sources /\ UNCHANGED <<disk, events, edits, builder, deps, tagTimer, sync>>
      /\ UNCHANGED epoch /\ BumpDue' = BumpDue /\ Keeps
  BY StepFacts
<1>2. /\ request \in [Browsers -> Requests \cup {None}] /\ epoch \in Nat
      /\ browser \in [Browsers -> Copies \cup {None}]
  BY InvParts, ServedTypes
<1>3. request'[b] = next /\ \A c \in Browsers \ {b} : request'[c] = request[c]
  BY <1>1, <1>2
<1>4. RequestFollows(b)'
  <2>1. Held(b)' = Sees(next)
    BY <1>1, <1>3 DEF Held, Sees
  <2>2. Body(disk)' = Body(disk)
    BY <1>1 DEF Body, AtTag
  <2>3. /\ SameLook(Held(b), deps)' = SameLook(Sees(next), deps)
        /\ SameLook(Held(b), disk)' = SameLook(Sees(next), disk)
        /\ Held(b)'.hidden = Sees(next).hidden
    BY <1>1, <2>1 DEF SameLook
  <2> QED BY <1>1, <1>3, <2>2, <2>3 DEF RequestFollows, SoundRequest
<1>5. ASSUME NEW c \in Browsers, c # b PROVE RequestFollows(c)'
  BY <1>1, <1>3, <1>5, RequestStays
<1>6. PICK copy \in Copies \cup {None} :
        /\ browser' = [browser EXCEPT ![b] = copy] /\ SoundCopy(b, copy)
  <2>1. CASE browser' = browser
    <3>1. browser[b] \in Copies \cup {None} /\ browser = [browser EXCEPT ![b] = browser[b]]
      BY <1>2
    <3>2. SoundCopy(b, browser[b])
      BY InvParts DEF SoundCopy, BrowserFollows, OwnPage
    <3> QED BY <2>1, <3>1, <3>2
  <2> QED BY <2>1
<1>7. browser'[b] = copy /\ \A c \in Browsers \ {b} : browser'[c] = browser[c]
  BY <1>2, <1>6
<1>8. /\ browser' \in [Browsers -> Copies \cup {None}]
      /\ request' \in [Browsers -> Requests \cup {None}]
  BY <1>1, <1>2, <1>6
<1>9. OwnPage'
  BY <1>6, <1>7, InvParts DEF OwnPage, SoundCopy
<1>10. ASSUME NEW c \in Browsers PROVE BrowserFollows(c)'
  <2>1. PICK kept : kept = browser'[c]
    OBVIOUS
  <2>2. SoundCopy(c, kept)
    <3>1. CASE c = b
      BY <1>6, <1>7, <2>1, <3>1
    <3>2. CASE c # b
      BY <1>7, <2>1, <3>2, InvParts DEF SoundCopy, BrowserFollows, OwnPage
    <3> QED BY <3>1, <3>2
  <2>3. /\ Rendered(kept.body, deps, kept.page.reader)'
             = Rendered(browser'[c].body, deps, browser'[c].page.reader)
        /\ epoch' = epoch
    BY <1>1, <2>1 DEF Rendered
  <2> QED BY <1>1, <2>1, <2>2 DEF BrowserFollows, SoundCopy, Rendered
<1>11. SourceInv'
  BY <1>1, SourcesStay
<1>12. ServedTypeOK'
  BY <1>1, <1>2, <1>8 DEF ServedTypeOK
<1> QED BY <1>4, <1>5, <1>9, <1>10, <1>11, <1>12 DEF WebInv, ServedInv

LEMMA CacheStays ==
  ASSUME WebInv, NEW b \in Browsers, NEW next, Step(b, next), UNCHANGED cache
  PROVE  cache' \in [Contents -> RenderedPages \cup {None}] /\ CacheFollows'
<1>1. cache \in [Contents -> RenderedPages \cup {None}] /\ CacheFollows
  BY InvParts, ServedTypes
<1>2. BumpDue' = BumpDue /\ UNCHANGED deps
  BY StepFacts
<1> QED BY <1>1, <1>2 DEF CacheFollows, Rendered

LEMMA StartSound ==
  ASSUME WebInv, NEW b \in Browsers, Start(b)
  PROVE  WebInv'
<1>1. PICK quiet \in BOOLEAN : quiet = (AtRest /\ disk.yaml # "broken")
  BY DEF AtRest
<1>2. PICK next : next = [at |-> "started", old |-> None, quiet |-> quiet,
                          body |-> None, epoch |-> 0, key |-> 0, reader |-> "guest"]
  OBVIOUS
<1>3. /\ next \in Requests /\ next.at = "started" /\ next.old = None /\ next.quiet = quiet
  BY <1>2 DEF Requests
<1>4. Step(b, next) /\ UNCHANGED <<cache, browser>>
  BY <1>1, <1>2 DEF Start
<1>5. SoundRequest(b, next)
  <2> SUFFICES ASSUME quiet
               PROVE  /\ events = << >> /\ builder["watcher"] = None /\ ~tagTimer /\ sync = None
                      /\ disk.yaml # "broken"
                      /\ deps.hidden = disk.hidden /\ SameLook(deps, disk)
    BY <1>3 DEF SoundRequest, Sees
  <2>1. AtRest /\ disk.yaml # "broken"
    BY <1>1
  <2>2. events = << >> /\ builder["watcher"] = None /\ ~tagTimer /\ sync = None
    BY <2>1 DEF AtRest, Builders
  <2>3. Range(events) = {}
    BY <2>2, InvParts, SourceTypes, RangeEmpty
  <2>4. ~SettingsDue /\ ~RebuildDue /\ ~TagsDue
    BY <2>1, <2>2, <2>3 DEF SettingsDue, RebuildDue, TagsDue
  <2>5. DepsFollow
    BY InvParts
  <2> QED BY <2>1, <2>2, <2>4, <2>5 DEF DepsFollow, SameLook
<1>6. cache' \in [Contents -> RenderedPages \cup {None}] /\ CacheFollows'
  BY <1>4, CacheStays
<1> QED BY <1>3, <1>4, <1>5, <1>6, RequestStep

LEMMA ReadSound ==
  ASSUME WebInv, NEW b \in Browsers, Read(b)
  PROVE  WebInv'
<1>1. PICK r \in Requests : r = request[b] /\ r.at = "started"
  BY InvParts, ServedTypes DEF Read
<1>2. PICK body : body = Body(Held(b))
  OBVIOUS
<1>3. r # None /\ Held(b) \in PageDeps /\ SourceTypeOK
  BY <1>1, NotNone, HeldType, InvParts
<1>4. body \in Contents \cup {None}
  BY <1>2, <1>3, BodyType
<1>5. CASE body = None
  <2>1. Step(b, None) /\ UNCHANGED cache /\ browser' = [browser EXCEPT ![b] = None]
    BY <1>2, <1>5 DEF Read
  <2>2. SoundRequest(b, None) /\ SoundCopy(b, None)
    BY DEF SoundRequest, SoundCopy
  <2> QED BY <2>1, <2>2, CacheStays, RequestStep
<1>6. CASE body # None
  <2>1. PICK next : next = [r EXCEPT !.at = "read", !.body = body]
    OBVIOUS
  <2>2. Step(b, next) /\ UNCHANGED cache /\ UNCHANGED browser
    BY <1>1, <1>2, <1>6, <2>1 DEF Read
  <2>3. /\ next \in Requests /\ next.at = "read" /\ next.body = body /\ next.old = r.old
        /\ next.quiet = r.quiet
    BY <1>1, <1>4, <2>1 DEF Requests
  <2>4. r.old = None /\ Held(b) = Sees(next)
    BY <1>1, <1>3, <2>3, InvParts DEF RequestFollows, Held, Sees
  <2>5. r.quiet =>
          /\ events = << >> /\ builder["watcher"] = None /\ ~tagTimer /\ sync = None
          /\ disk.yaml # "broken" /\ Held(b).hidden = disk.hidden /\ SameLook(Held(b), disk)
    BY <1>1, <1>3, QuietFacts
  <2>6. r.quiet => body = Body(disk)
    BY <1>2, <2>5, SameBody
  <2>7. SoundRequest(b, next)
    BY <1>4, <1>6, <2>3, <2>4, <2>5, <2>6 DEF SoundRequest
  <2> QED BY <2>2, <2>3, <2>7, CacheStays, RequestStep
<1> QED BY <1>5, <1>6

LEMMA RevalidateSound ==
  ASSUME WebInv, NEW b \in Browsers, Revalidate(b)
  PROVE  WebInv'
<1>1. PICK r \in Requests : r = request[b] /\ r.at = "read"
  BY InvParts, ServedTypes DEF Revalidate
<1>2. r # None /\ epoch \in Nat
  BY <1>1, NotNone, InvParts, ServedTypes
<1>3. UNCHANGED cache /\ UNCHANGED browser
  BY DEF Revalidate
<1>4. CASE Step(b, None)
  <2>1. SoundRequest(b, None)
    BY DEF SoundRequest
  <2> QED BY <1>3, <1>4, <2>1, CacheStays, RequestStep
<1>5. CASE ~Step(b, None)
  <2>1. PICK next : next = [r EXCEPT !.at = "tagged", !.epoch = epoch]
    OBVIOUS
  <2>2. Step(b, next)
    BY <1>1, <1>5, <2>1 DEF Revalidate
  <2>3. /\ next \in Requests /\ next.at = "tagged" /\ next.epoch = epoch /\ next.old = r.old
        /\ next.quiet = r.quiet /\ next.body = r.body
    BY <1>1, <1>2, <2>1 DEF Requests
  <2>4. r.old = None /\ Held(b) = Sees(next) /\ r.body \in Contents
    BY <1>1, <1>2, <2>3, InvParts DEF RequestFollows, Held, Sees
  <2>5. r.quiet =>
          /\ events = << >> /\ builder["watcher"] = None /\ ~tagTimer /\ sync = None
          /\ disk.yaml # "broken" /\ Held(b).hidden = disk.hidden /\ SameLook(Held(b), disk)
          /\ r.body = Body(disk)
    BY <1>1, <1>2, QuietFacts
  <2>6. SoundRequest(b, next)
    BY <1>2, <2>3, <2>4, <2>5 DEF SoundRequest
  <2> QED BY <1>3, <2>2, <2>3, <2>6, CacheStays, RequestStep
<1> QED BY <1>4, <1>5

LEMMA CopyType ==
  ASSUME NEW e \in Nat, NEW body \in Contents, NEW page \in RenderedPages,
         NEW copy, copy = [epoch |-> e, body |-> body, page |-> page]
  PROVE  copy \in Copies /\ copy.epoch = e /\ copy.body = body /\ copy.page = page
BY DEF Copies

LEMMA LookupSound ==
  ASSUME WebInv, NEW b \in Browsers, Lookup(b)
  PROVE  WebInv'
<1>1. PICK r \in Requests : r = request[b] /\ r.at = "tagged"
  BY InvParts, ServedTypes DEF Lookup
<1>2. r # None /\ epoch \in Nat /\ cache \in [Contents -> RenderedPages \cup {None}]
  BY <1>1, NotNone, InvParts, ServedTypes
<1>3. /\ r.old = None /\ r.body \in Contents /\ r.epoch <= epoch /\ r.epoch \in Nat
  BY <1>1, <1>2, InvParts, RequestFields DEF RequestFollows
<1>4. UNCHANGED cache
  BY DEF Lookup
<1>5. CASE ~LoggedIn(b) /\ cache[r.body] # None
  <2>1. PICK page \in RenderedPages : page = cache[r.body]
    BY <1>2, <1>3, <1>5
  <2>2. PICK copy : copy = [epoch |-> r.epoch, body |-> r.body, page |-> page]
    OBVIOUS
  <2>3. copy \in Copies /\ copy.epoch = r.epoch /\ copy.body = r.body /\ copy.page = page
    BY <1>3, <2>2, CopyType
  <2>4. Step(b, None) /\ browser' = [browser EXCEPT ![b] = copy]
    BY <1>1, <1>5, <2>1, <2>2 DEF Lookup, Answer
  <2>5. page.reader = "guest" /\ (BumpDue \/ page = Rendered(r.body, deps, "guest"))
    BY <1>3, <1>5, <2>1, InvParts DEF CacheFollows
  <2>6. SoundCopy(b, copy) /\ SoundRequest(b, None)
    BY <1>3, <2>3, <2>5 DEF SoundCopy, SoundRequest
  <2> QED BY <1>4, <2>3, <2>4, <2>6, CacheStays, RequestStep
<1>6. CASE ~(~LoggedIn(b) /\ cache[r.body] # None)
  <2>1. PICK reader \in {b, "guest"} : reader = IF LoggedIn(b) THEN b ELSE "guest"
    OBVIOUS
  <2>2. PICK next : next = [r EXCEPT !.at = "keyed", !.key = epoch, !.reader = reader]
    OBVIOUS
  <2>3. Step(b, next) /\ UNCHANGED browser
    BY <1>1, <1>6, <2>1, <2>2 DEF Lookup
  <2>4. /\ next \in Requests /\ next.at = "keyed" /\ next.epoch = r.epoch /\ next.old = r.old
        /\ next.quiet = r.quiet /\ next.body = r.body /\ next.key = epoch /\ next.reader = reader
    BY <1>1, <1>2, <2>1, <2>2 DEF Requests
  <2>5. Held(b) = Sees(next) /\ Sees(next) = deps
    BY <1>1, <1>3, <2>4 DEF Held, Sees
  <2>6. r.quiet =>
          /\ events = << >> /\ builder["watcher"] = None /\ ~tagTimer /\ sync = None
          /\ disk.yaml # "broken" /\ Held(b).hidden = disk.hidden /\ SameLook(Held(b), disk)
          /\ r.body = Body(disk)
    BY <1>1, <1>2, QuietFacts
  <2>7. SoundRequest(b, next)
    <3>1. SameLook(Sees(next), deps) /\ epoch <= epoch
      BY <1>2, <2>5 DEF SameLook
    <3> QED BY <1>3, <2>1, <2>4, <2>5, <2>6, <3>1 DEF SoundRequest
  <2> QED BY <1>4, <2>3, <2>4, <2>7, CacheStays, RequestStep
<1> QED BY <1>5, <1>6

LEMMA RenderSound ==
  ASSUME WebInv, NEW b \in Browsers, Render(b)
  PROVE  WebInv'
<1>1. PICK r \in Requests : r = request[b] /\ r.at = "keyed"
  BY InvParts, ServedTypes DEF Render
<1>2. r # None /\ epoch \in Nat /\ cache \in [Contents -> RenderedPages \cup {None}]
  BY <1>1, NotNone, InvParts, ServedTypes
<1>3. /\ r.body \in Contents /\ r.epoch <= r.key /\ r.key <= epoch /\ r.reader \in {b, "guest"}
      /\ r.epoch \in Nat /\ r.key \in Nat
      /\ BumpDue \/ r.key < epoch \/ SameLook(Held(b), deps)
  BY <1>1, <1>2, InvParts, RequestFields DEF RequestFollows
<1>4. PICK held \in PageDeps : held = Held(b)
  BY <1>1, <1>2, HeldType
<1>5. PICK page \in RenderedPages : page = Rendered(r.body, held, r.reader) /\ page.reader = r.reader
  BY <1>3, <1>4, RenderedType
<1>6. PICK copy : copy = [epoch |-> r.epoch, body |-> r.body, page |-> page]
  OBVIOUS
<1>7. copy \in Copies /\ copy.epoch = r.epoch /\ copy.body = r.body /\ copy.page = page
  BY <1>3, <1>6, CopyType
<1>8. /\ Step(b, None) /\ browser' = [browser EXCEPT ![b] = copy]
      /\ cache' = IF Storable(b) THEN [cache EXCEPT ![r.body] = page] ELSE cache
  BY <1>1, <1>4, <1>5, <1>6 DEF Render, Answer
<1>9. BumpDue \/ r.key < epoch \/ page = Rendered(r.body, deps, r.reader)
  BY <1>3, <1>4, <1>5, SameRendered
<1>10. SoundCopy(b, copy) /\ SoundRequest(b, None)
  <2>1. r.epoch <= epoch /\ (r.key < epoch => r.epoch < epoch)
    BY <1>2, <1>3
  <2> QED BY <1>3, <1>5, <1>7, <1>9, <2>1 DEF SoundCopy, SoundRequest
<1>11. cache' \in [Contents -> RenderedPages \cup {None}] /\ CacheFollows'
  <2>1. CASE ~Storable(b)
    BY <1>8, <2>1, CacheStays
  <2>2. CASE Storable(b)
    <3>1. r.reader = "guest" /\ r.key = epoch
      BY <1>1, <2>2 DEF Storable
    <3>2. BumpDue \/ page = Rendered(r.body, deps, "guest")
      BY <1>2, <1>9, <3>1
    <3>3. /\ cache'[r.body] = page /\ \A c \in Contents \ {r.body} : cache'[c] = cache[c]
          /\ cache' \in [Contents -> RenderedPages \cup {None}]
      BY <1>2, <1>3, <1>8, <2>2
    <3>4. BumpDue' = BumpDue /\ UNCHANGED deps
      BY <1>8, StepFacts
    <3>5. CacheFollows
      BY InvParts
    <3>6. ASSUME NEW c \in Contents, cache'[c] # None
          PROVE  cache'[c].reader = "guest" /\ (BumpDue \/ cache'[c] = Rendered(c, deps, "guest"))
      BY <1>5, <3>1, <3>2, <3>3, <3>5, <3>6 DEF CacheFollows
    <3> QED BY <3>3, <3>4, <3>6 DEF CacheFollows, Rendered
  <2> QED BY <2>1, <2>2
<1> QED BY <1>7, <1>8, <1>10, <1>11, RequestStep
-----------------------------------------------------------------------------
(***************************************************************************)
(* The theorems                                                            *)
(***************************************************************************)
LEMMA NextSound ==
  ASSUME WebInv, NoRisk, [Next]_vars
  PROVE  WebInv'
<1>1. CASE Change
  BY <1>1, ChangeSound
<1>2. CASE ReloadConfig
  BY <1>2, ReloadConfigSound
<1>3. CASE Dispatch
  BY <1>3, DispatchSound
<1>4. CASE Rebuild
  <2>1. PICK w \in Builders : Build(w) \/ Install(w)
    BY <1>4 DEF Rebuild
  <2> QED BY <2>1, BuildSound, InstallSound
<1>5. CASE TagFire \/ TagRead \/ TagSet \/ TagBump
  BY <1>5, TagFireSound, TagReadSound, TagSetSound, TagBumpSound
<1>6. CASE WriteFire \/ WriteRead \/ WriteUpdate \/ SearchWalk \/ SearchBuilt \/ UNCHANGED vars
  BY <1>6, SearchSound
<1>7. ASSUME NEW b \in Browsers, Start(b) \/ Serve(b)
      PROVE  WebInv'
  BY <1>7, StartSound, ReadSound, RevalidateSound, LookupSound, RenderSound DEF Serve
<1> QED BY <1>1, <1>2, <1>3, <1>4, <1>5, <1>6, <1>7 DEF Next, Timers

\* For every number of browsers, edits and requests, and whatever p may hold: what
\* the gateway has not caught up with is always still due, what the cache and the
\* browsers keep under the epoch of now is what the PageDeps of now make of it,
\* and what a quiet request has seen is the vault (buildVaultDeps, runTagSync,
\* onVaultControlPlane, PageHandler).
THEOREM WebInvariant ==
  ASSUME NoRisk
  PROVE  Spec => []WebInv
<1>1. Init => WebInv
  BY InitHolds
<1>2. WebInv /\ [Next]_vars => WebInv'
  BY NextSound
<1> QED BY <1>1, <1>2, PTL DEF Spec

\* A page rendered for a member is never in another browser, for every set of
\* browsers (handler_page.go:377-383).
THEOREM OwnPageAlways ==
  ASSUME NoRisk
  PROVE  Spec => []OwnPage
<1>1. WebInv => OwnPage
  BY DEF WebInv, ServedInv
<1> QED BY <1>1, WebInvariant, PTL

\* What AnswersCurrent asks of the answer to the request of browser b.
Current(b) ==
  IF Body(disk) = None THEN browser'[b] = None
  ELSE /\ browser'[b] # None
       /\ browser'[b].page = Rendered(Body(disk), disk, browser'[b].page.reader)

\* What a quiet request has before it.
LEMMA QuietAnswer ==
  ASSUME WebInv, NEW b \in Browsers, request[b] # None, request[b].quiet
  PROVE  /\ ~BumpDue /\ SameLook(Held(b), disk) /\ Held(b).hidden = disk.hidden
         /\ SameLook(deps, disk)
         /\ request[b].at # "started" =>
              request[b].body = Body(disk) /\ Body(disk) # None
<1>1. /\ events = << >> /\ builder["watcher"] = None /\ ~tagTimer /\ sync = None
      /\ disk.yaml # "broken"
      /\ Held(b).hidden = disk.hidden /\ SameLook(Held(b), disk)
      /\ request[b].at # "started" => request[b].body = Body(disk)
  BY QuietFacts
<1>2. Range(events) = {}
  BY <1>1, InvParts, SourceTypes, RangeEmpty
<1>3. ~SettingsDue /\ ~TagsDue /\ ~BumpDue
  BY <1>1, <1>2 DEF SettingsDue, TagsDue, BumpDue
<1>4. SameLook(deps, disk)
  BY <1>3, InvParts DEF DepsFollow, SameLook
<1>5. request[b].at # "started" => request[b].body \in Contents
  BY InvParts DEF RequestFollows
<1> QED BY <1>1, <1>3, <1>4, <1>5, NotNone

LEMMA NoNewRequest ==
  ASSUME WebInv, NEW b \in Browsers, NEW next \in Requests, Step(b, next)
  PROVE  request'[b] # None
<1>1. request'[b] = next
  BY InvParts, ServedTypes DEF Step
<1> QED BY <1>1, NotNone

LEMMA AnsweredWith ==
  ASSUME WebInv, NEW b \in Browsers, request[b] # None, NEW page \in RenderedPages,
         request[b].at # "started", Answer(b, page)
  PROVE  browser'[b] # None /\ browser'[b].page = page
<1>1. PICK r \in Requests : r = request[b] /\ r # None
  BY InvParts, ServedTypes
<1>2. r.body \in Contents /\ r.epoch \in Nat
  BY <1>1, InvParts, RequestFields DEF RequestFollows
<1>3. PICK copy : copy = [epoch |-> r.epoch, body |-> r.body, page |-> page]
  OBVIOUS
<1>4. copy \in Copies /\ copy.page = page
  BY <1>2, <1>3, CopyType
<1>5. browser'[b] = copy
  BY <1>1, <1>3, InvParts, ServedTypes DEF Answer
<1> QED BY <1>4, <1>5, NotNone

LEMMA ServesCurrent ==
  ASSUME WebInv, NEW b \in Browsers, Serve(b), request[b] # None, request'[b] = None,
         request[b].quiet
  PROVE  Current(b)
<1>1. PICK r \in Requests : r = request[b] /\ r # None
  BY InvParts, ServedTypes
<1>2. /\ ~BumpDue /\ SameLook(Held(b), disk) /\ Held(b).hidden = disk.hidden
      /\ SameLook(deps, disk)
      /\ r.at # "started" => r.body = Body(disk) /\ Body(disk) # None
  BY <1>1, QuietAnswer
<1>3. /\ browser \in [Browsers -> Copies \cup {None}] /\ epoch \in Nat
      /\ cache \in [Contents -> RenderedPages \cup {None}]
  BY InvParts, ServedTypes
<1>4. r.at # "started" => r.body \in Contents
  BY <1>1, InvParts DEF RequestFollows
<1>5. ASSUME Read(b) PROVE Current(b)
  <2>1. PICK body : body = Body(Held(b))
    OBVIOUS
  <2>2. body = Body(disk)
    BY <1>2, <2>1, SameBody
  <2>3. body \in Contents \cup {None}
    BY <1>1, <2>1, HeldType, BodyType, InvParts
  <2>4. CASE body = None
    BY <1>3, <1>5, <2>1, <2>2, <2>4 DEF Read, Current
  <2>5. CASE body # None
    <3>1. PICK next : next = [r EXCEPT !.at = "read", !.body = body]
      OBVIOUS
    <3>2. next \in Requests
      BY <2>3, <3>1 DEF Requests
    <3>3. Step(b, next)
      BY <1>1, <1>5, <2>1, <2>5, <3>1 DEF Read
    <3> QED BY <3>2, <3>3, NoNewRequest
  <2> QED BY <2>4, <2>5
<1>6. ASSUME Revalidate(b) PROVE Current(b)
  <2>1. r.at = "read"
    BY <1>1, <1>6 DEF Revalidate
  <2>2. ASSUME NEW next \in Requests PROVE ~Step(b, next)
    BY NoNewRequest
  <2>3. PICK next : next = [r EXCEPT !.at = "tagged", !.epoch = epoch]
    OBVIOUS
  <2>4. next \in Requests
    BY <1>3, <2>3 DEF Requests
  <2>5. /\ browser[b] # None /\ browser[b].epoch = epoch /\ browser[b].body = r.body
        /\ browser'[b] = browser[b]
    BY <1>1, <1>6, <2>2, <2>3, <2>4 DEF Revalidate
  <2>6. browser[b].page = Rendered(r.body, deps, browser[b].page.reader)
    BY <1>2, <1>3, <2>5, InvParts DEF BrowserFollows
  <2>7. \A reader : Rendered(r.body, deps, reader) = Rendered(r.body, disk, reader)
    BY <1>2, SameRendered
  <2> QED BY <1>2, <2>1, <2>5, <2>6, <2>7 DEF Current
<1>7. ASSUME Lookup(b) PROVE Current(b)
  <2>1. r.at = "tagged"
    BY <1>1, <1>7 DEF Lookup
  <2>2. ASSUME NEW next \in Requests PROVE ~Step(b, next)
    BY NoNewRequest
  <2>3. PICK reader \in Browsers \cup {"guest"} : reader = IF LoggedIn(b) THEN b ELSE "guest"
    OBVIOUS
  <2>4. PICK next : next = [r EXCEPT !.at = "keyed", !.key = epoch, !.reader = reader]
    OBVIOUS
  <2>5. next \in Requests
    BY <1>3, <2>4 DEF Requests
  <2>6. cache[r.body] # None /\ Answer(b, cache[r.body])
    BY <1>1, <1>7, <2>2, <2>3, <2>4, <2>5 DEF Lookup
  <2>7. PICK page \in RenderedPages : page = cache[r.body]
    BY <1>3, <1>4, <2>1, <2>6
  <2>8. browser'[b] # None /\ browser'[b].page = page
    BY <1>1, <2>1, <2>6, <2>7, AnsweredWith
  <2>9. page.reader = "guest" /\ page = Rendered(r.body, deps, "guest")
    BY <1>2, <1>4, <2>1, <2>6, <2>7, InvParts DEF CacheFollows
  <2>10. page = Rendered(r.body, disk, "guest")
    BY <1>2, <2>9, SameRendered
  <2> QED BY <1>2, <2>1, <2>8, <2>9, <2>10 DEF Current
<1>8. ASSUME Render(b) PROVE Current(b)
  <2>1. r.at = "keyed" /\ r.reader \in Browsers \cup {"guest"}
    BY <1>1, <1>8, RequestFields DEF Render
  <2>2. PICK held \in PageDeps : held = Held(b)
    BY <1>1, HeldType
  <2>3. PICK page \in RenderedPages :
          page = Rendered(r.body, held, r.reader) /\ page.reader = r.reader
    BY <1>4, <2>1, <2>2, RenderedType
  <2>4. Answer(b, page)
    BY <1>1, <1>8, <2>2, <2>3 DEF Render
  <2>5. browser'[b] # None /\ browser'[b].page = page
    BY <1>1, <2>1, <2>4, AnsweredWith
  <2>6. page = Rendered(r.body, disk, r.reader)
    BY <1>2, <2>2, <2>3, SameRendered
  <2> QED BY <1>2, <2>1, <2>3, <2>5, <2>6 DEF Current
<1> QED BY <1>5, <1>6, <1>7, <1>8 DEF Serve

\* Only the handler of a request answers it.
LEMMA OnlyServed ==
  ASSUME WebInv, [Next]_vars, NEW b \in Browsers, request[b] # None, request'[b] = None
  PROVE  Serve(b)
<1>1. request \in [Browsers -> Requests \cup {None}] /\ request[b] \in Requests
  BY InvParts, ServedTypes
<1>2. ASSUME NEW c \in Browsers, c # b, NEW next, Step(c, next) PROVE FALSE
  BY <1>1, <1>2 DEF Step
<1>3. ASSUME NEW c \in Browsers, Start(c) \/ Serve(c), c # b PROVE FALSE
  BY <1>2, <1>3 DEF Start, Serve, Read, Revalidate, Lookup, Render, Answer
<1>4. ~Start(b)
  BY DEF Start
<1>5. ~UNCHANGED request
  OBVIOUS
<1>6. ~(ReloadConfig \/ Dispatch \/ Timers \/ SearchWalk \/ SearchBuilt \/ UNCHANGED vars)
  BY <1>5 DEF ReloadConfig, Dispatch, Timers, TagFire, TagRead, TagSet, TagBump, WriteFire,
              WriteRead, WriteUpdate, SearchWalk, SearchBuilt, vars, clients
<1>7. ~Change
  <2> SUFFICES ASSUME NEW kind, Edit(kind) PROVE FALSE
    BY DEF Change, WriteInPlace, Replace, Link, EditYaml, EditIgnore, Tag, Untag, EditAccess
  <2>1. request'[b] = [request[b] EXCEPT !.quiet = FALSE]
    BY DEF Edit
  <2>2. request'[b] \in Requests
    BY <1>1, <2>1 DEF Requests
  <2> QED BY <2>2, NotNone
<1>8. ~Rebuild
  <2> SUFFICES ASSUME NEW w \in Builders, Build(w) \/ Install(w) PROVE FALSE
    BY DEF Rebuild
  <2>1. ~Build(w)
    BY <1>5 DEF Build, clients
  <2>2. PICK held \in PageDeps : held = Held(b)
    BY HeldType
  <2>3. request'[b] = [request[b] EXCEPT !.old = held]
    BY <2>1, <2>2 DEF Install
  <2>4. request'[b] \in Requests
    BY <1>1, <2>2, <2>3 DEF Requests
  <2> QED BY <2>4, NotNone
<1> QED BY <1>3, <1>4, <1>6, <1>7, <1>8 DEF Next

\* A request that begins at rest, and during which the vault does not change, is
\* answered with the vault as it is: by a 304, from the cache or by a rendering,
\* whatever has been edited, rebuilt, tagged and cached before (etag.go:18-20).
THEOREM AnswersCurrentAlways ==
  ASSUME NoRisk
  PROVE  Spec => AnswersCurrent
<1>1. WebInv /\ [Next]_vars =>
        [\A b \in Browsers :
           request[b] # None /\ request'[b] = None /\ request[b].quiet =>
             IF Body(disk) = None THEN browser'[b] = None
             ELSE /\ browser'[b] # None
                  /\ browser'[b].page = Rendered(Body(disk), disk, browser'[b].page.reader)]_vars
  BY OnlyServed, ServesCurrent DEF Current
<1> QED BY <1>1, WebInvariant, PTL DEF Spec, AnswersCurrent
=============================================================================
