------------------------------ MODULE WebPanel ------------------------------
(***************************************************************************)
(* Keys in the browser: signing in and out at the web gateway, the gateway's *)
(* copy of the access files, and the panel, which relays what an admin does *)
(* to the server with the admin's own key.  The tabs of one browser share a *)
(* cookie; peers edit the same config files over the sync protocol.        *)
(***************************************************************************)
EXTENDS Integers, FiniteSets

CONSTANTS
  Mounts,       \* the mounted vaults, numbered in the order of their prefixes
  Flagged,      \* the one whose admins are server-wide admins
  Keys,       \* the keys; all of them have vault.admin
  Tabs,
  MaxBindings,  \* MaxBindingsPerCookie
  MaxContent,   \* bound: versions of the config files
  MaxGrants,    \* bound: keys granted or revoked
  MaxPosts,     \* bound: forms sent and panels opened
  MaxStarts,    \* bound: starts of the gateway and reloads of its config
  Slips         \* the known defects that are let loose

ASSUME SlipsAssumption == Slips \subseteq {"watch", "sighup", "tabs", "form", "list"}

VARIABLES
  keys,      \* per vault, the keys in its access file
  gateway,   \* "opened" (the stores are, the watches are not) or "serving"
  mounted,   \* the vaults of the gateway's config
  known,     \* Stores: per vault, the keys the gateway knows
  changed,   \* events of access files the watcher has to handle
  cookie,    \* per vault, the key the browser is signed in with
  latest,    \* history: the vaults of the latest sign-in that still count
  tab,       \* per tab, the form shown or the request under way
  configs,   \* per vault, a config file: on disk, in HEAD, and staged (or 0)
  blind,     \* history: something was changed that the form did not show
  tally      \* bounds

onServer == <<keys, configs>>
stores == <<gateway, mounted, known, changed>>
cookies == <<cookie, latest>>
panelVars == <<onServer, stores, cookies, tab, blind, tally>>

Unbound == "unbound"
NoCookie == [m \in Mounts |-> Unbound]
NoForm == [at |-> "blank"]

PanelInit ==
  /\ keys \in [Mounts -> SUBSET Keys \ {{}}]
  /\ gateway = "opened" /\ mounted = Mounts /\ known = keys /\ changed = {}
  /\ cookie = NoCookie /\ latest = NoCookie
  /\ tab = [t \in Tabs |-> NoForm]
  /\ configs = [m \in Mounts |-> [disk |-> m, head |-> m, staged |-> 0]]
  /\ blind = FALSE
  /\ tally = [content |-> Cardinality(Mounts), grants |-> 0, posts |-> 0, starts |-> 0]
-----------------------------------------------------------------------------
(***************************************************************************)
(* The stores                                                              *)
(***************************************************************************)

\* An access file is written; the gateway's watcher sees it, if it looks.
Rekeyed(m, ks) ==
  /\ tally.grants < MaxGrants /\ ks # {} /\ ks # keys[m]
  /\ gateway = "serving" \/ "watch" \in Slips
  /\ keys' = [keys EXCEPT ![m] = ks]
  /\ changed' = IF gateway = "serving" THEN changed \cup ({m} \cap mounted) ELSE changed
  /\ UNCHANGED <<gateway, mounted, known, cookies, configs>>

Rekey(m) ==
  /\ \E k \in Keys : Rekeyed(m, keys[m] \cup {k}) \/ Rekeyed(m, keys[m] \ {k})
  /\ tally' = [tally EXCEPT !.grants = @ + 1]
  /\ UNCHANGED <<tab, blind>>

Reload(m) ==
  /\ m \in changed
  /\ known' = [known EXCEPT ![m] = keys[m]]
  /\ changed' = changed \ {m}
  /\ UNCHANGED <<onServer, gateway, mounted, cookies, tab, blind, tally>>

NewStores ==
  /\ gateway = "serving" /\ tally.starts < MaxStarts
  /\ gateway' = "opened" /\ mounted' = Mounts /\ known' = keys /\ changed' = {}
  /\ tab' = [t \in Tabs |-> NoForm]
  /\ tally' = [tally EXCEPT !.starts = @ + 1]
  /\ UNCHANGED <<onServer, cookies, blind>>

WatchVaults ==
  /\ gateway = "opened"
  /\ gateway' = "serving"
  /\ UNCHANGED <<onServer, mounted, known, changed, cookies, tab, blind, tally>>

\* SIGHUP.  The stores stay those of the start, and a vault that is not mounted
\* is not watched: its keys may have changed when it comes back.
ReloadConfig ==
  /\ gateway = "serving" /\ tally.starts < MaxStarts
  /\ \E ms \in SUBSET Mounts \ {mounted} :
       /\ "sighup" \in Slips \/ \A m \in ms \ mounted : known[m] = keys[m]
       /\ mounted' = ms
       /\ changed' = changed \cap ms
  /\ tally' = [tally EXCEPT !.starts = @ + 1]
  /\ UNCHANGED <<onServer, gateway, known, cookies, tab, blind>>
-----------------------------------------------------------------------------
(***************************************************************************)
(* Signing in and out                                                      *)
(***************************************************************************)

\* Probe, with which a sign-in looks for the vaults of a key; ProbeBindings, with
\* which each request has every binding looked up in its own vault only.
Probe(k) == {m \in Mounts : k \in known[m]}
Opens(m, k) == m \in mounted /\ k \in known[m]

BoundIn(c) == {m \in Mounts : c[m] # Unbound}

\* Faulty: what is too many is dropped in order, the new bindings included.
MergedInOrder(c, opened, k) ==
  LET all == BoundIn(c) \cup opened IN
  [m \in Mounts |->
     IF Cardinality({o \in all : o < m}) < Cardinality(all) - MaxBindings THEN Unbound
     ELSE IF m \in opened THEN k ELSE c[m]]

\* MergeSessionBindings: the first of the old ones go when there are too many.
MergeSessionBindings(c, opened, k) ==
  LET old == BoundIn(c) \ opened
      excess == Cardinality(old \cup opened) - MaxBindings
  IN [m \in Mounts |->
        IF m \in opened THEN k
        ELSE IF Cardinality({o \in old : o < m}) < excess THEN Unbound ELSE c[m]]

RemoveBindings(c, ms) == [m \in Mounts |-> IF m \in ms THEN Unbound ELSE c[m]]

Sent(t, request) ==
  /\ gateway = "serving" /\ tally.posts < MaxPosts
  /\ tab' = [tab EXCEPT ![t] = request]
  /\ tally' = [tally EXCEPT !.posts = @ + 1]
  /\ UNCHANGED <<onServer, stores, cookies, blind>>

Signing == {t \in Tabs : tab[t].at \in {"login", "logout"}}

\* Both take the cookie of the request for what the browser has.
Login(t) ==
  /\ tab[t] = NoForm /\ (Signing = {} \/ "tabs" \in Slips)
  /\ \E k \in Keys : Sent(t, [at |-> "login", token |-> k, cookie |-> cookie])

Logout(t) ==
  /\ tab[t] = NoForm /\ (Signing = {} \/ "tabs" \in Slips)
  /\ \E ms \in {{m} : m \in BoundIn(cookie)} \cup {Mounts} :
       Sent(t, [at |-> "logout", vaults |-> ms, cookie |-> cookie])

LoginPost(t) ==
  /\ tab[t].at = "login"
  /\ LET opened == Probe(tab[t].token) IN
       \/ /\ opened # {}
          /\ cookie' = MergeSessionBindings(tab[t].cookie, opened, tab[t].token)
          /\ latest' = [m \in Mounts |-> IF m \in opened THEN tab[t].token ELSE Unbound]
       \/ UNCHANGED cookies   \* not recognised, or too many attempts
  /\ tab' = [tab EXCEPT ![t] = NoForm]
  /\ UNCHANGED <<onServer, stores, blind, tally>>

LogoutPost(t) ==
  /\ tab[t].at = "logout"
  /\ cookie' = RemoveBindings(tab[t].cookie, tab[t].vaults)
  /\ latest' = RemoveBindings(latest, tab[t].vaults)
  /\ tab' = [tab EXCEPT ![t] = NoForm]
  /\ UNCHANGED <<onServer, stores, blind, tally>>
-----------------------------------------------------------------------------
(***************************************************************************)
(* The panel                                                               *)
(***************************************************************************)
PanelAuth(p) == gateway = "serving" /\ Opens(p, cookie[p])

\* What the server allows: its own look at the key.
ServerWide(k) == k \in keys[Flagged]
MayManage(k, m) == k \in keys[m] \/ ServerWide(k)

\* resolveSelected: the vault asked for when the list of vaults has it, and the
\* mounted one when there is no list.
Selected(p, want, listed) == IF want # p /\ listed THEN want ELSE p

OpenPanel(t) ==
  \E p, want \in Mounts :
    /\ tab[t] = NoForm /\ PanelAuth(p)
    /\ LET m == Selected(p, want, ServerWide(cookie[p])) IN
         Sent(t, [at |-> "form", panel |-> p, vault |-> m, shown |-> configs[m].disk])

ClosePanel(t) ==
  /\ tab[t].at = "form"
  /\ tab' = [tab EXCEPT ![t] = NoForm]
  /\ UNCHANGED <<onServer, stores, cookies, blind, tally>>

\* The vault that a form is posted to.
PostsTo(form) ==
  IF form.vault = form.panel THEN {form.panel}
  ELSE {Selected(form.panel, form.vault, listed) :
          listed \in IF "list" \in Slips THEN BOOLEAN ELSE {TRUE}}

Posting(t) ==
  LET form == tab[t] IN
  /\ form.at = "form" /\ PanelAuth(form.panel)
  /\ form.vault = form.panel \/ ServerWide(cookie[form.panel]) \/ "list" \in Slips

\* The form does not say what it showed; what the file is now is what the save
\* takes itself to replace.
Save(t) ==
  /\ Posting(t)
  /\ \E m \in PostsTo(tab[t]) :
       /\ configs[m].disk = tab[t].shown \/ Slips \cap {"form", "list"} # {}
       /\ Sent(t, [at |-> "push", key |-> cookie[tab[t].panel], vault |-> m,
                   pre |-> configs[m].disk, form |-> tab[t].vault, shown |-> tab[t].shown])

\* Faulty: only a staged op of another client is in the way.
OverlapsOnly(t) == configs[tab[t].vault].staged # 0
StaleBase(t) ==
  LET c == configs[tab[t].vault] IN c.staged # 0 \/ tab[t].pre # c.head

\* Neither of them while the vault is being committed.
MayStage(m) == configs[m].staged = 0 \/ configs[m].disk # configs[m].staged
Staged(m) ==
  /\ tally.content < MaxContent
  /\ configs' = [configs EXCEPT ![m].staged = tally.content + 1]
  /\ tally' = [tally EXCEPT !.content = @ + 1]

\* What the user is told is not kept; an ack that is lost reads "save failed".
PushFile(t) ==
  /\ tab[t].at = "push" /\ MayStage(tab[t].vault)
  /\ IF MayManage(tab[t].key, tab[t].vault) /\ ~StaleBase(t)
     THEN /\ Staged(tab[t].vault)
          /\ blind' = (blind \/ tab[t].form # tab[t].vault
                             \/ tab[t].shown # configs[tab[t].vault].head)
     ELSE UNCHANGED <<configs, blind, tally>>
  /\ tab' = [tab EXCEPT ![t] = NoForm]
  /\ UNCHANGED <<keys, stores, cookies>>

\* A key is created or revoked at the server.
KeysPost(t) ==
  /\ Posting(t) /\ tally.posts < MaxPosts
  /\ \E m \in PostsTo(tab[t]), k \in Keys :
       /\ MayManage(cookie[tab[t].panel], m)
       /\ Rekeyed(m, keys[m] \cup {k}) \/ Rekeyed(m, keys[m] \ {k})
       /\ blind' = (blind \/ tab[t].vault # m)
  /\ tab' = [tab EXCEPT ![t] = NoForm]
  /\ tally' = [tally EXCEPT !.grants = @ + 1, !.posts = @ + 1]

\* The same file, pushed by a peer who has what HEAD has.
PeerPush(m) ==
  /\ configs[m].staged = 0
  /\ Staged(m)
  /\ UNCHANGED <<keys, stores, cookies, tab, blind>>

\* CommitOps writes the file, then moves HEAD.
Commit(m) ==
  /\ configs[m].staged # 0
  /\ LET c == configs[m] IN
       configs' = [configs EXCEPT ![m] =
         IF c.disk # c.staged THEN [c EXCEPT !.disk = c.staged]
         ELSE [c EXCEPT !.head = c.staged, !.staged = 0]]
  /\ UNCHANGED <<keys, stores, cookies, tab, blind, tally>>
-----------------------------------------------------------------------------
PanelNext ==
  \/ NewStores \/ WatchVaults \/ ReloadConfig
  \/ \E m \in Mounts : Rekey(m) \/ Reload(m) \/ PeerPush(m) \/ Commit(m)
  \/ \E t \in Tabs :
       \/ Login(t) \/ LoginPost(t) \/ Logout(t) \/ LogoutPost(t)
       \/ OpenPanel(t) \/ ClosePanel(t) \/ Save(t) \/ PushFile(t) \/ KeysPost(t)

PanelSpec == PanelInit /\ [][PanelNext]_panelVars
-----------------------------------------------------------------------------
(***************************************************************************)
(* Correctness                                                             *)
(***************************************************************************)

\* Once the watcher is through, a vault is open to the browser as long as its key
\* is in the access file, and no longer; and what the user signed in to last is
\* what the cookie has, however many bindings were dropped for it.
SessionsAreCurrent ==
  gateway = "serving" /\ changed = {} => \A m \in mounted :
    /\ Opens(m, cookie[m]) <=> cookie[m] \in keys[m]
    /\ latest[m] # Unbound => cookie[m] = latest[m]

\* What an admin does in the panel happens to the vault that the form was about,
\* and a save replaces what the form showed, though the panel, peers and commits
\* change the same files, and the server is asked with a hash read later.
PanelActsOnWhatItShows == ~blind

\* Why both hold while no defect is let loose: of a vault that is mounted and has
\* no event to handle the gateway knows the keys; one tab at a time signs in or out,
\* with the cookie that the browser has; and a save goes where its form was and
\* replaces what that showed.
PanelTypeOK ==
  /\ {keys, known} \subseteq [Mounts -> SUBSET Keys] /\ mounted \subseteq Mounts
  /\ tab = [t \in Tabs |-> tab[t]]
  /\ \A t \in Tabs : tab[t].at = "form" => {tab[t].panel, tab[t].vault} \subseteq Mounts

StoresKnow == \A m \in mounted \ changed : known[m] = keys[m]

CookieInHand ==
  /\ \A t, u \in Signing : t = u
  /\ \A t \in Signing : tab[t].cookie = cookie
  /\ \A m \in Mounts : latest[m] # Unbound => cookie[m] = latest[m]

SavesAsShown ==
  \A t \in Tabs : tab[t].at = "push" =>
    tab[t].form = tab[t].vault /\ tab[t].shown = tab[t].pre

PanelInv ==
  PanelTypeOK /\ StoresKnow /\ CookieInHand /\ SavesAsShown /\ PanelActsOnWhatItShows
=============================================================================
