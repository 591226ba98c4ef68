----------------------------- MODULE Preferences -----------------------------
(***************************************************************************)
(* The preferences of one browser tab: preferencesStore.svelte.ts,         *)
(* tagStore.svelte.ts and the settings that call them, with the routes     *)
(* that answer (userPreferencesRoutes.ts, tagRoutes.ts, TagService.ts).    *)
(*                                                                         *)
(* Everything is shown at once and confirmed later: a change is assigned,  *)
(* sent and, if the request fails, taken back field by field; an answer    *)
(* replaces every field.  Requests are served in any order, answers arrive *)
(* in any order, and any of them may be lost.  Tag colors are one map that *)
(* is always sent whole, by the user's choice and by auto-assignment.      *)
(*                                                                         *)
(* plain stands for the fields that are set and nothing else (theme,       *)
(* accent, sizes, formats, rollover, ...).  A tag is carried by some task  *)
(* or by none.  0 is no color, no filter, no zone.                         *)
(***************************************************************************)
EXTENDS Integers, FiniteSets, TLC

CONSTANTS
    Tags, Priority,   \* tags, and those with a color of their own
    Colors,           \* the palette, in order
    Stored, Backups,  \* the preferences the server starts with, and those restored
    MaxSent           \* bound: requests before the user starts nothing more

VARIABLES
    server,      \* the stored preferences
    used,        \* the tags that tasks carry
    shown,       \* the fields of the store
    provider,    \* zone and locale pushed to the date provider
    loaded, tags,
    flights,     \* requests on their way, served or not
    sent, order, applied,    \* requests sent and served, the last one applied
    crossed,     \* history: answers that overtook each other or got lost
    stuck,       \* history: fields whose failed save cannot be taken back
    mine,        \* history: tags whose color the user changed
    blind        \* history: "early" colors set before the load, "restored"

vars == <<server, used, shown, provider, loaded, tags, flights, sent, order, applied,
          crossed, stuck, mine, blind>>

Widths   == {0, 300}
Default  == [plain |-> 0, width |-> 300, lastOpen |-> 360, filters |-> 0, persist |-> TRUE,
             zone |-> 0, locale |-> 0, colors |-> [t \in Tags |-> 0]]
Fields   == DOMAIN Default
Kinds    == {"load", "save", "tags", "rename", "merge", "delete"}

TypeOK ==
    /\ DOMAIN server = Fields /\ DOMAIN shown = Fields
    /\ server.colors \in [Tags -> Colors \union {0}] /\ shown.colors \in [Tags -> Colors \union {0}]
    /\ {server.width, shown.width} \subseteq Widths \union {360}
    /\ {server.lastOpen, shown.lastOpen} \subseteq {300, 360}
    /\ used \subseteq Tags /\ tags \subseteq Tags /\ mine \subseteq Tags
    /\ \A f \in flights : f.kind \in Kinds /\ f.id <= sent /\ f.served <= order
    /\ Cardinality(flights) <= sent

----------------------------------------------------------------------------
(* Requests.  A save and a load, or two saves of one field, are rivals:    *)
(* taking one back would take back what the other brought.                 *)
Request(n, kind, arg, before) ==
    [id |-> n, kind |-> kind, arg |-> arg, before |-> before, served |-> 0, answer |-> 0,
     rival |-> FALSE]

Rivals(f, g) ==
    /\ {f.kind, g.kind} \subseteq {"load", "save"}
    /\ "load" \in {f.kind, g.kind} \/ DOMAIN f.arg \intersect DOMAIN g.arg # {}

Joined(fs, f) ==
    { [g EXCEPT !.rival = @ \/ Rivals(f, g)] : g \in fs }
        \union {[f EXCEPT !.rival = \E g \in fs : Rivals(f, g)]}

(* Slip: what to take back is noted after the change was assigned.         *)
SavedLate(st, patch) ==
    [st EXCEPT !.shown = patch @@ @, !.sent = @ + 1,
               !.flights = Joined(@, Request(st.sent + 1, "save", patch,
                                             [k \in DOMAIN patch |-> (patch @@ st.shown)[k]]))]

(* save(): note the touched fields, assign them, send them.                *)
Saved(st, patch) ==
    [st EXCEPT !.shown = patch @@ @, !.sent = @ + 1,
               !.flights = Joined(@, Request(st.sent + 1, "save", patch,
                                             [k \in DOMAIN patch |-> st.shown[k]]))]

Asked(st, kind, arg) ==
    [st EXCEPT !.sent = @ + 1, !.flights = Joined(@, Request(st.sent + 1, kind, arg, 0))]

Client == [shown |-> shown, flights |-> flights, sent |-> sent]
Becomes(st) ==
    /\ shown' = st.shown /\ flights' = st.flights /\ sent' = st.sent

----------------------------------------------------------------------------
(* Tag colors.                                                             *)
Uses(colors, c) == Cardinality({ t \in Tags : colors[t] = c })
LeastUsedTagColor(colors) ==
    CHOOSE c \in Colors : \A d \in Colors :
        Uses(colors, c) < Uses(colors, d) \/ (Uses(colors, c) = Uses(colors, d) /\ c <= d)

(* One tag after the other, each with the color used least by then.        *)
Assigned(colors, names) ==
    LET todo == { t \in names : colors[t] = 0 /\ t \notin Priority }
        f[S \in SUBSET todo] ==
            IF S = {} THEN colors
            ELSE LET t == CHOOSE x \in S : \A y \in S : y <= x
                 IN  [f[S \ {t}] EXCEPT ![t] = LeastUsedTagColor(f[S \ {t}])]
    IN  f[todo]

(* Slip: colors are assigned whether the saved ones have come or not.      *)
AutoAssignedEarly(st, names) ==
    LET colors == Assigned(st.shown.colors, names)
    IN  IF colors # st.shown.colors THEN Saved(st, [colors |-> colors]) ELSE st

AutoAssigned(st, names) ==
    LET colors == Assigned(st.shown.colors, names)
    IN  IF loaded /\ colors # st.shown.colors THEN Saved(st, [colors |-> colors]) ELSE st

Recolored(st, colors) == IF colors # st.shown.colors THEN Saved(st, [colors |-> colors]) ELSE st

RekeyTagColor(st, from, to) ==
    LET colors == st.shown.colors
    IN  IF colors[from] = 0 THEN st
        ELSE Saved(st, [colors |-> [colors EXCEPT ![to] = colors[from], ![from] = 0]])

DropColors(st, S) ==
    Recolored(st, [t \in Tags |-> IF t \in S THEN 0 ELSE st.shown.colors[t]])

----------------------------------------------------------------------------
Init ==
    /\ server \in Stored
    /\ used = { t \in Tags : server.colors[t] # 0 } \union Priority
    /\ provider = [zone |-> 0, locale |-> 0]
    /\ \/ /\ shown = Default /\ loaded = FALSE /\ tags = {}     \* +layout, onMount
          /\ flights = {Request(1, "load", "tags", 0)} /\ sent = 1
       \/ /\ shown = server /\ loaded = TRUE /\ tags = used    \* a tab at rest
          /\ flights = {} /\ sent = 1
    /\ order = 0 /\ applied = 0
    /\ crossed = FALSE /\ stuck = {} /\ mine = {} /\ blind = {}

(* What the user starts is bounded; what follows from it is not.           *)
Starts     == sent < MaxSent
ClientOnly == UNCHANGED <<server, used, order, applied, crossed>>

Set(patch) ==
    /\ Starts
    /\ Becomes(Saved(Client, patch))
    /\ ClientOnly /\ UNCHANGED <<loaded, tags, stuck>>

SetPlain     == \E v \in {0, 1} : v # shown.plain /\ Set([plain |-> v])
                                  /\ UNCHANGED <<provider, mine, blind>>
SetFilters   == \E v \in {0, 1} : v # shown.filters /\ Set([filters |-> v])
                                  /\ UNCHANGED <<provider, mine, blind>>
SetPersist   == Set([persist |-> ~shown.persist]) /\ UNCHANGED <<provider, mine, blind>>

(* setPanelWidth(): a width to come back to is remembered.                 *)
PanelWidth(w) == [width |-> w, lastOpen |-> IF w >= 200 THEN w ELSE shown.lastOpen]
SetPanelWidth(w) == w # shown.width /\ Set(PanelWidth(w)) /\ UNCHANGED <<provider, mine, blind>>
ToggleSomeDayPanel ==
    /\ Set(PanelWidth(IF shown.width = 0 THEN shown.lastOpen ELSE 0))
    /\ UNCHANGED <<provider, mine, blind>>

SetTimezone(z) ==
    /\ z # shown.zone
    /\ Set([zone |-> z])
    /\ provider' = [provider EXCEPT !.zone = z]
    /\ UNCHANGED <<mine, blind>>

(* setLocale() assigns the locale before it saves it.                      *)
SetLocale(l) ==
    /\ Starts /\ l # shown.locale
    /\ Becomes(Saved([Client EXCEPT !.shown.locale = l], [locale |-> l]))
    /\ provider' = [provider EXCEPT !.locale = l]
    /\ ClientOnly /\ UNCHANGED <<loaded, tags, stuck, mine, blind>>

(* The color dots of the settings; no color for the default.               *)
SetTagColor(t, c) ==
    /\ t \in used
    /\ c # shown.colors[t]
    /\ Set([colors |-> [shown.colors EXCEPT ![t] = c]])
    /\ mine' = mine \union {t}
    /\ blind' = blind \union (IF loaded THEN {} ELSE {"early"})
    /\ UNCHANGED provider

(* (bound: one request about tags at a time)                               *)
Ask(kind, arg, S) ==
    /\ Starts /\ \A f \in flights : f.kind \in {"load", "save"}
    /\ Becomes(Asked(Client, kind, arg))
    /\ mine' = mine \union S
    /\ ClientOnly /\ UNCHANGED <<provider, loaded, tags, stuck, blind>>

Rename(from, to) == from \in tags /\ from # to /\ Ask("rename", <<from, to>>, {from, to})
Merge(from, to)  == from \in tags /\ to \in tags \ {from} /\ Ask("merge", <<from, to>>, {from})
Delete(t)        == t \in tags /\ Ask("delete", <<t>>, {t})
FetchAll         == Ask("tags", 0, {})

(* A backup is restored from this tab: refetchAllStores().                 *)
Restored ==
    /\ sent + 1 < MaxSent /\ loaded /\ "restored" \notin blind
    /\ server' \in Backups
    /\ used' = { t \in Tags : server'.colors[t] # 0 } \union Priority
    /\ Becomes(Asked(Asked(Client, "load", ""), "tags", 0))
    /\ blind' = blind \union {"restored"}
    /\ UNCHANGED <<provider, loaded, tags, order, applied, crossed, stuck, mine>>

----------------------------------------------------------------------------
(* The server, one request at a time.                                      *)
Retagged(f) ==
    CASE f.kind = "rename" -> { IF t = f.arg[1] THEN f.arg[2] ELSE t : t \in used }
      [] f.kind = "merge"  -> { IF t = f.arg[1] THEN f.arg[2] ELSE t : t \in used }
      [] f.kind = "delete" -> used \ {f.arg[1]}
      [] OTHER             -> used

Serve(f) ==
    /\ f.served = 0
    /\ server' = (IF f.kind = "save" THEN f.arg @@ server ELSE server)
    /\ used' = Retagged(f)
    /\ order' = order + 1
    /\ flights' = (flights \ {f})
            \union {[f EXCEPT !.served = order + 1, !.answer = IF f.kind = "tags" THEN used ELSE server']}
    /\ crossed' = (crossed \/ \E g \in flights : g.served = 0 /\ g.id < f.id /\ Rivals(f, g))
    /\ UNCHANGED <<shown, provider, loaded, tags, sent, applied, stuck, mine, blind>>

(* Someone adds or removes a task's tag.                                   *)
TaskChanges(t) ==
    /\ used' = (IF t \in used THEN used \ {t} ELSE used \union {t})
    /\ Starts /\ sent' = sent + 1
    /\ UNCHANGED <<server, shown, provider, loaded, tags, flights, order, applied, crossed, stuck,
                   mine, blind>>

----------------------------------------------------------------------------
(* What the tab does with an answer.                                       *)
Arrived(f) == [Client EXCEPT !.flights = @ \ {f}]
Overtaken(f) ==
    /\ crossed' = (crossed \/ f.served < applied)
    /\ applied' = f.served

(* load(): every field, the provider's zone and locale, and a clean slate  *)
(* of filters where they are not to be kept; the tags follow at start-up.  *)
Loaded(f) ==
    LET fresh == [Arrived(f) EXCEPT !.shown = f.answer]
        kept  == IF f.answer.persist THEN fresh
                 ELSE Saved([fresh EXCEPT !.shown.filters = 0], [filters |-> 0])
    IN  /\ f.kind = "load" /\ f.served # 0
        /\ Becomes(IF f.arg = "tags" THEN Asked(kept, "tags", 0) ELSE kept)
        /\ provider' = [zone |-> f.answer.zone, locale |-> f.answer.locale]
        /\ loaded' = TRUE
        /\ stuck' = UNION { DOMAIN g.arg \intersect {"zone", "locale"} :
                            g \in { h \in flights : h.kind = "save" } }
        /\ Overtaken(f)
        /\ UNCHANGED <<server, used, tags, order, mine, blind>>

SaveAnswered(f) ==
    /\ f.kind = "save" /\ f.served # 0
    /\ Becomes([Arrived(f) EXCEPT !.shown = f.answer])
    /\ Overtaken(f)
    /\ UNCHANGED <<server, used, provider, loaded, tags, order, stuck, mine, blind>>

TagsAnswered(f) ==
    /\ f.kind = "tags" /\ f.served # 0
    /\ tags' = f.answer
    /\ Becomes(AutoAssigned(Arrived(f), f.answer))
    /\ ClientOnly /\ UNCHANGED <<provider, loaded, stuck, mine, blind>>

Retold(f, st) ==
    /\ f.served # 0
    /\ Becomes(Asked(st, "tags", 0))
    /\ ClientOnly /\ UNCHANGED <<provider, loaded, tags, stuck, mine, blind>>

RenameAnswered(f) == f.kind = "rename" /\ Retold(f, RekeyTagColor(Arrived(f), f.arg[1], f.arg[2]))
MergeAnswered(f)  == f.kind = "merge" /\ Retold(f, DropColors(Arrived(f), {f.arg[1]}))
DeleteAnswered(f) == f.kind = "delete" /\ Retold(f, DropColors(Arrived(f), {f.arg[1]}))

(* A request that is lost on its way there or back: a save is taken back,  *)
(* anything else is only logged; at start-up the tags are fetched anyway.  *)
Lost(f) ==
    LET st == Arrived(f)
    IN  /\ Becomes(CASE f.kind = "save" -> [st EXCEPT !.shown = f.before @@ @]
                     [] f.kind = "load" /\ f.arg = "tags" -> Asked(st, "tags", 0)
                     [] OTHER -> st)
        /\ crossed' = (crossed \/ (f.kind = "save" /\ (f.rival \/ f.served # 0))
                             \/ (f.kind = "load" /\ loaded))
        /\ stuck' = stuck \union
                (IF f.kind # "save" THEN {}
                 ELSE { k \in DOMAIN f.arg \intersect {"zone", "locale", "filters"} :
                            k = "zone" \/ f.before[k] = f.arg[k] })
        /\ UNCHANGED <<server, used, provider, loaded, tags, order, applied, mine, blind>>

Next ==
    \/ SetPlain \/ SetFilters \/ SetPersist \/ ToggleSomeDayPanel \/ FetchAll \/ Restored
    \/ \E w \in Widths : SetPanelWidth(w)
    \/ \E v \in {0, 1} : SetTimezone(v) \/ SetLocale(v)
    \/ \E t \in Tags : TaskChanges(t) \/ Delete(t) \/ \E c \in Colors \union {0} : SetTagColor(t, c)
    \/ \E t, u \in Tags : Rename(t, u) \/ Merge(t, u)
    \/ \E f \in flights :
          \/ Serve(f) \/ Loaded(f) \/ SaveAnswered(f) \/ TagsAnswered(f)
          \/ RenameAnswered(f) \/ MergeAnswered(f) \/ DeleteAnswered(f) \/ Lost(f)

Spec == Init /\ [][Next]_vars

----------------------------------------------------------------------------
(* Once nothing is on its way, the tab shows what is stored, unless        *)
(* answers overtook each other, a failed save left the zone or the locale  *)
(* behind, or the filters are not kept: rolling back the touched fields    *)
(* "keeps the rollback in lockstep" (preferencesStore.svelte.ts:208).      *)
QuietShowsServer ==
    loaded /\ flights = {} /\ ~crossed =>
        /\ \A k \in Fields \ stuck : (k = "filters" /\ ~shown.persist) \/ shown[k] = server[k]
        /\ \A k \in {"zone", "locale"} \ stuck : provider[k] = shown[k]

(* A color that was stored and that the user left alone stays: assigning   *)
(* colors "from the defaults would race the user's saved colors"           *)
(* (+layout.svelte).  Except where the user set a color before the load,   *)
(* or after a restore: both send a map that never held the stored one.     *)
ColorStays(t) == server.colors[t] # 0 /\ t \notin mine => server'.colors[t] = server.colors[t]
ColorStep      == \A t \in Tags : blind' = {} /\ ~crossed => ColorStays(t)
=============================================================================
