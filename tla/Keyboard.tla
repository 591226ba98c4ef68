------------------------------ MODULE Keyboard ------------------------------
(***************************************************************************)
(* Shortcuts and what they act on: the matcher (keyboard.ts), its gates    *)
(* and handlers (keybindingActions.ts), the registry and its remapping     *)
(* (keybindings.ts, SettingsModal.svelte), overlays and focus              *)
(* (uiStore.svelte.ts, Modal.svelte, ModalHost.svelte).                    *)
(*                                                                         *)
(* The registry is cut down to one action of every sort.  A binding is one *)
(* or two keys, or a key with the platform's modifier.  "" is no key, no   *)
(* modal, no action, no task; 0 is no question.                            *)
(***************************************************************************)
EXTENDS Integers, Sequences, Functions

CONSTANTS
    Remapped,    \* the actions whose keys the user changes
    Sections,    \* what the day list and the panel may show: lists of task lists
    MaxAsked     \* bound: questions

VARIABLES
    overrides,   \* captured bindings, {} where the default holds
    prefix,      \* the first key of a sequence, waiting for the second
    held,        \* modifiers held down
    target,      \* what has the focus of the document
    modal, confirm,
    focused,     \* the focused task
    days, someday,       \* what is on screen: sections of the day list and of the panel
    capturing, chord,    \* the row of the settings that listens, and its first key
    asked, waiting,      \* how many questions were put, and which callers wait for an answer
    fired,       \* the action the last step ran
    last         \* history: the keystroke before if it was a bare "g" on the page itself

vars == <<overrides, prefix, held, target, modal, confirm, focused, days,
          someday, capturing, chord, asked, waiting, fired, last>>

ui == <<target, modal, confirm, focused, days, someday, asked, waiting>>

----------------------------------------------------------------------------
(* Keys: those on the keyboard and what they are with Shift.               *)
Pressable == {"j", "k", "g", "x", "Space", "Escape", "Shift", "Control"}
Shifted(p) == CASE p = "j" -> "J" [] p = "k" -> "K" [] p = "g" -> "G" [] p = "x" -> "X"
                [] OTHER -> p
Keys       == Pressable \union { Shifted(p) : p \in Pressable }
ToLower(k) == CHOOSE p \in Pressable : k \in {p, Shifted(p)}
Upper(k)   == Shifted(ToLower(k))
Named     == {"Space", "Escape"}
Letters   == Keys \ (Named \union {"Shift", "Control"})

Event(p) == [key |-> IF "Shift" \in held THEN Shifted(p) ELSE p,
             mod |-> "Control" \in held \union {p}, shift |-> "Shift" \in held \union {p}]

(* Bindings.                                                               *)
Bare(k)     == [mod |-> FALSE, shift |-> FALSE, keys |-> <<k>>]
Pair(k, l)  == [mod |-> FALSE, shift |-> FALSE, keys |-> <<k, l>>]
Mod(k)      == [mod |-> TRUE, shift |-> FALSE, keys |-> <<k>>]

Order == <<"focusNext", "focusPrev", "jumpNextSection", "jumpPrevSection", "toggleComplete",
           "search", "openTrash">>
Ids   == { Order[i] : i \in DOMAIN Order }

SHORTCUTS == [id \in Ids |->
    CASE id = "focusNext"       -> {Bare("j")}    [] id = "focusPrev"       -> {Bare("k")}
      [] id = "jumpNextSection" -> {Bare("J")}    [] id = "jumpPrevSection" -> {Bare("K")}
      [] id = "toggleComplete"  -> {Bare("Space")} [] id = "search"          -> {Mod("K")}
      [] id = "openTrash"       -> {Pair("g", "x")}]

(* One printable or named key, two of them, or a modifier chord.  The only *)
(* chord with Shift the grammar knows is that of redo, which is left out.  *)
IsValidBinding(b) ==
    LET ok(k) == k \in Letters \union Named
    IN  IF b.mod THEN Len(b.keys) = 1 /\ b.keys[1] \in Letters /\ ~b.shift
        ELSE \A i \in DOMAIN b.keys : ok(b.keys[i])

ApplyShortcutOverrides ==
    [id \in Ids |-> IF id \in Remapped /\ overrides[id] # {} THEN overrides[id] ELSE SHORTCUTS[id]]

BindingConflicts(reg, id) ==
    { o \in Ids \ {id} : \E b \in reg[id], c \in reg[o] :
        /\ b.mod = c.mod
        /\ b = c \/ (b.keys[1] = c.keys[1] /\ Len(b.keys) # Len(c.keys)) }

InSections(sections) == UNION { Range(sections[i]) : i \in DOMAIN sections }
AllTasks == UNION { InSections(s[1]) \union InSections(s[2]) : s \in Sections }

TypeOK ==
    /\ \A id \in Remapped : \A b \in overrides[id] : IsValidBinding(b)
    /\ prefix \in Keys \union {""} /\ held \subseteq {"Shift", "Control"}
    /\ target \in {"page", "add", "button"} \union AllTasks
    /\ modal \in {"", "search", "trash", "settings"} /\ confirm \in 0 .. asked
    /\ capturing \in Remapped \union {""} /\ chord \in {"", "g"}
    /\ capturing # "" => modal = "settings"
    /\ waiting \subseteq 1 .. asked /\ last \in {"", "g"}
    /\ fired \in Ids \union {"", "closeModal"}

----------------------------------------------------------------------------
(* The matcher.  Where two actions have the same keys the later one of the *)
(* registry wins.                                                          *)
Winner(S) == IF S = {} THEN "" ELSE Order[CHOOSE i \in DOMAIN Order :
                /\ Order[i] \in S /\ \A j \in DOMAIN Order : Order[j] \in S => j <= i]

(* Slip: the key is compared as it was typed.                              *)
ModifiersAsTyped(reg, e) ==
    Winner({ id \in Ids : [mod |-> TRUE, shift |-> e.shift, keys |-> <<e.key>>] \in reg[id] })

Modifiers(reg, e) ==
    Winner({ id \in Ids : [mod |-> TRUE, shift |-> e.shift, keys |-> <<Upper(e.key)>>] \in reg[id] })
PlainKeys(reg, k) == Winner({ id \in Ids : Bare(k) \in reg[id] })
Sequences2(reg, k, l) == Winner({ id \in Ids : Pair(k, l) \in reg[id] })
SequencePrefixes(reg) == { b.keys[1] : b \in { c \in UNION { reg[id] : id \in Ids } : Len(c.keys) = 2 } }

(* feed(): the action and the prefix that waits afterwards.  A sequence's  *)
(* second key is looked up in lower case.                                  *)
Feed(reg, armed, e) ==
    LET none == [id |-> "", prefix |-> ""]
    IN  IF e.mod THEN [none EXCEPT !.id = Modifiers(reg, e)]
        ELSE IF armed # "" THEN [none EXCEPT !.id = Sequences2(reg, armed, ToLower(e.key))]
        ELSE IF PlainKeys(reg, e.key) # "" THEN [none EXCEPT !.id = PlainKeys(reg, e.key)]
        ELSE IF e.key \in SequencePrefixes(reg) THEN [none EXCEPT !.prefix = e.key]
        ELSE none

----------------------------------------------------------------------------
(* The handlers.                                                           *)
(* The rows of all sections in order.                                      *)
Visible(sections) ==
    LET f[i \in 0 .. Len(sections)] == IF i = 0 THEN <<>> ELSE f[i - 1] \o sections[i]
    IN  f[Len(sections)]
Shown == InSections(days) \union InSections(someday)
InSomeday == focused \in InSections(someday)
Clamp(n, size) == IF n < 1 THEN 1 ELSE IF n > size THEN size ELSE n
Place(seq, x) == IF \E i \in DOMAIN seq : seq[i] = x
                 THEN CHOOSE i \in DOMAIN seq : seq[i] = x ELSE 0

(* Slip: the list is the day list even when the focus is in the panel.     *)
MoveFocusInDays(delta) ==
    LET ids == Visible(days)
        at  == Place(ids, focused)
    IN  IF ids = <<>> THEN focused
        ELSE IF at = 0 THEN focused ELSE ids[Clamp(at + delta, Len(ids))]

MoveFocus(delta) ==
    LET ids == IF InSomeday \/ Visible(days) = <<>> THEN Visible(someday) ELSE Visible(days)
        at  == Place(ids, focused)
    IN  IF ids = <<>> THEN focused
        ELSE IF at = 0 THEN (IF delta > 0 THEN ids[1] ELSE ids[Len(ids)])
        ELSE ids[Clamp(at + delta, Len(ids))]

JumpSection(delta) ==
    LET all == IF InSomeday THEN someday ELSE days
        at  == IF \E i \in DOMAIN all : focused \in Range(all[i])
               THEN CHOOSE i \in DOMAIN all : focused \in Range(all[i]) ELSE 0
        to  == IF at = 0 THEN (IF delta > 0 THEN 1 ELSE Len(all)) ELSE Clamp(at + delta, Len(all))
    IN  IF all = <<>> \/ to = at \/ all[to] = <<>> THEN focused ELSE all[to][1]

Run(id) ==
    /\ fired' = id
    /\ focused' = (CASE id = "focusNext" -> MoveFocus(1) [] id = "focusPrev" -> MoveFocus(-1)
                     [] id = "jumpNextSection" -> JumpSection(1)
                     [] id = "jumpPrevSection" -> JumpSection(-1) [] OTHER -> focused)
    /\ modal' = (CASE id = "search" -> "search" [] id = "openTrash" -> "trash" [] OTHER -> modal)
    /\ UNCHANGED <<target, confirm, days, someday, asked, waiting>>

Idle == Run("")
Typing == target = "add"
Overlay == modal # "" \/ confirm # 0
AllowWhileTyping == {"search"}
(* A control outside the focused task's row keeps its Space.               *)
NativeActivationWins(e) == e.key = "Space" /\ (target = "button" \/ target \in Shown \ {focused})

Cancelled == prefix' = "" /\ Idle

(* Slip: an open overlay swallows the key and keeps the prefix waiting.    *)
UnderOverlayKept == prefix' = prefix /\ Idle

UnderOverlay == Cancelled

(* Escape: closeModal(), and blur() on an input that adds a task; inline  *)
(* editors, which it closes too, are left out.                             *)
Escape ==
    /\ prefix' = "" /\ modal' = "" /\ fired' = "closeModal"
    /\ target' = (IF target = "add" THEN "page" ELSE target)
    /\ UNCHANGED <<confirm, focused, days, someday, asked, waiting>>

ModifierChord(e) ==
    LET id == Feed(ApplyShortcutOverrides, "", e).id
    IN  prefix' = "" /\ Run(IF Typing /\ id \notin AllowWhileTyping THEN "" ELSE id)

Dispatch(e) ==
    LET match == Feed(ApplyShortcutOverrides, prefix, e)
    IN  prefix' = match.prefix /\ Run(match.id)

HandleGlobalKeydown(e) ==
    /\ CASE e.key = "Escape"                     -> Escape
         [] e.key # "Escape" /\ Overlay          -> UnderOverlay
         [] e.key # "Escape" /\ ~Overlay /\ e.mod -> ModifierChord(e)
         [] OTHER -> IF Typing \/ NativeActivationWins(e) THEN Cancelled ELSE Dispatch(e)
    /\ UNCHANGED <<overrides, capturing, chord>>

----------------------------------------------------------------------------
(* Remapping: the next keys become the binding of a row.                   *)
CaptureToken(e) == [mod |-> e.mod, shift |-> e.mod /\ e.shift,
                    keys |-> <<IF e.mod /\ e.key \in Letters THEN Upper(e.key) ELSE e.key>>]

(* update(): bindings that stay the same keep a prefix that waits.         *)
SameKeys  == ApplyShortcutOverrides' = ApplyShortcutOverrides
Refreshed == prefix' = (IF SameKeys THEN prefix ELSE "")

CommitBinding(id, b) ==
    /\ capturing' = "" /\ chord' = ""
    /\ overrides' = (IF IsValidBinding(b) THEN [overrides EXCEPT ![id] = {b}] ELSE overrides)

HandleCaptureKeydown(e) ==
    LET token == CaptureToken(e)
    IN  /\ CASE e.key = "Escape" -> capturing' = "" /\ chord' = "" /\ UNCHANGED overrides
             [] e.key # "Escape" /\ chord # "" ->
                    CommitBinding(capturing, [token EXCEPT !.keys = <<chord>> \o @])
             [] e.key = "g" /\ ~e.mod /\ chord = "" -> chord' = "g" /\ UNCHANGED <<capturing, overrides>>
             [] OTHER -> CommitBinding(capturing, token)
        /\ Refreshed
        /\ fired' = ""
        /\ UNCHANGED ui

StartCapture(id) ==
    /\ modal = "settings" /\ confirm = 0
    /\ capturing' = id /\ chord' = ""
    /\ fired' = "" /\ UNCHANGED <<overrides, prefix, held, last, ui>>

ResetShortcut(id) ==
    /\ modal = "settings" /\ confirm = 0 /\ capturing = "" /\ overrides[id] # {}
    /\ overrides' = [overrides EXCEPT ![id] = {}]
    /\ Refreshed
    /\ fired' = "" /\ last' = (IF SameKeys THEN last ELSE "")
    /\ UNCHANGED <<held, capturing, chord, ui>>

----------------------------------------------------------------------------
Init ==
    /\ overrides = [id \in Remapped |-> {}] /\ prefix = "" /\ held = {} /\ target = "page"
    /\ modal = "" /\ confirm = 0 /\ focused = ""
    /\ \E s \in Sections : days = s[1] /\ someday = s[2]
    /\ capturing = "" /\ chord = "" /\ asked = 0 /\ waiting = {} /\ fired = ""
    /\ last = ""

Press(p) ==
    LET e == Event(p)
    IN  /\ p \in {"Shift", "Control"} => p \notin held
        /\ held' = (IF p \in {"Shift", "Control"} THEN held \union {p} ELSE held)
        /\ IF capturing # "" THEN HandleCaptureKeydown(e) ELSE HandleGlobalKeydown(e)
        /\ last' = (IF capturing # "" THEN (IF SameKeys THEN last ELSE "")
                    ELSE IF e.key = "g" /\ ~(e.mod \/ Overlay \/ Typing) THEN "g" ELSE "")

Release(p) ==
    /\ p \in held /\ held' = held \ {p}
    /\ fired' = "" /\ UNCHANGED <<overrides, prefix, capturing, chord, last, ui>>

(* A lone prefix expires (SEQUENCE_TIMEOUT_MS).                            *)
Expire ==
    /\ prefix # "" /\ prefix' = "" /\ fired' = "" /\ last' = ""
    /\ UNCHANGED <<overrides, held, capturing, chord, ui>>

(* With the mouse, and no key held (a bound): the focus moves, lists       *)
(* change, modals open and close.                                          *)
Mouse == held = {} /\ fired' = "" /\ UNCHANGED <<overrides, prefix, held, last>>
NotInSettings == Mouse /\ ~Overlay /\ UNCHANGED <<capturing, chord>>

FocusMoves(t) ==
    /\ NotInSettings /\ target # t
    /\ target' = t /\ focused' = (IF t \in Shown THEN t ELSE focused)
    /\ UNCHANGED <<modal, confirm, days, someday, asked, waiting>>

(* A row that goes takes the document's focus with it.                     *)
ListsChange(s) ==
    /\ NotInSettings /\ days' = s[1] /\ someday' = s[2] /\ <<days, someday>> # s
    /\ target' = (IF target \in AllTasks \ Shown' THEN "page" ELSE target)
    /\ UNCHANGED <<modal, confirm, focused, asked, waiting>>

OpenModal(m) ==
    /\ NotInSettings /\ modal' = m /\ target' = "button"
    /\ UNCHANGED <<confirm, focused, days, someday, asked, waiting>>

(* A modal that closes is unmounted, and what listened in it with it.      *)
CloseModal ==
    /\ Mouse /\ confirm = 0 /\ modal # "" /\ modal' = ""
    /\ capturing' = "" /\ chord' = ""
    /\ UNCHANGED <<target, confirm, focused, days, someday, asked, waiting>>

(* uiStore.confirm(): a second question answers the first with no.         *)
(* (bound: asked before a key is remapped)                                 *)
(* Slip: the new question takes the place of the old.                      *)
AskOver == waiting

Superseded == waiting \ {confirm}

Confirm ==
    /\ Mouse /\ asked < MaxAsked /\ \A id \in Remapped : overrides[id] = {}
    /\ asked' = asked + 1 /\ confirm' = asked + 1 /\ waiting' = Superseded \union {asked + 1}
    /\ UNCHANGED <<target, modal, capturing, chord, focused, days, someday>>

(* Answered, with yes or with no; which of them changes nothing here.      *)
ResolveConfirm ==
    /\ Mouse /\ confirm # 0
    /\ waiting' = waiting \ {confirm} /\ confirm' = 0
    /\ UNCHANGED <<target, modal, capturing, chord, focused, days, someday, asked>>

Next ==
    \/ \E p \in Pressable : Press(p) \/ Release(p)
    \/ Expire \/ CloseModal \/ Confirm \/ ResolveConfirm
    \/ \E id \in Remapped : StartCapture(id) \/ ResetShortcut(id)
    \/ \E t \in {"page", "add", "button"} \union Shown : FocusMoves(t)
    \/ \E s \in Sections : ListsChange(s)
    \/ \E m \in {"settings", "trash"} : OpenModal(m)

Spec == Init /\ [][Next]_vars

----------------------------------------------------------------------------
(* "A lone prefix key must never swallow a later, unrelated keypress"      *)
(* (keyboard.ts:38): an action on two keys runs only if the first was the  *)
(* keystroke right before, on the page itself, in time and under the same  *)
(* registry.                                                               *)
SequenceStep ==
    \A id \in Ids :
        (fired' = id /\ \A b \in ApplyShortcutOverrides[id] : Len(b.keys) = 2)
        => /\ last # ""
           /\ \E b \in ApplyShortcutOverrides[id] : b.keys[1] = last

(* "A binding that exists in the registry can fire by construction"        *)
(* (keyboard.ts:5): on an idle page its keys run its action, if nothing    *)
(* else claims them.                                                       *)
Pressed(k, b) == [key |-> IF b.mod THEN ToLower(k) ELSE k, mod |-> b.mod, shift |-> b.shift]
Fires(id, b) ==
    LET reg == ApplyShortcutOverrides
    IN  IF Len(b.keys) = 1 THEN Feed(reg, "", Pressed(b.keys[1], b)).id = id
        ELSE Feed(reg, Feed(reg, "", Pressed(b.keys[1], b)).prefix, Pressed(b.keys[2], b)).id = id
BoundKeysFire ==
    \A id \in Ids : BindingConflicts(ApplyShortcutOverrides, id) = {} =>
        \A b \in ApplyShortcutOverrides[id] : Fires(id, b)

(* The same but for what is known to fail: a second key in upper case.     *)
(* Looked at in the settings, where bindings change.                       *)
LowerKeysFire ==
    modal = "settings" /\ held = {} /\ capturing = "" /\ confirm = 0 =>
    \A id \in Ids : BindingConflicts(ApplyShortcutOverrides, id) = {} =>
        \A b \in ApplyShortcutOverrides[id] :
            (Len(b.keys) = 2 => ToLower(b.keys[2]) = b.keys[2]) => Fires(id, b)

(* j and k end on a task that is on screen, whatever was focused           *)
(* before and wherever it went.                                            *)
FocusStep ==
    (fired' \in {"focusNext", "focusPrev"} /\ Shown # {}) => focused' \in Shown

(* Every question that is no longer on screen was answered, and the one on *)
(* screen was not: no caller waits for ever, none is told twice.           *)
QuestionsSettled == waiting = {confirm} \ {0}

(* "Cancel, the X button, the backdrop, and Escape all resolve false"      *)
(* (ConfirmModal.svelte:10).                                               *)
EscapeDismisses == [][fired' = "closeModal" /\ fired # "closeModal" => confirm' = 0]_vars

=============================================================================
