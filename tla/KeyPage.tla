------------------------------ MODULE KeyPage -------------------------------
(***************************************************************************)
(* The admin page of a bucket: the list of its keys (key-list.jsx) with    *)
(* the editor of one record (key-editor.jsx) and the confirmation of a     *)
(* deletion (confirm-dialog.jsx).                                          *)
(*                                                                         *)
(* The page asks the service for listings, records and changes, and goes   *)
(* on while it waits: answers come in any order.  Any change is announced  *)
(* to it once its listener is registered.  A dialog that shows keeps the   *)
(* user from the page behind it.                                           *)
(***************************************************************************)
EXTENDS Naturals, Bags

CONSTANTS
    Keys,
    NewKey,         \* the name an editor of a new key starts with
    Bad,            \* a text that is no JSON
    None,           \* no text
    MaxActs         \* bound on what the user and other clients do, ticks aside

ASSUME NamesAssumption == NewKey \notin Keys
ASSUME BoundsAssumption == MaxActs \in Nat

\* A record's content: the record it was read from, whether it was edited since, and
\* whether it is false in a condition (0, "", false, null).
Name == Keys \cup {NewKey}
Content == [of : Name, edited : BOOLEAN, falsy : BOOLEAN]

ASSUME TextAssumption == None \notin Content \cup {Bad}

VARIABLES
    stored, changes,        \* the service: the bucket's keys, and how often it changed
    registered,             \* the listener is registered; how many changes there were before
    registeredAt, events,   \* changes announced to the page that it has not seen
    waiting, answers,       \* listings asked for: how many are not served; the others, a bag
    listed, listedAt,       \* the keys shown, their version
    newest,                 \* history: the newest version a listing has brought
    selected,               \* the keys ticked
    asked, removing,        \* keys a confirmation asks about; keys being deleted,
    awaited,                \* and the deletion waits for all of them
    reads,                  \* rows clicked whose record is being read
    showing, key, value, text, invalid,     \* the editor, its JSON text, jsonStatus # ''
    overlaid, renamed,      \* history of the editor: shown while it showed; key was typed
    saves,                  \* writes under way
    acts

serviceVars == <<stored, changes, registered, registeredAt>>
listVars == <<waiting, answers, listed, listedAt, newest, selected>>
deleteVars == <<asked, removing, awaited>>
editorVars == <<showing, key, value, text, invalid, overlaid, renamed>>
editVars == <<reads, saves>>
vars == <<serviceVars, events, listVars, deleteVars, editorVars, editVars, acts>>

TypeOK ==
    /\ stored \subseteq Keys /\ listed \subseteq Keys
    /\ selected \subseteq listed        \* a reload leaves no tick on a key that is gone
    /\ changes \in Nat /\ listedAt \in 0 .. changes /\ newest \in listedAt .. changes
    /\ registered \in BOOLEAN /\ registeredAt \in 0 .. changes /\ events \in Nat
    /\ waiting \in Nat /\ IsABag(answers)
    /\ BagToSet(answers) \subseteq [at : 0 .. changes, keys : SUBSET Keys]
    /\ asked \subseteq Keys /\ removing \subseteq Keys /\ reads \subseteq Keys
    /\ {awaited, showing, invalid, overlaid, renamed} \subseteq BOOLEAN
    /\ key \in Name /\ value \in Content /\ text \in Content \cup {Bad, None}
    /\ showing <=> text # None
    /\ saves \subseteq [n : 0 .. MaxActs, key : Name, value : Content, answered : BOOLEAN]
    /\ acts \in 0 .. MaxActs

(* The operators named Bug... are plausible mistakes in the definition that        *)
(* follows them, which the properties must notice; the model does not use them.    *)

\* The list is mounted: it asks for a listing and for the events.
Init ==
    /\ stored \in SUBSET Keys /\ changes = 0
    /\ registered = FALSE /\ registeredAt = 0 /\ events = 0
    /\ waiting = 1 /\ answers = EmptyBag
    /\ listed = {} /\ listedAt = 0 /\ newest = 0 /\ selected = {}
    /\ asked = {} /\ removing = {} /\ awaited = FALSE
    /\ reads = {} /\ saves = {} /\ acts = 0
    /\ showing = FALSE /\ key = NewKey /\ value = [of |-> NewKey, edited |-> FALSE, falsy |-> FALSE]
    /\ text = None /\ invalid = FALSE /\ overlaid = FALSE /\ renamed = FALSE

-----------------------------------------------------------------------------
(* The service. *)

Act == acts < MaxActs /\ acts' = acts + 1

\* A change of a key is announced to the listener, whoever made it.
Store(keys) ==
    /\ stored' = keys /\ changes' = changes + 1
    /\ events' = IF registered THEN events + 1 ELSE events
    /\ UNCHANGED <<registered, registeredAt>>

RegisterListener ==
    /\ ~registered /\ registered' = TRUE /\ registeredAt' = changes
    /\ UNCHANGED <<stored, changes, events, listVars, deleteVars, editorVars, editVars, acts>>

OtherChange ==
    /\ Act
    /\ \E k \in Keys : Store(stored \cup {k}) \/ Store(stored \ {k})
    /\ UNCHANGED <<listVars, deleteVars, editorVars, editVars>>

ServeListing ==
    /\ waiting > 0 /\ waiting' = waiting - 1
    /\ answers' = answers (+) SetToBag({[at |-> changes, keys |-> stored]})
    /\ UNCHANGED <<serviceVars, events, listed, listedAt, newest, selected,
                   deleteVars, editorVars, editVars, acts>>

\* A write without a key has one generated.
ServeSave(s) ==
    /\ ~s.answered
    /\ saves' = (saves \ {s}) \cup {[s EXCEPT !.answered = TRUE]}
    /\ \E k \in Keys : (s.key = k \/ (s.key = NewKey /\ k \notin stored)) /\ Store(stored \cup {k})
    /\ UNCHANGED <<listVars, deleteVars, editorVars, reads, acts>>

ServeRemove(k) ==
    /\ k \in removing /\ removing' = removing \ {k}
    /\ Store(stored \ {k})
    /\ UNCHANGED <<listVars, asked, awaited, editorVars, editVars, acts>>

-----------------------------------------------------------------------------
(* The list. *)

BugReload ==
    /\ waiting' = IF waiting = 0 /\ answers = EmptyBag THEN 1 ELSE waiting
    /\ UNCHANGED answers

\* reloadData up to its await.
Reload == waiting' = waiting + 1 /\ UNCHANGED answers

Event ==
    /\ events > 0 /\ events' = events - 1
    /\ Reload
    /\ UNCHANGED <<serviceVars, listed, listedAt, newest, selected, deleteVars, editorVars, editVars, acts>>

BugArrived(l) ==
    /\ listed' = l.keys /\ listedAt' = l.at
    /\ newest' = IF l.at > newest THEN l.at ELSE newest
    /\ UNCHANGED selected

\* The rest of reloadData: an old answer that comes late is shown like any other.
Arrived(l) ==
    /\ listed' = l.keys /\ listedAt' = l.at
    /\ newest' = IF l.at > newest THEN l.at ELSE newest
    /\ selected' = {}

Arrive(l) ==
    /\ answers' = answers (-) SetToBag({l})
    /\ Arrived(l)
    /\ UNCHANGED <<serviceVars, events, waiting, deleteVars, editorVars, editVars, acts>>

\* The user is at the list: no dialog shows.
AtList == ~showing /\ asked = {}

\* handleOnSelect and handleOnSelectAll: the filter and the page show any part of the list,
\* and a change of either leaves the ticks.
Select ==
    /\ AtList
    /\ \E visible \in SUBSET listed :
          selected' = IF visible \subseteq selected THEN selected \ visible ELSE selected \cup visible
    /\ UNCHANGED <<serviceVars, events, waiting, answers, listed, listedAt, newest,
                   deleteVars, editorVars, editVars, acts>>

\* The confirmation keeps the keys it asked about, whatever is reloaded meanwhile.
AskDelete ==
    /\ AtList /\ selected # {} /\ Act
    /\ asked' = selected
    /\ UNCHANGED <<serviceVars, events, listVars, removing, awaited, editorVars, editVars>>

\* OK, which starts all removes, or Cancel.  One deletion is under way at a time.
Confirm ==
    /\ asked # {} /\ asked' = {}
    /\ \/ ~awaited /\ removing = {} /\ removing' = asked /\ awaited' = TRUE
       \/ UNCHANGED <<removing, awaited>>
    /\ UNCHANGED <<serviceVars, events, listVars, editorVars, editVars, acts>>

\* Promise.all of the removes; one that fails leaves the others under way.
Deleted ==
    /\ awaited /\ removing = {} /\ awaited' = FALSE
    /\ Reload
    /\ UNCHANGED <<serviceVars, events, listed, listedAt, newest, selected, asked, removing,
                   editorVars, editVars, acts>>

RemoveFails(k) ==
    /\ k \in removing /\ removing' = removing \ {k} /\ awaited' = FALSE
    /\ UNCHANGED <<serviceVars, events, listVars, asked, editorVars, editVars, acts>>

-----------------------------------------------------------------------------
(* The editor. *)

\* editor.set(value || {}): for a falsy value the text is that of an empty object, which
\* is told from the value by not being falsy.
TextOf(content) == [content EXCEPT !.falsy = FALSE]

\* show.  componentDidUpdate creates the JSON editor of a dialog that opens; one that shows
\* already keeps its text.  The message about an invalid text stays in either case.
Show(name, falsy) ==
    /\ key' = name /\ value' = [of |-> name, edited |-> FALSE, falsy |-> falsy]
    /\ showing' = TRUE
    /\ text' = IF showing THEN text ELSE TextOf(value')
    /\ overlaid' = showing /\ renamed' = FALSE
    /\ UNCHANGED invalid

\* cancel: the JSON editor is destroyed with its dialog.
Hide ==
    /\ showing' = FALSE /\ text' = None /\ overlaid' = FALSE
    /\ UNCHANGED <<key, value, invalid, renamed>>

OpenNew ==
    /\ AtList /\ Act
    /\ Show(NewKey, FALSE)
    /\ UNCHANGED <<serviceVars, events, listVars, deleteVars, reads, saves>>

ClickRow(k) ==
    /\ AtList /\ k \in listed \ reads /\ Act
    /\ reads' = reads \cup {k}
    /\ UNCHANGED <<serviceVars, events, listVars, deleteVars, editorVars, saves>>

\* The rest of rowClicked; a record that is gone has no editor.
ShowRow(k) ==
    /\ k \in reads /\ reads' = reads \ {k}
    /\ IF k \in stored THEN \E falsy \in BOOLEAN : Show(k, falsy) ELSE UNCHANGED editorVars
    /\ UNCHANGED <<serviceVars, events, listVars, deleteVars, saves, acts>>

\* jsonChanged: the text with an edit, from a text that was Bad the last good one.
EditText ==
    /\ showing /\ Act
    /\ LET from == IF text = Bad THEN value ELSE text IN
          \E falsy \in BOOLEAN : text' = [from EXCEPT !.edited = TRUE, !.falsy = falsy]
    /\ value' = text' /\ invalid' = FALSE
    /\ UNCHANGED <<serviceVars, events, listVars, deleteVars, showing, key, overlaid, renamed,
                   reads, saves>>

BugSpoilText ==
    /\ showing /\ Act
    /\ text' = Bad
    /\ UNCHANGED <<serviceVars, events, listVars, deleteVars, showing, key, value, invalid, overlaid,
                   renamed, reads, saves>>

\* jsonChanged of a text that is no JSON, jsonError.
SpoilText ==
    /\ showing /\ Act
    /\ text' = Bad /\ invalid' = TRUE
    /\ UNCHANGED <<serviceVars, events, listVars, deleteVars, showing, key, value, overlaid, renamed,
                   reads, saves>>

EditKey(k) ==
    /\ showing /\ k # key /\ key' = k /\ renamed' = TRUE
    /\ UNCHANGED <<serviceVars, events, listVars, deleteVars, showing, value, text, invalid, overlaid,
                   editVars, acts>>

\* ok: the write is sent, the dialog stays until its answer.  The button is disabled while
\* the text is invalid; for a falsy value it does nothing.
Save ==
    /\ showing /\ ~invalid /\ ~value.falsy /\ Act
    /\ saves' = saves \cup {[n |-> acts, key |-> key, value |-> value, answered |-> FALSE]}
    /\ UNCHANGED <<serviceVars, events, listVars, deleteVars, editorVars, reads>>

\* The answer of a write closes the dialog, whichever record it shows by now.
Saved(s) ==
    /\ s.answered /\ saves' = saves \ {s}
    /\ Hide /\ Reload
    /\ UNCHANGED <<serviceVars, events, listed, listedAt, newest, selected, deleteVars,
                   reads, acts>>

SaveFails(s) ==
    /\ ~s.answered /\ saves' = saves \ {s}
    /\ UNCHANGED <<serviceVars, events, listVars, deleteVars, editorVars, reads, acts>>

Cancel ==
    /\ showing /\ Hide
    /\ UNCHANGED <<serviceVars, events, listVars, deleteVars, editVars, acts>>

Next ==
    \/ RegisterListener \/ OtherChange
    \/ ServeListing \/ Event \/ Select \/ AskDelete \/ Confirm \/ Deleted
    \/ \E l \in BagToSet(answers) : Arrive(l)
    \/ \E k \in Keys : ServeRemove(k) \/ RemoveFails(k) \/ ClickRow(k) \/ ShowRow(k) \/ EditKey(k)
    \/ OpenNew \/ EditText \/ SpoilText \/ Save \/ Cancel
    \/ \E s \in saves : ServeSave(s) \/ Saved(s) \/ SaveFails(s)

Spec == Init /\ [][Next]_vars

-----------------------------------------------------------------------------
\* What the editor shows is what Save would write, or Save would write nothing (the text is
\* no JSON, or the record is falsy and shows as an empty object), and it was read from the
\* key Save writes unless the user typed another: through edits, invalid texts, late answers
\* and the next record.  Excepted is an editor that was shown anew while it showed, for the
\* record of a second row clicked before the first was read: its text stays the first's.
EditorShowsItsRecord ==
    showing /\ ~overlaid =>
        /\ \/ text = value
           \/ text = Bad /\ invalid
           \/ value.falsy /\ text = TextOf(value)
        /\ renamed \/ value.of = key

\* When no listing and no event is on its way, the page has been brought the newest listing,
\* unless there was no change since the listener was registered (a change between the first
\* listing and that moment is missed).  The list shows it, unless an older answer came later.
ListSettles ==
    registered /\ events = 0 /\ waiting = 0 /\ answers = EmptyBag =>
        newest = changes \/ changes = registeredAt
=============================================================================
