---------------------------- MODULE KeyPageProofs ----------------------------
(***************************************************************************)
(* The safety properties of KeyPage, for every set of keys and every       *)
(* number of edits, listings and changes.                                  *)
(***************************************************************************)
EXTENDS KeyPage, TLAPS

\* The last change the page has not been brought yet is announced, asked for or answered.
PendingInv ==
    registered =>
        \/ events > 0 \/ waiting > 0
        \/ \E l \in BagToSet(answers) : l.at = changes
        \/ newest = changes \/ changes = registeredAt

IInv == TypeOK /\ EditorShowsItsRecord /\ PendingInv

-----------------------------------------------------------------------------
(* Answers on their way. *)

LEMMA EmptyBagType == IsABag(EmptyBag) /\ BagToSet(EmptyBag) = {}
  BY DEF IsABag, EmptyBag, SetToBag, BagToSet

LEMMA AddedToBag ==
    ASSUME NEW B, IsABag(B), NEW l
    PROVE  /\ IsABag(B (+) SetToBag({l}))
           /\ BagToSet(B (+) SetToBag({l})) = BagToSet(B) \cup {l}
<1> DEFINE S == SetToBag({l})
           C == B (+) S
<1>1. DOMAIN S = {l} /\ S[l] = 1 /\ \A e \in DOMAIN B : B[e] \in Nat /\ B[e] > 0
  BY DEF SetToBag, IsABag
<1> HIDE DEF S
<1>2. C = [e \in DOMAIN B \cup {l} |->
             (IF e \in DOMAIN B THEN B[e] ELSE 0) + (IF e \in {l} THEN S[e] ELSE 0)]
  BY <1>1 DEF (+)
<1> HIDE DEF C
<1>3. DOMAIN C = DOMAIN B \cup {l} /\ \A e \in DOMAIN C : C[e] \in Nat /\ C[e] > 0
  BY <1>1, <1>2
<1>4. C = [e \in DOMAIN C |-> C[e]]
  BY <1>2, <1>3
<1> QED
  BY <1>3, <1>4 DEF IsABag, BagToSet, C, S

LEMMA TakenFromBag ==
    ASSUME NEW B, IsABag(B), NEW l
    PROVE  /\ IsABag(B (-) SetToBag({l}))
           /\ BagToSet(B (-) SetToBag({l})) \subseteq BagToSet(B)
           /\ BagToSet(B) \ {l} \subseteq BagToSet(B (-) SetToBag({l}))
<1> DEFINE S == SetToBag({l})
           D == [e \in DOMAIN B |-> IF e \in DOMAIN S THEN B[e] - S[e] ELSE B[e]]
           C == B (-) S
<1>1. DOMAIN S = {l} /\ S[l] = 1 /\ \A e \in DOMAIN B : B[e] \in Nat /\ B[e] > 0
  BY DEF SetToBag, IsABag
<1>2. C = [e \in {d \in DOMAIN D : D[d] > 0} |-> D[e]]
  BY DEF (-)
<1> HIDE DEF S, C
<1>3. DOMAIN D = DOMAIN B /\ \A e \in DOMAIN B : D[e] = IF e = l THEN B[e] - 1 ELSE B[e]
  BY <1>1
<1> HIDE DEF D
<1>4. \A e \in DOMAIN B : D[e] \in Nat /\ (e # l => D[e] > 0)
  BY <1>1, <1>3
<1>5. /\ DOMAIN C \subseteq DOMAIN B /\ DOMAIN B \ {l} \subseteq DOMAIN C
      /\ \A e \in DOMAIN C : C[e] \in Nat /\ C[e] > 0
      /\ C = [e \in DOMAIN C |-> C[e]]
  BY <1>2, <1>3, <1>4
<1> QED
  BY <1>5 DEF IsABag, BagToSet, C, S

-----------------------------------------------------------------------------
(* The helpers. *)

LEMMA StoreEffect ==
    ASSUME TypeOK, NEW keys \in SUBSET Keys, Store(keys)
    PROVE  /\ stored' \subseteq Keys /\ changes' = changes + 1 /\ changes \in Nat
           /\ events' \in Nat /\ UNCHANGED <<registered, registeredAt>>
           /\ registered => events' > 0
  BY DEF Store, TypeOK

\* The service changes a key, and the list and the editor do not.
LEMMA StoreList ==
    ASSUME TypeOK, PendingInv, NEW keys \in SUBSET Keys, Store(keys), UNCHANGED listVars
    PROVE  /\ stored' \subseteq Keys /\ events' \in Nat
           /\ listedAt' \in 0 .. changes' /\ newest' \in listedAt' .. changes'
           /\ registered' \in BOOLEAN /\ registeredAt' \in 0 .. changes'
           /\ BagToSet(answers') \subseteq [at : 0 .. changes', keys : SUBSET Keys]
           /\ PendingInv'
<1>1. /\ stored' \subseteq Keys /\ changes' = changes + 1 /\ changes \in Nat
      /\ events' \in Nat /\ UNCHANGED <<registered, registeredAt>>
      /\ registered => events' > 0
  BY StoreEffect
<1>2. /\ listedAt' \in 0 .. changes' /\ newest' \in listedAt' .. changes'
      /\ registered' \in BOOLEAN /\ registeredAt' \in 0 .. changes'
  BY <1>1 DEF TypeOK, listVars
<1>3. BagToSet(answers') \subseteq [at : 0 .. changes', keys : SUBSET Keys]
  <2>1. \A n \in 0 .. changes : n \in 0 .. changes'
    BY <1>1
  <2> QED
    BY <2>1 DEF TypeOK, listVars
<1>4. PendingInv'
  BY <1>1 DEF PendingInv
<1> QED
  BY <1>1, <1>2, <1>3, <1>4

LEMMA ActEffect ==
    ASSUME TypeOK, Act
    PROVE  acts \in 0 .. MaxActs /\ acts' \in 0 .. MaxActs
  BY BoundsAssumption DEF Act, TypeOK

LEMMA ReloadEffect ==
    ASSUME TypeOK, Reload
    PROVE  waiting' \in Nat /\ waiting' > 0 /\ answers' = answers
  BY DEF Reload, TypeOK

\* The type of the variables by group.
ServiceType ==
    /\ stored \subseteq Keys /\ listed \subseteq Keys /\ selected \subseteq listed
    /\ changes \in Nat /\ listedAt \in 0 .. changes /\ newest \in listedAt .. changes
    /\ registered \in BOOLEAN /\ registeredAt \in 0 .. changes /\ events \in Nat
    /\ waiting \in Nat /\ IsABag(answers)
    /\ BagToSet(answers) \subseteq [at : 0 .. changes, keys : SUBSET Keys]

EditorType ==
    /\ {showing, invalid, overlaid, renamed} \subseteq BOOLEAN
    /\ key \in Name /\ value \in Content /\ text \in Content \cup {Bad, None}
    /\ showing <=> text # None

DialogType ==
    /\ asked \subseteq Keys /\ removing \subseteq Keys /\ reads \subseteq Keys
    /\ awaited \in BOOLEAN
    /\ saves \subseteq [n : 0 .. MaxActs, key : Name, value : Content, answered : BOOLEAN]
    /\ acts \in 0 .. MaxActs

LEMMA TypeParts == /\ TypeOK <=> ServiceType /\ EditorType /\ DialogType
                   /\ TypeOK' <=> ServiceType' /\ EditorType' /\ DialogType'
  BY DEF TypeOK, ServiceType, EditorType, DialogType

\* The editor opens, or shows another record.
LEMMA ShowEffect ==
    ASSUME TypeOK, EditorShowsItsRecord, NEW name \in Name, NEW falsy \in BOOLEAN, Show(name, falsy)
    PROVE  EditorType' /\ EditorShowsItsRecord'
<1>1. /\ value' = [of |-> name, edited |-> FALSE, falsy |-> falsy] /\ value' \in Content
      /\ key' = name /\ showing' = TRUE /\ renamed' = FALSE /\ overlaid' = showing
      /\ invalid' = invalid /\ text' = IF showing THEN text ELSE TextOf(value')
  BY DEF Show, Content
<1>2. /\ TextOf(value') \in Content
      /\ ~falsy => TextOf(value') = value'
  BY <1>1 DEF TextOf, Content
<1>3. EditorType'
  BY <1>1, <1>2, TextAssumption DEF TypeOK, EditorType
<1> QED
  BY <1>1, <1>2, <1>3 DEF EditorShowsItsRecord

LEMMA HideEffect ==
    ASSUME TypeOK, Hide
    PROVE  EditorType' /\ EditorShowsItsRecord'
  BY DEF Hide, TypeOK, EditorType, EditorShowsItsRecord

LEMMA EditorKept ==
    ASSUME TypeOK, EditorShowsItsRecord, UNCHANGED editorVars
    PROVE  EditorType' /\ EditorShowsItsRecord'
  BY DEF TypeOK, EditorType, EditorShowsItsRecord, editorVars

LEMMA ListKept ==
    ASSUME TypeOK, PendingInv, UNCHANGED <<serviceVars, events, listVars>>
    PROVE  ServiceType' /\ PendingInv'
  BY DEF TypeOK, ServiceType, PendingInv, serviceVars, listVars

LEMMA DialogKept ==
    ASSUME TypeOK, UNCHANGED <<deleteVars, editVars, acts>>
    PROVE  DialogType'
  BY DEF TypeOK, DialogType, deleteVars, editVars

\* A listing is asked for, and no change is seen.
LEMMA ReloadList ==
    ASSUME TypeOK, PendingInv, Reload, events' \in Nat,
           UNCHANGED <<serviceVars, listed, listedAt, newest, selected>>
    PROVE  ServiceType' /\ PendingInv'
<1>1. waiting' \in Nat /\ waiting' > 0 /\ answers' = answers
  BY ReloadEffect
<1> QED
  BY <1>1 DEF TypeOK, ServiceType, PendingInv, serviceVars

-----------------------------------------------------------------------------
(* The steps. *)

\* A change of the service leaves the list with an event to see.
LEMMA ChangeStep ==
    ASSUME TypeOK, PendingInv, NEW keys \in SUBSET Keys, Store(keys), UNCHANGED listVars
    PROVE  ServiceType' /\ PendingInv'
<1>1. /\ stored' \subseteq Keys /\ events' \in Nat
      /\ listedAt' \in 0 .. changes' /\ newest' \in listedAt' .. changes'
      /\ registered' \in BOOLEAN /\ registeredAt' \in 0 .. changes'
      /\ BagToSet(answers') \subseteq [at : 0 .. changes', keys : SUBSET Keys]
      /\ PendingInv'
  BY StoreList
<1>2. changes' \in Nat
  BY StoreEffect
<1> QED
  BY <1>1, <1>2 DEF TypeOK, ServiceType, listVars

LEMMA ServiceStep ==
    ASSUME IInv, RegisterListener \/ OtherChange \/ ServeListing
    PROVE  IInv'
<1> USE DEF IInv
<1>1. EditorType' /\ EditorShowsItsRecord'
  BY EditorKept DEF RegisterListener, OtherChange, ServeListing
<1>2. DialogType'
  BY ActEffect DEF RegisterListener, OtherChange, ServeListing, TypeOK, DialogType, deleteVars, editVars
<1>3. CASE RegisterListener
  <2>1. ServiceType' /\ PendingInv'
    BY <1>3 DEF RegisterListener, TypeOK, ServiceType, PendingInv, listVars
  <2> QED
    BY <1>1, <1>2, <2>1, TypeParts
<1>4. CASE OtherChange
  <2>1. PICK k \in Keys : Store(stored \cup {k}) \/ Store(stored \ {k})
    BY <1>4 DEF OtherChange
  <2>2. stored \cup {k} \in SUBSET Keys /\ stored \ {k} \in SUBSET Keys /\ UNCHANGED listVars
    BY <1>4 DEF OtherChange, TypeOK
  <2>3. ServiceType' /\ PendingInv'
    BY <2>1, <2>2, ChangeStep
  <2> QED
    BY <1>1, <1>2, <2>3, TypeParts
<1>5. CASE ServeListing
  <2> DEFINE l == [at |-> changes, keys |-> stored]
  <2>1. /\ waiting' \in Nat /\ answers' = answers (+) SetToBag({l})
        /\ UNCHANGED <<serviceVars, events, listed, listedAt, newest, selected>>
    BY <1>5 DEF ServeListing, TypeOK
  <2>2. l.at = changes /\ l \in [at : 0 .. changes, keys : SUBSET Keys]
    BY DEF TypeOK
  <2> HIDE DEF l
  <2>3. IsABag(answers') /\ BagToSet(answers') = BagToSet(answers) \cup {l}
    BY <2>1, AddedToBag DEF TypeOK
  <2>4. ServiceType' /\ PendingInv'
    BY <2>1, <2>2, <2>3 DEF TypeOK, ServiceType, PendingInv, serviceVars
  <2> QED
    BY <1>1, <1>2, <2>4, TypeParts
<1> QED
  BY <1>3, <1>4, <1>5

LEMMA ServeSaveStep ==
    ASSUME IInv, NEW s \in saves, ServeSave(s)
    PROVE  IInv'
<1> USE DEF IInv
<1>1. EditorType' /\ EditorShowsItsRecord'
  BY EditorKept DEF ServeSave
<1>2. DialogType'
  <2>1. [s EXCEPT !.answered = TRUE]
           \in [n : 0 .. MaxActs, key : Name, value : Content, answered : BOOLEAN]
    BY DEF TypeOK
  <2> QED
    BY <2>1 DEF ServeSave, TypeOK, DialogType, deleteVars
<1>3. PICK k \in Keys : Store(stored \cup {k})
  BY DEF ServeSave
<1>4. stored \cup {k} \in SUBSET Keys /\ UNCHANGED listVars
  BY DEF ServeSave, TypeOK
<1>5. ServiceType' /\ PendingInv'
  BY <1>3, <1>4, ChangeStep
<1> QED
  BY <1>1, <1>2, <1>5, TypeParts

LEMMA RemoveStep ==
    ASSUME IInv, NEW k \in Keys, ServeRemove(k) \/ RemoveFails(k)
    PROVE  IInv'
<1> USE DEF IInv
<1>1. EditorType' /\ EditorShowsItsRecord'
  BY EditorKept DEF ServeRemove, RemoveFails
<1>2. DialogType'
  BY DEF ServeRemove, RemoveFails, TypeOK, DialogType, editVars
<1>3. ServiceType' /\ PendingInv'
  <2>1. CASE ServeRemove(k)
    <3>1. stored \ {k} \in SUBSET Keys /\ Store(stored \ {k}) /\ UNCHANGED listVars
      BY <2>1 DEF ServeRemove, TypeOK
    <3> QED
      BY <3>1, ChangeStep
  <2>2. CASE RemoveFails(k)
    BY <2>2, ListKept DEF RemoveFails
  <2> QED
    BY <2>1, <2>2
<1> QED
  BY <1>1, <1>2, <1>3, TypeParts

\* What the list does.
LEMMA ListStep ==
    ASSUME IInv, Event \/ Select \/ Deleted
    PROVE  IInv'
<1> USE DEF IInv
<1>1. EditorType' /\ EditorShowsItsRecord'
  BY EditorKept DEF Event, Select, Deleted
<1>2. DialogType'
  BY DEF Event, Select, Deleted, TypeOK, DialogType, deleteVars, editVars
<1>3. ServiceType' /\ PendingInv'
  <2>1. CASE Event
    <3>1. events' \in Nat
      BY <2>1 DEF Event, TypeOK
    <3> QED
      BY <2>1, <3>1, ReloadList DEF Event
  <2>2. CASE Select
    <3>1. selected' \subseteq listed
      BY <2>2 DEF Select, TypeOK
    <3> QED
      BY <2>2, <3>1 DEF Select, TypeOK, ServiceType, PendingInv, serviceVars
  <2>3. CASE Deleted
    <3>1. events' \in Nat
      BY <2>3 DEF Deleted, TypeOK
    <3> QED
      BY <2>3, <3>1, ReloadList DEF Deleted
  <2> QED
    BY <2>1, <2>2, <2>3
<1> QED
  BY <1>1, <1>2, <1>3, TypeParts

LEMMA ArriveStep ==
    ASSUME IInv, NEW l \in BagToSet(answers), Arrive(l)
    PROVE  IInv'
<1> USE DEF IInv
<1>1. EditorType' /\ EditorShowsItsRecord'
  BY EditorKept DEF Arrive
<1>2. DialogType'
  BY DialogKept DEF Arrive
<1>3. /\ listed' = l.keys /\ listedAt' = l.at /\ selected' = {}
      /\ newest' = IF l.at > newest THEN l.at ELSE newest
      /\ UNCHANGED <<stored, changes, registered, registeredAt, events, waiting>>
  BY DEF Arrive, Arrived, serviceVars
<1>4. l.at \in 0 .. changes /\ l.keys \subseteq Keys /\ newest \in 0 .. changes /\ changes \in Nat
  BY DEF TypeOK
<1>5. /\ IsABag(answers') /\ BagToSet(answers') \subseteq BagToSet(answers)
      /\ BagToSet(answers) \ {l} \subseteq BagToSet(answers')
  BY TakenFromBag DEF Arrive, TypeOK
<1>6. newest' \in listedAt' .. changes /\ newest' >= newest /\ (l.at = changes => newest' = changes)
  BY <1>3, <1>4
<1>7. ServiceType'
  BY <1>3, <1>4, <1>5, <1>6 DEF TypeOK, ServiceType
<1>8. PendingInv'
  <2>1. newest = changes => newest' = changes
    BY <1>3, <1>4
  <2> QED
    BY <1>3, <1>5, <1>6, <2>1 DEF PendingInv
<1> QED
  BY <1>1, <1>2, <1>7, <1>8, TypeParts

\* What the user does with dialogs, but for the editor's text and its answers.
LEMMA DialogStep ==
    ASSUME IInv, AskDelete \/ Confirm \/ Save \/ (\E k \in Keys : ClickRow(k)) \/ \E s \in saves : SaveFails(s)
    PROVE  IInv'
<1> USE DEF IInv
<1>1. EditorType' /\ EditorShowsItsRecord'
  BY EditorKept DEF AskDelete, Confirm, Save, ClickRow, SaveFails
<1>2. ServiceType' /\ PendingInv'
  BY ListKept DEF AskDelete, Confirm, Save, ClickRow, SaveFails
<1>3. DialogType'
  <2>1. CASE AskDelete
    <3>1. acts' \in 0 .. MaxActs
      BY <2>1, ActEffect DEF AskDelete
    <3> QED
      BY <2>1, <3>1 DEF AskDelete, TypeOK, DialogType, editVars
  <2>2. CASE Confirm
    BY <2>2 DEF Confirm, TypeOK, DialogType, editVars
  <2>3. CASE Save
    <3>1. acts \in 0 .. MaxActs /\ acts' \in 0 .. MaxActs
      BY <2>3, ActEffect DEF Save
    <3>2. [n |-> acts, key |-> key, value |-> value, answered |-> FALSE]
             \in [n : 0 .. MaxActs, key : Name, value : Content, answered : BOOLEAN]
      BY <3>1 DEF TypeOK
    <3> QED
      BY <2>3, <3>1, <3>2 DEF Save, TypeOK, DialogType, deleteVars
  <2>4. ASSUME NEW k \in Keys, ClickRow(k) PROVE DialogType'
    <3>1. acts' \in 0 .. MaxActs
      BY <2>4, ActEffect DEF ClickRow
    <3> QED
      BY <2>4, <3>1 DEF ClickRow, TypeOK, DialogType, deleteVars
  <2>5. ASSUME NEW s \in saves, SaveFails(s) PROVE DialogType'
    BY <2>5 DEF SaveFails, TypeOK, DialogType, deleteVars
  <2> QED
    BY <2>1, <2>2, <2>3, <2>4, <2>5
<1> QED
  BY <1>1, <1>2, <1>3, TypeParts

\* The editor opens or closes.
LEMMA EditorStep ==
    ASSUME IInv, OpenNew \/ Cancel \/ (\E k \in Keys : ShowRow(k)) \/ \E s \in saves : Saved(s)
    PROVE  IInv'
<1> USE DEF IInv
<1>1. CASE OpenNew
  <2>1. NewKey \in Name
    BY DEF Name
  <2>2. EditorType' /\ EditorShowsItsRecord'
    BY <1>1, <2>1, FALSE \in BOOLEAN, ShowEffect DEF OpenNew
  <2>3. ServiceType' /\ PendingInv'
    BY <1>1, ListKept DEF OpenNew
  <2>4. acts' \in 0 .. MaxActs
    BY <1>1, ActEffect DEF OpenNew
  <2>5. DialogType'
    BY <1>1, <2>4 DEF OpenNew, TypeOK, DialogType, deleteVars
  <2> QED
    BY <2>2, <2>3, <2>5, TypeParts
<1>2. CASE Cancel
  <2>1. EditorType' /\ EditorShowsItsRecord' /\ ServiceType' /\ PendingInv' /\ DialogType'
    BY <1>2, HideEffect, ListKept, DialogKept DEF Cancel
  <2> QED
    BY <2>1, TypeParts
<1>3. ASSUME NEW k \in Keys, ShowRow(k) PROVE IInv'
  <2>1. EditorType' /\ EditorShowsItsRecord'
    <3>1. k \in Name
      BY DEF Name
    <3>2. (\E falsy \in BOOLEAN : Show(k, falsy)) \/ UNCHANGED editorVars
      BY <1>3 DEF ShowRow
    <3> QED
      BY <3>1, <3>2, ShowEffect, EditorKept
  <2>2. ServiceType' /\ PendingInv'
    BY <1>3, ListKept DEF ShowRow
  <2>3. DialogType'
    BY <1>3 DEF ShowRow, TypeOK, DialogType, deleteVars
  <2> QED
    BY <2>1, <2>2, <2>3, TypeParts
<1>4. ASSUME NEW s \in saves, Saved(s) PROVE IInv'
  <2>1. EditorType' /\ EditorShowsItsRecord'
    BY <1>4, HideEffect DEF Saved
  <2>2. events' \in Nat
    BY <1>4 DEF Saved, TypeOK
  <2>3. ServiceType' /\ PendingInv'
    BY <1>4, <2>2, ReloadList DEF Saved
  <2>4. DialogType'
    BY <1>4 DEF Saved, TypeOK, DialogType, deleteVars
  <2> QED
    BY <2>1, <2>3, <2>4, TypeParts
<1> QED
  BY <1>1, <1>2, <1>3, <1>4

\* The text or the key of the editor is edited.
LEMMA EditStep ==
    ASSUME IInv, EditText \/ SpoilText \/ \E k \in Keys : EditKey(k)
    PROVE  IInv'
<1> USE DEF IInv
<1>1. ServiceType' /\ PendingInv'
  BY ListKept DEF EditText, SpoilText, EditKey
<1>2. DialogType'
  <2>1. acts' \in 0 .. MaxActs
    BY ActEffect DEF EditText, SpoilText, EditKey, TypeOK
  <2> QED
    BY <2>1 DEF EditText, SpoilText, EditKey, TypeOK, DialogType, deleteVars, editVars
<1>3. CASE EditText
  <2> DEFINE from == IF text = Bad THEN value ELSE text
  <2>1. from \in Content
    BY <1>3 DEF EditText, TypeOK
  <2>2. PICK falsy \in BOOLEAN : text' = [from EXCEPT !.edited = TRUE, !.falsy = falsy]
    BY <1>3 DEF EditText
  <2>3. showing /\ ~overlaid => from.of = value.of
    BY DEF EditorShowsItsRecord, TypeOK, Content, TextOf
  <2>4. /\ value' = text' /\ invalid' = FALSE
        /\ UNCHANGED <<showing, key, overlaid, renamed>> /\ showing
    BY <1>3 DEF EditText
  <2> HIDE DEF from
  <2>5. text' \in Content /\ text'.of = from.of
    BY <2>1, <2>2 DEF Content
  <2>6. EditorType'
    BY <2>4, <2>5, TextAssumption DEF TypeOK, EditorType
  <2>7. EditorShowsItsRecord'
    BY <2>3, <2>4, <2>5 DEF EditorShowsItsRecord
  <2> QED
    BY <1>1, <1>2, <2>6, <2>7, TypeParts
<1>4. CASE SpoilText
  <2>1. /\ text' = Bad /\ invalid' = TRUE /\ showing
        /\ UNCHANGED <<showing, key, value, overlaid, renamed>>
    BY <1>4 DEF SpoilText
  <2>2. EditorType'
    BY <2>1, TextAssumption DEF TypeOK, EditorType
  <2>3. EditorShowsItsRecord'
    BY <2>1 DEF EditorShowsItsRecord
  <2> QED
    BY <1>1, <1>2, <2>2, <2>3, TypeParts
<1>5. ASSUME NEW k \in Keys, EditKey(k) PROVE IInv'
  <2>1. /\ key' = k /\ renamed' = TRUE
        /\ UNCHANGED <<showing, value, text, invalid, overlaid>>
    BY <1>5 DEF EditKey
  <2>2. EditorType'
    BY <2>1 DEF TypeOK, EditorType, Name
  <2>3. EditorShowsItsRecord'
    BY <2>1 DEF EditorShowsItsRecord
  <2> QED
    BY <1>1, <1>2, <2>2, <2>3, TypeParts
<1> QED
  BY <1>3, <1>4, <1>5

-----------------------------------------------------------------------------
LEMMA InitInv == Init => IInv
<1> SUFFICES ASSUME Init PROVE IInv
  OBVIOUS
<1>1. NewKey \in Name /\ [of |-> NewKey, edited |-> FALSE, falsy |-> FALSE] \in Content
  BY DEF Name, Content
<1>2. TypeOK
  <2>1. IsABag(answers) /\ BagToSet(answers) = {}
    BY EmptyBagType DEF Init
  <2>2. ServiceType
    <3>1. stored \subseteq Keys
      BY DEF Init
    <3>2. changes = 0 /\ registeredAt = 0 /\ events = 0 /\ waiting = 1 /\ registered = FALSE
      BY DEF Init
    <3>3. listed = {} /\ selected = {} /\ listedAt = 0 /\ newest = 0
      BY DEF Init
    <3>4. IsABag(answers) /\ BagToSet(answers) = {}
      BY <2>1
    <3>5. /\ changes \in Nat /\ listedAt \in 0 .. changes /\ newest \in listedAt .. changes
          /\ registered \in BOOLEAN /\ registeredAt \in 0 .. changes /\ events \in Nat
          /\ waiting \in Nat
      <4>1. changes = 0 /\ listedAt = 0 /\ newest = 0 /\ registeredAt = 0
        BY <3>2, <3>3
      <4>2. changes \in Nat /\ listedAt \in 0 .. changes /\ newest \in listedAt .. changes
        BY <4>1
      <4>3. registeredAt \in 0 .. changes
        BY <4>1
      <4>4. events \in Nat /\ waiting \in Nat
        BY <3>2
      <4> QED
        BY <3>2, <4>2, <4>3, <4>4
    <3>6. BagToSet(answers) \subseteq [at : 0 .. changes, keys : SUBSET Keys]
      BY <3>4
    <3> QED
      BY <3>1, <3>3, <3>4, <3>5, <3>6 DEF ServiceType
  <2>3. EditorType
    BY <1>1 DEF Init, EditorType
  <2>4. DialogType
    <3>1. asked = {} /\ removing = {} /\ awaited = FALSE /\ reads = {} /\ saves = {} /\ acts = 0
      BY DEF Init
    <3>2. 0 \in 0 .. MaxActs
      BY BoundsAssumption
    <3> QED
      BY <3>1, <3>2 DEF DialogType
  <2> QED
    BY <2>2, <2>3, <2>4, TypeParts
<1>3. EditorShowsItsRecord /\ PendingInv
  BY DEF Init, EditorShowsItsRecord, PendingInv
<1> QED
  BY <1>2, <1>3 DEF IInv

\* What holds all the time of the page.
THEOREM Invariance == Spec => []IInv
<1>1. IInv /\ Next => IInv'
  BY ServiceStep, ServeSaveStep, RemoveStep, ListStep, ArriveStep, DialogStep, EditorStep, EditStep
     DEF Next
<1>2. IInv /\ UNCHANGED vars => IInv'
  <2> SUFFICES ASSUME IInv, UNCHANGED vars PROVE IInv'
    OBVIOUS
  <2>1. ServiceType' /\ PendingInv' /\ DialogType' /\ EditorType' /\ EditorShowsItsRecord'
    BY ListKept, DialogKept, EditorKept DEF vars, IInv
  <2> QED
    BY <2>1, TypeParts DEF IInv
<1> QED
  BY <1>1, <1>2, InitInv, PTL DEF Spec

\* Every variable stays within its type; no key that is gone is ticked.
THEOREM TypeCorrect == Spec => []TypeOK
  BY Invariance, PTL DEF IInv

\* The editor saves what it shows, to the key it was read from or that was typed.
THEOREM ShowsItsRecord == Spec => []EditorShowsItsRecord
  BY Invariance, PTL DEF IInv

\* When nothing is on its way, the page was brought the last listing.
THEOREM Settled == Spec => []ListSettles
<1>1. IInv => ListSettles
  BY EmptyBagType DEF IInv, TypeOK, PendingInv, ListSettles
<1> QED
  BY <1>1, Invariance, PTL
=============================================================================
