---------------------------- MODULE BuilderPage ----------------------------
(* The DBC builder: identifiers seen or defined, the bits of a frame, the  *)
(* form of a signal, the table of the message's signals (gui/src/          *)
(* dbc_builder_panel.cpp, dbc_builder_panel_signals.cpp,                   *)
(* dbc_builder_panel_bitgrid.cpp), and where a signal's bits lie           *)
(* (dbc/src/dbc_signal.cpp).                                               *)
EXTENDS Session

VARIABLE
  builder  \* m_db and the copies the other pages have, the form, the table, m_editingIdx

BuildIds == 1..2
SignalNames == {"a", "b"}
Starts == {0, 60}
Lengths == {4, 8}
NoName == "none"
NoMessage == [label |-> NoName, sigs |-> <<>>]
NoDb == [i \in BuildIds |-> NoMessage]
LoadedDb == [NoDb EXCEPT ![1] = [label |-> "given", sigs |->
  <<[name |-> "a", start |-> 0, len |-> 8, order |-> "le"],
    [name |-> "b", start |-> 60, len |-> 4, order |-> "be"]>>]]

\* The copies: of the monitor, the graph, the statistics, the validator and the verification
\* (told), and of the Protocols page, which hears of a file but not of a change.
LoadedCopies(db) == [told |-> db, protocols |-> db, since |-> "load"]

\* opened is the name of the signal that Edit was clicked for, moved that one was deleted
\* since; stale that the selection was dropped without a new preview.
BuilderInit == builder =
  [list |-> {}, sel |-> 0, dlc |-> [i \in BuildIds |-> 0], db |-> NoDb,
   others |-> LoadedCopies(NoDb),
   form |-> [name |-> NoName, start |-> 0, len |-> 8, order |-> "le"], field |-> NoName, chosen |-> {},
   editing |-> 0, table |-> <<>>, pending |-> FALSE, preview |-> "none",
   opened |-> NoName, moved |-> FALSE, stale |-> TRUE]

SigsOf(b) == IF b.sel = 0 THEN <<>> ELSE b.db[b.sel].sigs
InRange(form) == form.start + form.len <= 64

\* extract_le: from the least significant bit upwards.  extract_be: from the most
\* significant one downwards, and on at the top of the next byte.
LastByte(sig) ==
  IF sig.order = "le" THEN (sig.start + sig.len - 1) \div 8
  ELSE LET place == 8 * (sig.start \div 8) + 7 - (sig.start % 8) IN (place + sig.len - 1) \div 8
Extracts(sig, dlc) == LastByte(sig) < dlc

\* refreshSignalTable, refreshGrid.
TableOf(b) ==
  [i \in DOMAIN SigsOf(b) |->
     [name |-> SigsOf(b)[i].name, value |-> Extracts(SigsOf(b)[i], b.dlc[b.sel])]]
TableRefreshed(b) == [b EXCEPT !.table = TableOf(b)]

\* updatePreview.
PreviewOf(b) ==
  IF b.sel = 0 THEN "no message" ELSE IF b.dlc[b.sel] = 0 THEN "no frame"
  ELSE IF ~InRange(b.form) THEN "invalid"
  ELSE IF Extracts(b.form, b.dlc[b.sel]) THEN "value" ELSE "failed"
Previewed(b) == [b EXCEPT !.preview = PreviewOf(b), !.stale = FALSE]

EditCancelled(b) == [b EXCEPT !.editing = 0, !.chosen = {}]

\* What the form's range covers in the grid; setSelection.
BitsOf(form) == form.start..(form.start + form.len - 1)

\* dbcUpdated, and its slot in the main window.
Published(b) ==
  [b EXCEPT !.others = [told |-> b.db, protocols |-> b.others.protocols, since |-> "change"]]

----------------------------------------------------------------------------
\* onFrameReceived; the table follows at most every 200 ms.
BuilderFrame ==
  /\ Input
  /\ \E id \in BuildIds, dlc \in {1, 8} :
       LET b == [builder EXCEPT !.dlc[id] = dlc, !.list = @ \cup {id}] IN
       builder' = IF id = b.sel THEN Previewed([b EXCEPT !.pending = TRUE]) ELSE b
TableTick ==
  /\ builder.pending /\ Step
  /\ builder' = TableRefreshed([builder EXCEPT !.pending = FALSE])

FieldOf(b, id) == IF b.db[id].label = NoName THEN "default" ELSE b.db[id].label

\* A plausible bug: the edit goes on with the message chosen now.
SelectedEditing(b, id) == Previewed(TableRefreshed([b EXCEPT !.sel = id, !.field = FieldOf(b, id)]))

\* onIdSelected.
SelectedId(b, id) ==
  Previewed(TableRefreshed(EditCancelled([b EXCEPT !.sel = id, !.field = FieldOf(b, id)])))
SelectBuildId ==
  /\ Input
  /\ \E id \in builder.list \ {builder.sel} : builder' = SelectedId(builder, id)

\* Dragging over the grid, which shows when there is a frame; onBitsSelected.
DragBits ==
  /\ builder.sel # 0 /\ builder.dlc[builder.sel] > 0 /\ Input
  /\ \E s \in Starts, n \in Lengths :
       LET form == [builder.form EXCEPT !.start = s, !.len = n] IN
       /\ InRange(form)
       /\ builder' = Previewed([builder EXCEPT !.form = form, !.chosen = BitsOf(form)])

\* onFormBitsChanged, and the other fields.
SpinBits ==
  /\ Input
  /\ \E f \in {[builder.form EXCEPT !.start = s] : s \in Starts}
              \cup {[builder.form EXCEPT !.len = n] : n \in Lengths} :
       /\ f # builder.form
       /\ builder' = Previewed([builder EXCEPT !.form = f,
                                  !.chosen = IF InRange(f) THEN BitsOf(f) ELSE @])
SetOrder ==
  Input /\ builder' = Previewed([builder EXCEPT !.form.order = IF @ = "le" THEN "be" ELSE "le"])
SetName ==
  /\ Input
  /\ \E n \in SignalNames : n # builder.form.name /\ builder' = [builder EXCEPT !.form.name = n]

\* onMsgNameChanged: nobody is told.
RenameMessage ==
  /\ builder.field # "mine" /\ Input
  /\ builder' = [builder EXCEPT !.field = "mine", !.db = [id \in BuildIds |->
                   IF id = builder.sel /\ @[id] # NoMessage THEN [@[id] EXCEPT !.label = "mine"]
                   ELSE @[id]]]

Changed(b) == Published(TableRefreshed(b))

\* onAddSignal: what is refused leaves everything; an index past the end too.
AddSignal ==
  /\ builder.sel # 0 /\ builder.form.name # NoName /\ InRange(builder.form) /\ Input
  /\ LET sigs == SigsOf(builder)
         at == builder.editing IN
     /\ \A i \in DOMAIN sigs \ {at} : sigs[i].name # builder.form.name
     /\ \/ /\ at \in DOMAIN sigs
           /\ builder' = Changed([builder EXCEPT !.db[builder.sel].sigs[at] = builder.form, !.editing = 0])
        \/ /\ at = 0
           /\ builder' = Changed([builder EXCEPT
                !.db[builder.sel] = [label |-> IF @ = NoMessage THEN builder.field ELSE @.label,
                                     sigs |-> Append(sigs, builder.form)],
                !.form.name = NoName, !.chosen = {}])

\* onEditSignal, of a row of the table.
EditSignal ==
  /\ Input
  /\ \E i \in DOMAIN builder.table :
       /\ i \in DOMAIN SigsOf(builder)
       /\ LET sig == SigsOf(builder)[i] IN
          builder' = Previewed([builder EXCEPT !.form = sig, !.chosen = BitsOf(sig), !.editing = i,
                                  !.opened = builder.table[i].name, !.moved = FALSE])
CancelEdit == builder.editing # 0 /\ Input /\ builder' = EditCancelled(builder)

\* onDeleteSignal: the edit keeps its index.
DeleteSignal ==
  /\ Input
  /\ \E i \in DOMAIN builder.table :
       /\ i \in DOMAIN SigsOf(builder)
       /\ builder' = Changed([builder EXCEPT !.db[builder.sel].sigs = RemoveAt(@, i),
                                             !.moved = @ \/ i <= builder.editing])

\* loadDbc: the list has the defined identifiers and those only seen; every page is told.
LoadBuilder ==
  /\ Input
  /\ \E db \in {LoadedDb, NoDb} :
       builder' = TableRefreshed([builder EXCEPT !.db = db, !.others = LoadedCopies(db), !.sel = 0,
         !.stale = TRUE, !.list = {id \in BuildIds : db[id] # NoMessage \/ builder.dlc[id] > 0}])

BuilderReacts == TableTick
BuilderNext ==
  \/ BuilderFrame \/ SelectBuildId \/ DragBits \/ SpinBits \/ SetOrder \/ SetName \/ RenameMessage
  \/ AddSignal \/ EditSignal \/ CancelEdit \/ DeleteSignal \/ LoadBuilder \/ BuilderReacts

\* Update changes the signal whose Edit was clicked, as long as none before it was deleted
\* meanwhile (then the next one is overwritten); no message has two signals of a name; the
\* rows are the message's signals, so that Edit and Del act on what they stand beside; the
\* pages that are told have the same signals, and the Protocols page until a signal is
\* changed here; the bits marked are those of the form; and the preview is that of the form
\* and the latest frame.
BuilderSound ==
  /\ builder.editing # 0 /\ builder.sel # 0 /\ ~builder.moved =>
       /\ builder.editing \in DOMAIN SigsOf(builder)
       /\ SigsOf(builder)[builder.editing].name = builder.opened
  /\ \A id \in BuildIds :
       LET sigs == builder.db[id].sigs IN
       /\ \A i, j \in DOMAIN sigs : sigs[i].name = sigs[j].name => i = j
       /\ sigs = builder.others.told[id].sigs
       /\ builder.others.since = "load" => sigs = builder.others.protocols[id].sigs
  /\ builder.pending \/ builder.table = TableOf(builder)
  /\ [i \in DOMAIN builder.table |-> builder.table[i].name]
       = [i \in DOMAIN SigsOf(builder) |-> SigsOf(builder)[i].name]
  /\ builder.chosen = {} \/ ~InRange(builder.form) \/ builder.chosen = BitsOf(builder.form)
  /\ builder.stale \/ builder.preview = PreviewOf(builder)
============================================================================
