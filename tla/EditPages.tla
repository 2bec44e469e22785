----------------------------- MODULE EditPages -----------------------------
(* The editors of the simulator: the tree of nodes, messages and signals   *)
(* (gui/src/sim_profile_editor.cpp), whose form writes each change to the  *)
(* current item, and the list of simulated ECUs with the dialog that       *)
(* configures one (gui/src/simulator_panel_ecu.cpp).                       *)
EXTENDS Session

CONSTANT MaxItems  \* bounds the items of the tree, and the ECUs

VARIABLES
  tree,  \* items in preorder, m_current, the page of m_stack, the widgets of each page
  ecus   \* m_ecuSims, the current row, the open dialog

editVars == <<tree, ecus>>

Kinds == <<"node", "message", "signal">>
Depth(kind) == CHOOSE d \in 1..3 : Kinds[d] = kind

\* An item has a field that is kept as it is entered and one that is read from text: the ID of
\* a message, the scenario of a signal, here of one row at most.  A node has its name alone.
IdTexts == {"0x100", "0x1A0", "100", "1A0", "0x64", "0x0"}
RowTexts == {"none", "point", "no number"}
Texts(kind) == IF kind = "message" THEN IdTexts ELSE IF kind = "signal" THEN RowTexts ELSE {}

\* toUInt with base 0: what does not start with 0x is decimal, what is not a number is 0.
ReadId(text) ==
  CASE text = "0x100" -> 256 [] text = "0x1A0" -> 416 [] text \in {"100", "0x64"} -> 100 [] OTHER -> 0
\* saveScenarioTable: a row that is not numbers is left out.
ReadRows(text) == IF text = "point" THEN 1 ELSE 0
Parsed(kind, form) == <<form[1], IF kind = "message" THEN ReadId(form[2]) ELSE ReadRows(form[2])>>

\* What the form shows of an item; loadScenarioTable.
ShownId(id) == CASE id = 256 -> "0x100" [] id = 416 -> "0x1A0" [] id = 100 -> "0x64" [] OTHER -> "0x0"
ShownRows(rows) == IF rows = 1 THEN "point" ELSE "none"
FormOf(kind, fields) ==
  <<fields[1], IF kind = "message" THEN ShownId(fields[2]) ELSE ShownRows(fields[2])>>

\* entered is what the user last put in each field.
NewItem(kind) ==
  LET fields == IF kind = "message" THEN <<0, 256>> ELSE <<0, 0>> IN
  [kind |-> kind, fields |-> fields, entered |-> FormOf(kind, fields)]

TreeInit == tree =
  [items |-> <<>>, current |-> 0, page |-> "none", buttons |-> {},
   form |-> [k \in Range(Kinds) |-> <<0, "none">>], saved |-> FALSE]

\* The buttons that an item of this kind enables; Add Node always is.
ButtonsFor(kind) ==
  {"remove"} \cup (IF kind = "signal" THEN {} ELSE {"message"})
             \cup (IF kind = "node" THEN {} ELSE {"signal"})

\* onSelectionChanged: the form is filled with m_blockSync up.
Selected(t, i) ==
  LET k == t.items[i].kind IN
  [t EXCEPT !.current = i, !.page = k, !.buttons = ButtonsFor(k), !.form[k] = FormOf(k, t.items[i].fields)]

SelectItem ==
  /\ Input
  /\ \E i \in DOMAIN tree.items : i # tree.current /\ tree' = Selected(tree, i)

\* Where the subtree of item i ends.
EndOf(i) ==
  Max({j \in i..Len(tree.items) :
         \A k \in (i + 1)..j : Depth(tree.items[k].kind) > Depth(tree.items[i].kind)})

\* The ancestor of the current item, or itself, that the new one belongs to; 0 without one.
ParentFor(kind) ==
  LET above == {i \in 1..tree.current :
                  /\ Depth(tree.items[i].kind) = Depth(kind) - 1
                  /\ EndOf(i) >= tree.current} IN
  IF above = {} THEN 0 ELSE Max(above)

\* onAddNode, onAddMessage, onAddSignal: the item is appended to its parent and selected.
AddItem ==
  /\ Len(tree.items) < MaxItems /\ Input
  /\ \E kind \in Range(Kinds) :
       LET parent == IF kind = "node" THEN 0 ELSE ParentFor(kind)
           at == IF kind = "node" THEN Len(tree.items) + 1 ELSE EndOf(parent) + 1 IN
       /\ kind # "node" => parent > 0 /\ kind \in tree.buttons
       /\ tree' = Selected([tree EXCEPT !.items = InsertAt(@, at, NewItem(kind))], at)

\* syncMsg, syncSig, saveScenarioTable: what the form shows now is read into the item.
EditField ==
  /\ tree.page # "none" /\ Input
  /\ \E f \in 1..2 : \E v \in IF f = 1 THEN 0..1 ELSE Texts(tree.page) :
       LET form == [tree.form[tree.page] EXCEPT ![f] = v] IN
       tree' = [tree EXCEPT !.form[tree.page] = form,
                            !.items[tree.current].fields = Parsed(tree.page, form),
                            !.items[tree.current].entered[f] = v]

\* onRemove: the view moves its current item, which selects it; the form and the buttons are
\* then put away all the same.
RemoveItem ==
  /\ "remove" \in tree.buttons /\ Input
  /\ LET i == tree.current
         gone == i..EndOf(i)
         rest == SubSeq(tree.items, 1, i - 1) \o SubSeq(tree.items, Max(gone) + 1, Len(tree.items)) IN
     \E c \in DOMAIN rest \cup (IF rest = <<>> THEN {0} ELSE {}) :
       tree' = [tree EXCEPT !.items = rest, !.current = c, !.page = "none", !.buttons = {},
                  !.form = IF c = 0 THEN @ ELSE [@ EXCEPT ![rest[c].kind] = FormOf(rest[c].kind, rest[c].fields)]]

\* onAccept: refused without a node that has a message; a file that cannot be written too.
AcceptProfile ==
  /\ Input
  /\ \E i \in DOMAIN tree.items : tree.items[i].kind = "message"
  /\ tree' = [tree EXCEPT !.saved = TRUE]

TreeNext == SelectItem \/ AddItem \/ EditField \/ RemoveItem \/ AcceptProfile
TreeReacts == FALSE

----------------------------------------------------------------------------
\* A table of the dialog holds a number of rows; the defaults are one row.
EcuInit == ecus =
  [sims |-> <<>>, row |-> 0, open |-> FALSE, target |-> 0, dids |-> 0, dtcs |-> 0,
   touched |-> FALSE, refilled |-> FALSE]

\* setConfig fills an empty table with defaults.
Refilled(rows) == IF rows = 0 THEN 1 ELSE rows

\* onAddEcu (target 0) and onEditEcu, up to the dialog.
OpenEcu ==
  /\ ~ecus.open /\ Input
  /\ \E t \in {0, ecus.row} :
       LET dids == IF t = 0 THEN 0 ELSE ecus.sims[t].dids
           dtcs == IF t = 0 THEN 0 ELSE ecus.sims[t].dtcs IN
       /\ t = 0 => Len(ecus.sims) < MaxItems
       /\ ecus' = [ecus EXCEPT !.open = TRUE, !.target = t, !.touched = FALSE,
                               !.dids = Refilled(dids), !.dtcs = Refilled(dtcs)]

EditTables ==
  /\ ecus.open /\ Input
  /\ \E d \in 0..2, c \in 0..2 : ecus' = [ecus EXCEPT !.dids = d, !.dtcs = c, !.touched = TRUE]

\* refreshEcuList: clearing the list leaves no row current.
Refreshed(s, sims) == [s EXCEPT !.sims = sims, !.open = FALSE, !.row = 0]

CloseEcu ==
  /\ ecus.open /\ Input
  /\ LET cfg == [dids |-> ecus.dids, dtcs |-> ecus.dtcs] IN
     \/ ecus' = [ecus EXCEPT !.open = FALSE]
     \/ /\ ecus.target = 0
        /\ ecus' = Refreshed(ecus, Append(ecus.sims, cfg))
     \/ /\ ecus.target > 0
        /\ ecus' = [Refreshed(ecus, [ecus.sims EXCEPT ![ecus.target] = cfg])
                      EXCEPT !.refilled = @ \/ (~ecus.touched /\ cfg # ecus.sims[ecus.target]
                                                /\ 0 \notin Range(ecus.sims[ecus.target]))]

SelectEcu ==
  /\ ~ecus.open /\ Input
  /\ \E r \in DOMAIN ecus.sims : ecus' = [ecus EXCEPT !.row = r]

RemoveEcu ==
  /\ ~ecus.open /\ ecus.row > 0 /\ Input
  /\ ecus' = Refreshed(ecus, RemoveAt(ecus.sims, ecus.row))

EcuNext == OpenEcu \/ EditTables \/ CloseEcu \/ SelectEcu \/ RemoveEcu
EcuReacts == FALSE

----------------------------------------------------------------------------
\* Every item holds what is read from the last entry made in each of its fields, whatever is
\* selected, added and removed around it (an ID entered without its 0x is read as decimal, or
\* as 0); what the form in view shows reads as the item it belongs to, so that a change of
\* one field changes no other.
TreeSound ==
  /\ \A i \in DOMAIN tree.items : tree.items[i].fields = Parsed(tree.items[i].kind, tree.items[i].entered)
  /\ tree.page # "none" =>
       /\ tree.current \in DOMAIN tree.items /\ tree.page = tree.items[tree.current].kind
       /\ Parsed(tree.page, tree.form[tree.page]) = tree.items[tree.current].fields
  /\ tree.items # <<>> => tree.items[1].kind = "node"

\* The row of the ECU list is one of it, and a configuration accepted as it was shown is
\* left as it was -- unless a table of it was empty: setConfig puts the defaults back.
EcuSound ==
  /\ ecus.row \in 0..Len(ecus.sims) /\ (ecus.open => ecus.target \in {0, ecus.row})
  /\ ~ecus.refilled
============================================================================
