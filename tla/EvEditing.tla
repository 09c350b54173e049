------------------------------- MODULE EvEditing -------------------------------
(***************************************************************************)
(* What the user writes into a document: form fields and annotations in    *)
(* libview/ev-view.c and ev-annotation-window.c, kept by backend/pdf, saved*)
(* and asked for by shell/ev-window.c.                                     *)
(*                                                                         *)
(* A text is the number of the call that wrote it.  Text and choice fields *)
(* have a widget while they are edited, a check button has none, and the   *)
(* note is an annotation with a popup window.  The worker has the document *)
(* lock while it writes the document: the annotations wait for it, the form*)
(* fields do not.                                                          *)
(***************************************************************************)
EXTENDS Integers, Sequences

CONSTANTS
  EditCalls,  \* bound: calls of the user
  EditSaves   \* bound: saves

ASSUME EditAssumption == EditCalls \in Nat /\ EditSaves \in Nat

VARIABLES
  edDoc,    \* the document and its back end: contents, modified, and which document it is
  widget,   \* the child of the view that edits a field
  popup,    \* the window of the annotation
  saves,    \* the save jobs that were pushed and have not ended, the running one first
  edWin,    \* the window, its dialogs, the idle sources of the view; calls; what was typed
            \* into the document and what of it was loaded or saved last
  files     \* what the file of the document and the copy contain

editVars == <<edDoc, widget, popup, saves, edWin, files>>

Fields == {"text", "choice"}
Items == Fields \cup {"check", "note"}
NoNote == -1
NoWidget == [item |-> "none", text |-> 0, changed |-> FALSE]
NoPopup == [on |-> FALSE, of |-> 0, visible |-> FALSE, contents |-> 0, text |-> 0,
            connected |-> FALSE, removed |-> FALSE]

Desk == [d |-> edDoc, x |-> widget, p |-> popup, s |-> saves, w |-> edWin, f |-> files]
DeskIs(k) == /\ edDoc' = k.d /\ widget' = k.x /\ popup' = k.p
             /\ saves' = k.s /\ edWin' = k.w /\ files' = k.f

\* The worker has the document lock.
Writing(k) == k.s # <<>> /\ Head(k.s).at \in {"writing", "written"}

-----------------------------------------------------------------------------
(* The form fields.                                                        *)

\* pdf_document_forms_form_field_text_set_text, _button_set_state and the setters of
\* a choice: without the lock.
SetField(k, item, value) ==
  [k EXCEPT !.d.value[item] = value, !.d.modified = TRUE,
            !.w.raced = @ \/ (k.s # <<>> /\ Head(k.s).at = "written" /\ Head(k.s).of = k.d.number)]

\* ev_view_form_field_text_save, ev_view_form_field_choice_save
SaveField(k) ==
  IF ~k.x.changed THEN k ELSE [SetField(k, k.x.item, k.x.text) EXCEPT !.x.changed = FALSE]

\* Mutant: the widget goes with what was written into it.
RemoveAllUnsaved(k) == [k EXCEPT !.x = NoWidget]

\* ev_view_remove_all; the widget is saved by its weak reference.
RemoveAll(k) == [SaveField(k) EXCEPT !.x = NoWidget]

\* ev_annotation_set_contents and ev_view_annotation_save_contents, which is connected
\* to the annotation the window was made for.  That of another document, or one
\* that was removed, marks this document as modified all the same.
SyncContents(k) ==
  IF ~k.p.on \/ k.p.contents = k.p.text THEN k
  ELSE LET c == [k EXCEPT !.p.contents = k.p.text]
       IN IF ~k.p.connected THEN c
          ELSE [c EXCEPT !.d.modified = TRUE,
                         !.d.value["note"] = IF k.p.of = k.d.number /\ ~k.p.removed
                                               THEN k.p.text ELSE @]

MayEdit == edWin.open /\ edWin.dialog = "none" /\ edWin.calls < EditCalls
EditCall == [Desk EXCEPT !.w.calls = @ + 1]

\* The keyboard goes to the view or to a dialog: ev_view_form_field_text_focus_out,
\* ev_annotation_window_ungrab_focus, ev_annotation_window_focus_out_event.  A choice
\* has no handler.
EntryLeft(k) == IF k.x.item = "text" THEN SaveField(k) ELSE k
FocusLost(k) == EntryLeft(SyncContents(k))

\* The sync of an annotation waits for the lock.
NotBlocked == Writing(Desk) => ~popup.on \/ popup.contents = popup.text

\* ev_view_button_press_event on a field that has a widget
\* (ev_view_handle_form_field): the text comes from the document.
ClickField(item) ==
  /\ MayEdit /\ NotBlocked
  /\ DeskIs([RemoveAll(FocusLost(EditCall)) EXCEPT
               !.x = [item |-> item, text |-> edDoc.value[item], changed |-> FALSE]])

\* ev_view_form_field_button_create_widget
ClickButton ==
  /\ MayEdit /\ NotBlocked
  /\ DeskIs(SetField(RemoveAll(FocusLost(EditCall)), "check", edWin.calls + 1))

\* ev_view_button_press_event beside the fields; ev_view_rotation_changed_cb
ClickElsewhere == MayEdit /\ NotBlocked /\ DeskIs(RemoveAll(FocusLost(EditCall)))
RotateView == MayEdit /\ DeskIs(RemoveAll(EditCall))

\* ev_view_form_field_text_changed, ev_view_form_field_choice_changed.  What differs
\* from the text before by the case of its letters only does not count as changed.
\* An item of a choice takes the widget away when the view is idle.
TypeText(caseOnly) ==
  /\ MayEdit /\ widget.item = "text"
  /\ DeskIs(IF caseOnly /\ widget.text # 0 THEN EditCall
            ELSE [EditCall EXCEPT !.x.text = edWin.calls + 1, !.x.changed = TRUE,
                                  !.w.typed["text"] = edWin.calls + 1])
ChooseItem ==
  /\ MayEdit /\ widget.item = "choice"
  /\ DeskIs([EditCall EXCEPT !.x.text = edWin.calls + 1, !.x.changed = TRUE,
                             !.w.typed["choice"] = edWin.calls + 1, !.w.idles = @ + 1])

\* "activate" of the entry: ev_view_form_field_destroy
ActivateField ==
  MayEdit /\ widget.item = "text" /\ DeskIs([EditCall EXCEPT !.w.idles = @ + 1])

\* ev_view_forms_remove_widgets: whatever widget there is by then
RemoveWidgets ==
  /\ edWin.open /\ edWin.idles > 0
  /\ DeskIs(RemoveAll([Desk EXCEPT !.w.idles = @ - 1]))

-----------------------------------------------------------------------------
(* The annotation.                                                         *)

\* ev_view_create_annotation and pdf_document_annotations_add_annotation
CreateNote ==
  /\ MayEdit /\ ~Writing(Desk) /\ edDoc.value["note"] = NoNote /\ ~popup.on
  /\ DeskIs([FocusLost(EditCall) EXCEPT
               !.d.value["note"] = 0, !.d.modified = TRUE, !.w.typed["note"] = 0,
               !.p = [NoPopup EXCEPT !.on = TRUE, !.of = edDoc.number, !.visible = TRUE,
                                     !.connected = TRUE]])

\* show_annotation_windows when the page is drawn: a window for an annotation that has
\* none, and ev_annotation_window_set_annotation for one with the name of an
\* annotation of the document before.  Its text is written into the new one, whose
\* changes nobody listens to.
ShowNote ==
  /\ edWin.open /\ edDoc.value["note"] # NoNote /\ popup.of # edDoc.number
  /\ DeskIs(IF popup.on THEN [Desk EXCEPT !.p = [@ EXCEPT !.of = edDoc.number,
                                                          !.contents = popup.text,
                                                          !.connected = FALSE,
                                                          !.removed = FALSE]]
            ELSE [Desk EXCEPT !.p = [NoPopup EXCEPT
                    !.on = TRUE, !.of = edDoc.number, !.connected = TRUE,
                    !.contents = edDoc.value["note"], !.text = edDoc.value["note"]]])

\* ev_view_handle_annotation; ev_annotation_window_close
OpenNote ==
  /\ MayEdit /\ NotBlocked /\ popup.on /\ popup.of = edDoc.number /\ ~popup.visible
  /\ DeskIs([FocusLost(EditCall) EXCEPT !.p.visible = TRUE])
CloseNote ==
  /\ MayEdit /\ NotBlocked /\ popup.visible
  /\ DeskIs([SyncContents(EditCall) EXCEPT !.p.visible = FALSE])

\* Writing in the popup takes the keyboard from the field.
TypeNote ==
  /\ MayEdit /\ popup.visible
  /\ DeskIs([EntryLeft(EditCall) EXCEPT
               !.p.text = edWin.calls + 1,
               !.w.typed["note"] =
                 IF popup.connected /\ popup.of = edDoc.number /\ ~popup.removed
                   THEN edWin.calls + 1 ELSE @])

\* ev_view_popup_cmd_remove_annot: the window and the mapping stay.
RemoveNote ==
  /\ MayEdit /\ ~Writing(Desk) /\ popup.on /\ popup.of = edDoc.number /\ ~popup.removed
  /\ DeskIs([FocusLost(EditCall) EXCEPT !.d.value["note"] = NoNote, !.d.modified = TRUE,
                                        !.w.typed["note"] = NoNote, !.p.removed = TRUE])

-----------------------------------------------------------------------------
(* Saving: ev_job_save_run and pdf_document_save.                          *)

\* ev_window_clear_save_job: one that was queued is dropped, one that runs goes
\* on and nobody hears of its end.
ClearSave(k) ==
  [k EXCEPT !.s = IF k.s = <<>> THEN <<>>
                  ELSE IF Head(k.s).at = "queued" THEN <<>>
                  ELSE <<Head(k.s)>>]

\* ev_window_cmd_save_as, and file_save_dialog_response_cb
SaveAs ==
  /\ MayEdit /\ NotBlocked
  /\ DeskIs([FocusLost(EditCall) EXCEPT !.w.dialog = "chooser"])
Chosen(file) ==
  /\ edWin.dialog = "chooser" /\ edWin.saves < EditSaves
  /\ LET c == [ClearSave(Desk) EXCEPT !.w.dialog = "none", !.w.saves = @ + 1]
     IN DeskIs([c EXCEPT !.s = Append(@, [at |-> "queued", to |-> file,
                                          of |-> edDoc.number, value |-> edDoc.value,
                                          reset |-> FALSE])])
ChooserCancelled == edWin.dialog = "chooser" /\ DeskIs([Desk EXCEPT !.w.dialog = "none"])

SaveAt(at) == saves # <<>> /\ Head(saves).at = at
NextAt(k, at) == [k EXCEPT !.s[1].at = at]

BeginSave == SaveAt("queued") /\ DeskIs(NextAt(Desk, "writing"))

\* poppler_document_save, of the document that the job was made for
WriteDocument ==
  /\ SaveAt("writing")
  /\ DeskIs([NextAt(Desk, "written") EXCEPT !.s[1].value =
                IF saves[1].of = edDoc.number THEN edDoc.value ELSE @])
WriteFails == SaveAt("writing") /\ DeskIs(NextAt(Desk, "failed"))

\* The flags of pdf_document_save
ResetModified ==
  /\ SaveAt("written")
  /\ DeskIs(IF saves[1].of # edDoc.number THEN NextAt(Desk, "sending")
            ELSE [NextAt(Desk, "sending") EXCEPT !.s[1].reset = edDoc.modified,
                                                 !.d.modified = FALSE])

\* The compression, ev_xfer_uri_simple and ev_file_copy_metadata
Transfer(ok) ==
  /\ SaveAt("sending")
  /\ DeskIs(IF ok THEN [NextAt(Desk, "ended") EXCEPT
                          !.f[Head(saves).to] = Head(saves).value,
                          !.w.kept = IF Head(saves).of = edDoc.number
                                       THEN Head(saves).value ELSE @]
            ELSE [NextAt(Desk, "failed") EXCEPT !.w.doubt = @ \/ Head(saves).reset])

\* ev_window_save_job_cb
SaveEnded ==
  /\ saves # <<>> /\ Head(saves).at \in {"ended", "failed"}
  /\ DeskIs([Desk EXCEPT !.s = Tail(@)])

-----------------------------------------------------------------------------
(* The window.                                                             *)

\* The document of the model is replaced by what the file contains:
\* ev_view_document_changed_cb.  The popups stay, and a save job keeps its document.
ReloadEdited ==
  /\ edWin.open /\ edDoc.number < EditCalls /\ edWin.calls < EditCalls
  /\ LET c == RemoveAll(EditCall)
     IN DeskIs([c EXCEPT !.d = [number |-> edDoc.number + 1, value |-> files["own"],
                                modified |-> FALSE],
                         !.s = [i \in DOMAIN saves |->
                                 [saves[i] EXCEPT
                                    !.reset = FALSE,
                                    !.value = IF saves[i].at \in {"queued", "writing"}
                                                 /\ saves[i].of = edDoc.number
                                                THEN c.d.value ELSE saves[i].value]],
                         !.w.typed = files["own"], !.w.kept = files["own"],
                         !.w.doubt = FALSE, !.w.raced = FALSE])

\* Mutant: a save job under way is taken for the saving of everything.
CloseEditedWhileSaving ==
  /\ MayEdit /\ (edDoc.modified => NotBlocked)
  /\ DeskIs(IF edDoc.modified /\ saves = << >>
            THEN [FocusLost(EditCall) EXCEPT !.w.dialog = "modified"]
            ELSE [ClearSave(EditCall) EXCEPT !.w.open = FALSE])

\* ev_window_close and ev_window_check_document_modified
CloseEdited ==
  /\ MayEdit /\ (edDoc.modified => NotBlocked)
  /\ DeskIs(IF edDoc.modified THEN [FocusLost(EditCall) EXCEPT !.w.dialog = "modified"]
            ELSE [ClearSave(EditCall) EXCEPT !.w.open = FALSE])

\* document_modified_confirmation_dialog_response
ModifiedResponse(response) ==
  /\ edWin.dialog = "modified"
  /\ DeskIs(CASE response = "yes" -> [Desk EXCEPT !.w.dialog = "chooser"]
              [] response = "no" -> [ClearSave(Desk) EXCEPT !.w.dialog = "none", !.w.open = FALSE]
              [] response = "cancel" -> [Desk EXCEPT !.w.dialog = "none"])

-----------------------------------------------------------------------------
Unwritten == [item \in Items |-> IF item = "note" THEN NoNote ELSE 0]
EditInit ==
  /\ edDoc = [number |-> 1, value |-> Unwritten, modified |-> FALSE]
  /\ widget = NoWidget /\ popup = NoPopup /\ saves = <<>>
  /\ edWin = [open |-> TRUE, dialog |-> "none", idles |-> 0,
              typed |-> Unwritten, kept |-> Unwritten, raced |-> FALSE, doubt |-> FALSE,
              calls |-> 0, saves |-> 0]
  /\ files = [own |-> Unwritten, copy |-> Unwritten]

EditForms ==
  \/ \E item \in Fields : ClickField(item)
  \/ ClickButton \/ ClickElsewhere \/ RotateView \/ ChooseItem \/ ActivateField
  \/ \E caseOnly \in BOOLEAN : TypeText(caseOnly)
  \/ RemoveWidgets
EditNotes == CreateNote \/ ShowNote \/ OpenNote \/ CloseNote \/ TypeNote \/ RemoveNote
SaveWork ==
  \/ BeginSave \/ WriteDocument \/ WriteFails \/ ResetModified \/ SaveEnded
  \/ \E ok \in BOOLEAN : Transfer(ok)
EditWindow ==
  \/ SaveAs \/ ChooserCancelled \/ ReloadEdited \/ CloseEdited
  \/ \E file \in DOMAIN files : Chosen(file)
  \/ \E response \in {"yes", "no", "cancel"} : ModifiedResponse(response)

EditNext == EditForms \/ EditNotes \/ SaveWork \/ EditWindow
EditSpec == EditInit /\ [][EditNext]_editVars

-----------------------------------------------------------------------------
(* Properties.                                                             *)

EditTypeOK ==
  /\ edDoc.value \in [Items -> NoNote .. EditCalls] /\ edDoc.modified \in BOOLEAN
  /\ edDoc.number \in 1 .. EditCalls + 1
  /\ widget.item \in Fields \cup {"none"} /\ (widget.item = "none" => ~widget.changed)
  /\ popup.text \in NoNote .. EditCalls /\ (popup.visible => popup.on)
  /\ Len(saves) <= 2
  /\ edWin.dialog \in {"none", "chooser", "modified"} /\ edWin.idles \in 0 .. EditCalls

\* What is only in the widget or in the popup so far: the document does not know it.
InWidget(item) == widget.item = item /\ widget.changed
InPopup ==
  popup.connected /\ popup.of = edDoc.number /\ ~popup.removed /\ popup.text # popup.contents
Uncommitted(item) == InWidget(item) \/ (item = "note" /\ InPopup)

\* The saving has taken the flag away and the contents are not in a file: they are under
\* way, did not arrive, or a field was set between the writing and the resetting.
SaveInDoubt ==
  \/ edWin.raced \/ edWin.doubt
  \/ \E i \in DOMAIN saves : saves[i].at = "sending" /\ saves[i].value = edDoc.value

\* Whatever takes a widget or the keyboard away (a click, a rotation, an idle source,
\* a dialog, another field), also when the window is closed meanwhile: what was typed
\* last into this document is in the document, or still in the widget or the popup,
\* exactly as it was typed.  A reload begins with what the file contains.
EditsReachDocument ==
  /\ \A item \in Fields :
       edWin.typed[item] = IF InWidget(item) THEN widget.text ELSE edDoc.value[item]
  /\ edWin.typed["note"] = IF InPopup THEN popup.text ELSE edDoc.value["note"]

\* A document that is not as it was loaded or last saved is modified, so that closing
\* the window asks, unless the saving is in doubt.
ModifiedTellsTheTruth == edDoc.modified \/ SaveInDoubt \/ edDoc.value = edWin.kept

\* Both: what was typed is where it can still be saved, and the window knows if it must be.
EditsAreKept == EditsReachDocument /\ ModifiedTellsTheTruth

\* A window that closes without the question (NEWS:1742) loses nothing that had reached
\* the document, unless the saving is in doubt; what it does lose is what is in the
\* widget or in the popup (ev_window_close looks at the document alone).
ClosesUnasked == edWin.open /\ ~edWin'.open /\ edWin.dialog = "none"
LosesOnlyTheUncommitted ==
  [][ClosesUnasked =>
       SaveInDoubt \/ /\ edDoc.value = edWin.kept
                      /\ \A item \in Fields \cup {"note"} :
                           edWin.typed[item] # edWin.kept[item] => Uncommitted(item)]_editVars
===============================================================================
