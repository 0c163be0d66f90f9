--------------------------- MODULE WorkspaceEditor ---------------------------
(***************************************************************************)
(* The editor of the Workspace page: createWorkspaceController over the    *)
(* buffer owner, the file-operation owner and the external-editor owner    *)
(* (tui/workspace).                                                        *)
(*                                                                         *)
(* What a file or a buffer holds is a number no other version ever had; a  *)
(* file's stamp (mtime, inode) is the number of its last write.  Three     *)
(* kinds of asynchronous work can be in flight at once: one gated by a     *)
(* dialog (it owns all keys), one that is not (Ctrl+S, save-as, move), and *)
(* an opening; and a hand-off to the external editor.  Beside them runs a  *)
(* check of the buffers' files after each return to the page.              *)
(***************************************************************************)
EXTENDS Naturals, FiniteSets, SequencesExt, Selection

CONSTANTS
  Path, NoPath,
  PoolCap,             \* EDITOR_LRU_CAP
  MaxEdits, MaxExternal, MaxKeys, MaxSwitches   \* bounds of the model

VARIABLES
  disk,      \* each file's content and stamp, or Gone
  order,     \* editorOrder, most recently used first
  meta,      \* bufferMeta of each resident path
  text,      \* plainText of the mounted textareas
  dirty, changed,   \* dirtyPaths, externalChanged
  active, viewed,   \* activeEditorPath, openFile
  dialog, closeAfterSave,
  ops,       \* the work in flight in each slot
  checks,    \* the checks for external changes, one for each return to the page
  agreed,    \* history: what the user agreed to give up: <<"disk" or "buffer", path>>
  raced,     \* history: buffers typed into, opened, or put to the user, while work on
             \* them was in flight; mounted again with stale text; written over
             \* unasked because their file was gone
  unseen,    \* history: files changed from outside, with nothing in flight, and not read since
  clock, used

poolVars == <<order, meta, text, dirty, changed>>
viewVars == <<active, viewed>>
dialogVars == <<dialog, closeAfterSave>>
historyVars == <<agreed, raced, unseen>>
vars == <<disk, poolVars, viewVars, dialogVars, ops, checks, historyVars, clock, used>>

Gone == [content |-> 0, stamp |-> 0]
NoDialog == [kind |-> "none", path |-> NoPath, source |-> NoPath]
Dialog(kind, path, source) == [kind |-> kind, path |-> path, source |-> source]
Idle == [kind |-> "idle", stage |-> "none", path |-> NoPath, target |-> NoPath, content |-> 0]
Op(kind, stage, path, target, content) ==
  [kind |-> kind, stage |-> stage, path |-> path, target |-> target, content |-> content]
Slot == {"gated", "free", "open", "handoff"}

\* todo: the paths a check has still to look at, the one whose stamp it reads first;
\* stamp: what it knew of that one when it started the reading.
Check(todo, stamp, stale) == [todo |-> todo, stamp |-> stamp, stale |-> stale]
NoCheck == Check(<<>>, 0, {})

Resident == Range(order)
Editing(p) == active = p /\ viewed = p /\ p \in Resident
KeysReachPage == ops["gated"] = Idle /\ ops["handoff"].stage # "running"
Uses(s, p) == ops[s] # Idle /\ p \in {ops[s].path, ops[s].target}
Busy(p) == \E s \in Slot : Uses(s, p)

Init ==
  /\ disk = [p \in Path |-> [content |-> 1, stamp |-> 1]]
  /\ order = <<>> /\ meta = [p \in Path |-> [snapshot |-> 0, stamp |-> 0, initial |-> 0]]
  /\ text = [p \in Path |-> 0] /\ dirty = {} /\ changed = {}
  /\ active = NoPath /\ viewed = NoPath
  /\ dialog = NoDialog /\ closeAfterSave = FALSE
  /\ ops = [s \in Slot |-> Idle] /\ checks = [n \in 1..MaxSwitches |-> NoCheck]
  /\ agreed = {} /\ raced = {} /\ unseen = {}
  /\ clock = 1
  /\ used = [edits |-> 0, external |-> 0, keys |-> 0, switches |-> 0]

Spend(bound) == used' = [used EXCEPT ![bound] = @ + 1]
SetOp(s, op) == ops' = [ops EXCEPT ![s] = op]

\* The pool after relPath's buffer is closed; close() leaves textareas to the view.
Without(paths) == Only(order, Path \ paths)
CloseBuffers(paths) ==
  /\ order' = Without(paths)
  /\ dirty' = dirty \ paths /\ changed' = changed \ paths
  /\ active' = IF active \in paths THEN NoPath ELSE active

-----------------------------------------------------------------------------
\* The world outside, and the keyboard.

External(p) ==
  /\ used.external < MaxExternal /\ Spend("external")
  /\ ops["handoff"] = Idle
  /\ clock' = clock + 1
  /\ \E removed \in BOOLEAN :
       disk' = [disk EXCEPT ![p] = IF removed THEN Gone ELSE [content |-> clock', stamp |-> clock']]
  /\ unseen' = IF Busy(p) THEN unseen \ {p} ELSE unseen \cup {p}
  /\ UNCHANGED <<poolVars, viewVars, dialogVars, ops, checks, agreed, raced>>

\* A keystroke in the textarea, or an undo back to the saved snapshot.
Type(p) ==
  /\ KeysReachPage /\ dialog = NoDialog /\ Editing(p)
  /\ used.edits < MaxEdits /\ Spend("edits")
  /\ clock' = clock + 1
  /\ \E new \in {clock', meta[p].snapshot} :
       /\ text' = [text EXCEPT ![p] = new]
       /\ dirty' = IF new # meta[p].snapshot THEN dirty \cup {p} ELSE dirty \ {p}
  /\ raced' = IF Busy(p) THEN raced \cup {p} ELSE raced
  /\ agreed' = agreed \ {<<"buffer", p>>}
  /\ UNCHANGED <<disk, order, meta, changed, viewVars, dialogVars, ops, checks, unseen>>

KeysLeft == used.keys + used.switches < MaxKeys   \* the switch of pages is a key as well
Key == KeysReachPage /\ KeysLeft /\ Spend("keys")
CommandKey == Key /\ dialog = NoDialog

\* checkExternalModifications goes on to the next of these paths with a buffer.
CheckRest(paths, stale) ==
  LET open == {i \in DOMAIN paths : paths[i] \in Resident}
      rest == SubSeq(paths, IF open = {} THEN Len(paths) + 1 ELSE Min(open), Len(paths))
  IN  Check(rest, IF rest = <<>> THEN 0 ELSE meta[Head(rest)].stamp, stale)

\* Ctrl+O, which no dialog stops, to the Chat page and back: the textareas unmount
\* with the page and return with the content their buffers were admitted with; and
\* a check starts.
LeaveAndReturn ==
  /\ KeysLeft /\ used.switches < MaxSwitches /\ Spend("switches")
  /\ text' = [p \in Path |-> IF p \in Resident THEN meta[p].initial ELSE text[p]]
  /\ checks' = [checks EXCEPT ![used'.switches] = CheckRest(order, {})]
  /\ raced' = raced \cup {p \in Resident : Busy(p) \/ text'[p] # meta[p].snapshot}
  /\ UNCHANGED <<disk, order, meta, dirty, changed, viewVars, dialogVars, ops, agreed, unseen,
       clock>>

\* The stamp of one file is read.  What the check knew is the buffer's record, which a
\* save or a reload may have updated meanwhile and an opening replaced: either stamp.
\* Behind the last file the marks are replaced, whatever has become of the buffers.
Stat(n) ==
  /\ checks[n].todo # <<>>
  /\ LET p == Head(checks[n].todo)
     IN  \E known \in {checks[n].stamp, meta[p].stamp} :
           LET differs == disk[p] # Gone /\ disk[p].stamp # known
               next == CheckRest(Tail(checks[n].todo),
                                 checks[n].stale \cup (IF differs THEN {p} ELSE {}))
               done == next.todo = <<>>
           IN  /\ checks' = [checks EXCEPT ![n] = IF done THEN NoCheck ELSE next]
               /\ changed' = IF done /\ next.stale # {} THEN next.stale ELSE changed
  /\ UNCHANGED <<disk, order, meta, text, dirty, viewVars, dialogVars, ops, historyVars, clock,
       used>>

-----------------------------------------------------------------------------
\* Opening a file: openPath, then buffer.open.

StartOpen(p) ==
  /\ CommandKey /\ ops["open"] = Idle
  /\ SetOp("open", Op("open", "preview", p, NoPath, 0))
  /\ UNCHANGED <<disk, poolVars, viewVars, dialogVars, checks, historyVars, clock>>

\* The least recently used clean buffer makes room.
VictimsDirtyToo == DOMAIN order   \* mutant
Victims == {i \in DOMAIN order : order[i] \notin dirty}
Evicted == IF Len(order) >= PoolCap THEN {order[Max(Victims)]} ELSE {}

Admit(p) ==
  /\ ops["open"].stage = "preview" /\ ops["open"].path = p
  /\ IF disk[p] = Gone
     THEN SetOp("open", Idle) /\ UNCHANGED <<poolVars, viewVars>>
     ELSE /\ viewed' = p
          /\ IF p \in Resident
             THEN /\ order' = <<p>> \o Without({p})
                  /\ active' = p /\ changed' = changed \ {p}
                  /\ SetOp("open", Idle) /\ UNCHANGED dirty
             ELSE IF Len(order) >= PoolCap /\ Victims = {}
             THEN /\ active' = NoPath
                  /\ SetOp("open", Idle) /\ UNCHANGED <<order, dirty, changed>>
             ELSE CloseBuffers(Evicted) /\ SetOp("open", [ops["open"] EXCEPT !.stage = "read"])
          /\ UNCHANGED <<meta, text>>
  /\ UNCHANGED <<disk, dialogVars, checks, historyVars, clock, used>>

Admitted(p) ==
  /\ ops["open"].stage = "read" /\ ops["open"].path = p
  /\ SetOp("open", Idle)
  /\ IF disk[p] = Gone
     THEN active' = NoPath /\ UNCHANGED <<poolVars, raced, unseen>>
     ELSE /\ meta' = [meta EXCEPT ![p] = [snapshot |-> disk[p].content, stamp |-> disk[p].stamp,
                                          initial |-> disk[p].content]]
          /\ order' = <<p>> \o Without({p})
          /\ text' = IF p \in Resident THEN text ELSE [text EXCEPT ![p] = disk[p].content]
          /\ active' = p /\ changed' = changed \ {p} /\ unseen' = unseen \ {p}
          /\ raced' = IF text'[p] # disk[p].content \/ \E s \in Slot \ {"open"} : Uses(s, p)
                      THEN raced \cup {p} ELSE raced
          /\ UNCHANGED dirty
  /\ UNCHANGED <<disk, viewed, dialogVars, checks, agreed, clock, used>>

-----------------------------------------------------------------------------
\* Saving.

\* saveActive clears a close intent left over, then compares disk identities; with
\* nothing to save, a save that was to close arms the intent again.
StartSave(s, kind) ==
  /\ closeAfterSave' = (kind = "saveAndClose" /\ active \notin Resident)
  /\ SetOp(s, IF active \in Resident THEN Op(kind, "stat", active, active, 0) ELSE Idle)

PressSave ==
  /\ CommandKey /\ active # NoPath /\ Editing(active) /\ ops["free"] = Idle
  /\ StartSave("free", "save")
  /\ UNCHANGED <<disk, poolVars, viewVars, dialog, checks, historyVars, clock>>

CompareNothing(s) ==   \* mutant: stamps are not compared
  /\ ops[s].stage = "stat"
  /\ SetOp(s, [ops[s] EXCEPT !.stage = "write", !.content = text[ops[s].path]])
  /\ UNCHANGED <<disk, poolVars, viewVars, dialogVars, checks, historyVars, clock, used>>
Compare(s) ==
  /\ ops[s].stage = "stat"
  /\ LET p == ops[s].path
     IN  IF disk[p] # Gone /\ disk[p].stamp # meta[p].stamp
         THEN /\ dialog' = Dialog("overwrite", p, NoPath)
              /\ closeAfterSave' = (closeAfterSave \/ ops[s].kind = "saveAndClose")
              /\ SetOp(s, Idle)
         ELSE /\ SetOp(s, [ops[s] EXCEPT !.stage = "write", !.content = text[p]])
              /\ UNCHANGED dialogVars
  /\ UNCHANGED <<disk, poolVars, viewVars, checks, historyVars, clock, used>>

\* atomicWriteFile; a failure leaves the buffer dirty.
Write(s) ==
  /\ ops[s].stage = "write"
  /\ clock' = clock + 1
  /\ disk' = [disk EXCEPT ![ops[s].target] = [content |-> ops[s].content, stamp |-> clock']]
  /\ unseen' = unseen \ {ops[s].target}
  /\ SetOp(s, [ops[s] EXCEPT !.stage = "stamp"])
  /\ UNCHANGED <<poolVars, viewVars, dialogVars, checks, agreed, raced, used>>

WriteFails(s) ==
  /\ ops[s].stage = "write"
  /\ SetOp(s, Idle)
  /\ closeAfterSave' = (closeAfterSave \/ ops[s].kind = "saveAndClose")
  /\ UNCHANGED <<disk, poolVars, viewVars, dialog, checks, historyVars, clock, used>>

\* writeBuffer's bookkeeping; then what the caller does with a save that landed:
\* close the active buffer, or switch the buffer to the save-as target.
Saved(s) ==
  /\ ops[s].stage = "stamp"
  /\ LET op == ops[s]
         t == op.target
         stamp == IF disk[t] = Gone THEN meta[t].stamp ELSE disk[t].stamp
         written == [snapshot |-> op.content, stamp |-> stamp,
                     initial |-> IF op.kind = "saveAs" THEN op.content ELSE meta[t].initial]
         closes == op.kind = "saveAndClose" \/ (op.kind = "force" /\ closeAfterSave)
     IN  /\ SetOp(s, Idle)
         /\ closeAfterSave' = (closeAfterSave /\ op.kind # "force")
         /\ meta' = IF t \in Resident \/ op.kind = "saveAs" THEN [meta EXCEPT ![t] = written] ELSE meta
         /\ IF op.kind = "saveAs"
            THEN /\ order' = <<t>> \o Without({t, op.path})
                 /\ dirty' = dirty \ {t, op.path} /\ changed' = changed \ {t, op.path}
                 /\ active' = t /\ viewed' = t
                 /\ text' = IF t \in Resident \ {op.path} THEN text ELSE [text EXCEPT ![t] = op.content]
            ELSE IF closes
            THEN /\ order' = Without({active})
                 /\ dirty' = dirty \ {t, active} /\ changed' = changed \ {t, active}
                 /\ active' = NoPath /\ viewed' = NoPath /\ UNCHANGED text
            ELSE /\ dirty' = dirty \ {t} /\ changed' = changed \ {t}
                 /\ UNCHANGED <<order, active, viewed, text>>
  /\ UNCHANGED <<disk, dialog, checks, historyVars, clock, used>>

\* A buffer whose file is gone stands in nobody's way: no question is asked for it.
Unasked(t) == (Resident \ {active}) \cap {t}

\* Save-as: refused while the target exists, until the user confirms.
SaveAs(t) ==
  /\ CommandKey /\ active # NoPath /\ Editing(active) /\ ops["free"] = Idle
  /\ IF t # active /\ disk[t] # Gone
     THEN dialog' = Dialog("saveAsOverwrite", t, NoPath) /\ UNCHANGED ops
     ELSE SetOp("free", Op("saveAs", "write", active, t, text[active])) /\ UNCHANGED dialog
  /\ raced' = IF ops' # ops THEN raced \cup Unasked(t) ELSE raced
  /\ UNCHANGED <<disk, poolVars, viewVars, closeAfterSave, checks, agreed, unseen, clock>>

-----------------------------------------------------------------------------
\* Dialogs.

\* Escape in a dirty source, Ctrl+R, and d in the tree raise one.
RaiseDialog ==
  /\ CommandKey
  /\ \/ /\ active \in dirty /\ Editing(active)
        /\ dialog' = Dialog("dirty", active, NoPath)
     \/ /\ active \in dirty \cup changed /\ Editing(active)
        /\ dialog' = Dialog("reload", active, NoPath)
     \/ \E p \in Path : disk[p] # Gone /\ dialog' = Dialog("delete", p, NoPath)
  /\ raced' = IF Busy(dialog'.path) THEN raced \cup {dialog'.path} ELSE raced
  /\ UNCHANGED <<disk, poolVars, viewVars, closeAfterSave, ops, checks, agreed, unseen, clock>>

\* Escape or c, and s in the overwrite dialog, which leads to a save-as.
CancelDialog ==
  /\ KeysReachPage /\ dialog # NoDialog
  /\ dialog' = NoDialog
  /\ closeAfterSave' \in {FALSE, closeAfterSave}
  /\ closeAfterSave' => dialog.kind \notin {"dirty", "overwrite"}
  /\ UNCHANGED <<disk, poolVars, viewVars, ops, checks, historyVars, clock, used>>

\* The code acts on the active buffer, whatever buffer the dialog was raised for.
Misdirected == IF active = dialog.path THEN {} ELSE {active}

\* n: afterDirtyConfirm drops the active buffer.
Discard ==
  /\ KeysReachPage /\ dialog.kind = "dirty"
  /\ dialog' = NoDialog
  /\ CloseBuffers({active}) /\ viewed' = NoPath
  /\ agreed' = agreed \cup {<<"buffer", dialog.path>>}
  /\ raced' = raced \cup Misdirected
  /\ UNCHANGED <<disk, meta, text, closeAfterSave, ops, checks, unseen, clock, used>>

\* y or o: the action owns all keys until it has settled.
Confirm ==
  /\ KeysReachPage /\ dialog # NoDialog
  /\ dialog' = NoDialog
  /\ LET p == dialog.path
     IN  \/ /\ dialog.kind = "dirty"
           /\ StartSave("gated", "saveAndClose") /\ UNCHANGED agreed
        \/ /\ dialog.kind = "overwrite"
           /\ SetOp("gated", IF active \in Resident
                             THEN Op("force", "write", active, active, text[active]) ELSE Idle)
           /\ agreed' = agreed \cup {<<"disk", p>>} /\ UNCHANGED closeAfterSave
        \/ /\ dialog.kind = "saveAsOverwrite"
           /\ SetOp("gated", IF active \in Resident
                             THEN Op("saveAs", "write", active, p, text[active]) ELSE Idle)
           /\ agreed' = agreed \cup {<<"disk", p>>, <<"buffer", p>>} /\ UNCHANGED closeAfterSave
        \/ /\ dialog.kind = "reload"
           /\ SetOp("gated", IF active = NoPath THEN Idle ELSE Op("reload", "read", active, active, 0))
           /\ agreed' = agreed \cup {<<"buffer", p>>} /\ UNCHANGED closeAfterSave
        \/ /\ dialog.kind = "delete"
           /\ SetOp("gated", Op("delete", "rename", p, p, 0))
           /\ agreed' = agreed \cup {<<"buffer", p>>, <<"disk", p>>} /\ UNCHANGED closeAfterSave
        \/ /\ dialog.kind = "moveOverwrite"
           /\ SetOp("gated", Op("move", "remove", dialog.source, p, 0))
           /\ agreed' = agreed \cup {<<"buffer", p>>, <<"disk", p>>} /\ UNCHANGED closeAfterSave
  /\ raced' = raced \cup Misdirected
  /\ UNCHANGED <<disk, poolVars, viewVars, checks, unseen, clock, used>>

\* reloadActiveBuffer after its read.
Reloaded(s) ==
  /\ ops[s].kind = "reload"
  /\ LET p == ops[s].path
     IN  IF disk[p] = Gone \/ p \notin Resident THEN UNCHANGED <<poolVars, unseen>>
         ELSE /\ text' = [text EXCEPT ![p] = disk[p].content]
              /\ meta' = [meta EXCEPT ![p].snapshot = disk[p].content, ![p].stamp = disk[p].stamp]
              /\ dirty' = dirty \ {p} /\ changed' = changed \ {p} /\ unseen' = unseen \ {p}
              /\ UNCHANGED order
  /\ SetOp(s, Idle)
  /\ UNCHANGED <<disk, viewVars, dialogVars, checks, agreed, raced, clock, used>>

-----------------------------------------------------------------------------
\* Moving and deleting: the file first, then tree, buffer and viewer.

\* A move onto an existing file asks first.
Move(p, t) ==
  /\ CommandKey /\ ops["free"] = Idle /\ p # t /\ disk[p] # Gone
  /\ IF disk[t] # Gone THEN dialog' = Dialog("moveOverwrite", t, p) /\ UNCHANGED ops
     ELSE SetOp("free", Op("move", "rename", p, t, 0)) /\ UNCHANGED dialog
  /\ raced' = IF ops' # ops THEN raced \cup (Resident \cap {t}) ELSE raced
  /\ UNCHANGED <<disk, poolVars, viewVars, closeAfterSave, checks, agreed, unseen, clock>>

\* The agreed overwrite removes the target first.
RemoveTarget(s) ==
  /\ ops[s].stage = "remove"
  /\ disk' = [disk EXCEPT ![ops[s].target] = Gone]
  /\ unseen' = unseen \ {ops[s].target}
  /\ SetOp(s, [ops[s] EXCEPT !.stage = "rename"])
  /\ UNCHANGED <<poolVars, viewVars, dialogVars, checks, agreed, raced, clock, used>>

Rename(s) ==
  /\ ops[s].stage = "rename"
  /\ LET op == ops[s]
     IN  IF disk[op.path] = Gone THEN SetOp(s, Idle) /\ UNCHANGED <<disk, unseen>>
         ELSE /\ disk' = [q \in Path |-> IF q = op.path THEN Gone
                                         ELSE IF q = op.target THEN disk[op.path] ELSE disk[q]]
              /\ unseen' = unseen \ {op.path, op.target}
              /\ SetOp(s, [op EXCEPT !.stage = "apply"])
  /\ UNCHANGED <<poolVars, viewVars, dialogVars, checks, agreed, raced, clock, used>>

\* The mutation reaches the buffers when the tree has been read again: close, or
\* rekey, which closes a buffer of the target first.
Rekeyed(set, p, t) ==
  IF p \in set THEN (set \ {p}) \cup {t} ELSE set \ ({t} \cap Resident)
Apply(s) ==
  /\ ops[s].stage = "apply"
  /\ LET p == ops[s].path  t == ops[s].target
     IN  IF ops[s].kind = "delete"
         THEN /\ CloseBuffers({p}) /\ viewed' = (IF viewed = p THEN NoPath ELSE viewed)
              /\ UNCHANGED <<meta, text>>
         ELSE /\ viewed' = (IF viewed = p THEN t ELSE viewed)
              /\ IF p \notin Resident THEN UNCHANGED <<poolVars, active>>
                 ELSE /\ order' = [i \in DOMAIN Without({t}) |->
                                   IF Without({t})[i] = p THEN t ELSE Without({t})[i]]
                      /\ meta' = [meta EXCEPT ![t] = [meta[p] EXCEPT !.initial = text[p]]]
                      /\ text' = [text EXCEPT ![t] = text[p]]
                      /\ dirty' = Rekeyed(dirty, p, t) /\ changed' = Rekeyed(changed, p, t)
                      /\ active' = (IF active = p THEN t ELSE IF active = t THEN NoPath ELSE active)
  /\ agreed' = IF <<"buffer", ops[s].path>> \in agreed
                THEN agreed \cup {<<"buffer", ops[s].target>>} ELSE agreed
  /\ raced' = IF ops[s].path \in raced \/ \E other \in Slot \ {s} : Uses(other, ops[s].target)
               THEN raced \cup {ops[s].target} ELSE raced
  /\ SetOp(s, Idle)
  /\ UNCHANGED <<disk, dialogVars, checks, unseen, clock, used>>

-----------------------------------------------------------------------------
\* The external editor.

\* Ctrl+X on the open file or the tree's selection, unless it has unsaved edits.
HandOff(p) ==
  /\ CommandKey /\ ops["handoff"] = Idle /\ p \notin dirty
  /\ SetOp("handoff", Op("handoff", "settings", p, p, 0))
  /\ UNCHANGED <<disk, poolVars, viewVars, dialogVars, checks, historyVars, clock>>

\* The renderer is suspended while the editor runs and may write or remove the file.
RunEditor ==
  /\ ops["handoff"].stage = "settings"
  /\ clock' = clock + 1
  /\ LET p == ops["handoff"].path
     IN  /\ \E after \in {disk[p], Gone, [content |-> clock', stamp |-> clock']} :
              disk' = [disk EXCEPT ![p] = after]
         /\ unseen' = IF disk' = disk THEN unseen ELSE unseen \ {p}
  /\ SetOp("handoff", [ops["handoff"] EXCEPT !.stage = "reconcile"])
  /\ UNCHANGED <<poolVars, viewVars, dialogVars, checks, agreed, raced, used>>

\* reconcileExternalChange.  replaceText reports its change before or after the
\* snapshot is replaced, so the dirty mark may or may not be set.
Reconcile ==
  /\ ops["handoff"].stage = "reconcile"
  /\ LET p == ops["handoff"].path
     IN  IF p \notin Resident \/ (disk[p] # Gone /\ disk[p].stamp = meta[p].stamp)
         THEN UNCHANGED <<poolVars, active, viewed, unseen>>
         ELSE IF disk[p] = Gone
         THEN /\ CloseBuffers({p}) /\ viewed' = (IF viewed = p THEN NoPath ELSE viewed)
              /\ UNCHANGED <<meta, text, unseen>>
         ELSE /\ text' = [text EXCEPT ![p] = disk[p].content]
              /\ meta' = [meta EXCEPT ![p].snapshot = disk[p].content, ![p].stamp = disk[p].stamp]
              /\ dirty' \in {dirty \cup {p}, dirty \ {p}} /\ changed' = changed \ {p}
              /\ unseen' = unseen \ {p}
              /\ UNCHANGED <<order, active, viewed>>
  /\ raced' = IF \E s \in Slot \ {"handoff"} : Uses(s, ops["handoff"].path)
               THEN raced \cup {ops["handoff"].path} ELSE raced
  /\ SetOp("handoff", Idle)
  /\ UNCHANGED <<disk, dialogVars, checks, agreed, clock, used>>

-----------------------------------------------------------------------------
OpStep ==
  \/ \E s \in {"gated", "free"} :
       Compare(s) \/ Write(s) \/ WriteFails(s) \/ Saved(s) \/ Reloaded(s)
       \/ RemoveTarget(s) \/ Rename(s) \/ Apply(s)
  \/ \E p \in Path : Admit(p) \/ Admitted(p)
  \/ RunEditor \/ Reconcile
  \/ \E n \in 1..MaxSwitches : Stat(n)

Next ==
  \/ \E p \in Path : External(p) \/ Type(p) \/ StartOpen(p) \/ SaveAs(p) \/ HandOff(p)
  \/ \E p, t \in Path : Move(p, t)
  \/ LeaveAndReturn \/ PressSave
  \/ RaiseDialog \/ CancelDialog \/ Discard \/ Confirm
  \/ OpStep

Spec == Init /\ [][Next]_vars

-----------------------------------------------------------------------------
\* Types, and that the pool's tables agree: no path twice in the order, edits marked and
\* a path active only for resident buffers.  Marks for changes on disk may be left of
\* buffers that are closed: see MarksResident.
TypeOK ==
  /\ \A p \in Path : disk[p].content \in 0..clock
  /\ Resident \subseteq Path /\ Cardinality(Resident) = Len(order)
  /\ dirty \subseteq Resident /\ changed \subseteq Path
  /\ active \in Resident \cup {NoPath}

\* A closed buffer leaves every pool set (buffer-owner.ts:213).  The code does not keep
\* this: a check sets its marks without a second look at what it is about.
MarksResident == changed \subseteq Resident

Written(content) == \E s \in Slot : ops[s].stage = "stamp" /\ ops[s].content = content
Unsaved(p) == p \in Resident /\ text[p] # meta[p].snapshot /\ ~Written(text[p])
Somewhere(content) ==
  \/ \E p \in Resident : text[p] = content
  \/ \E p \in Path : disk[p].content = content

\* A discard and a save with a close pending drop the buffer that is active by then.
ClosesAnother(p) ==
  /\ p = active
  /\ \/ Discard /\ p # dialog.path
     \/ \E s \in {"gated", "free"} : Saved(s) /\ ops[s].kind # "saveAs" /\ p # ops[s].target

\* Unsaved text disappears only by a keystroke, or because the user agreed to
\* give that buffer up.  Excepted are leaving the page, which loses it, a close
\* that drops the buffer active by then, and buffers in "raced" (see the README).
EditsKept ==
  [][\A p \in Path : \A lost \in {text[p]} : Unsaved(p) =>
       \/ Somewhere(lost)' \/ used'.edits # used.edits \/ used'.switches # used.switches
       \/ <<"buffer", p>> \in agreed \/ <<"buffer", p>> \in agreed'
       \/ p \in raced \/ ClosesAnother(p)]_vars

\* A version that somebody else wrote is not replaced before the host has read it
\* or the user has agreed.
NoSilentOverwrite ==
  [][\A s \in {"gated", "free"} : Write(s) \/ RemoveTarget(s) \/ Rename(s) =>
       LET t == ops[s].target
       IN  t \in unseen /\ disk[t] # Gone =>
             <<"disk", t>> \in agreed \/ t \in raced \/ (ops[s].kind = "saveAs" /\ ops[s].path = t)]_vars
=============================================================================
