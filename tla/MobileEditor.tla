------------------------------ MODULE MobileEditor ------------------------------
(***************************************************************************)
(* The editor of Knowledge in a browser (mobile_editor/app.js and          *)
(* variant_review.js): one tab, its local storage, and the routes it       *)
(* calls.  A human opens an item, types, previews an update, confirms it   *)
(* in a modal dialog, and queues requests for Hermes, also offline.        *)
(*                                                                         *)
(* A function of the editor runs until it awaits an answer, and whatever   *)
(* else happens in the tab comes before it goes on: a step is what runs    *)
(* between two awaits.  A request may be lost, before or after the service *)
(* has handled it, and a reload ends the functions that wait.              *)
(*                                                                         *)
(* The service is what it decides under the lock of the item: for updates  *)
(* (knowledge_update.py) and requests (knowledge_edit_variants.py).        *)
(***************************************************************************)
EXTENDS Naturals, Sequences, FiniteSets, SequencesExt

CONSTANTS
    Items,       \* Knowledge items
    First,       \* First[k]: the Markdown of the first version of k
    Typed,       \* texts that the human types
    Slots,       \* functions of the tab that wait for an answer
    LastVersion, \* bound on the versions of an item
    LastKey,     \* bound on the keys drawn
    Nothing

\* An item has a first version (publish_knowledge), and null is none of them.
ASSUME EditorAssumption ==
    /\ LastVersion \in Nat \ {0} /\ LastKey \in Nat
    /\ Nothing \notin [item : Items, version : Nat]

VARIABLES
    history,  \* history[k]: the texts of the versions of item k
    updates,  \* events of the updates of the editor
    requests, \* rows of knowledge_edit_requests
    listed,   \* localStorage: listed[k]: the version in the list of the Project
    stored,   \* localStorage: what the editor keeps of each item
    queue,    \* localStorage: the operations for Hermes
    tab,      \* the page: state, the text area and the dialog
    waits,    \* waits[s]: a function that awaits an answer
    online,   \* navigator.onLine
    drawn     \* keys drawn with uuid()

localVars == <<listed, stored, queue>>
serviceVars == <<history, updates, requests>>
editorVars == <<serviceVars, localVars, tab, waits, online, drawn>>

Free == [op |-> "free"]

Unanswered == [status |-> "sent"]
Failed == [status |-> "failed"]
Success(answer) == [status |-> "ok", answer |-> answer]

Blank == [current |-> Nothing, title |-> Nothing, text |-> Nothing, base |-> Nothing,
          pending |-> Nothing, saves |-> FALSE]

Version(k) == Len(history[k])

Markdown(k) == history[k][Version(k)]

Awaits(s, op) == waits[s].op = op /\ waits[s].reply = Unanswered

Answered(s, op) == waits[s].op = op /\ waits[s].reply.status = "ok"

Broke(s, op) == waits[s].op = op /\ waits[s].reply = Failed

Ends(s) == waits' = [waits EXCEPT ![s] = Free]

\* What begins in slot s: a request has been sent.
Begins(s, request) ==
    /\ waits[s] = Free
    /\ waits' = [waits EXCEPT ![s] = request]

\* The modal dialog is open.
Confirming == tab.pending # Nothing

\* What localStorage keeps of an item: itself, the text and what the text began as.
Kept(version, text, base) == [version |-> version, text |-> text, base |-> base]

-----------------------------------------------------------------------------
(* The service.                                                            *)

Replies(s, reply) == waits' = [waits EXCEPT ![s].reply = reply]

\* GET /projects/.../knowledge
AnswerProject(s) ==
    /\ Awaits(s, "load")
    /\ Replies(s, Success([k \in Items |-> Version(k)]))
    /\ UNCHANGED <<serviceVars, localVars, tab, online, drawn>>

\* GET .../markdown
AnswerMarkdown(s) ==
    /\ Awaits(s, "open")
    /\ Replies(s, Success(Markdown(waits[s].item)))
    /\ UNCHANGED <<serviceVars, localVars, tab, online, drawn>>

\* preview_knowledge_update: what it signs is what the dialog shows.
AnswerPreview(s) ==
    /\ Awaits(s, "preview")
    /\ LET m == waits[s] IN
       Replies(s, IF m.version = Version(m.item) /\ m.text # Markdown(m.item)
                  THEN Success([item |-> m.item, version |-> m.version,
                                base |-> Markdown(m.item), text |-> m.text])
                  ELSE Failed)
    /\ UNCHANGED <<serviceVars, localVars, tab, online, drawn>>

\* Seeded fault: the signature covers the text and not the item.
TextIsSigned(m) == m.preview.text = m.text

\* The signature covers the exact effect.
IsSigned(m) ==
    m.preview = [item |-> m.item, version |-> m.version, base |-> m.preview.base, text |-> m.text]

OfKey(k) == {u \in updates : u.key = k}

\* apply_knowledge_update: on the version and the text of the preview, or as a
\* repetition of the same key.
AnswerApply(s) ==
    /\ Awaits(s, "apply")
    /\ LET m == waits[s]
           update == [key |-> m.key, item |-> m.item, version |-> m.version, text |-> m.text]
           granted == Success(m.version + 1)
       IN  \/ /\ IsSigned(m) /\ m.version = Version(m.item)
              /\ Markdown(m.item) = m.preview.base
              /\ OfKey(m.key) = {}
              /\ Version(m.item) < LastVersion
              /\ history' = [history EXCEPT ![m.item] = Append(@, m.text)]
              /\ updates' = updates \cup {update}
              /\ Replies(s, granted)
           \/ /\ IsSigned(m) /\ m.version < Version(m.item) /\ update \in updates
              /\ Replies(s, granted)
              /\ UNCHANGED <<history, updates>>
           \/ /\ ~IsSigned(m) \/ m.version # Version(m.item) \/ Markdown(m.item) # m.preview.base
              /\ update \notin updates
              /\ Replies(s, Failed)
              /\ UNCHANGED <<history, updates>>
    /\ UNCHANGED <<requests, localVars, tab, online, drawn>>

\* Seeded fault: the selected text is taken as it is sent.
SelectionAnyway(r) == r.version = Version(r.item)

\* The base version is the present one, and the selection is of it.
SelectionFits(r) == r.version = Version(r.item) /\ r.selected = Markdown(r.item)

\* create_variant_edit_request
AnswerRequest(s) ==
    /\ Awaits(s, "sync")
    /\ LET r == Head(waits[s].todo) IN
       IF r \in requests
       THEN Replies(s, Success(r)) /\ UNCHANGED requests
       ELSE IF SelectionFits(r)
       THEN Replies(s, Success(r)) /\ requests' = requests \cup {r}
       ELSE Replies(s, Failed) /\ UNCHANGED requests
    /\ UNCHANGED <<history, updates, localVars, tab, online, drawn>>

\* The answer does not arrive, whether or not the request did.
Lose(s) ==
    /\ waits[s] # Free /\ waits[s].reply # Failed
    /\ Replies(s, Failed)
    /\ UNCHANGED <<serviceVars, localVars, tab, online, drawn>>

\* Another editor or Hermes revises an item.
OthersRevise(k, t) ==
    /\ Version(k) < LastVersion
    /\ history' = [history EXCEPT ![k] = Append(@, t)]
    /\ UNCHANGED <<updates, requests, localVars, tab, waits, online, drawn>>

-----------------------------------------------------------------------------
(* The items.                                                              *)

\* The list survives a reload: loadProject falls back on it.
LoadProject(s) ==
    /\ ~Confirming
    /\ Begins(s, [op |-> "load", reply |-> Unanswered])
    /\ UNCHANGED <<serviceVars, localVars, tab, online, drawn>>

ShowProject(s) ==
    /\ Answered(s, "load")
    /\ listed' = waits[s].reply.answer
    /\ Ends(s)
    /\ UNCHANGED <<serviceVars, stored, queue, tab, online, drawn>>

\* The item is the current one at once, its text comes later.
OpenItem(s, k) ==
    /\ ~Confirming
    /\ Begins(s, [op |-> "open", reply |-> Unanswered, item |-> k, version |-> listed[k]])
    /\ tab' = [tab EXCEPT !.current = [item |-> k, version |-> listed[k]], !.pending = Nothing]
    /\ UNCHANGED <<serviceVars, localVars, online, drawn>>

Shows(k, text, base) ==
    [tab EXCEPT !.title = k, !.text = text, !.base = base, !.saves = TRUE]

ShowItem(s) ==
    /\ Answered(s, "open")
    /\ LET m == waits[s]
           text == m.reply.answer
       IN  /\ stored' = [stored EXCEPT ![m.item] = Kept(m.version, text, text)]
           /\ tab' = Shows(m.item, text, text)
    /\ Ends(s)
    /\ UNCHANGED <<serviceVars, listed, queue, online, drawn>>

\* Without an answer: what is kept locally.
ShowKept(s) ==
    /\ Broke(s, "open")
    /\ LET k == waits[s].item
           kept == stored[k]
       IN  tab' = IF kept = Nothing THEN tab
                  ELSE [Shows(k, kept.text, kept.base) EXCEPT
                           !.current = [item |-> k, version |-> kept.version]]
    /\ Ends(s)
    /\ UNCHANGED <<serviceVars, localVars, online, drawn>>

StoreDraft(text) ==
    stored' = [stored EXCEPT ![tab.current.item] = Kept(tab.current.version, text, tab.base)]

\* The text area is there, and the dialog does not cover it.
Editable == tab.current # Nothing /\ tab.title # Nothing /\ ~Confirming

Type(t) ==
    /\ Editable
    /\ t # tab.text
    /\ tab' = [tab EXCEPT !.text = t]
    /\ StoreDraft(t)
    /\ UNCHANGED <<serviceVars, listed, queue, waits, online, drawn>>

-----------------------------------------------------------------------------
(* The signed update.                                                      *)

PreviewRevision(s) ==
    /\ Editable
    /\ tab.saves
    /\ StoreDraft(tab.text)
    /\ IF online /\ tab.text # tab.base
       THEN /\ Begins(s, [op |-> "preview", reply |-> Unanswered, item |-> tab.current.item,
                          version |-> tab.current.version, text |-> tab.text])
            /\ tab' = [tab EXCEPT !.saves = FALSE]
       ELSE UNCHANGED <<tab, waits>>
    /\ UNCHANGED <<serviceVars, listed, queue, online, drawn>>

\* The target is the item that is current when the answer arrives.
RenderConfirmation(s) ==
    /\ Answered(s, "preview")
    /\ drawn < LastKey
    /\ tab' = [tab EXCEPT !.saves = TRUE, !.pending =
          [preview |-> waits[s].reply.answer, text |-> waits[s].text, key |-> drawn + 1,
           item |-> tab.current.item, version |-> tab.current.version]]
    /\ drawn' = drawn + 1
    /\ Ends(s)
    /\ UNCHANGED <<serviceVars, localVars, online>>

PreviewRefused(s) ==
    /\ Broke(s, "preview")
    /\ tab' = [tab EXCEPT !.saves = TRUE]
    /\ Ends(s)
    /\ UNCHANGED <<serviceVars, localVars, online, drawn>>

\* A text that changed after the preview is not sent.
ApplyPendingUpdate(s) ==
    /\ Confirming
    /\ tab.text = tab.pending.text
    /\ online
    /\ LET sent == tab.pending IN
       Begins(s, [op |-> "apply", reply |-> Unanswered, preview |-> sent.preview,
                  text |-> sent.text, key |-> sent.key,
                  item |-> sent.item, version |-> sent.version])
    /\ UNCHANGED <<serviceVars, localVars, tab, online, drawn>>

CloseDialog ==
    /\ Confirming
    /\ tab' = [tab EXCEPT !.pending = Nothing]
    /\ UNCHANGED <<serviceVars, localVars, waits, online, drawn>>

ShowApplied(s) ==
    /\ Answered(s, "apply")
    /\ LET m == waits[s]
           version == m.reply.answer
       IN  /\ tab' = [tab EXCEPT !.current = [item |-> m.item, version |-> version],
                                 !.base = m.text, !.pending = Nothing]
           /\ listed' = [listed EXCEPT ![m.item] = version]
           /\ stored' = [stored EXCEPT ![m.item] = Kept(version, m.text, m.text)]
    /\ Ends(s)
    /\ UNCHANGED <<serviceVars, queue, online, drawn>>

\* The dialog stays, and its button may be pressed again; or the list is as it was.
TryAgain(s) ==
    /\ Broke(s, "apply") \/ Broke(s, "load")
    /\ Ends(s)
    /\ UNCHANGED <<serviceVars, localVars, tab, online, drawn>>

-----------------------------------------------------------------------------
(* The requests for Hermes.                                                *)

SyncsWith(s, operations) ==
    Begins(s, [op |-> "sync", reply |-> Unanswered,
               began |-> operations, todo |-> operations, kept |-> <<>>])

RequestVariantEdit(s) ==
    /\ Editable
    /\ tab.text = tab.base
    /\ drawn < LastKey
    /\ LET operation == [key |-> drawn + 1, item |-> tab.current.item,
                         version |-> tab.current.version, selected |-> tab.text]
       IN  /\ queue' = Append(queue, operation)
           /\ IF online THEN SyncsWith(s, queue') ELSE UNCHANGED waits
    /\ drawn' = drawn + 1
    /\ UNCHANGED <<serviceVars, listed, stored, tab, online>>

\* At the start, with a Project, and when the network is back.
SyncVariantQueue(s) ==
    /\ online
    /\ queue # <<>>
    /\ SyncsWith(s, queue)
    /\ UNCHANGED <<serviceVars, localVars, tab, online, drawn>>

\* Seeded fault: a request that failed is not kept.
PostedAnyway(s) == waits[s].kept

\* What has to be sent again after the present answer.
Remaining(s) ==
    IF Broke(s, "sync") THEN Append(waits[s].kept, Head(waits[s].todo)) ELSE waits[s].kept

\* The queue becomes what failed of the copy that was read.
SyncGoesOn(s) ==
    /\ Answered(s, "sync") \/ Broke(s, "sync")
    /\ IF Len(waits[s].todo) = 1
       THEN queue' = Remaining(s) /\ Ends(s)
       ELSE /\ waits' = [waits EXCEPT ![s] =
                   [op |-> "sync", reply |-> Unanswered,
                    began |-> @.began, todo |-> Tail(@.todo), kept |-> Remaining(s)]]
            /\ UNCHANGED queue
    /\ UNCHANGED <<serviceVars, listed, stored, tab, online, drawn>>

-----------------------------------------------------------------------------
(* The browser.                                                            *)

SetNetwork ==
    /\ online' = ~online
    /\ UNCHANGED <<serviceVars, localVars, tab, waits, drawn>>

Reload ==
    /\ tab # Blank
    /\ tab' = Blank
    /\ waits' = [s \in Slots |-> Free]
    /\ UNCHANGED <<serviceVars, localVars, online, drawn>>

\* A list is loaded anew, of the present versions.
ClearLocalData ==
    /\ ~Confirming
    /\ stored' = [k \in Items |-> Nothing]
    /\ queue' = <<>>
    /\ tab' = Blank
    /\ waits' = [s \in Slots |-> Free]
    /\ listed' = [k \in Items |-> Version(k)]
    /\ UNCHANGED <<serviceVars, online, drawn>>

EditorInit ==
    /\ history = [k \in Items |-> <<First[k]>>]
    /\ updates = {} /\ requests = {}
    /\ listed = [k \in Items |-> 1]
    /\ stored = [k \in Items |-> Nothing]
    /\ queue = <<>>
    /\ tab = Blank
    /\ waits = [s \in Slots |-> Free]
    /\ online = TRUE
    /\ drawn = 0

EditorNext ==
    \/ \E s \in Slots :
          \/ AnswerProject(s) \/ AnswerMarkdown(s) \/ AnswerPreview(s)
          \/ AnswerApply(s) \/ AnswerRequest(s) \/ Lose(s)
          \/ LoadProject(s) \/ ShowProject(s)
          \/ \E k \in Items : OpenItem(s, k)
          \/ ShowItem(s) \/ ShowKept(s)
          \/ PreviewRevision(s) \/ RenderConfirmation(s) \/ PreviewRefused(s)
          \/ ApplyPendingUpdate(s) \/ ShowApplied(s) \/ TryAgain(s)
          \/ RequestVariantEdit(s) \/ SyncVariantQueue(s) \/ SyncGoesOn(s)
    \/ \E k \in Items, t \in Typed : OthersRevise(k, t)
    \/ \E t \in Typed : Type(t)
    \/ CloseDialog \/ SetNetwork \/ Reload \/ ClearLocalData

EditorSpec == EditorInit /\ [][EditorNext]_editorVars

-----------------------------------------------------------------------------
(* Properties.                                                             *)

\* Type correctness (app.js: state; mobile_editor local storage).
EditorTypeOK ==
    /\ \A k \in Items : Version(k) \in 1..LastVersion /\ listed[k] \in 1..Version(k)
    /\ \A k \in Items : stored[k] # Nothing => stored[k].version \in 1..Version(k)
    /\ \A i \in DOMAIN queue : queue[i].key \in 1..drawn
    /\ online \in BOOLEAN /\ drawn \in 0..LastKey

\* Whatever item is current when an answer arrives, an update writes what the
\* dialog showed to be confirmed: this text, into this item, over the very text
\* that the service compared it with (app.js, previewRevision and
\* applyPendingUpdate; knowledge_update.apply_knowledge_update).
UpdatesAreAsShown ==
    [][\A u \in updates' \ updates :
          \E s \in Slots :
             /\ waits[s].op = "apply" /\ waits[s].key = u.key
             /\ waits[s].preview = [item |-> u.item, version |-> Version(u.item),
                                    base |-> Markdown(u.item), text |-> u.text]]_updates

\* A request is about the text of the version it names, though the editor may
\* have shown the text of another item when it was queued, and waits locally
\* while the item moves on (app.js, openItem; variant_review.js,
\* requestVariantEdit; knowledge_edit_variants.create_variant_request).
RequestsFitTheirBase ==
    [][\A r \in requests' \ requests :
          /\ r.version \in DOMAIN history[r.item]
          /\ r.selected = history[r.item][r.version]]_requests

\* A synchronization removes from the queue what is on record; a request that it
\* had not read is all it may lose (variant_review.js, syncVariantQueue).
LosesOnlyUnread ==
    [][\A i \in DOMAIN queue :
          \/ queue[i] \in ToSet(queue') \cup requests'
          \/ ClearLocalData
          \/ \E s \in Slots : /\ waits[s].op = "sync" /\ waits'[s] = Free
                              /\ queue[i] \notin ToSet(waits[s].began)]_editorVars

\* The editor has its shape (EditorTypeOK), writes what was confirmed
\* (UpdatesAreAsShown), asks about the text it names (RequestsFitTheirBase), and
\* loses nothing that it has read (LosesOnlyUnread).
EditorIsFaithful == []EditorTypeOK /\ UpdatesAreAsShown /\ RequestsFitTheirBase /\ LosesOnlyUnread

Held ==
    ToSet(queue) \cup requests
      \cup UNION {ToSet(waits[s].todo) \cup ToSet(waits[s].kept) :
                   s \in {r \in Slots : waits[r].op = "sync"}}

\* What does not hold: a request that was queued is stored, or still queued or
\* being sent, unless the human clears the data (index.html: the requests for
\* Hermes made offline are kept locally).
RequestsAreKept == [][Held \subseteq Held' \/ ClearLocalData]_editorVars

\* What does not hold: what was typed is kept until it is typed again or an
\* update is confirmed (app.js: the draft stays local until then).
DraftsAreKept ==
    [][\A k \in Items : stored[k] # Nothing /\ stored[k].text # stored[k].base
          /\ (\A s \in Slots : ~Answered(s, "apply"))
          => \/ stored'[k] = stored[k] \/ ClearLocalData
             \/ \E t \in Typed : Type(t) /\ tab.title = k]_editorVars

\* What does not hold: a preview is of the item whose title and text are shown
\* (app.js, openItem and previewRevision).
PreviewIsOfTheShown ==
    [][\A s \in Slots : waits[s] = Free /\ waits'[s].op = "preview" =>
          waits'[s].item = tab.title]_editorVars

=============================================================================
