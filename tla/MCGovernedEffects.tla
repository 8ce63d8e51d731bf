--------------------------- MODULE MCGovernedEffects ---------------------------
(* Effects behind the policy gate, about one Paperless document that moves, and *)
(* the governed loop of the command line, and updates that are confirmed in the *)
(* editor.  They share no state, so that a behaviour is about one of them.      *)
EXTENDS GovernedEffects, GovernedLoop, MobileEditor

CONSTANTS d1, b1, b2, q1, h1, h2, c1, c2, k1, k2, s1, s2, r1, ana, runtime,
          ka, kb, t0, t1, w1, w2

VARIABLE subject \* what the behaviour is about

vars == <<effectVars, loopVars, editorVars, subject>>

Asks(op, v, content, change, h) ==
    [op |-> op, doc |-> d1, version |-> v, content |-> content, change |-> change, decision |-> h]

MCCommands ==
    { Asks("metadata", 1, None, "title", h1), Asks("metadata", 2, None, "title", h2),
      Asks("intake", 1, None, None, h1), Asks("intake", 1, None, None, h2),
      Asks("qualification", 1, q1, None, h1), Asks("upload", 1, q1, None, h1) }

MCSources == {<<d1, 1>>, <<d1, 2>>}

\* The second contract declares a source that the first does not.
MCPerimeter == (k1 :> {s1}) @@ (k2 :> {s1, s2})
MCChunks == (s1 :> 2) @@ (s2 :> 2)

\* A stream by hand: it cites what it does not have, and has what its contract excludes.
MCHandmade ==
    {[kind |-> "candidates", contract |-> k1, cited |-> {<<s1, 1>>},
      pack |-> {[key |-> <<s2, 1>>, ingestion |-> 0]}]}

\* Two items that began as the same text.
MCFirst == [k \in {ka, kb} |-> t0]

Init ==
    /\ subject \in {"effects", "loop", "editor"}
    /\ EffectInit /\ LoopInit /\ EditorInit

Next ==
    /\ UNCHANGED subject
    /\ \/ /\ subject = "effects"
          /\ EffectNext /\ UNCHANGED <<loopVars, editorVars>>
       \/ /\ subject = "loop"
          /\ LoopNext /\ UNCHANGED <<effectVars, editorVars>>
       \/ /\ subject = "editor"
          /\ EditorNext /\ UNCHANGED <<effectVars, loopVars>>

Spec == Init /\ [][Next]_vars

\* Two effects ran at most.
FewEffects == Len(effects) <= 2

\* A request has its decision in its body, signed for what was inspected on its
\* behalf; the requests of a behaviour are of one kind.  One run writes a stream, and
\* hands write after it or where nothing was ingested.
DecisionsFirst ==
    /\ \A h \in Decisions : signed'[h] # signed[h] =>
          \E m \in Commands : m.decision = h /\ signed'[h] = Effect(m, Subject(m))
    /\ \A c \in Calls : call[c] = Idle /\ call'[c] # Idle =>
          LET m == call'[c].command IN
          /\ signed[m.decision] # None
          /\ \A i \in DOMAIN effects : effects[i].effect.op = m.op
          /\ \A d \in Calls : call[d] # Idle => call[d].command.op = m.op
    /\ stream # Empty \/ records # {} => UNCHANGED <<runner, ingestion>>
    /\ stream' \in Handmade \/ records' # records => answered # {} \/ ingestion = 0

Queueing == queue # <<>> \/ requests # {} \/ \E s \in Slots : waits[s].op = "sync"

\* The editor is about one update or about two requests of what is open; while it
\* queues, one item has been shown, items move, nothing is opened, and only then the
\* network changes and the page is reloaded.  Others revise one item; a list that is
\* behind is loaded apart from the rest; after an update that is on record nothing
\* else begins; and the second slot is taken while the first is.
EditedInOrder ==
    /\ Queueing => tab' \in {tab, Blank} \/ tab.current = Nothing
    /\ \A s \in Slots :
          /\ Queueing => waits'[s].op \in {"free", "sync", waits[s].op}
          /\ waits'[s].op = "sync" => \A r \in Slots : waits[r].op \in {"free", "sync"}
          /\ waits'[s].op = "load" => \A r \in Slots \ {s} : waits'[r] = Free
          /\ waits[s] = Free /\ waits'[s].op = "load" => \E k \in Items : listed[k] # Version(k)
          /\ updates # {} /\ waits[s] = Free => waits'[s].op \in {"free", "apply"}
    /\ waits[w2] = Free /\ waits'[w2] # Free => waits[w1] # Free
    /\ queue' # <<>> => stored[ka] = Nothing
    /\ online' # online => queue # <<>>
    /\ tab' = Blank /\ tab # Blank => Queueing
    /\ updates' = updates /\ history' # history =>
          history'[ka] = history[ka] /\ \A s \in Slots : waits[s].op # "load"
    /\ updates' # {} \/ tab'.pending # Nothing => drawn' <= 1

InOrder == IF subject = "editor" THEN EditedInOrder ELSE DecisionsFirst

Symmetry == Permutations(Calls) \cup Permutations({b1, b2})

=============================================================================
