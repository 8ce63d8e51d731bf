---------------------------- MODULE GovernedEffects ----------------------------
(***************************************************************************)
(* A consequential effect behind the policy chokepoint (policy_gate.py),   *)
(* as the Paperless gateway (paperless_gateway.py, paperless.py,           *)
(* paperless_ingestion.py) asks for it: it captures an exact version, says *)
(* what a decision about it has to cover, has the policy service judge the *)
(* request and the decision, and then writes, to Paperless or to the store *)
(* of documents.                                                           *)
(*                                                                         *)
(* Nothing is locked between these steps: Paperless is another system,     *)
(* whose documents move on by themselves, and the policy service answers   *)
(* about one moment.  Every step may fail, or be the last of its process.  *)
(***************************************************************************)
EXTENDS Naturals, Sequences

CONSTANTS
    Docs,      \* Paperless documents
    Contents,  \* bytes that a version may have
    Decisions, \* decision_id of the decisions that humans sign
    Sources,   \* the <<document, version>> that the Task Contract declares
    Commands,  \* what callers send: op, doc, version, content, change, decision
    Calls,     \* requests handled at the same time
    MaxMoves,  \* bound on the history of a document
    None

\* What callers send is about documents, versions and decisions that there are.
ASSUME EffectsAssumption ==
    \A m \in Commands :
       /\ m.op \in {"metadata", "intake", "qualification", "upload"}
       /\ m.doc \in Docs /\ m.version \in 1..MaxMoves /\ m.decision \in Decisions

VARIABLES
    shown,    \* shown[d]: what Paperless had of d after each move: the bytes of its versions
    signed,   \* signed[h]: the effect that decision h allows, or None
    consumed, \* decision_ids that the one-shot consumer has taken
    effects,  \* the effects that ran, in order
    cards,    \* source_documents.source_digest, by source
    versions, \* document_versions, by source
    bindings, \* paperless_source_bindings.source_digest, by source
    call,     \* call[c]: what the handler has read
    answer    \* the last answer with status "applied"

paperVars == <<shown, signed>>
storeVars == <<cards, versions, bindings>>
gateVars == <<consumed, effects>>
effectVars == <<paperVars, storeVars, gateVars, call, answer>>

\* Operations of the gateway; a qualification and an upload have other callers.
Gateway == {"metadata", "intake"}

\* The adapters that say themselves what the decision has to cover.
Bound == Gateway \cup {"qualification"}

SourceRefs == Docs \X (1..MaxMoves)

\* The effect of a command: its object_identity and what its digest covers.
Effect(m, bytes) ==
    [op |-> m.op, doc |-> m.doc, version |-> m.version, bytes |-> bytes, change |-> m.change]

Idle == [pc |-> "idle"]

Step(c, pc) == call[c].pc = pc

Goes(c, pc) == call' = [call EXCEPT ![c].pc = pc]

-----------------------------------------------------------------------------
(* Paperless, and the human.                                               *)

\* A download of version v of document d, after the k-th move of d.
BytesAt(d, v, k) == IF v \in DOMAIN shown[d][k] THEN shown[d][k][v] ELSE None

\* A download without a version.
LatestAt(d, k) == shown[d][k][Len(shown[d][k])]

Now(d) == Len(shown[d])

\* A document gets a version, or the bytes of a version of it are replaced.
Move(d, v, b) ==
    LET present == shown[d][Now(d)] IN
    /\ Now(d) < MaxMoves
    /\ v \in 1..(Len(present) + 1)
    /\ BytesAt(d, v, Now(d)) # b
    /\ shown' = [shown EXCEPT ![d] =
          Append(@, IF v \in DOMAIN present THEN [present EXCEPT ![v] = b] ELSE Append(present, b))]
    /\ UNCHANGED <<signed, storeVars, gateVars, call, answer>>

\* capture_document, or the content that a caller brings.
Subject(m) == IF m.op \in Gateway THEN BytesAt(m.doc, m.version, Now(m.doc)) ELSE m.content

\* A human signs what the inspection of a capture shows.
Sign(h, m) ==
    /\ signed[h] = None
    /\ Subject(m) # None
    /\ signed' = [signed EXCEPT ![h] = Effect(m, Subject(m))]
    /\ UNCHANGED <<shown, storeVars, gateVars, call, answer>>

-----------------------------------------------------------------------------
(* The chokepoint.                                                         *)

\* The gateway captures before it asks, and the source must be declared.
Capture(c, m) ==
    /\ call[c] = Idle
    /\ Subject(m) # None
    /\ m.op \in Gateway => <<m.doc, m.version>> \in Sources
    /\ call' = [call EXCEPT ![c] = [pc |-> "captured", command |-> m, bytes |-> Subject(m)]]
    /\ UNCHANGED <<paperVars, storeVars, gateVars, answer>>

\* bind_decision_payload: the expectation of the adapter, where it has one.
Expectation(c) ==
    LET m == call[c].command IN
    IF m.op \in Bound THEN Effect(m, call[c].bytes) ELSE signed[m.decision]

\* Facts of the executor, which a caller cannot lower.
External(m) == m.op # "intake"

PolicyReply == [eligible : BOOLEAN, external : BOOLEAN, guarded : BOOLEAN, validated : BOOLEAN]

\* An allow of the preflight is never more than what it says.
Admits(reply, m) ==
    /\ reply.eligible
    /\ External(m) => reply.external
    /\ reply.guarded => reply.validated

Preflight(c, reply) ==
    /\ Step(c, "captured")
    /\ Admits(reply, call[c].command)
    /\ call' = [call EXCEPT ![c] =
          [pc |-> "eligible", command |-> @.command, bytes |-> @.bytes, guarded |-> reply.guarded]]
    /\ UNCHANGED <<paperVars, storeVars, gateVars, answer>>

\* validate_decision finds the decision signed, and for what is expected.
Validate(c) ==
    LET m == call[c].command IN
    /\ Step(c, "eligible")
    /\ signed[m.decision] # None
    /\ signed[m.decision] = Expectation(c)
    /\ call' = [call EXCEPT ![c] =
          [pc |-> "valid", command |-> m, bytes |-> @.bytes, guarded |-> @.guarded,
           from |-> Now(m.doc), card |-> None]]
    /\ UNCHANGED <<paperVars, storeVars, gateVars, answer>>

Unconsumed(h) == h \notin consumed

\* A guarded effect needs the consumer, which the gateway does not pass.
Consume(c) ==
    LET m == call[c].command IN
    /\ Step(c, "valid")
    /\ IF call[c].guarded
       THEN /\ m.op = "qualification"
            /\ Unconsumed(m.decision)
            /\ consumed' = consumed \cup {m.decision}
       ELSE UNCHANGED consumed
    /\ Goes(c, "allowed")
    /\ UNCHANGED <<paperVars, storeVars, effects, answer>>

-----------------------------------------------------------------------------
(* The effects.                                                            *)

\* The effect of call c runs now.
Runs(c) ==
    LET m == call[c].command IN
    effects' = Append(effects,
        [effect |-> Effect(m, call[c].bytes), decision |-> m.decision,
         guarded |-> call[c].guarded, from |-> call[c].from, to |-> Now(m.doc)])

\* The qualified effect of a test, or post_document.
Perform(c) ==
    /\ Step(c, "allowed")
    /\ call[c].command.op \notin Gateway
    /\ Runs(c)
    /\ Goes(c, "done")
    /\ UNCHANGED <<paperVars, storeVars, consumed, answer>>

\* _assert_capture_still_current: the version has the same bytes ...
RecheckVersion(c) ==
    LET m == call[c].command IN
    /\ Step(c, "allowed")
    /\ m.op = "metadata"
    /\ BytesAt(m.doc, m.version, Now(m.doc)) = call[c].bytes
    /\ Goes(c, "exact")
    /\ UNCHANGED <<paperVars, storeVars, gateVars, answer>>

\* Seeded fault: the live document is not looked at.
CurrentAnyway(c) == TRUE

StillCurrent(c) == LatestAt(call[c].command.doc, Now(call[c].command.doc)) = call[c].bytes

\* ... and so has the live document.
RecheckLatest(c) ==
    /\ Step(c, "exact")
    /\ StillCurrent(c)
    /\ Goes(c, "current")
    /\ UNCHANGED <<paperVars, storeVars, gateVars, answer>>

\* update_document_metadata: the answer to the PATCH may be lost.
Patch(c) ==
    /\ Step(c, "current")
    /\ Runs(c)
    /\ Goes(c, "done")
    /\ UNCHANGED <<paperVars, storeVars, consumed, answer>>

Source(m) == <<m.doc, m.version>>

\* store.ingest commits the card and the version, and on a failure of the
\* conversion their failed forms, before it raises.
Ingest(c, pc) ==
    LET m == call[c].command IN
    /\ Step(c, "allowed")
    /\ m.op = "intake"
    /\ pc \in {"ingested", "failed"}
    /\ cards' = [cards EXCEPT ![Source(m)] = call[c].bytes]
    /\ versions' = [versions EXCEPT ![Source(m)] = @ \cup {call[c].bytes}]
    /\ Runs(c)
    /\ Goes(c, pc)
    /\ UNCHANGED <<paperVars, bindings, consumed, answer>>

\* Seeded fault: the digest of the card is not compared.
MatchesAnyway(c) == TRUE

Matches(c) == cards[Source(call[c].command)] = call[c].bytes

\* The card that is answered is read after the commit.
ReadCard(c) ==
    /\ Step(c, "ingested")
    /\ Matches(c)
    /\ call' = [call EXCEPT ![c] = [@ EXCEPT !.pc = "matched", !.card = cards[Source(call[c].command)]]]
    /\ UNCHANGED <<paperVars, storeVars, gateVars, answer>>

\* bind_capture
Bind(c) ==
    /\ Step(c, "matched")
    /\ bindings' = [bindings EXCEPT ![Source(call[c].command)] = call[c].bytes]
    /\ Goes(c, "done")
    /\ UNCHANGED <<paperVars, cards, versions, gateVars, answer>>

Applied(c) ==
    /\ Step(c, "done")
    /\ answer' = [command |-> call[c].command, card |-> call[c].card]
    /\ call' = [call EXCEPT ![c] = Idle]
    /\ UNCHANGED <<paperVars, storeVars, gateVars>>

\* Blocked, refused, unanswered or interrupted.
Refuse(c) ==
    /\ call[c] # Idle
    /\ call' = [call EXCEPT ![c] = Idle]
    /\ UNCHANGED <<paperVars, storeVars, gateVars, answer>>

EffectInit ==
    /\ \E b \in Contents : shown = [d \in Docs |-> <<<<b>>>>]
    /\ signed = [h \in Decisions |-> None]
    /\ consumed = {} /\ effects = <<>>
    /\ cards = [s \in SourceRefs |-> None]
    /\ versions = [s \in SourceRefs |-> {}]
    /\ bindings = [s \in SourceRefs |-> None]
    /\ call = [c \in Calls |-> Idle]
    /\ answer = None

EffectNext ==
    \/ \E d \in Docs, v \in 1..MaxMoves, b \in Contents : Move(d, v, b)
    \/ \E h \in Decisions, m \in Commands : Sign(h, m)
    \/ \E c \in Calls, m \in Commands : Capture(c, m)
    \/ \E c \in Calls, reply \in PolicyReply : Preflight(c, reply)
    \/ \E c \in Calls, pc \in {"ingested", "failed"} : Ingest(c, pc)
    \/ \E c \in Calls :
          \/ Validate(c) \/ Consume(c) \/ Perform(c)
          \/ RecheckVersion(c) \/ RecheckLatest(c) \/ Patch(c)
          \/ ReadCard(c) \/ Bind(c) \/ Applied(c) \/ Refuse(c)

EffectSpec == EffectInit /\ [][EffectNext]_effectVars

-----------------------------------------------------------------------------
(* Properties.                                                             *)

EffectType ==
    [op : Bound \cup {"upload"}, doc : Docs, version : 1..MaxMoves,
     bytes : {m.content : m \in Commands} \cup Contents, change : {m.change : m \in Commands}]

EffectsTypeOK ==
    /\ shown \in [Docs -> Seq(Seq(Contents))]
    /\ signed \in [Decisions -> EffectType \cup {None}]
    /\ consumed \subseteq Decisions
    /\ \A i \in DOMAIN effects : effects[i].effect \in EffectType
    /\ {cards, bindings} \subseteq [SourceRefs -> Contents \cup {None}]

\* An effect that an adapter bound is the one that a human signed, to the byte,
\* and a document whose metadata was written had these bytes as its latest at some
\* time after the decision was found valid (the two captures around the gate in
\* update_metadata and apply_metadata_update).
EffectsAreDecided ==
    /\ EffectsTypeOK
    /\ \A i \in DOMAIN effects :
          LET e == effects[i] IN
          /\ e.effect.op \in Bound => signed[e.decision] = e.effect
          /\ e.effect.op = "metadata" =>
                \E k \in e.from..e.to : LatestAt(e.effect.doc, k) = e.effect.bytes

\* A decision that the policy service wants used once is behind one effect at most,
\* whatever happened between its consumption and its effect (consume_decision).
OneShotOnce ==
    \A i, j \in DOMAIN effects :
       /\ effects[i].guarded => effects[i].decision \in consumed
       /\ effects[i].guarded /\ effects[j].guarded /\ effects[i].decision = effects[j].decision
             => i = j

\* What the store says of a Paperless source was decided: card, versions and binding
\* are of bytes that a human signed for, the first two agree, a binding has its version,
\* and the card of an answer is of the bytes of its own decision (intake_paperless_capture).
IntakesAreDecided ==
    /\ \A s \in SourceRefs :
          /\ \A b \in versions[s] : \E i \in DOMAIN effects :
                /\ effects[i].effect.op = "intake" /\ effects[i].effect.bytes = b
                /\ Source(effects[i].effect) = s
          /\ {cards[s], bindings[s]} \subseteq versions[s] \cup {None}
          /\ bindings[s] # None => cards[s] # None
    /\ answer # None /\ answer.command.op = "intake" =>
          /\ answer.card = signed[answer.command.decision].bytes
          /\ bindings[Source(answer.command)] # None

\* An effect runs on a decision about exactly what it does (EffectsAreDecided), a
\* one-shot decision runs one (OneShotOnce), and what an intake bound and answered
\* is what was decided (IntakesAreDecided).
EffectsAreGoverned == EffectsAreDecided /\ OneShotOnce /\ IntakesAreDecided

\* A PATCH meets the bytes that its decision is about ("A decision derived from an
\* exact historical capture must therefore not be replayed after the live document
\* advances to different bytes").
PatchMeetsItsBytes ==
    \A i \in DOMAIN effects :
       effects[i].effect.op = "metadata" =>
          LatestAt(effects[i].effect.doc, effects[i].to) = effects[i].effect.bytes

=============================================================================
