------------------------- MODULE GovernedEffects_proofs -------------------------
(* Theorems about the effects behind the policy chokepoint, the governed loop *)
(* and the mobile editor, for any number of documents, versions, decisions,   *)
(* callers, contracts, sources, rankings and functions that wait.             *)
EXTENDS GovernedEffects, GovernedLoop, MobileEditor, FiniteSetTheorems, TLAPS

-----------------------------------------------------------------------------
(* Shapes of the chokepoint.                                               *)

Bytes == {m.content : m \in Commands} \cup Contents

Judging == {"valid", "allowed", "exact", "current", "ingested", "failed", "matched", "done"}

Taken == [pc : {"captured"}, command : Commands, bytes : Bytes]
Eligible == [pc : {"eligible"}, command : Commands, bytes : Bytes, guarded : BOOLEAN]
Judged == [pc : Judging, command : Commands, bytes : Bytes, guarded : BOOLEAN, from : Nat,
           card : Bytes \cup {None}]

Ran == [effect : EffectType, decision : Decisions, guarded : BOOLEAN, from : Nat, to : Nat]

\* The points of one operation.
PointFits(pc, m) ==
    /\ pc \in {"exact", "current"} => m.op = "metadata"
    /\ pc \in {"ingested", "failed", "matched"} => m.op = "intake"

\* A call that captured has bytes, and those of a gateway are Paperless'.
Captured(q) ==
    q # Idle => /\ q.bytes # None
                /\ q.command.op \in Gateway => q.bytes \in Contents
                /\ PointFits(q.pc, q.command)

TypeInv ==
    /\ shown \in [Docs -> Seq(Seq(Contents))]
    /\ \A d \in Docs : Now(d) # 0
    /\ signed \in [Decisions -> EffectType \cup {None}]
    /\ consumed \subseteq Decisions
    /\ effects \in Seq(Ran)
    /\ cards \in [SourceRefs -> Contents \cup {None}]
    /\ bindings \in [SourceRefs -> Contents \cup {None}]
    /\ versions \in [SourceRefs -> SUBSET Contents]
    /\ call \in [Calls -> Taken \cup Eligible \cup Judged \cup {Idle}]
    /\ \A c \in Calls : Captured(call[c])
    /\ answer \in [command : Commands, card : Bytes \cup {None}] \cup {None}

LEMMA CommandShapes ==
    ASSUME NEW m \in Commands
    PROVE  /\ m.op \in Bound \cup {"upload"}
           /\ m.doc \in Docs /\ m.version \in 1..MaxMoves /\ m.decision \in Decisions
           /\ Source(m) \in SourceRefs
           /\ \A b \in Bytes : Effect(m, b) \in EffectType
  BY EffectsAssumption DEF Bound, Gateway, Source, SourceRefs, Effect, EffectType, Bytes

LEMMA SubjectShape ==
    ASSUME TypeInv, NEW m \in Commands, Subject(m) # None
    PROVE  Subject(m) \in Bytes /\ (m.op \in Gateway => Subject(m) \in Contents)
  <1>1. m.doc \in Docs /\ shown[m.doc] \in Seq(Seq(Contents)) /\ Now(m.doc) \in 1..Len(shown[m.doc])
    BY CommandShapes DEF TypeInv, Now
  <1>2. shown[m.doc][Now(m.doc)] \in Seq(Contents)
    BY <1>1
  <1>3. ASSUME m.op \in Gateway PROVE Subject(m) \in Contents
    BY <1>2, <1>3 DEF Subject, BytesAt
  <1>4. ASSUME m.op \notin Gateway PROVE Subject(m) \in Bytes
    BY <1>4 DEF Subject, Bytes
  <1> QED BY <1>3, <1>4 DEF Bytes

\* What a call may be, by its point.
LEMMA CallShapes ==
    ASSUME TypeInv, NEW c \in Calls
    PROVE  /\ call[c].pc = "idle" <=> call[c] = Idle
           /\ call[c].pc = "captured" => call[c] \in Taken
           /\ call[c].pc = "eligible" => call[c] \in Eligible
           /\ call[c].pc \in Judging => call[c] \in Judged
           /\ call[c] # Idle => call[c].command \in Commands /\ call[c].bytes \in Bytes
  BY DEF TypeInv, Taken, Eligible, Judged, Judging, Idle

\* A judged call that goes on is judged, with what it knew.
LEMMA GoesOn ==
    ASSUME TypeInv, NEW c \in Calls, call[c].pc \in Judging, NEW pc \in Judging, Goes(c, pc),
           PointFits(pc, call[c].command)
    PROVE  /\ call' \in [Calls -> Taken \cup Eligible \cup Judged \cup {Idle}]
           /\ call'[c] \in Judged /\ call'[c].pc = pc
           /\ call'[c].command = call[c].command /\ call'[c].bytes = call[c].bytes
           /\ call'[c].guarded = call[c].guarded /\ call'[c].from = call[c].from
           /\ call'[c].card = call[c].card
           /\ \A d \in Calls \ {c} : call'[d] = call[d]
           /\ \A d \in Calls : Captured(call'[d])
  <1>1. call[c] \in Judged
    BY CallShapes
  <1>2. /\ call' \in [Calls -> Taken \cup Eligible \cup Judged \cup {Idle}]
        /\ call'[c] \in Judged /\ call'[c].pc = pc
        /\ call'[c].command = call[c].command /\ call'[c].bytes = call[c].bytes
        /\ call'[c].guarded = call[c].guarded /\ call'[c].from = call[c].from
        /\ call'[c].card = call[c].card
        /\ \A d \in Calls \ {c} : call'[d] = call[d]
    BY <1>1 DEF Goes, Judged, TypeInv
  <1>3. call[c] # Idle
    BY DEF Idle, Judging
  <1> QED BY <1>2, <1>3 DEF TypeInv, Captured

-----------------------------------------------------------------------------
(* Every state is well shaped.                                             *)

LEMMA TypeInit == EffectInit => TypeInv
  <1> SUFFICES ASSUME EffectInit PROVE TypeInv
    OBVIOUS
  <1>1. PICK b \in Contents : shown = [d \in Docs |-> <<<<b>>>>]
    BY DEF EffectInit
  <1>2. <<<<b>>>> \in Seq(Seq(Contents)) /\ Len(<<<<b>>>>) # 0
    OBVIOUS
  <1>3. shown \in [Docs -> Seq(Seq(Contents))] /\ \A d \in Docs : Now(d) # 0
    BY <1>1, <1>2 DEF Now
  <1>4. effects \in Seq(Ran)
    BY DEF EffectInit
  <1> QED BY <1>3, <1>4 DEF EffectInit, TypeInv, Captured

LEMMA RunsShape ==
    ASSUME TypeInv, NEW c \in Calls, call[c].pc \in Judging, Runs(c)
    PROVE  effects' \in Seq(Ran)
  <1> DEFINE m == call[c].command
             e == [effect |-> Effect(m, call[c].bytes), decision |-> m.decision,
                   guarded |-> call[c].guarded, from |-> call[c].from, to |-> Now(m.doc)]
  <1>1. call[c] \in Judged
    BY CallShapes
  <1>2. m \in Commands /\ call[c].bytes \in Bytes /\ call[c].guarded \in BOOLEAN /\ call[c].from \in Nat
    BY <1>1 DEF Judged
  <1>3. Effect(m, call[c].bytes) \in EffectType /\ m.decision \in Decisions /\ m.doc \in Docs
    BY <1>2, CommandShapes
  <1>4. Now(m.doc) \in Nat
    BY <1>3 DEF TypeInv, Now
  <1>5. e \in Ran
    BY <1>2, <1>3, <1>4 DEF Ran
  <1> QED BY <1>5 DEF TypeInv, Runs

LEMMA TypeStep == TypeInv /\ [EffectNext]_effectVars => TypeInv'
  <1> SUFFICES ASSUME TypeInv, [EffectNext]_effectVars PROVE TypeInv'
    OBVIOUS
  <1> USE DEF paperVars, storeVars, gateVars
  <1>1. ASSUME NEW d \in Docs, NEW v \in 1..MaxMoves, NEW b \in Contents, Move(d, v, b)
        PROVE  TypeInv'
    <2> DEFINE present == shown[d][Now(d)]
               next == IF v \in DOMAIN present THEN [present EXCEPT ![v] = b] ELSE Append(present, b)
    <2>1. shown[d] \in Seq(Seq(Contents)) /\ Now(d) \in 1..Len(shown[d])
      BY DEF TypeInv, Now
    <2>2. present \in Seq(Contents)
      BY <2>1
    <2>3. next \in Seq(Contents)
      BY <2>2
    <2>4. Append(shown[d], next) \in Seq(Seq(Contents)) /\ Len(Append(shown[d], next)) # 0
      BY <2>1, <2>3
    <2>5. shown' = [shown EXCEPT ![d] = Append(shown[d], next)]
      BY <1>1 DEF Move
    <2> HIDE DEF next
    <2>6. shown' \in [Docs -> Seq(Seq(Contents))] /\ \A p \in Docs : Len(shown'[p]) # 0
      BY <2>4, <2>5 DEF TypeInv, Now
    <2> QED BY <2>6, <1>1 DEF Move, TypeInv, Now
  <1>2. ASSUME NEW h \in Decisions, NEW m \in Commands, Sign(h, m)
        PROVE  TypeInv'
    <2>1. Effect(m, Subject(m)) \in EffectType
      BY <1>2, SubjectShape, CommandShapes DEF Sign
    <2>2. signed' \in [Decisions -> EffectType \cup {None}]
      BY <1>2, <2>1 DEF Sign, TypeInv
    <2> QED BY <1>2, <2>2 DEF Sign, TypeInv, Now
  <1>3. ASSUME NEW c \in Calls, NEW m \in Commands, Capture(c, m)
        PROVE  TypeInv'
    <2> DEFINE q == [pc |-> "captured", command |-> m, bytes |-> Subject(m)]
    <2>1. /\ q \in Taken /\ q.bytes # None /\ (q.command.op \in Gateway => q.bytes \in Contents)
          /\ PointFits(q.pc, q.command)
      BY <1>3, SubjectShape DEF Capture, Taken, PointFits
    <2>2. call' = [call EXCEPT ![c] = q]
      BY <1>3 DEF Capture
    <2> HIDE DEF q
    <2>3. /\ call' \in [Calls -> Taken \cup Eligible \cup Judged \cup {Idle}]
          /\ \A d \in Calls : Captured(call'[d])
      BY <2>1, <2>2 DEF TypeInv, Captured
    <2> QED BY <1>3, <2>3 DEF Capture, TypeInv, Now
  <1>4. ASSUME NEW c \in Calls, NEW reply \in PolicyReply, Preflight(c, reply)
        PROVE  TypeInv'
    <2> DEFINE q == [pc |-> "eligible", command |-> call[c].command, bytes |-> call[c].bytes,
                     guarded |-> reply.guarded]
    <2>1. call[c] # Idle /\ call[c] \in Taken
      BY <1>4, CallShapes DEF Preflight, Step, Idle
    <2>2. /\ q \in Eligible /\ q.command = call[c].command /\ q.bytes = call[c].bytes
          /\ PointFits(q.pc, q.command)
      BY <2>1 DEF Eligible, Taken, PolicyReply, PointFits
    <2>3. call' = [call EXCEPT ![c] = q]
      BY <1>4 DEF Preflight
    <2> HIDE DEF q
    <2>4. /\ call' \in [Calls -> Taken \cup Eligible \cup Judged \cup {Idle}]
          /\ \A d \in Calls : Captured(call'[d])
      BY <2>1, <2>2, <2>3 DEF TypeInv, Captured
    <2> QED BY <1>4, <2>4 DEF Preflight, TypeInv, Now
  <1>5. ASSUME NEW c \in Calls, Validate(c)
        PROVE  TypeInv'
    <2> DEFINE m == call[c].command
               q == [pc |-> "valid", command |-> m, bytes |-> call[c].bytes,
                     guarded |-> call[c].guarded, from |-> Now(m.doc), card |-> None]
    <2>1. call[c] # Idle /\ call[c] \in Eligible
      BY <1>5, CallShapes DEF Validate, Step, Idle
    <2>2. m \in Commands /\ m.doc \in Docs /\ Now(m.doc) \in Nat
      BY <2>1, CommandShapes DEF Eligible, TypeInv, Now
    <2>3. /\ q \in Judged /\ q.command = m /\ q.bytes = call[c].bytes
          /\ PointFits(q.pc, q.command)
      BY <2>1, <2>2 DEF Eligible, Judged, Judging, PointFits
    <2>4. call' = [call EXCEPT ![c] = q]
      BY <1>5 DEF Validate
    <2> HIDE DEF q
    <2>5. /\ call' \in [Calls -> Taken \cup Eligible \cup Judged \cup {Idle}]
          /\ \A d \in Calls : Captured(call'[d])
      BY <2>1, <2>3, <2>4 DEF TypeInv, Captured
    <2> QED BY <1>5, <2>5 DEF Validate, TypeInv, Now
  <1>6. ASSUME NEW c \in Calls, Consume(c)
        PROVE  TypeInv'
    <2>1. /\ call[c].pc \in Judging /\ "allowed" \in Judging /\ Goes(c, "allowed")
          /\ PointFits("allowed", call[c].command)
      BY <1>6 DEF Consume, Step, Judging, PointFits
    <2>2. call[c].command.decision \in Decisions
      BY <2>1, CallShapes, CommandShapes DEF Judging, Idle
    <2>3. consumed' \subseteq Decisions
      BY <1>6, <2>2 DEF Consume, TypeInv
    <2> QED BY <1>6, <2>1, <2>3, GoesOn DEF Consume, TypeInv, Now
  <1>7. ASSUME NEW c \in Calls, Perform(c) \/ Patch(c)
        PROVE  TypeInv'
    <2>1. /\ call[c].pc \in Judging /\ "done" \in Judging /\ Goes(c, "done") /\ Runs(c)
          /\ PointFits("done", call[c].command)
      BY <1>7 DEF Perform, Patch, Step, Judging, PointFits
    <2> QED BY <1>7, <2>1, GoesOn, RunsShape DEF Perform, Patch, TypeInv, Now
  <1>8. ASSUME NEW c \in Calls, RecheckVersion(c) \/ RecheckLatest(c)
        PROVE  TypeInv'
    <2>1. /\ call[c].pc \in Judging
          /\ \E pc \in Judging : Goes(c, pc) /\ PointFits(pc, call[c].command)
      <3>1. call[c] # Idle
        BY <1>8 DEF RecheckVersion, RecheckLatest, Step, Idle
      <3>2. PointFits(call[c].pc, call[c].command)
        BY <3>1 DEF TypeInv, Captured
      <3> QED BY <1>8, <3>2 DEF RecheckVersion, RecheckLatest, Step, Judging, PointFits
    <2> QED BY <1>8, <2>1, GoesOn DEF RecheckVersion, RecheckLatest, TypeInv, Now
  <1>9. ASSUME NEW c \in Calls, NEW pc \in {"ingested", "failed"}, Ingest(c, pc)
        PROVE  TypeInv'
    <2> DEFINE s == Source(call[c].command)
               b == call[c].bytes
    <2>1. /\ call[c].pc \in Judging /\ pc \in Judging /\ Goes(c, pc) /\ Runs(c)
          /\ PointFits(pc, call[c].command)
      BY <1>9 DEF Ingest, Step, Judging, PointFits
    <2>2. b \in Contents /\ s \in SourceRefs
      BY <1>9, <2>1, CallShapes, CommandShapes DEF Ingest, TypeInv, Captured, Gateway, Judging, Idle
    <2>3. cards' = [cards EXCEPT ![s] = b] /\ versions' = [versions EXCEPT ![s] = @ \cup {b}]
      BY <1>9 DEF Ingest
    <2> HIDE DEF s, b
    <2>4. /\ cards' \in [SourceRefs -> Contents \cup {None}]
          /\ versions' \in [SourceRefs -> SUBSET Contents]
      BY <2>2, <2>3 DEF TypeInv
    <2> QED BY <1>9, <2>1, <2>4, GoesOn, RunsShape DEF Ingest, TypeInv, Now
  <1>10. ASSUME NEW c \in Calls, ReadCard(c)
         PROVE  TypeInv'
    <2> DEFINE b == cards[Source(call[c].command)]
               q == [call[c] EXCEPT !.pc = "matched", !.card = b]
    <2>1. call[c] # Idle /\ call[c] \in Judged
      BY <1>10, CallShapes DEF ReadCard, Step, Idle, Judging
    <2>2. b \in Bytes \cup {None}
      BY <2>1, CommandShapes DEF Judged, TypeInv, Bytes
    <2> HIDE DEF b
    <2>3. /\ q \in Judged /\ q.command = call[c].command /\ q.bytes = call[c].bytes
          /\ q.pc = "matched"
      BY <2>1, <2>2 DEF Judged, Judging
    <2>4. call' = [call EXCEPT ![c] = q]
      BY <1>10 DEF ReadCard, b
    <2> HIDE DEF q
    <2>5. PointFits("ingested", call[c].command)
      BY <1>10, <2>1 DEF ReadCard, Step, TypeInv, Captured
    <2>6. /\ call' \in [Calls -> Taken \cup Eligible \cup Judged \cup {Idle}]
          /\ \A d \in Calls : Captured(call'[d])
      BY <2>1, <2>3, <2>4, <2>5 DEF TypeInv, Captured, PointFits
    <2> QED BY <1>10, <2>6 DEF ReadCard, TypeInv, Now
  <1>11. ASSUME NEW c \in Calls, Bind(c)
         PROVE  TypeInv'
    <2> DEFINE s == Source(call[c].command)
               b == call[c].bytes
    <2>1. /\ call[c].pc \in Judging /\ "done" \in Judging /\ Goes(c, "done")
          /\ PointFits("done", call[c].command)
      BY <1>11 DEF Bind, Step, Judging, PointFits
    <2>2. bindings' = [bindings EXCEPT ![s] = b]
      BY <1>11 DEF Bind
    <2>3. b \in Contents
      <3>1. call[c] # Idle /\ call[c].pc = "matched"
        BY <1>11 DEF Bind, Step, Idle
      <3> QED BY <3>1 DEF TypeInv, Captured, PointFits, Gateway
    <2> QED BY <1>11, <2>1, <2>2, <2>3, GoesOn DEF Bind, TypeInv, Now
  <1>12. ASSUME NEW c \in Calls, Applied(c)
         PROVE  TypeInv'
    <2>1. call[c] \in Judged
      BY <1>12, CallShapes DEF Applied, Step, Judging
    <2>2. answer' \in [command : Commands, card : Bytes \cup {None}] \cup {None}
      BY <1>12, <2>1 DEF Applied, Judged
    <2> QED BY <1>12, <2>2 DEF Applied, TypeInv, Now, Captured
  <1>13. ASSUME NEW c \in Calls, Refuse(c)
         PROVE  TypeInv'
    BY <1>13 DEF Refuse, TypeInv, Now, Captured
  <1>14. CASE UNCHANGED effectVars
    BY <1>14 DEF effectVars, TypeInv, Now
  <1> QED
    BY <1>1, <1>2, <1>3, <1>4, <1>5, <1>6, <1>7, <1>8, <1>9, <1>10, <1>11, <1>12, <1>13, <1>14
    DEF EffectNext

-----------------------------------------------------------------------------
(* What has been said stays: the history of a document, a signed decision,  *)
(* the versions of the store.                                               *)

Grows ==
    /\ \A d \in Docs :
          /\ Now(d)' \in Nat /\ Now(d) <= Now(d)'
          /\ \A k \in 1..Now(d) : LatestAt(d, k)' = LatestAt(d, k)
    /\ \A h \in Decisions : signed[h] # None => signed'[h] = signed[h]
    /\ \A s \in SourceRefs :
          /\ versions[s] \subseteq versions'[s]
          /\ cards[s] # None => cards'[s] # None
          /\ bindings[s] # None => bindings'[s] # None

LEMMA StepsGrow == TypeInv /\ [EffectNext]_effectVars => Grows
  <1> SUFFICES ASSUME TypeInv, [EffectNext]_effectVars PROVE Grows
    OBVIOUS
  <1> USE DEF paperVars, storeVars, gateVars
  <1>0. TypeInv'
    BY TypeStep
  <1>1. ASSUME UNCHANGED paperVars
        PROVE  /\ \A d \in Docs :
                     /\ Now(d)' \in Nat /\ Now(d) <= Now(d)'
                     /\ \A k \in 1..Now(d) : LatestAt(d, k)' = LatestAt(d, k)
               /\ \A h \in Decisions : signed[h] # None => signed'[h] = signed[h]
    BY <1>1 DEF TypeInv, Now, LatestAt
  <1>2. ASSUME UNCHANGED storeVars
        PROVE  \A s \in SourceRefs :
                  /\ versions[s] \subseteq versions'[s]
                  /\ cards[s] # None => cards'[s] # None
                  /\ bindings[s] # None => bindings'[s] # None
    BY <1>2
  <1>3. ASSUME NEW d \in Docs, NEW v \in 1..MaxMoves, NEW b \in Contents, Move(d, v, b)
        PROVE  Grows
    <2>1. PICK next : shown' = [shown EXCEPT ![d] = Append(shown[d], next)]
      BY <1>3 DEF Move
    <2>2. ASSUME NEW p \in Docs
          PROVE  /\ Now(p)' \in Nat /\ Now(p) <= Now(p)'
                 /\ \A k \in 1..Now(p) : LatestAt(p, k)' = LatestAt(p, k)
      <3>1. CASE p # d
        BY <2>1, <3>1 DEF TypeInv, Now, LatestAt
      <3>2. CASE p = d
        <4>1. shown[d] \in Seq(Seq(Contents)) /\ shown'[d] = Append(shown[d], next)
          BY <2>1 DEF TypeInv
        <4>2. /\ Len(shown'[d]) = Len(shown[d]) + 1
              /\ \A k \in 1..Len(shown[d]) : shown'[d][k] = shown[d][k]
          BY <4>1
        <4> QED BY <3>2, <4>1, <4>2 DEF Now, LatestAt
      <3> QED BY <3>1, <3>2
    <2> QED BY <2>2, <1>2, <1>3 DEF Move, Grows
  <1>4. ASSUME NEW h \in Decisions, NEW m \in Commands, Sign(h, m)
        PROVE  Grows
    <2>1. \A d \in Docs :
             /\ Now(d)' \in Nat /\ Now(d) <= Now(d)'
             /\ \A k \in 1..Now(d) : LatestAt(d, k)' = LatestAt(d, k)
      BY <1>4 DEF Sign, TypeInv, Now, LatestAt
    <2>2. \A g \in Decisions : signed[g] # None => signed'[g] = signed[g]
      BY <1>4 DEF Sign, TypeInv
    <2> QED BY <1>2, <1>4, <2>1, <2>2 DEF Sign, Grows
  <1>5. ASSUME NEW c \in Calls, NEW pc \in {"ingested", "failed"}, Ingest(c, pc)
        PROVE  Grows
    <2>1. call[c] # Idle /\ call[c].bytes # None
      BY <1>5 DEF Ingest, Step, Idle, TypeInv, Captured
    <2>2. \A s \in SourceRefs :
             /\ versions[s] \subseteq versions'[s]
             /\ cards[s] # None => cards'[s] # None
             /\ bindings[s] # None => bindings'[s] # None
      BY <1>5, <2>1 DEF Ingest, TypeInv
    <2> QED BY <1>1, <1>5, <2>2 DEF Ingest, Grows
  <1>6. ASSUME NEW c \in Calls, Bind(c)
        PROVE  Grows
    <2>1. call[c] # Idle /\ call[c].bytes # None
      BY <1>6 DEF Bind, Step, Idle, TypeInv, Captured
    <2>2. \A s \in SourceRefs :
             /\ versions[s] \subseteq versions'[s]
             /\ cards[s] # None => cards'[s] # None
             /\ bindings[s] # None => bindings'[s] # None
      BY <1>6, <2>1 DEF Bind, TypeInv
    <2> QED BY <1>1, <1>6, <2>2 DEF Bind, Grows
  <1>7. ASSUME UNCHANGED <<paperVars, storeVars>> PROVE Grows
    BY <1>1, <1>2, <1>7 DEF Grows
  <1> QED
    BY <1>3, <1>4, <1>5, <1>6, <1>7
    DEF EffectNext, effectVars, Capture, Preflight, Validate, Consume, Perform, RecheckVersion,
        RecheckLatest, Patch, ReadCard, Applied, Refuse

\* What an effect that ran has behind it: its decision, and the moments between
\* which it was looked at.
Grounded(e) ==
    /\ e.effect.op \in Bound => signed[e.decision] # None /\ signed[e.decision] = e.effect
    /\ e.from \in 1..e.to /\ e.to <= Now(e.effect.doc)
    /\ e.effect.op = "metadata" =>
          \E k \in e.from..e.to : LatestAt(e.effect.doc, k) = e.effect.bytes

LEMMA GroundedStays ==
    ASSUME TypeInv, Grows, NEW e \in Ran, Grounded(e)
    PROVE  Grounded(e)'
  <1>1. e.decision \in Decisions /\ e.effect.doc \in Docs /\ e.from \in Nat /\ e.to \in Nat
    BY DEF Ran, EffectType
  <1>2. e.effect.op \in Bound => signed'[e.decision] # None /\ signed'[e.decision] = e.effect
    BY <1>1 DEF Grounded, Grows
  <1>3. Now(e.effect.doc) \in Nat /\ Now(e.effect.doc)' \in Nat /\ Now(e.effect.doc) <= Now(e.effect.doc)'
    BY <1>1 DEF TypeInv, Now, Grows
  <1>4. e.to <= Now(e.effect.doc)'
    BY <1>1, <1>3 DEF Grounded
  <1>5. ASSUME e.effect.op = "metadata"
        PROVE  \E k \in e.from..e.to : LatestAt(e.effect.doc, k)' = e.effect.bytes
    <2>1. PICK k \in e.from..e.to : LatestAt(e.effect.doc, k) = e.effect.bytes
      BY <1>5 DEF Grounded
    <2>2. k \in 1..Now(e.effect.doc)
      BY <1>1, <1>3 DEF Grounded
    <2> QED BY <1>1, <2>1, <2>2 DEF Grows
  <1> QED BY <1>2, <1>4, <1>5 DEF Grounded

\* What a judged call has behind it.
Standing(q) ==
    q.pc \in Judging =>
       /\ q.command.op \in Bound =>
             /\ signed[q.command.decision] # None
             /\ signed[q.command.decision] = Effect(q.command, q.bytes)
       /\ q.from \in 1..Now(q.command.doc)
       /\ q.pc = "current" =>
             \E k \in q.from..Now(q.command.doc) : LatestAt(q.command.doc, k) = q.bytes
       /\ q.guarded /\ q.pc # "valid" => q.command.op = "qualification"
       /\ q.command.op = "intake" =>
             /\ q.pc \in {"ingested", "failed", "matched", "done"} =>
                   /\ q.bytes \in versions[Source(q.command)]
                   /\ cards[Source(q.command)] # None
             /\ q.pc \in {"matched", "done"} => q.card = q.bytes
             /\ q.pc = "done" => bindings[Source(q.command)] # None

LEMMA StandingStays ==
    ASSUME TypeInv, Grows, NEW q, q.pc \in Judging => q \in Judged, Standing(q)
    PROVE  Standing(q)'
  <1> SUFFICES ASSUME q.pc \in Judging PROVE Standing(q)'
    BY DEF Standing
  <1> DEFINE m == q.command
  <1>1. /\ m \in Commands /\ q.from \in Nat
        /\ m.decision \in Decisions /\ m.doc \in Docs /\ Source(m) \in SourceRefs
    BY CommandShapes DEF Judged
  <1>2. Now(m.doc) \in Nat /\ Now(m.doc)' \in Nat /\ Now(m.doc) <= Now(m.doc)'
    BY <1>1 DEF TypeInv, Now, Grows
  <1>3. q.from \in 1..Now(m.doc)'
    BY <1>1, <1>2 DEF Standing
  <1>4. m.op \in Bound =>
           signed'[m.decision] # None /\ signed'[m.decision] = Effect(m, q.bytes)
    BY <1>1 DEF Standing, Grows
  <1>5. ASSUME q.pc = "current"
        PROVE  \E k \in q.from..Now(m.doc)' : LatestAt(m.doc, k)' = q.bytes
    <2>1. PICK k \in q.from..Now(m.doc) : LatestAt(m.doc, k) = q.bytes
      BY <1>5 DEF Standing
    <2>2. k \in 1..Now(m.doc) /\ k \in q.from..Now(m.doc)'
      BY <1>1, <1>2, <2>1 DEF Standing
    <2> QED BY <1>1, <2>1, <2>2 DEF Grows
  <1>6. m.op = "intake" =>
           /\ q.pc \in {"ingested", "failed", "matched", "done"} =>
                 q.bytes \in versions'[Source(m)] /\ cards'[Source(m)] # None
           /\ q.pc \in {"matched", "done"} => q.card = q.bytes
           /\ q.pc = "done" => bindings'[Source(m)] # None
    BY <1>1 DEF Standing, Grows
  <1> QED BY <1>3, <1>4, <1>5, <1>6 DEF Standing

-----------------------------------------------------------------------------
(* A judged call stands on what it has read.                               *)

StandInv == TypeInv /\ \A c \in Calls : Standing(call[c])

\* Only call c goes on.
Others(c) == \A d \in Calls \ {c} : call'[d] = call[d]

LEMMA OthersStand ==
    ASSUME StandInv, Grows, NEW d \in Calls, call'[d] = call[d]
    PROVE  Standing(call[d])'
  <1>1. PICK q : q = call[d]
    OBVIOUS
  <1>2. (q.pc \in Judging => q \in Judged) /\ Standing(q) /\ TypeInv
    BY <1>1, CallShapes DEF StandInv
  <1>3. Standing(q)'
    BY <1>2, StandingStays
  <1> QED BY <1>1, <1>3 DEF Standing

\* A call that goes on by a step that writes nothing else stands as it stood.
LEMMA StandsOn ==
    ASSUME StandInv, Grows, NEW c \in Calls, call[c].pc \in Judging, NEW pc \in Judging,
           Goes(c, pc), PointFits(pc, call[c].command),
           pc \notin {"current", "ingested", "failed", "matched", "done"},
           pc # "valid" /\ call[c].guarded => call[c].command.op = "qualification"
    PROVE  Standing(call[c])'
  <1>1. PICK q : q = call[c]
    OBVIOUS
  <1>2. q \in Judged /\ Standing(q) /\ q.pc \in Judging /\ TypeInv
    BY <1>1, CallShapes DEF StandInv
  <1>3. Standing(q)'
    BY <1>2, StandingStays
  <1>4. /\ call'[c].pc = pc
        /\ call'[c].command = q.command /\ call'[c].bytes = q.bytes
        /\ call'[c].guarded = q.guarded /\ call'[c].from = q.from
    BY <1>1, <1>2, GoesOn
  <1> QED BY <1>1, <1>2, <1>3, <1>4 DEF Standing

LEMMA StandStep == StandInv /\ [EffectNext]_effectVars => StandInv'
  <1> SUFFICES ASSUME StandInv, [EffectNext]_effectVars PROVE StandInv'
    OBVIOUS
  <1>0. TypeInv /\ TypeInv' /\ Grows
    BY TypeStep, StepsGrow DEF StandInv
  <1>a. ASSUME NEW c \in Calls, Others(c), Standing(call[c])'
        PROVE  StandInv'
    BY <1>0, <1>a, OthersStand DEF StandInv, Others
  <1>b. ASSUME UNCHANGED call PROVE StandInv'
    BY <1>0, <1>b, OthersStand DEF StandInv
  <1>c. ASSUME NEW c \in Calls, NEW pc \in Judging, call[c].pc \in Judging, Goes(c, pc),
               PointFits(pc, call[c].command)
        PROVE  Others(c)
    BY <1>0, <1>c, GoesOn DEF Others
  <1>1. ASSUME NEW c \in Calls, NEW m \in Commands, Capture(c, m) PROVE StandInv'
    <2>1. Others(c) /\ call'[c].pc = "captured"
      BY <1>0, <1>1 DEF Capture, Others, TypeInv
    <2> QED BY <1>a, <2>1 DEF Standing, Judging
  <1>2. ASSUME NEW c \in Calls, NEW reply \in PolicyReply, Preflight(c, reply) PROVE StandInv'
    <2>1. Others(c) /\ call'[c].pc = "eligible"
      BY <1>0, <1>2 DEF Preflight, Others, TypeInv
    <2> QED BY <1>a, <2>1 DEF Standing, Judging
  <1>3. ASSUME NEW c \in Calls, Validate(c) PROVE StandInv'
    <2> DEFINE m == call[c].command
    <2>1. /\ Others(c)
          /\ call'[c].pc = "valid" /\ call'[c].command = m /\ call'[c].bytes = call[c].bytes
          /\ call'[c].from = Now(m.doc)
      BY <1>0, <1>3 DEF Validate, Others, TypeInv
    <2>2. m \in Commands /\ m.doc \in Docs /\ Now(m.doc) \in Nat \ {0}
      BY <1>0, <1>3, CallShapes, CommandShapes DEF Validate, Step, Idle, TypeInv, Now
    <2>3. m.op \in Bound => signed[m.decision] # None /\ signed[m.decision] = Effect(m, call[c].bytes)
      BY <1>3 DEF Validate, Expectation
    <2>4. UNCHANGED <<shown, signed>>
      BY <1>3 DEF Validate, paperVars
    <2>5. Standing(call[c])'
      BY <2>1, <2>2, <2>3, <2>4 DEF Standing, Now
    <2> QED BY <1>a, <2>1, <2>5
  <1>4. ASSUME NEW c \in Calls, Consume(c) PROVE StandInv'
    <2>1. /\ call[c].pc \in Judging /\ "allowed" \in Judging /\ Goes(c, "allowed")
          /\ PointFits("allowed", call[c].command)
          /\ call[c].guarded => call[c].command.op = "qualification"
      BY <1>4 DEF Consume, Step, Judging, PointFits
    <2> QED BY <1>0, <1>a, <1>c, <2>1, StandsOn
  <1>5. ASSUME NEW c \in Calls, RecheckVersion(c) PROVE StandInv'
    <2>1. /\ call[c].pc \in Judging /\ "exact" \in Judging /\ Goes(c, "exact")
          /\ PointFits("exact", call[c].command)
          /\ call[c].pc = "allowed"
      BY <1>5 DEF RecheckVersion, Step, Judging, PointFits
    <2>2. call[c].guarded => call[c].command.op = "qualification"
      BY <2>1 DEF StandInv, Standing
    <2> QED BY <1>0, <1>a, <1>c, <2>1, <2>2, StandsOn
  <1>6. ASSUME NEW c \in Calls, RecheckLatest(c) PROVE StandInv'
    <2> DEFINE m == call[c].command
    <2>1. /\ call[c].pc = "exact" /\ call[c].pc \in Judging /\ "current" \in Judging
          /\ Goes(c, "current") /\ LatestAt(m.doc, Now(m.doc)) = call[c].bytes
          /\ call[c] # Idle
      BY <1>6 DEF RecheckLatest, StillCurrent, Step, Judging, Idle
    <2>2. m.op = "metadata" /\ PointFits("current", m)
      BY <1>0, <2>1 DEF TypeInv, Captured, PointFits
    <2>3. /\ call'[c].pc = "current"
          /\ call'[c].command = m /\ call'[c].bytes = call[c].bytes
          /\ call'[c].guarded = call[c].guarded /\ call'[c].from = call[c].from
      BY <1>0, <2>1, <2>2, GoesOn
    <2>4. Standing(call[c]) /\ m.doc \in Docs /\ Now(m.doc) \in Nat
      BY <1>0, <2>1, CallShapes, CommandShapes DEF StandInv, TypeInv, Now
    <2>5. UNCHANGED <<shown, signed>>
      BY <1>6 DEF RecheckLatest, paperVars
    <2>6. call[c].from \in 1..Now(m.doc) /\ Now(m.doc) \in call[c].from..Now(m.doc)
      BY <2>1, <2>4 DEF Standing
    <2>7. Standing(call[c])'
      BY <2>1, <2>2, <2>3, <2>4, <2>5, <2>6 DEF Standing, Now, LatestAt
    <2> QED BY <1>0, <1>a, <1>c, <2>1, <2>2, <2>7
  <1>7. ASSUME NEW c \in Calls, Perform(c) \/ Patch(c) PROVE StandInv'
    <2> DEFINE m == call[c].command
    <2>1. /\ call[c].pc \in {"allowed", "current"} /\ call[c].pc \in Judging /\ "done" \in Judging
          /\ Goes(c, "done") /\ call[c] # Idle /\ PointFits("done", m)
      BY <1>7 DEF Perform, Patch, Step, Judging, Idle, PointFits
    <2>2. m.op # "intake"
      BY <1>0, <1>7, <2>1 DEF Perform, Patch, Step, Gateway, TypeInv, Captured, PointFits
    <2>3. /\ call'[c].pc = "done"
          /\ call'[c].command = m /\ call'[c].bytes = call[c].bytes
          /\ call'[c].guarded = call[c].guarded /\ call'[c].from = call[c].from
      BY <1>0, <2>1, GoesOn
    <2>4. Standing(call[c])
      BY DEF StandInv
    <2>5. UNCHANGED <<shown, signed>>
      BY <1>7 DEF Perform, Patch, paperVars
    <2>6. Standing(call[c])'
      BY <2>1, <2>2, <2>3, <2>4, <2>5 DEF Standing, Now
    <2> QED BY <1>0, <1>a, <1>c, <2>1, <2>6
  <1>8. ASSUME NEW c \in Calls, NEW pc \in {"ingested", "failed"}, Ingest(c, pc) PROVE StandInv'
    <2> DEFINE m == call[c].command
    <2>1. /\ call[c].pc = "allowed" /\ call[c].pc \in Judging /\ pc \in Judging
          /\ Goes(c, pc) /\ call[c] # Idle /\ PointFits(pc, m) /\ m.op = "intake"
      BY <1>8 DEF Ingest, Step, Judging, Idle, PointFits
    <2>2. /\ call'[c].pc = pc
          /\ call'[c].command = m /\ call'[c].bytes = call[c].bytes
          /\ call'[c].guarded = call[c].guarded /\ call'[c].from = call[c].from
      BY <1>0, <2>1, GoesOn
    <2>3. Standing(call[c]) /\ call[c].bytes # None /\ Source(m) \in SourceRefs
      BY <1>0, <2>1, CallShapes, CommandShapes DEF StandInv, TypeInv, Captured
    <2>4. call[c].bytes \in versions'[Source(m)] /\ cards'[Source(m)] # None
      BY <1>0, <1>8, <2>3 DEF Ingest, TypeInv
    <2>5. UNCHANGED <<shown, signed>>
      BY <1>8 DEF Ingest, paperVars
    <2>6. Standing(call[c])'
      BY <2>1, <2>2, <2>3, <2>4, <2>5 DEF Standing, Now
    <2> QED BY <1>0, <1>a, <1>c, <2>1, <2>6
  <1>9. ASSUME NEW c \in Calls, ReadCard(c) PROVE StandInv'
    <2> DEFINE m == call[c].command
    <2>1. /\ call[c].pc = "ingested" /\ call[c].pc \in Judging
          /\ cards[Source(m)] = call[c].bytes
          /\ call' = [call EXCEPT ![c] = [call[c] EXCEPT !.pc = "matched", !.card = cards[Source(m)]]]
          /\ UNCHANGED <<shown, signed, versions, cards>>
      BY <1>9 DEF ReadCard, Matches, Step, Judging, paperVars, storeVars
    <2>2. call[c] \in Judged /\ Standing(call[c])
      BY <1>0, <2>1, CallShapes DEF StandInv
    <2>3. /\ call'[c].pc = "matched" /\ call'[c].card = call[c].bytes
          /\ call'[c].command = m /\ call'[c].bytes = call[c].bytes
          /\ call'[c].guarded = call[c].guarded /\ call'[c].from = call[c].from
          /\ Others(c)
      BY <1>0, <2>1, <2>2 DEF Judged, Others, TypeInv
    <2>4. Standing(call[c])'
      BY <2>1, <2>2, <2>3 DEF Standing, Now
    <2> QED BY <1>a, <2>3, <2>4
  <1>10. ASSUME NEW c \in Calls, Bind(c) PROVE StandInv'
    <2> DEFINE m == call[c].command
    <2>1. /\ call[c].pc = "matched" /\ call[c].pc \in Judging /\ "done" \in Judging
          /\ Goes(c, "done") /\ call[c] # Idle /\ PointFits("done", m)
          /\ UNCHANGED <<shown, signed, versions, cards>>
          /\ bindings' = [bindings EXCEPT ![Source(m)] = call[c].bytes]
      BY <1>10 DEF Bind, Step, Judging, Idle, PointFits, paperVars
    <2>2. /\ call'[c].pc = "done"
          /\ call'[c].command = m /\ call'[c].bytes = call[c].bytes
          /\ call'[c].guarded = call[c].guarded /\ call'[c].from = call[c].from
          /\ call'[c].card = call[c].card
      BY <1>0, <2>1, GoesOn
    <2>3. Standing(call[c]) /\ call[c].bytes # None /\ Source(m) \in SourceRefs
      BY <1>0, <2>1, CallShapes, CommandShapes DEF StandInv, TypeInv, Captured
    <2>4. bindings'[Source(m)] # None
      BY <1>0, <2>1, <2>3 DEF TypeInv
    <2>5. Standing(call[c])'
      BY <2>1, <2>2, <2>3, <2>4 DEF Standing, Now
    <2> QED BY <1>0, <1>a, <1>c, <2>1, <2>5
  <1>11. ASSUME NEW c \in Calls, Applied(c) \/ Refuse(c) PROVE StandInv'
    <2>1. Others(c) /\ call'[c] = Idle
      BY <1>0, <1>11 DEF Applied, Refuse, Others, TypeInv
    <2> QED BY <1>a, <2>1 DEF Standing, Judging, Idle
  <1>12. ASSUME NEW d \in Docs, NEW v \in 1..MaxMoves, NEW b \in Contents, Move(d, v, b)
         PROVE  StandInv'
    BY <1>b, <1>12 DEF Move
  <1>13. ASSUME NEW h \in Decisions, NEW m \in Commands, Sign(h, m) PROVE StandInv'
    BY <1>b, <1>13 DEF Sign
  <1>14. CASE UNCHANGED effectVars
    BY <1>b, <1>14 DEF effectVars
  <1> QED
    BY <1>1, <1>2, <1>3, <1>4, <1>5, <1>6, <1>7, <1>8, <1>9, <1>10, <1>11, <1>12, <1>13, <1>14
    DEF EffectNext

-----------------------------------------------------------------------------
(* The effects that ran.                                                   *)

\* The effect that call c would run now.
Due(c) ==
    [effect |-> Effect(call[c].command, call[c].bytes), decision |-> call[c].command.decision,
     guarded |-> call[c].guarded, from |-> call[c].from, to |-> Now(call[c].command.doc)]

\* A step runs no effect, or one: of a call that stands.
LEMMA EffectSteps ==
    ASSUME StandInv, [EffectNext]_effectVars
    PROVE  \/ UNCHANGED effects
           \/ \E c \in Calls :
                 /\ call[c].pc \in {"allowed", "current"}
                 /\ call[c].pc = "allowed" => call[c].command.op # "metadata"
                 /\ effects' = Append(effects, Due(c))
                 /\ call[c].guarded => call[c].pc = "allowed" /\ call[c].command.op = "qualification"
                 /\ call'[c].pc # "allowed"
                 /\ UNCHANGED <<paperVars, consumed, answer>>
                 /\ Others(c)
  <1>0. TypeInv
    BY DEF StandInv
  <1>1. ASSUME NEW c \in Calls, NEW pc \in Judging \ {"allowed"}, Goes(c, pc), Runs(c),
               call[c].pc \in {"allowed", "current"}, PointFits(pc, call[c].command),
               call[c].pc = "allowed" => call[c].command.op # "metadata",
               UNCHANGED <<paperVars, consumed, answer>>
        PROVE  /\ effects' = Append(effects, Due(c))
               /\ call[c].guarded => call[c].pc = "allowed" /\ call[c].command.op = "qualification"
               /\ call'[c].pc # "allowed"
               /\ Others(c)
    <2>1. effects' = Append(effects, Due(c))
      BY <1>1 DEF Runs, Due
    <2>2. call[c].pc \in Judging /\ call[c] # Idle
      BY <1>1 DEF Judging, Idle
    <2>3. Standing(call[c]) /\ PointFits(call[c].pc, call[c].command)
      BY <1>0, <2>2 DEF StandInv, TypeInv, Captured
    <2>4. call[c].guarded => call[c].pc = "allowed" /\ call[c].command.op = "qualification"
      BY <1>1, <2>2, <2>3 DEF Standing, PointFits
    <2> QED BY <1>0, <1>1, <2>1, <2>2, <2>4, GoesOn DEF Others
  <1>2. ASSUME NEW c \in Calls, Perform(c) \/ Patch(c)
        PROVE  /\ "done" \in Judging \ {"allowed"} /\ Goes(c, "done") /\ Runs(c)
               /\ call[c].pc \in {"allowed", "current"} /\ PointFits("done", call[c].command)
               /\ call[c].pc = "allowed" => call[c].command.op # "metadata"
               /\ UNCHANGED <<paperVars, consumed, answer>>
    BY <1>2 DEF Perform, Patch, Step, Judging, PointFits, Gateway
  <1>3. ASSUME NEW c \in Calls, NEW pc \in {"ingested", "failed"}, Ingest(c, pc)
        PROVE  /\ pc \in Judging \ {"allowed"} /\ Goes(c, pc) /\ Runs(c)
               /\ call[c].pc \in {"allowed", "current"} /\ PointFits(pc, call[c].command)
               /\ call[c].pc = "allowed" => call[c].command.op # "metadata"
               /\ UNCHANGED <<paperVars, consumed, answer>>
    BY <1>3 DEF Ingest, Step, Judging, PointFits
  <1>4. ASSUME NEW c \in Calls, Perform(c) \/ Patch(c) \/ \E pc \in {"ingested", "failed"} : Ingest(c, pc)
        PROVE  /\ call[c].pc \in {"allowed", "current"}
               /\ call[c].pc = "allowed" => call[c].command.op # "metadata"
               /\ effects' = Append(effects, Due(c))
               /\ call[c].guarded => call[c].pc = "allowed" /\ call[c].command.op = "qualification"
               /\ call'[c].pc # "allowed"
               /\ UNCHANGED <<paperVars, consumed, answer>>
               /\ Others(c)
    BY <1>1, <1>2, <1>3, <1>4
  <1>5. ASSUME ~ \E c \in Calls : Perform(c) \/ Patch(c) \/ \E pc \in {"ingested", "failed"} : Ingest(c, pc)
        PROVE  UNCHANGED effects
    BY <1>5 DEF EffectNext, effectVars, gateVars, Move, Sign, Capture, Preflight, Validate, Consume,
        RecheckVersion, RecheckLatest, ReadCard, Bind, Applied, Refuse
  <1> QED BY <1>4, <1>5

GroundInv == StandInv /\ \A i \in DOMAIN effects : Grounded(effects[i])

LEMMA GroundStep == GroundInv /\ [EffectNext]_effectVars => GroundInv'
  <1> SUFFICES ASSUME GroundInv, [EffectNext]_effectVars PROVE GroundInv'
    OBVIOUS
  <1>0. StandInv /\ StandInv' /\ TypeInv /\ TypeInv' /\ Grows
    BY StandStep, StepsGrow DEF GroundInv, StandInv
  <1>1. ASSUME NEW i \in DOMAIN effects, effects'[i] = effects[i]
        PROVE  Grounded(effects[i])'
    <2>1. PICK e : e = effects[i]
      OBVIOUS
    <2>2. e \in Ran /\ Grounded(e)
      BY <1>0, <2>1 DEF TypeInv, GroundInv
    <2>3. Grounded(e)'
      BY <1>0, <2>2, GroundedStays
    <2> QED BY <1>1, <2>1, <2>3 DEF Grounded
  <1>2. CASE UNCHANGED effects
    BY <1>0, <1>1, <1>2 DEF GroundInv
  <1>3. ASSUME NEW c \in Calls, call[c].pc \in {"allowed", "current"},
               call[c].pc = "allowed" => call[c].command.op # "metadata",
               effects' = Append(effects, Due(c)), UNCHANGED paperVars
        PROVE  GroundInv'
    <2> DEFINE m == call[c].command
    <2>1. PICK e : e = Due(c)
      OBVIOUS
    <2>2. /\ e.effect = Effect(m, call[c].bytes) /\ e.decision = m.decision
          /\ e.from = call[c].from /\ e.to = Now(m.doc)
          /\ e.effect.op = m.op /\ e.effect.doc = m.doc /\ e.effect.bytes = call[c].bytes
      BY <2>1 DEF Due, Effect
    <2>3. call[c].pc \in Judging /\ Standing(call[c]) /\ call[c] \in Judged /\ m \in Commands
      BY <1>0, <1>3, CallShapes DEF Judging, StandInv, Judged
    <2>4. m.doc \in Docs /\ Now(m.doc) \in Nat /\ call[c].from \in Nat
      BY <1>0, <2>3, CommandShapes DEF TypeInv, Now, Judged
    <2>5. UNCHANGED <<shown, signed>>
      BY <1>3 DEF paperVars
    <2>6. Grounded(e)'
      BY <1>3, <2>2, <2>3, <2>4, <2>5 DEF Grounded, Standing, Now, LatestAt
    <2>7. effects \in Seq(Ran)
      BY <1>0 DEF TypeInv
    <2>8. /\ \A i \in DOMAIN effects : effects'[i] = effects[i]
          /\ \A i \in DOMAIN effects' : i \in DOMAIN effects \/ effects'[i] = e
      BY <1>3, <2>1, <2>7
    <2>9. ASSUME NEW i \in DOMAIN effects', effects'[i] = e PROVE Grounded(effects[i])'
      BY <2>6, <2>9 DEF Grounded
    <2> QED BY <1>0, <1>1, <2>8, <2>9 DEF GroundInv
  <1> QED
    BY <1>0, <1>2, <1>3, EffectSteps

-----------------------------------------------------------------------------
(* A one-shot decision runs one effect.                                    *)

\* Call c has consumed its decision and not used it.
Holds(c) == call[c].pc = "allowed" /\ call[c].guarded

OneShotInv ==
    /\ OneShotOnce
    /\ \A c \in Calls : Holds(c) =>
          /\ call[c].command.decision \in consumed
          /\ \A i \in DOMAIN effects :
                effects[i].guarded => effects[i].decision # call[c].command.decision
    /\ \A c, d \in Calls : Holds(c) /\ Holds(d) /\ call[c].command.decision = call[d].command.decision
          => c = d

\* Who holds a decision held it before, or has consumed it just now.
LEMMA HolderSteps ==
    ASSUME StandInv, [EffectNext]_effectVars, UNCHANGED effects
    PROVE  \/ /\ consumed' = consumed
              /\ \A c \in Calls : Holds(c)' => Holds(c) /\ call'[c] = call[c]
           \/ \E c \in Calls :
                 /\ Unconsumed(call[c].command.decision)
                 /\ consumed' = consumed \cup {call[c].command.decision}
                 /\ call'[c].command = call[c].command
                 /\ Others(c)
  <1>0. TypeInv
    BY DEF StandInv
  <1>1. ASSUME NEW c \in Calls, Others(c), call'[c].pc # "allowed", UNCHANGED consumed
        PROVE  /\ consumed' = consumed
               /\ \A d \in Calls : Holds(d)' => Holds(d) /\ call'[d] = call[d]
    BY <1>1 DEF Others, Holds
  <1>2. ASSUME NEW c \in Calls, NEW pc \in Judging, call[c].pc \in Judging, Goes(c, pc)
        PROVE  Others(c) /\ call'[c].pc = pc /\ call'[c].command = call[c].command
                         /\ call'[c].guarded = call[c].guarded
    BY <1>0, <1>2, CallShapes DEF Goes, Others, TypeInv, Judged
  <1>3. ASSUME NEW c \in Calls, Consume(c)
        PROVE  \/ /\ Unconsumed(call[c].command.decision)
                  /\ consumed' = consumed \cup {call[c].command.decision}
                  /\ call'[c].command = call[c].command
                  /\ Others(c)
               \/ /\ consumed' = consumed
                  /\ \A d \in Calls : Holds(d)' => Holds(d) /\ call'[d] = call[d]
    <2>1. call[c].pc \in Judging /\ "allowed" \in Judging /\ Goes(c, "allowed")
      BY <1>3 DEF Consume, Step, Judging
    <2>2. Others(c) /\ call'[c].command = call[c].command /\ call'[c].guarded = call[c].guarded
      BY <1>2, <2>1
    <2>3. CASE call[c].guarded
      BY <1>3, <2>2, <2>3 DEF Consume
    <2>4. CASE ~call[c].guarded
      BY <1>3, <2>2, <2>4 DEF Consume, Others, Holds
    <2> QED BY <2>3, <2>4
  <1>4. ASSUME NEW c \in Calls,
               RecheckVersion(c) \/ RecheckLatest(c) \/ Bind(c) \/ Perform(c) \/ Patch(c)
                  \/ \E pc \in {"ingested", "failed"} : Ingest(c, pc)
        PROVE  Others(c) /\ call'[c].pc # "allowed" /\ UNCHANGED consumed
    <2>1. /\ call[c].pc \in Judging /\ UNCHANGED consumed
          /\ \E pc \in Judging \ {"allowed"} : Goes(c, pc)
      BY <1>4 DEF RecheckVersion, RecheckLatest, Bind, Perform, Patch, Ingest, Step, Judging, gateVars
    <2> QED BY <1>2, <2>1
  <1>5. ASSUME NEW c \in Calls,
               \/ \E m \in Commands : Capture(c, m)
               \/ \E reply \in PolicyReply : Preflight(c, reply)
               \/ Validate(c) \/ Applied(c) \/ Refuse(c)
        PROVE  Others(c) /\ call'[c].pc # "allowed" /\ UNCHANGED consumed
    <2>1. call = [d \in Calls |-> call[d]]
      BY <1>0 DEF TypeInv
    <2>2. UNCHANGED consumed
      BY <1>5 DEF Capture, Preflight, Validate, Applied, Refuse, gateVars
    <2>3. CASE \E m \in Commands : Capture(c, m)
      BY <2>1, <2>2, <2>3 DEF Capture, Others
    <2>4. CASE \E reply \in PolicyReply : Preflight(c, reply)
      BY <2>1, <2>2, <2>4 DEF Preflight, Others
    <2>5. CASE Validate(c)
      BY <2>1, <2>2, <2>5 DEF Validate, Others
    <2>6. CASE Applied(c) \/ Refuse(c)
      BY <2>1, <2>2, <2>6 DEF Applied, Refuse, Others, Idle
    <2> QED BY <1>5, <2>3, <2>4, <2>5, <2>6
  <1>6. ASSUME NEW c \in Calls, ReadCard(c)
        PROVE  Others(c) /\ call'[c].pc # "allowed" /\ UNCHANGED consumed
    <2>1. call[c] \in Judged
      BY <1>0, <1>6, CallShapes DEF ReadCard, Step, Judging
    <2> QED BY <1>0, <1>6, <2>1 DEF ReadCard, Others, TypeInv, Judged, gateVars
  <1>7. ASSUME UNCHANGED <<call, consumed>>
        PROVE  /\ consumed' = consumed
               /\ \A d \in Calls : Holds(d)' => Holds(d) /\ call'[d] = call[d]
    BY <1>7 DEF Holds
  <1>8. ASSUME \/ \E d \in Docs, v \in 1..MaxMoves, b \in Contents : Move(d, v, b)
               \/ \E h \in Decisions, m \in Commands : Sign(h, m)
               \/ UNCHANGED effectVars
        PROVE  UNCHANGED <<call, consumed>>
    BY <1>8 DEF Move, Sign, effectVars, gateVars
  <1> QED
    BY <1>1, <1>3, <1>4, <1>5, <1>6, <1>7, <1>8 DEF EffectNext

LEMMA OneShotStep == StandInv /\ OneShotInv /\ [EffectNext]_effectVars => OneShotInv'
  <1> SUFFICES ASSUME StandInv, OneShotInv, [EffectNext]_effectVars PROVE OneShotInv'
    OBVIOUS
  <1>1. ASSUME UNCHANGED effects, consumed' = consumed,
               \A c \in Calls : Holds(c)' => Holds(c) /\ call'[c] = call[c]
        PROVE  OneShotInv'
    BY <1>1 DEF OneShotInv, OneShotOnce
  <1>2. ASSUME UNCHANGED effects, NEW c \in Calls, Unconsumed(call[c].command.decision),
               consumed' = consumed \cup {call[c].command.decision},
               call'[c].command = call[c].command, Others(c)
        PROVE  OneShotInv'
    <2>1. OneShotOnce'
      BY <1>2 DEF OneShotInv, OneShotOnce
    <2>2. \A d \in Calls : Holds(d)' => d = c \/ (Holds(d) /\ call'[d] = call[d])
      BY <1>2 DEF Holds, Others
    <2>3. \A i \in DOMAIN effects :
             effects[i].guarded => effects[i].decision # call[c].command.decision
      BY <1>2 DEF OneShotInv, OneShotOnce, Unconsumed
    <2>4. \A d \in Calls : Holds(d) => call[d].command.decision # call[c].command.decision
      BY <1>2 DEF OneShotInv, Unconsumed
    <2> QED BY <1>2, <2>1, <2>2, <2>3, <2>4 DEF OneShotInv
  <1>3. ASSUME NEW c \in Calls, effects' = Append(effects, Due(c)),
               call[c].guarded => call[c].pc = "allowed",
               call'[c].pc # "allowed", consumed' = consumed, Others(c)
        PROVE  OneShotInv'
    <2>1. PICK e : e = Due(c)
      OBVIOUS
    <2>2. e.guarded = call[c].guarded /\ e.decision = call[c].command.decision
      BY <2>1 DEF Due
    <2>3. effects \in Seq(Ran)
      BY DEF StandInv, TypeInv
    <2>4. /\ DOMAIN effects \subseteq DOMAIN effects'
          /\ \A i \in DOMAIN effects : effects'[i] = effects[i]
          /\ \A i \in DOMAIN effects' : i \in DOMAIN effects \/ (i = Len(effects) + 1 /\ effects'[i] = e)
      BY <1>3, <2>1, <2>3
    <2>5. e.guarded => Holds(c)
      BY <1>3, <2>2 DEF Holds
    <2>6. \A d \in Calls : Holds(d)' => d # c /\ Holds(d) /\ call'[d] = call[d]
      BY <1>3 DEF Holds, Others
    <2>7. OneShotOnce'
      BY <1>3, <2>2, <2>4, <2>5 DEF OneShotInv, OneShotOnce
    <2> QED BY <1>3, <2>2, <2>4, <2>5, <2>6, <2>7 DEF OneShotInv
  <1> QED
    BY <1>1, <1>2, <1>3, EffectSteps, HolderSteps

-----------------------------------------------------------------------------
(* What the store says of a source was decided.                            *)

\* An intake of bytes b from source s ran.
Admitted(s, b) ==
    \E i \in DOMAIN effects :
       /\ effects[i].effect.op = "intake" /\ effects[i].effect.bytes = b
       /\ Source(effects[i].effect) = s

StoreInv ==
    /\ \A s \in SourceRefs :
          /\ \A b \in versions[s] : Admitted(s, b)
          /\ {cards[s], bindings[s]} \subseteq versions[s] \cup {None}
          /\ bindings[s] # None => cards[s] # None
    /\ answer # None /\ answer.command.op = "intake" =>
          /\ signed[answer.command.decision] # None
          /\ answer.card = signed[answer.command.decision].bytes
          /\ bindings[Source(answer.command)] # None

LEMMA AdmittedStays ==
    ASSUME StandInv, [EffectNext]_effectVars, NEW s, NEW b, Admitted(s, b)
    PROVE  Admitted(s, b)'
  <1>1. PICK i \in DOMAIN effects :
           /\ effects[i].effect.op = "intake" /\ effects[i].effect.bytes = b
           /\ Source(effects[i].effect) = s
    BY DEF Admitted
  <1>2. effects \in Seq(Ran)
    BY DEF StandInv, TypeInv
  <1>3. i \in DOMAIN effects' /\ effects'[i] = effects[i]
    BY <1>2, EffectSteps
  <1> QED BY <1>1, <1>3 DEF Admitted

\* An answer that was true stays true.
LEMMA AnswerStays ==
    ASSUME StandInv, StoreInv, Grows, UNCHANGED answer
    PROVE  answer' # None /\ answer'.command.op = "intake" =>
              /\ signed'[answer'.command.decision] # None
              /\ answer'.card = signed'[answer'.command.decision].bytes
              /\ bindings'[Source(answer'.command)] # None
  <1> SUFFICES ASSUME answer # None, answer.command.op = "intake"
               PROVE  /\ signed'[answer.command.decision] # None
                      /\ answer.card = signed'[answer.command.decision].bytes
                      /\ bindings'[Source(answer.command)] # None
    OBVIOUS
  <1>1. answer.command \in Commands
    BY DEF StandInv, TypeInv
  <1>2. answer.command.decision \in Decisions /\ Source(answer.command) \in SourceRefs
    BY <1>1, CommandShapes
  <1> QED BY <1>2 DEF StoreInv, Grows

LEMMA StoreStep == StandInv /\ StoreInv /\ [EffectNext]_effectVars => StoreInv'
  <1> SUFFICES ASSUME StandInv, StoreInv, [EffectNext]_effectVars PROVE StoreInv'
    OBVIOUS
  <1>0. TypeInv /\ Grows
    BY StepsGrow DEF StandInv
  <1> DEFINE Rows ==
        \A s \in SourceRefs :
           /\ \A b \in versions[s] : Admitted(s, b)
           /\ {cards[s], bindings[s]} \subseteq versions[s] \cup {None}
           /\ bindings[s] # None => cards[s] # None
  <1>1. ASSUME UNCHANGED storeVars PROVE Rows'
    BY <1>1, AdmittedStays DEF StoreInv, storeVars
  <1>2. ASSUME NEW c \in Calls, NEW pc \in {"ingested", "failed"}, Ingest(c, pc)
        PROVE  StoreInv'
    <2>0. PICK t, b : t = Source(call[c].command) /\ b = call[c].bytes
      OBVIOUS
    <2>1. call[c] # Idle /\ call[c].command \in Commands /\ t \in SourceRefs
      BY <1>0, <1>2, <2>0, CallShapes, CommandShapes DEF Ingest, Step, Idle
    <2>2. /\ cards' = [cards EXCEPT ![t] = b] /\ versions' = [versions EXCEPT ![t] = @ \cup {b}]
          /\ UNCHANGED <<bindings, answer>>
      BY <1>2, <2>0 DEF Ingest
    <2>3. b # None
      BY <1>0, <2>0, <2>1 DEF TypeInv, Captured
    <2>4. Admitted(t, b)'
      <3>1. effects' = Append(effects, Due(c)) /\ effects \in Seq(Ran)
        BY <1>0, <1>2 DEF Ingest, Runs, Due, TypeInv
      <3>2. PICK e : e = Due(c)
        OBVIOUS
      <3>3. e.effect.op = "intake" /\ e.effect.bytes = b /\ Source(e.effect) = t
        BY <1>2, <2>0, <3>2 DEF Due, Effect, Ingest, Source
      <3>4. Len(effects) + 1 \in DOMAIN effects' /\ effects'[Len(effects) + 1] = e
        BY <3>1, <3>2
      <3> QED BY <3>3, <3>4 DEF Admitted
    <2>5. ASSUME NEW s \in SourceRefs
          PROVE  /\ \A x \in versions'[s] : Admitted(s, x)'
                 /\ {cards'[s], bindings'[s]} \subseteq versions'[s] \cup {None}
                 /\ bindings'[s] # None => cards'[s] # None
      <3>1. CASE s # t
        <4>1. versions'[s] = versions[s] /\ cards'[s] = cards[s] /\ bindings'[s] = bindings[s]
          BY <1>0, <2>2, <3>1 DEF TypeInv
        <4> QED BY <4>1, AdmittedStays DEF StoreInv
      <3>2. CASE s = t
        <4>1. versions'[s] = versions[s] \cup {b} /\ cards'[s] = b /\ bindings'[s] = bindings[s]
          BY <1>0, <2>1, <2>2, <3>2 DEF TypeInv
        <4>2. \A x \in versions'[s] : Admitted(s, x)'
          BY <2>4, <3>2, <4>1, AdmittedStays DEF StoreInv
        <4> QED BY <2>3, <4>1, <4>2 DEF StoreInv
      <3> QED BY <3>1, <3>2
    <2> QED BY <1>0, <2>2, <2>5, AnswerStays DEF StoreInv
  <1>3. ASSUME NEW c \in Calls, Bind(c) PROVE StoreInv'
    <2> DEFINE t == Source(call[c].command)
               b == call[c].bytes
    <2>1. call[c] # Idle /\ call[c].command \in Commands /\ t \in SourceRefs
          /\ call[c].pc = "matched" /\ call[c].pc \in Judging
      BY <1>0, <1>3, CallShapes, CommandShapes DEF Bind, Step, Idle, Judging
    <2>2. b \in versions[t] /\ cards[t] # None
      <3>1. call[c].command.op = "intake"
        BY <1>0, <2>1 DEF TypeInv, Captured, PointFits
      <3> QED BY <2>1, <3>1 DEF StandInv, Standing
    <2>3. bindings' = [bindings EXCEPT ![t] = b] /\ UNCHANGED <<cards, versions, answer>>
      BY <1>3 DEF Bind
    <2> HIDE DEF t, b
    <2>4. ASSUME NEW s \in SourceRefs
          PROVE  /\ \A x \in versions'[s] : Admitted(s, x)'
                 /\ {cards'[s], bindings'[s]} \subseteq versions'[s] \cup {None}
                 /\ bindings'[s] # None => cards'[s] # None
      BY <1>0, <2>1, <2>2, <2>3, AdmittedStays DEF StoreInv, TypeInv
    <2> QED BY <1>0, <2>3, <2>4, AnswerStays DEF StoreInv
  <1>4. ASSUME NEW c \in Calls, Applied(c) PROVE StoreInv'
    <2> DEFINE m == call[c].command
    <2>1. call[c].pc = "done" /\ call[c].pc \in Judging /\ call[c] # Idle
      BY <1>4 DEF Applied, Step, Judging, Idle
    <2>2. Standing(call[c]) /\ m \in Commands
      BY <1>0, <2>1, CallShapes DEF StandInv
    <2>3. /\ UNCHANGED <<storeVars, signed>>
          /\ answer'.command = m /\ answer'.card = call[c].card
      BY <1>4 DEF Applied, paperVars
    <2>4. m.op = "intake" =>
             /\ signed[m.decision] # None /\ call[c].card = signed[m.decision].bytes
             /\ bindings[Source(m)] # None
      <3>1. ASSUME m.op = "intake" PROVE /\ signed[m.decision] # None
                                         /\ signed[m.decision] = Effect(m, call[c].bytes)
                                         /\ call[c].card = call[c].bytes
                                         /\ bindings[Source(m)] # None
        BY <2>1, <2>2, <3>1 DEF Standing, Bound, Gateway
      <3> QED BY <3>1 DEF Effect
    <2> QED BY <1>1, <2>3, <2>4 DEF StoreInv, storeVars
  <1>5. ASSUME UNCHANGED <<storeVars, answer>> PROVE StoreInv'
    BY <1>0, <1>1, <1>5, AnswerStays DEF StoreInv
  <1>6. ASSUME ~ \E c \in Calls : Bind(c) \/ Applied(c) \/ \E pc \in {"ingested", "failed"} : Ingest(c, pc)
        PROVE  UNCHANGED <<storeVars, answer>>
    BY <1>6 DEF EffectNext, effectVars, Move, Sign, Capture, Preflight, Validate, Consume, Perform,
        Patch, RecheckVersion, RecheckLatest, ReadCard, Refuse
  <1> QED BY <1>2, <1>3, <1>4, <1>5, <1>6

-----------------------------------------------------------------------------
(* The chokepoint holds.                                                   *)

EffectsInv == GroundInv /\ OneShotInv /\ StoreInv

LEMMA EffectsInit == EffectInit => EffectsInv
  <1> SUFFICES ASSUME EffectInit PROVE EffectsInv
    OBVIOUS
  <1>1. TypeInv /\ effects = <<>> /\ DOMAIN effects = {}
    BY TypeInit DEF EffectInit
  <1>2. \A c \in Calls : call[c].pc = "idle"
    BY DEF EffectInit, Idle
  <1>3. GroundInv
    BY <1>1, <1>2 DEF GroundInv, StandInv, Standing, Judging
  <1>4. OneShotInv
    BY <1>1, <1>2 DEF OneShotInv, OneShotOnce, Holds
  <1>5. StoreInv
    BY DEF EffectInit, StoreInv
  <1> QED BY <1>3, <1>4, <1>5 DEF EffectsInv

LEMMA InvGovernsEffects == EffectsInv => EffectsAreGoverned
  <1> SUFFICES ASSUME EffectsInv PROVE EffectsAreGoverned
    OBVIOUS
  <1>0. TypeInv /\ GroundInv /\ OneShotInv /\ StoreInv
    BY DEF EffectsInv, GroundInv, StandInv
  <1>1. EffectsTypeOK
    <2>1. \A i \in DOMAIN effects : effects[i] \in Ran
      BY <1>0 DEF TypeInv
    <2>2. \A i \in DOMAIN effects : effects[i].effect \in EffectType
      BY <2>1 DEF Ran
    <2> QED BY <1>0, <2>2 DEF EffectsTypeOK, TypeInv
  <1>2. ASSUME NEW i \in DOMAIN effects, effects[i].effect.op = "metadata"
        PROVE  \E k \in effects[i].from..effects[i].to :
                  LatestAt(effects[i].effect.doc, k) = effects[i].effect.bytes
    BY <1>0, <1>2 DEF GroundInv, Grounded
  <1>3. EffectsAreDecided
    BY <1>0, <1>1, <1>2 DEF EffectsAreDecided, GroundInv, Grounded
  <1>4. IntakesAreDecided
    BY <1>0 DEF IntakesAreDecided, StoreInv, Admitted
  <1> QED BY <1>0, <1>3, <1>4 DEF EffectsAreGoverned, OneShotInv

\* EffectsAreGoverned: whatever moves, fails or is tried again between the steps of
\* the chokepoint, an effect that an adapter bound is the one that a human signed, a
\* one-shot decision runs one effect, and the store holds what was decided.
THEOREM EffectsStayGoverned == EffectSpec => []EffectsAreGoverned
  <1>1. EffectsInv /\ [EffectNext]_effectVars => EffectsInv'
    BY GroundStep, OneShotStep, StoreStep DEF EffectsInv, GroundInv
  <1> QED BY <1>1, EffectsInit, InvGovernsEffects, PTL DEF EffectSpec

-----------------------------------------------------------------------------
(* Reciprocal ranks.  A score is a fraction; the order of the hits is the    *)
(* order of the scores, and of the ranks where these are equal.             *)

LEMMA Cancel ==
    ASSUME NEW d \in Nat \ {0}, NEW p \in Nat, NEW q \in Nat
    PROVE  /\ d * p >= d * q => p >= q
           /\ d * p > d * q => p > q
           /\ p >= q => d * p >= d * q
           /\ p > q => d * p > d * q
  OBVIOUS

\* Fractions n/d are ordered transitively by their cross products.
LEMMA Fractions ==
    ASSUME NEW n1 \in Nat, NEW n2 \in Nat, NEW n3 \in Nat,
           NEW d1 \in Nat \ {0}, NEW d2 \in Nat \ {0}, NEW d3 \in Nat \ {0},
           n1 * d2 >= n2 * d1, n2 * d3 >= n3 * d2
    PROVE  /\ n1 * d3 >= n3 * d1
           /\ n1 * d2 > n2 * d1 \/ n2 * d3 > n3 * d2 => n1 * d3 > n3 * d1
  <1>1. /\ n1 * d2 \in Nat /\ n2 * d1 \in Nat /\ n2 * d3 \in Nat /\ n3 * d2 \in Nat
        /\ n1 * d3 \in Nat /\ n3 * d1 \in Nat
    OBVIOUS
  <1>2. /\ d3 * (n1 * d2) >= d3 * (n2 * d1)
        /\ n1 * d2 > n2 * d1 => d3 * (n1 * d2) > d3 * (n2 * d1)
    BY <1>1, Cancel
  <1>3. /\ d1 * (n2 * d3) >= d1 * (n3 * d2)
        /\ n2 * d3 > n3 * d2 => d1 * (n2 * d3) > d1 * (n3 * d2)
    BY <1>1, Cancel
  <1>4. /\ d3 * (n1 * d2) = d2 * (n1 * d3)
        /\ d3 * (n2 * d1) = d1 * (n2 * d3)
        /\ d1 * (n3 * d2) = d2 * (n3 * d1)
    OBVIOUS
  <1>5. /\ d3 * (n1 * d2) \in Nat /\ d3 * (n2 * d1) \in Nat /\ d1 * (n3 * d2) \in Nat
    OBVIOUS
  <1>6. /\ d2 * (n1 * d3) >= d2 * (n3 * d1)
        /\ n1 * d2 > n2 * d1 \/ n2 * d3 > n3 * d2 => d2 * (n1 * d3) > d2 * (n3 * d1)
    BY <1>2, <1>3, <1>4, <1>5
  <1> QED BY <1>1, <1>6, Cancel

\* A hit that some ranking has.
IsHit(a) == a.semantic \in Nat /\ a.lexical \in Nat /\ (a.semantic # 0 \/ a.lexical # 0)

LEMMA ScoreShape ==
    ASSUME NEW a, IsHit(a)
    PROVE  Score(a)[1] \in Nat \ {0} /\ Score(a)[2] \in Nat \ {0}
  <1>1. RRF_K + a.semantic \in Nat \ {0} /\ RRF_K + a.lexical \in Nat \ {0}
    BY LoopAssumption DEF IsHit
  <1>2. /\ (RRF_K + a.semantic) * (RRF_K + a.lexical) \in Nat \ {0}
        /\ 2 * RRF_K + a.semantic + a.lexical \in Nat \ {0}
    BY <1>1, LoopAssumption DEF IsHit
  <1> QED BY <1>1, <1>2 DEF Score

LEMMA BeforeIsTransitive ==
    ASSUME NEW a, NEW b, NEW c, IsHit(a), IsHit(b), IsHit(c), Before(a, b), Before(b, c)
    PROVE  Before(a, c)
  <1> DEFINE Rank(r) == IF r = 0 THEN CandidateK + 1 ELSE r
             Cross(x, y) == Score(x)[1] * Score(y)[2]
             Tie(x, y) == \/ Rank(x.semantic) < Rank(y.semantic)
                          \/ /\ Rank(x.semantic) = Rank(y.semantic)
                             /\ Rank(x.lexical) < Rank(y.lexical)
  <1>1. \A x, y : Before(x, y) <=> Cross(x, y) > Cross(y, x) \/ (Cross(x, y) = Cross(y, x) /\ Tie(x, y))
    BY DEF Before
  <1>2. \A x \in {a, b, c} : Rank(x.semantic) \in Int /\ Rank(x.lexical) \in Int
    BY LoopAssumption DEF IsHit
  <1>3. Tie(a, b) /\ Tie(b, c) => Tie(a, c)
    BY <1>2
  <1>4. \A x \in {a, b, c} : Score(x)[1] \in Nat \ {0} /\ Score(x)[2] \in Nat \ {0}
    BY ScoreShape
  <1>5. \A x, y \in {a, b, c} : Cross(x, y) \in Nat
    BY <1>4
  <1> HIDE DEF Rank, Tie
  <1>6. Cross(a, b) >= Cross(b, a) /\ Cross(b, c) >= Cross(c, b)
    BY <1>1, <1>5
  <1>7. /\ Cross(a, c) >= Cross(c, a)
        /\ Cross(a, b) > Cross(b, a) \/ Cross(b, c) > Cross(c, b) => Cross(a, c) > Cross(c, a)
    BY <1>4, <1>6, Fractions
  <1> HIDE DEF Cross
  <1>8. CASE Cross(a, c) > Cross(c, a)
    BY <1>1, <1>8
  <1>9. CASE ~(Cross(a, c) > Cross(c, a))
    <2>1. Cross(a, c) = Cross(c, a)
      BY <1>5, <1>7, <1>9
    <2>2. Tie(a, b) /\ Tie(b, c)
      BY <1>1, <1>7, <1>9
    <2> QED BY <1>1, <1>3, <2>1, <2>2
  <1> QED BY <1>8, <1>9

\* One rank is at least as good as another: 0 stands for none.
NotAfter(r, s) == s = 0 \/ (r # 0 /\ r <= s)
Better(r, s) == r # 0 /\ (s = 0 \/ r < s)

\* A hit that is better in one ranking and not after in the other scores more.
LEMMA BetterIsBefore ==
    ASSUME NEW a, NEW b, IsHit(a), IsHit(b),
           NotAfter(a.semantic, b.semantic), NotAfter(a.lexical, b.lexical),
           Better(a.semantic, b.semantic) \/ Better(a.lexical, b.lexical)
    PROVE  Before(a, b)
  <1> SUFFICES Score(a)[1] * Score(b)[2] > Score(b)[1] * Score(a)[2]
    BY DEF Before
  <1>0. PICK A, B, C, D : /\ A = RRF_K + a.semantic /\ B = RRF_K + b.semantic
                          /\ C = RRF_K + a.lexical /\ D = RRF_K + b.lexical
    OBVIOUS
  <1>1. A \in Nat \ {0} /\ B \in Nat \ {0} /\ C \in Nat \ {0} /\ D \in Nat \ {0}
    BY <1>0, LoopAssumption DEF IsHit
  <1>2. ASSUME b.semantic # 0, b.lexical # 0
        PROVE  Score(a)[1] * Score(b)[2] > Score(b)[1] * Score(a)[2]
    <2>1. a.semantic # 0 /\ a.lexical # 0 /\ A <= B /\ C <= D /\ (A < B \/ C < D)
      BY <1>0, <1>2, LoopAssumption DEF NotAfter, Better, IsHit
    <2>2. Score(a) = <<A + C, A * C>> /\ Score(b) = <<B + D, B * D>>
      BY <1>0, <1>2, <2>1, LoopAssumption DEF Score, IsHit
    <2>3. /\ (A * B) * D >= (A * B) * C /\ (C < D => (A * B) * D > (A * B) * C)
          /\ (C * D) * B >= (C * D) * A /\ (A < B => (C * D) * B > (C * D) * A)
      BY <1>1, <2>1, Cancel
    <2>4. /\ (A + C) * (B * D) = (A * B) * D + (C * D) * B
          /\ (B + D) * (A * C) = (A * B) * C + (C * D) * A
      BY <1>1
    <2>5. (A + C) * (B * D) > (B + D) * (A * C)
      BY <1>1, <2>1, <2>3, <2>4
    <2> QED BY <2>2, <2>5
  <1>3. ASSUME b.lexical = 0
        PROVE  Score(a)[1] * Score(b)[2] > Score(b)[1] * Score(a)[2]
    <2>1. b.semantic # 0 /\ a.semantic # 0 /\ A <= B /\ Score(b) = <<1, B>>
      BY <1>0, <1>3, LoopAssumption DEF NotAfter, IsHit, Score
    <2>2. CASE a.lexical = 0
      <3>1. A < B /\ Score(a) = <<1, A>>
        BY <1>0, <1>3, <2>1, <2>2, LoopAssumption DEF Better, IsHit, Score
      <3> QED BY <1>1, <2>1, <3>1
    <2>3. CASE a.lexical # 0
      <3>1. Score(a) = <<A + C, A * C>>
        BY <1>0, <2>1, <2>3, LoopAssumption DEF Score, IsHit
      <3>2. C * B >= C * A /\ A * B > 0
        BY <1>1, <2>1, Cancel
      <3>3. (A + C) * B > 1 * (A * C)
        BY <1>1, <3>2
      <3> QED BY <2>1, <3>1, <3>3
    <2> QED BY <2>2, <2>3
  <1>4. ASSUME b.semantic = 0
        PROVE  Score(a)[1] * Score(b)[2] > Score(b)[1] * Score(a)[2]
    <2>1. b.lexical # 0 /\ a.lexical # 0 /\ C <= D /\ Score(b) = <<1, D>>
      BY <1>0, <1>4, LoopAssumption DEF NotAfter, IsHit, Score
    <2>2. CASE a.semantic = 0
      <3>1. C < D /\ Score(a) = <<1, C>>
        BY <1>0, <1>4, <2>1, <2>2, LoopAssumption DEF Better, IsHit, Score
      <3> QED BY <1>1, <2>1, <3>1
    <2>3. CASE a.semantic # 0
      <3>1. Score(a) = <<A + C, A * C>>
        BY <1>0, <2>1, <2>3, LoopAssumption DEF Score, IsHit
      <3>2. A * D >= A * C /\ C * D > 0
        BY <1>1, <2>1, Cancel
      <3>3. (A + C) * D > 1 * (A * C)
        BY <1>1, <3>2
      <3> QED BY <2>1, <3>1, <3>3
    <2> QED BY <2>2, <2>3
  <1> QED BY <1>2, <1>3, <1>4

-----------------------------------------------------------------------------
(* The fusion of two rankings.                                             *)

IsRanking(s) == \E n \in Nat : DOMAIN s = 1..n

\* The image of a finite set under a function is finite.
LEMMA FiniteImage ==
    ASSUME NEW S, IsFiniteSet(S), NEW f, DOMAIN f = S
    PROVE  IsFiniteSet({f[x] : x \in S})
  <1> DEFINE T == {f[x] : x \in S}
             g == [x \in S |-> f[x]]
  <1>1. g \in Surjection(S, T)
    BY DEF Surjection
  <1> QED BY <1>1, FS_Surjection

LEMMA RankShape ==
    ASSUME NEW ranking, IsRanking(ranking), NEW key
    PROVE  /\ RankIn(ranking, key) \in Nat
           /\ RankIn(ranking, key) # 0 =>
                 /\ RankIn(ranking, key) \in DOMAIN ranking
                 /\ ranking[RankIn(ranking, key)].key = key
           /\ key \in KeysIn(ranking) => RankIn(ranking, key) # 0
  BY DEF IsRanking, RankIn, KeysIn

LEMMA KeysAreFinite ==
    ASSUME NEW ranking, IsRanking(ranking)
    PROVE  IsFiniteSet(KeysIn(ranking))
  <1>1. PICK n \in Nat : DOMAIN ranking = 1..n
    BY DEF IsRanking
  <1>2. IsFiniteSet(DOMAIN ranking)
    BY <1>1, FS_Interval
  <1> DEFINE f == [j \in DOMAIN ranking |-> ranking[j].key]
  <1>3. IsFiniteSet({f[j] : j \in DOMAIN ranking})
    BY <1>2, FiniteImage
  <1>4. {f[j] : j \in DOMAIN ranking} = KeysIn(ranking)
    BY DEF KeysIn
  <1> QED BY <1>3, <1>4

AllHits(semantic, lexical) ==
    {Hit(key, semantic, lexical) : key \in KeysIn(semantic) \cup KeysIn(lexical)}

LEMMA HitShape ==
    ASSUME NEW semantic, NEW lexical, IsRanking(semantic), IsRanking(lexical),
           NEW key \in KeysIn(semantic) \cup KeysIn(lexical)
    PROVE  LET hit == Hit(key, semantic, lexical) IN
           /\ IsHit(hit)
           /\ hit.semantic = RankIn(semantic, key) /\ hit.lexical = RankIn(lexical, key)
           /\ hit.row.key = key
           /\ \/ \E j \in DOMAIN semantic : hit.row = semantic[j]
              \/ \E j \in DOMAIN lexical : hit.row = lexical[j]
  <1>1. PICK s, l : s = RankIn(semantic, key) /\ l = RankIn(lexical, key)
    OBVIOUS
  <1>2. /\ s \in Nat /\ l \in Nat /\ (s # 0 \/ l # 0)
        /\ s # 0 => s \in DOMAIN semantic /\ semantic[s].key = key
        /\ l # 0 => l \in DOMAIN lexical /\ lexical[l].key = key
    BY <1>1, RankShape
  <1>3. PICK hit : hit = [row |-> IF s # 0 THEN semantic[s] ELSE lexical[l],
                          semantic |-> s, lexical |-> l]
    OBVIOUS
  <1>4. hit = Hit(key, semantic, lexical)
    BY <1>1, <1>3 DEF Hit
  <1>5. /\ IsHit(hit)
        /\ hit.semantic = s /\ hit.lexical = l
        /\ hit.row.key = key
        /\ \/ \E j \in DOMAIN semantic : hit.row = semantic[j]
           \/ \E j \in DOMAIN lexical : hit.row = lexical[j]
    BY <1>2, <1>3 DEF IsHit
  <1> QED BY <1>1, <1>4, <1>5

LEMMA HitsAreFinite ==
    ASSUME NEW semantic, NEW lexical, IsRanking(semantic), IsRanking(lexical)
    PROVE  IsFiniteSet(AllHits(semantic, lexical))
  <1> DEFINE keys == KeysIn(semantic) \cup KeysIn(lexical)
             f == [key \in keys |-> Hit(key, semantic, lexical)]
  <1>1. IsFiniteSet(keys)
    BY KeysAreFinite, FS_Union
  <1>2. IsFiniteSet({f[key] : key \in keys})
    BY <1>1, FiniteImage
  <1>3. {f[key] : key \in keys} = AllHits(semantic, lexical)
    BY DEF AllHits
  <1> QED BY <1>2, <1>3

\* The hits that come before a hit of the fusion are in the fusion.
LEMMA FusionIsClosed ==
    ASSUME NEW semantic, NEW lexical, IsRanking(semantic), IsRanking(lexical),
           NEW a \in AllHits(semantic, lexical), NEW b \in Fusion(semantic, lexical), Before(a, b)
    PROVE  a \in Fusion(semantic, lexical)
  <1> DEFINE all == AllHits(semantic, lexical)
             Ahead_(h) == {other \in all : Before(other, h)}
  <1>1. Fusion(semantic, lexical) = {h \in all : Cardinality(Ahead_(h)) < TopK}
    BY DEF Fusion, AllHits
  <1>2. \A h \in all : IsHit(h)
    BY HitShape DEF AllHits
  <1>3. b \in all /\ Cardinality(Ahead_(b)) < TopK
    BY <1>1
  <1>4. Ahead_(a) \subseteq Ahead_(b)
    BY <1>2, <1>3, BeforeIsTransitive
  <1>5. IsFiniteSet(Ahead_(b))
    BY HitsAreFinite, FS_Subset
  <1>6. /\ Cardinality(Ahead_(a)) <= Cardinality(Ahead_(b)) /\ IsFiniteSet(Ahead_(a))
    BY <1>4, <1>5, FS_Subset
  <1>7. Cardinality(Ahead_(a)) \in Nat /\ Cardinality(Ahead_(b)) \in Nat
    BY <1>5, <1>6, FS_CardinalityType
  <1>8. Cardinality(Ahead_(a)) < TopK
    BY <1>3, <1>6, <1>7, LoopAssumption
  <1> QED BY <1>1, <1>8

\* Every fusion is fair, whatever the rankings.
LEMMA FusionFair ==
    ASSUME NEW semantic, NEW lexical, IsRanking(semantic), IsRanking(lexical)
    PROVE  FairlyFused(semantic, lexical, Fusion(semantic, lexical))
  <1> DEFINE keys == KeysIn(semantic) \cup KeysIn(lexical)
             fused == Fusion(semantic, lexical)
  <1>1. fused \subseteq AllHits(semantic, lexical)
    BY DEF Fusion, AllHits
  <1>2. \A h \in fused : \E key \in keys : h = Hit(key, semantic, lexical) /\ h.row.key = key
    BY <1>1, HitShape DEF AllHits
  <1>3. \A a, b \in fused : a.row.key = b.row.key => a = b
    BY <1>2
  <1>4. ASSUME NEW key \in keys, NEW b \in fused, Dominates(semantic, lexical, key, b.row.key)
        PROVE  \E a \in fused : a.row.key = key /\ Before(a, b)
    <2>1. PICK other \in keys : b = Hit(other, semantic, lexical) /\ b.row.key = other
      BY <1>2
    <2>2. PICK a : a = Hit(key, semantic, lexical)
      OBVIOUS
    <2>3. /\ IsHit(a) /\ a.row.key = key /\ a \in AllHits(semantic, lexical)
          /\ a.semantic = RankIn(semantic, key) /\ a.lexical = RankIn(lexical, key)
      BY <2>2, HitShape DEF AllHits
    <2>4. /\ IsHit(b)
          /\ b.semantic = RankIn(semantic, other) /\ b.lexical = RankIn(lexical, other)
      BY <2>1, HitShape
    <2>5. /\ NotAfter(a.semantic, b.semantic) /\ NotAfter(a.lexical, b.lexical)
          /\ Better(a.semantic, b.semantic) \/ Better(a.lexical, b.lexical)
      BY <1>4, <2>1, <2>3, <2>4 DEF Dominates, Ahead, NotAfter, Better, IsHit
    <2>6. Before(a, b)
      BY <2>3, <2>4, <2>5, BetterIsBefore
    <2> QED BY <2>3, <2>6, FusionIsClosed
  <1> QED BY <1>3, <1>4 DEF FairlyFused

-----------------------------------------------------------------------------
(* The chain run, decide, register.                                        *)

InPerimeterOf(k, row) == row.key[1] \in Perimeter[k]

OfOneIngestion(rows) ==
    \A r, s \in rows : r.key[1] = s.key[1] => r.ingestion = s.ingestion

\* The rows of a source are of one ingestion, and none is of a later one than the last.
StoreFits(table, last) ==
    /\ IsFiniteSet(table)
    /\ last \in Nat
    /\ \A r \in table : r.ingestion \in Nat /\ r.ingestion <= last
    /\ OfOneIngestion(table)

\* What was read when n was the last ingestion: its rows are still those of their
\* sources, or the sources were ingested again since.
ReadAt(rows, n, table, last) ==
    /\ n \in Nat /\ n <= last
    /\ OfOneIngestion(rows)
    /\ \A r \in rows :
          /\ r.ingestion \in Nat /\ r.ingestion <= n
          /\ \A c \in table :
                c.key[1] = r.key[1] => c.ingestion = r.ingestion \/ n < c.ingestion

RowsRead(ranking) == {ranking[j] : j \in DOMAIN ranking}

AnswerFits(a) == a.doc.kind = "candidates" => AnswerIsGrounded(a)

\* What a run has read so far.
RunnerFits(q, table, last) ==
    /\ q.pc = "semantic" =>
          /\ IsRanking(q.semantic)
          /\ \A j \in DOMAIN q.semantic : InPerimeterOf(q.contract, q.semantic[j])
          /\ ReadAt(RowsRead(q.semantic), q.read, table, last)
    /\ q.pc = "retrieved" =>
          /\ q.hits # {}
          /\ \A hit \in q.hits : InPerimeterOf(q.contract, hit.row)
          /\ ReadTwice(RowsIn(q.hits), q.readings)
          /\ FairlyFused(q.rankings[1], q.rankings[2], q.rankings[3])
    /\ q.pc = "answered" => AnswerFits(q)

LoopInv ==
    /\ StoreFits(chunks, ingestion)
    /\ runner = [p \in Runners |-> runner[p]]
    /\ \A p \in Runners : RunnerFits(runner[p], chunks, ingestion)
    /\ \A a \in answered : AnswerFits(a)
    /\ \A r \in retained :
          /\ r.because.decision = "approve"
          /\ {r.because.by, r.by} \subseteq Humans
          /\ r.because.digests # Unset
    /\ \A r \in records : r.by \in Humans \cup Systems

LEMMA RowsAreFinite ==
    ASSUME NEW sources \in SUBSET DOMAIN Chunks, IsFiniteSet(sources), NEW n
    PROVE  IsFiniteSet(RowsOf(sources, n))
  <1> DEFINE f == [s \in sources |-> KeysOf(s)]
             all == UNION {f[s] : s \in sources}
             g == [k \in all |-> [key |-> k, ingestion |-> n]]
  <1>1. ASSUME NEW s \in sources PROVE IsFiniteSet(KeysOf(s))
    <2>1. Chunks[s] \in Nat
      BY LoopAssumption
    <2>2. IsFiniteSet({s})
      BY FS_Singleton
    <2>3. IsFiniteSet(1..Chunks[s])
      BY <2>1, FS_Interval
    <2> QED BY <2>2, <2>3, FS_Product DEF KeysOf
  <1>2. IsFiniteSet({f[s] : s \in sources})
    BY FiniteImage
  <1>3. IsFiniteSet(all)
    BY <1>1, <1>2, FS_UNION
  <1>4. IsFiniteSet({g[k] : k \in all})
    BY <1>3, FiniteImage
  <1>5. {g[k] : k \in all} = RowsOf(sources, n)
    BY DEF RowsOf
  <1> QED BY <1>4, <1>5

LEMMA RankingsShape ==
    ASSUME NEW rows, IsFiniteSet(rows), NEW s \in Rankings(rows)
    PROVE  IsRanking(s) /\ \A j \in DOMAIN s : s[j] \in rows
  <1> DEFINE n == IF Cardinality(rows) < CandidateK THEN Cardinality(rows) ELSE CandidateK
  <1>1. n \in Nat
    BY FS_CardinalityType, LoopAssumption
  <1>2. PICK first \in kSubset(n, rows) : s \in SetToSeqs(first)
    BY DEF Rankings
  <1>3. first \subseteq rows /\ Cardinality(first) = n
    BY <1>2 DEF kSubset
  <1>4. s \in [1..Cardinality(first) -> first]
    BY <1>2 DEF SetToSeqs
  <1> QED BY <1>1, <1>3, <1>4 DEF IsRanking

LEMMA RowsOfFit ==
    ASSUME NEW sources \in SUBSET DOMAIN Chunks, NEW n, NEW row \in RowsOf(sources, n)
    PROVE  row.ingestion = n /\ row.key[1] \in sources
  BY DEF RowsOf, KeysOf

\* An ingestion: rows that stay are of sources that it does not touch.
LEMMA IngestionFits ==
    ASSUME NEW table, NEW last, StoreFits(table, last), NEW kept \in SUBSET table,
           NEW sources \in SUBSET DOMAIN Chunks, IsFiniteSet(sources),
           \A r \in kept : r.key[1] \notin sources,
           NEW after, after = kept \cup RowsOf(sources, last + 1)
    PROVE  /\ StoreFits(after, last + 1)
           /\ \A q : RunnerFits(q, table, last) => RunnerFits(q, after, last + 1)
  <1>1. IsFiniteSet(after)
    BY RowsAreFinite, FS_Subset, FS_Union DEF StoreFits
  <1>2. \A r \in RowsOf(sources, last + 1) : r.ingestion = last + 1 /\ r.key[1] \in sources
    BY RowsOfFit
  <1>3. last \in Nat
    BY DEF StoreFits
  <1>4. \A r \in after : r.ingestion \in Nat /\ r.ingestion <= last + 1
    BY <1>2, <1>3 DEF StoreFits
  <1>5. OfOneIngestion(after)
    BY <1>2 DEF StoreFits, OfOneIngestion
  <1>6. ASSUME NEW rows, NEW n, ReadAt(rows, n, table, last) PROVE ReadAt(rows, n, after, last + 1)
    <2>1. n \in Nat /\ n <= last /\ n <= last + 1
      BY <1>3, <1>6 DEF ReadAt
    <2>2. ASSUME NEW r \in rows, NEW c \in after, c.key[1] = r.key[1]
          PROVE  c.ingestion = r.ingestion \/ n < c.ingestion
      <3>1. CASE c \in kept
        BY <1>6, <2>2, <3>1 DEF ReadAt
      <3>2. CASE c \in RowsOf(sources, last + 1)
        BY <1>2, <1>3, <2>1, <3>2
      <3> QED BY <3>1, <3>2
    <2> QED BY <1>6, <2>1, <2>2 DEF ReadAt
  <1>7. ASSUME NEW q, RunnerFits(q, table, last) PROVE RunnerFits(q, after, last + 1)
    BY <1>6, <1>7 DEF RunnerFits
  <1>8. StoreFits(after, last + 1)
    BY <1>1, <1>3, <1>4, <1>5 DEF StoreFits
  <1> QED BY <1>7, <1>8

\* Two readings, with ingestions between them.
LEMMA ReadingsFit ==
    ASSUME NEW table, NEW last, StoreFits(table, last), NEW before, NEW n,
           ReadAt(before, n, table, last), NEW now \in SUBSET table,
           NEW pack \in SUBSET (before \cup now)
    PROVE  ReadTwice(pack, <<n, last>>)
  <1> SUFFICES ASSUME NEW r \in pack, NEW s \in pack,
                      r.key[1] = s.key[1], r.ingestion < s.ingestion
               PROVE  r.ingestion <= n /\ n < s.ingestion /\ s.ingestion <= last
    BY DEF ReadTwice
  <1>1. /\ n \in Nat /\ last \in Nat /\ n <= last
        /\ r.ingestion \in Nat /\ s.ingestion \in Nat
    BY DEF ReadAt, StoreFits
  <1>2. CASE r \in before /\ s \in before
    BY <1>1, <1>2 DEF ReadAt, OfOneIngestion
  <1>3. CASE r \in now /\ s \in now
    BY <1>1, <1>3 DEF StoreFits, OfOneIngestion
  <1>4. CASE r \in before /\ s \in now
    BY <1>1, <1>4 DEF ReadAt, StoreFits
  <1>5. CASE r \in now /\ s \in before
    BY <1>1, <1>5 DEF ReadAt
  <1> QED BY <1>2, <1>3, <1>4, <1>5

\* The step of a run leaves the others as they were.
LEMMA RunSteps ==
    ASSUME LoopInv, NEW p \in Runners, NEW q, runner' = [runner EXCEPT ![p] = q],
           RunnerFits(q, chunks, ingestion)
    PROVE  /\ runner' = [r \in Runners |-> runner'[r]]
           /\ \A r \in Runners : RunnerFits(runner'[r], chunks, ingestion)
  BY DEF LoopInv

LEMMA LoopStep == LoopInv /\ [LoopNext]_loopVars => LoopInv'
  <1> SUFFICES ASSUME LoopInv, [LoopNext]_loopVars PROVE LoopInv'
    OBVIOUS
  <1>a. ASSUME UNCHANGED <<store, files>>, NEW p \in Runners, NEW q,
               runner' = [runner EXCEPT ![p] = q], RunnerFits(q, chunks, ingestion)
        PROVE  LoopInv'
    BY <1>a, RunSteps DEF LoopInv, store, files
  <1>b. ASSUME UNCHANGED <<runner, files>>, StoreFits(chunks', ingestion'),
               \A q : RunnerFits(q, chunks, ingestion) => RunnerFits(q, chunks', ingestion')
        PROVE  LoopInv'
    BY <1>b DEF LoopInv, files
  <1>1. ASSUME NEW k \in Contracts, IngestDossier(k) \/ \E s \in Perimeter[k] : IntakeDocument(k, s)
        PROVE  LoopInv'
    <2>1. Perimeter[k] \in SUBSET DOMAIN Chunks /\ IsFiniteSet(Perimeter[k])
      BY LoopAssumption
    <2>2. CASE IngestDossier(k)
      <3>1. chunks' = {} \cup RowsOf(Perimeter[k], ingestion + 1) /\ ingestion' = ingestion + 1
        BY <2>2 DEF IngestDossier, Ingested
      <3>2. /\ StoreFits(chunks', ingestion')
            /\ \A q : RunnerFits(q, chunks, ingestion) => RunnerFits(q, chunks', ingestion')
        BY <2>1, <3>1, IngestionFits DEF LoopInv
      <3> QED BY <1>b, <2>2, <3>2 DEF IngestDossier, Ingested
    <2>3. ASSUME NEW s \in Perimeter[k], IntakeDocument(k, s) PROVE LoopInv'
      <3>1. PICK kept \in SUBSET chunks : kept = {r \in chunks : r.key[1] # s}
        OBVIOUS
      <3>2. IsFiniteSet({s}) /\ {s} \in SUBSET DOMAIN Chunks
        BY <2>1, FS_Singleton
      <3>3. /\ \A r \in kept : r.key[1] \notin {s}
            /\ chunks' = kept \cup RowsOf({s}, ingestion + 1) /\ ingestion' = ingestion + 1
        BY <2>3, <3>1 DEF IntakeDocument, Ingested
      <3>4. /\ StoreFits(chunks', ingestion')
            /\ \A q : RunnerFits(q, chunks, ingestion) => RunnerFits(q, chunks', ingestion')
        BY <3>2, <3>3, IngestionFits DEF LoopInv
      <3> QED BY <1>b, <2>3, <3>4 DEF IntakeDocument, Ingested
    <2> QED BY <1>1, <2>2, <2>3
  <1>2. ASSUME NEW p \in Runners, NEW k \in Contracts, NEW sends \in BOOLEAN, Ask(p, k, sends)
        PROVE  LoopInv'
    <2>1. PICK q : q = IF sends THEN Refusal(k) ELSE [pc |-> "asked", contract |-> k]
      OBVIOUS
    <2>2. RunnerFits(q, chunks, ingestion)
      BY <2>1 DEF RunnerFits, AnswerFits, Refusal
    <2> QED BY <1>2, <1>a, <2>1, <2>2 DEF Ask
  <1>3. ASSUME NEW p \in Runners, Semantic(p) PROVE LoopInv'
    <2> DEFINE k == runner[p].contract
    <2>0. PICK s \in Rankings(InPerimeter(k)) : \E near \in 0..Len(s) :
             runner' = [runner EXCEPT ![p] =
                [pc |-> "semantic", contract |-> runner[p].contract, semantic |-> s, near |-> near,
                 read |-> ingestion]]
      BY <1>3 DEF Semantic
    <2>1. PICK near \in 0..Len(s) :
             runner' = [runner EXCEPT ![p] =
                [pc |-> "semantic", contract |-> runner[p].contract, semantic |-> s, near |-> near,
                 read |-> ingestion]]
      BY <2>0
    <2>2. PICK q : q = [pc |-> "semantic", contract |-> runner[p].contract, semantic |-> s,
                        near |-> near, read |-> ingestion]
      OBVIOUS
    <2>3. IsFiniteSet(InPerimeter(k))
      BY FS_Subset DEF InPerimeter, LoopInv, StoreFits
    <2>4. /\ IsRanking(s) /\ \A j \in DOMAIN s : InPerimeterOf(k, s[j])
          /\ RowsRead(s) \subseteq chunks
      BY <2>3, RankingsShape DEF InPerimeter, InPerimeterOf, RowsRead
    <2>5. ReadAt(RowsRead(s), ingestion, chunks, ingestion)
      BY <2>4 DEF ReadAt, LoopInv, StoreFits, OfOneIngestion
    <2>6. RunnerFits(q, chunks, ingestion)
      BY <2>2, <2>4, <2>5 DEF RunnerFits
    <2>7. UNCHANGED <<store, files>>
      BY <1>3 DEF Semantic
    <2> QED BY <1>a, <2>1, <2>2, <2>6, <2>7
  <1>4. ASSUME NEW p \in Runners, Lexical(p) PROVE LoopInv'
    <2>1. PICK k, semantic, read :
             k = runner[p].contract /\ semantic = runner[p].semantic /\ read = runner[p].read
      OBVIOUS
    <2>0. PICK matching \in SUBSET InPerimeter(k) : \E l \in Rankings(matching) :
             LET fused == Fusion(semantic, l)
                 hits == {hit \in fused : Useful(hit, runner[p].near)}
             IN  runner' = [runner EXCEPT ![p] =
                    IF hits = {}
                    THEN Refusal(k)
                    ELSE [pc |-> "retrieved", contract |-> k, hits |-> hits,
                          rankings |-> <<semantic, l, fused>>, readings |-> <<read, ingestion>>]]
      BY <1>4, <2>1 DEF Lexical
    <2>2. PICK l \in Rankings(matching) :
             LET fused == Fusion(semantic, l)
                 hits == {hit \in fused : Useful(hit, runner[p].near)}
             IN  runner' = [runner EXCEPT ![p] =
                    IF hits = {}
                    THEN Refusal(k)
                    ELSE [pc |-> "retrieved", contract |-> k, hits |-> hits,
                          rankings |-> <<semantic, l, fused>>, readings |-> <<read, ingestion>>]]
      BY <2>0
    <2>3. PICK fused, hits : fused = Fusion(semantic, l) /\ hits = {hit \in fused : Useful(hit, runner[p].near)}
      OBVIOUS
    <2>4. PICK q : q = IF hits = {}
                       THEN Refusal(k)
                       ELSE [pc |-> "retrieved", contract |-> k, hits |-> hits,
                             rankings |-> <<semantic, l, fused>>, readings |-> <<read, ingestion>>]
      OBVIOUS
    <2>5. /\ IsRanking(semantic) /\ \A j \in DOMAIN semantic : InPerimeterOf(k, semantic[j])
          /\ ReadAt(RowsRead(semantic), read, chunks, ingestion)
      BY <1>4, <2>1 DEF Lexical, LoopInv, RunnerFits
    <2>6. IsFiniteSet(matching)
      BY FS_Subset DEF InPerimeter, LoopInv, StoreFits
    <2>7. /\ IsRanking(l) /\ \A j \in DOMAIN l : InPerimeterOf(k, l[j])
          /\ RowsRead(l) \subseteq chunks
      BY <2>6, RankingsShape DEF InPerimeter, InPerimeterOf, RowsRead
    <2>8. \A hit \in AllHits(semantic, l) :
             InPerimeterOf(k, hit.row) /\ hit.row \in RowsRead(semantic) \cup RowsRead(l)
      BY <2>5, <2>7, HitShape DEF AllHits, RowsRead
    <2>9. hits \subseteq AllHits(semantic, l)
      BY <2>3 DEF Fusion, AllHits
    <2>10. FairlyFused(semantic, l, fused)
      BY <2>3, <2>5, <2>7, FusionFair
    <2>11. ReadTwice(RowsIn(hits), <<read, ingestion>>)
      <3>1. RowsIn(hits) \subseteq RowsRead(semantic) \cup RowsRead(l)
        BY <2>8, <2>9 DEF RowsIn
      <3> QED BY <2>5, <2>7, <3>1, ReadingsFit DEF LoopInv
    <2>12. RunnerFits(q, chunks, ingestion)
      BY <2>4, <2>8, <2>9, <2>10, <2>11 DEF RunnerFits, AnswerFits, Refusal
    <2>13. runner' = [runner EXCEPT ![p] = q]
      BY <2>2, <2>3, <2>4
    <2>14. UNCHANGED <<store, files>>
      BY <1>4 DEF Lexical
    <2> QED BY <1>a, <2>12, <2>13, <2>14
  <1>5. ASSUME NEW p \in Runners, NEW cited, Draft(p, cited) PROVE LoopInv'
    <2>1. PICK k, hits, readings :
             k = runner[p].contract /\ hits = runner[p].hits /\ readings = runner[p].readings
      OBVIOUS
    <2>2. PICK q : q = [pc |-> "answered",
                        doc |-> [kind |-> "candidates", contract |-> k, cited |-> cited,
                                 pack |-> RowsIn(hits)],
                        readings |-> readings]
      OBVIOUS
    <2>3. /\ hits # {} /\ \A hit \in hits : InPerimeterOf(k, hit.row)
          /\ ReadTwice(RowsIn(hits), readings)
      BY <1>5, <2>1 DEF Draft, LoopInv, RunnerFits
    <2>4. cited \subseteq {r.key : r \in RowsIn(hits)}
      BY <1>5, <2>1 DEF Draft
    <2>5. RowsIn(hits) # {} /\ \A row \in RowsIn(hits) : InPerimeterOf(k, row)
      BY <2>3 DEF RowsIn
    <2>6. RunnerFits(q, chunks, ingestion)
      BY <2>2, <2>3, <2>4, <2>5 DEF RunnerFits, AnswerFits, AnswerIsGrounded, InPerimeterOf
    <2>7. runner' = [runner EXCEPT ![p] = q]
      BY <1>5, <2>1, <2>2 DEF Draft
    <2>8. UNCHANGED <<store, files>>
      BY <1>5 DEF Draft
    <2> QED BY <1>a, <2>6, <2>7, <2>8
  <1>6. ASSUME NEW p \in Runners, WriteStream(p) \/ Fail(p) PROVE LoopInv'
    <2>1. RunnerFits(Waits, chunks, ingestion)
      BY DEF RunnerFits, Waits
    <2>2. /\ runner' = [runner EXCEPT ![p] = Waits]
          /\ UNCHANGED <<store, records, retained>>
      BY <1>6 DEF WriteStream, Fail
    <2>3. \A a \in answered' : AnswerFits(a)
      <3>1. CASE WriteStream(p)
        <4>1. AnswerFits(runner[p])
          BY <3>1 DEF WriteStream, LoopInv, RunnerFits
        <4>2. AnswerFits([doc |-> runner[p].doc, readings |-> runner[p].readings])
          BY <4>1 DEF AnswerFits, AnswerIsGrounded
        <4> QED BY <3>1, <4>2 DEF WriteStream, LoopInv
      <3>2. CASE Fail(p)
        BY <3>2 DEF Fail, LoopInv
      <3> QED BY <1>6, <3>1, <3>2
    <2> QED BY <2>1, <2>2, <2>3, RunSteps DEF LoopInv, store
  <1>7. ASSUME NEW decision \in Decided, NEW by \in Humans \cup Systems, NEW doc,
               Decide(decision, by) \/ Craft(decision, by, doc)
        PROVE  LoopInv'
    <2>1. UNCHANGED <<store, runner, answered, retained>>
      BY <1>7 DEF Decide, Craft
    <2>2. \A r \in records' : r.by \in Humans \cup Systems
      BY <1>7 DEF Decide, Craft, LoopInv
    <2> QED BY <2>1, <2>2 DEF LoopInv, store
  <1>8. ASSUME NEW doc, RewriteStream(doc) PROVE LoopInv'
    BY <1>8 DEF RewriteStream, LoopInv, store
  <1>9. ASSUME NEW record \in records, NEW by \in Humans \cup Systems, Register(record, by)
        PROVE  LoopInv'
    <2>1. PICK r : r = [because |-> record, by |-> by]
      OBVIOUS
    <2>2. /\ record.decision = "approve" /\ record.digests # Unset
          /\ {record.by, by} \subseteq Humans
          /\ retained' = retained \cup {r}
      BY <1>9, <2>1 DEF Register, GateProduced, IsHuman, LoopInv
    <2>3. UNCHANGED <<store, runner, answered, records>>
      BY <1>9 DEF Register
    <2> QED BY <2>1, <2>2, <2>3 DEF LoopInv, store
  <1>10. CASE UNCHANGED loopVars
    <2>1. UNCHANGED <<store, runner, answered, records, retained>>
      BY <1>10 DEF loopVars, store
    <2> QED BY <2>1 DEF LoopInv, store
  <1> QED
    BY <1>1, <1>2, <1>3, <1>4, <1>5, <1>6, <1>7, <1>8, <1>9, <1>10 DEF LoopNext

LEMMA LoopStarts == LoopInit => LoopInv
  <1> SUFFICES ASSUME LoopInit PROVE LoopInv
    OBVIOUS
  <1>1. RunnerFits(Waits, chunks, ingestion)
    BY DEF RunnerFits, Waits
  <1>2. StoreFits(chunks, ingestion)
    BY FS_EmptySet DEF LoopInit, StoreFits, OfOneIngestion
  <1> QED BY <1>1, <1>2 DEF LoopInit, LoopInv

\* RetentionIsGrounded: what is retained names humans, an approval and one content; if
\* a run wrote that content, its evidence is in the perimeter of its contract, its draft
\* cites nothing else, and it mixes ingestions of a source only if the source was
\* ingested again between the two readings.  Records and streams may be anybody's: a
\* full forgery is retained like any other record.
THEOREM RetentionStaysGrounded == LoopSpec => []RetentionIsGrounded
  <1>1. LoopInv => RetentionIsGrounded
    BY DEF LoopInv, RetentionIsGrounded, AnswerFits
  <1> QED BY <1>1, LoopStarts, LoopStep, PTL DEF LoopSpec

\* FusionIsFair: whatever two rankings a run has read, of any length, reciprocal rank
\* fusion puts a chunk that one of them prefers, and none disfavours, first, and keeps
\* it whenever it keeps the other.
THEOREM FusionStaysFair == LoopSpec => []FusionIsFair
  <1>1. LoopInv => FusionIsFair
    BY DEF LoopInv, RunnerFits, FusionIsFair
  <1> QED BY <1>1, LoopStarts, LoopStep, PTL DEF LoopSpec

-----------------------------------------------------------------------------
(* The editor.  Its state is typed, with what each operation that waits     *)
(* remembers of the versions, of the page and of the queue.                 *)

Texts == Typed \cup {First[k] : k \in Items}

Replied(Answers) == {Unanswered, Failed} \cup {Success(a) : a \in Answers}

Currents == [item : Items, version : Nat]
Previews == [item : Items, version : Nat, base : Texts, text : Texts]
Pendings == [preview : Previews, text : Texts, key : Nat, item : Items, version : Nat]
Operations == [key : Nat, item : Items, version : Nat, selected : Texts]

Loads == [op : {"load"}, reply : Replied([Items -> Nat])]
Opens == [op : {"open"}, reply : Replied(Texts), item : Items, version : Nat]
Previewing ==
    [op : {"preview"}, reply : Replied(Previews), item : Items, version : Nat, text : Texts]
Applying ==
    [op : {"apply"}, reply : Replied(Nat),
     preview : Previews, text : Texts, key : Nat, item : Items, version : Nat]
Syncing ==
    [op : {"sync"}, reply : Replied(Operations),
     began : Seq(Operations), todo : Seq(Operations), kept : Seq(Operations)]

Waiting == Loads \cup Opens \cup Previewing \cup Applying \cup Syncing

Pages ==
    [current : Currents \cup {Nothing}, title : Items \cup {Nothing},
     text : Texts \cup {Nothing}, base : Texts \cup {Nothing},
     pending : Pendings \cup {Nothing}, saves : BOOLEAN]

EditorTyped ==
    /\ history \in [Items -> Seq(Texts)]
    /\ listed \in [Items -> Nat]
    /\ stored \in [Items -> [version : Nat, text : Texts, base : Texts] \cup {Nothing}]
    /\ queue \in Seq(Operations)
    /\ tab \in Pages
    /\ waits \in [Slots -> Waiting \cup {Free}]

\* Version v of item k exists in history h.
Exists(h, k, v) == v \in 1..Len(h[k])

PageStands(t, h) ==
    /\ t.current \in Currents => Exists(h, t.current.item, t.current.version)
    /\ t.title # Nothing => t.text \in Texts /\ t.base \in Texts
    /\ t.pending # Nothing => Exists(h, t.pending.item, t.pending.version)

\* A preview is only asked for while an item is current, and an item stays current;
\* what a synchronization read at its beginning is on record, kept or still to do.
WaitStands(m, h, t, rows, n) ==
    /\ m.op = "load" /\ m.reply.status = "ok" => \A k \in Items : Exists(h, k, m.reply.answer[k])
    /\ m.op = "open" => Exists(h, m.item, m.version)
    /\ m.op = "preview" => t.current \in Currents
    /\ m.op = "apply" => Exists(h, m.item, m.version)
    /\ m.op = "apply" /\ m.reply.status = "ok" => Exists(h, m.item, m.reply.answer)
    /\ m.op = "sync" =>
          /\ m.todo # <<>>
          /\ ToSet(m.began) \subseteq ToSet(m.todo) \cup ToSet(m.kept) \cup rows
          /\ \A q \in ToSet(m.todo) \cup ToSet(m.kept) : q.key \in 1..n
          /\ m.reply.status = "ok" => Head(m.todo) \in rows

WaitsStand == \A s \in Slots : WaitStands(waits[s], history, tab, requests, drawn)

EditorInv == EditorTyped /\ EditorTypeOK /\ PageStands(tab, history) /\ WaitsStand

\* What no step takes back.
EditorGrows ==
    /\ history' \in [Items -> Seq(Texts)]
    /\ \A k \in Items : Len(history'[k]) \in 1..LastVersion /\ Len(history[k]) <= Len(history'[k])
    /\ requests \subseteq requests'
    /\ drawn' \in 0..LastKey /\ drawn <= drawn'

LEMMA PagesKept ==
    ASSUME NEW t \in Pages
    PROVE  /\ \A c \in Currents \cup {Nothing} : [t EXCEPT !.current = c] \in Pages
           /\ \A p \in Pendings \cup {Nothing} : [t EXCEPT !.pending = p] \in Pages
           /\ \A b \in BOOLEAN : [t EXCEPT !.saves = b] \in Pages
           /\ \A x \in Texts : [t EXCEPT !.text = x] \in Pages
           /\ \A x \in Texts : [t EXCEPT !.base = x] \in Pages
  BY DEF Pages

\* An answer changes nothing else in what waits for it.
LEMMA ReplyKeeps ==
    ASSUME NEW m \in Waiting, NEW r,
           m.op = "load" => r \in Replied([Items -> Nat]),
           m.op = "open" => r \in Replied(Texts),
           m.op = "preview" => r \in Replied(Previews),
           m.op = "apply" => r \in Replied(Nat),
           m.op = "sync" => r \in Replied(Operations)
    PROVE  [m EXCEPT !.reply = r] \in Waiting
  <1>1. CASE m \in Loads
    BY <1>1 DEF Waiting, Loads
  <1>2. CASE m \in Opens
    BY <1>2 DEF Waiting, Opens
  <1>3. CASE m \in Previewing
    BY <1>3 DEF Waiting, Previewing
  <1>4. CASE m \in Applying
    BY <1>4 DEF Waiting, Applying
  <1>5. CASE m \in Syncing
    BY <1>5 DEF Waiting, Syncing
  <1> QED BY <1>1, <1>2, <1>3, <1>4, <1>5 DEF Waiting

LEMMA ReplyShape ==
    ASSUME NEW A, NEW r \in Replied(A)
    PROVE  /\ r.status = "ok" => r.answer \in A
           /\ r.status \in {"sent", "failed", "ok"}
           /\ r.status = "ok" => r = Success(r.answer)
  BY DEF Replied, Unanswered, Failed, Success

LEMMA WaitingShape ==
    ASSUME NEW m \in Waiting \cup {Free}
    PROVE  /\ m.op = "load" => m \in Loads
           /\ m.op = "open" => m \in Opens
           /\ m.op = "preview" => m \in Previewing
           /\ m.op = "apply" => m \in Applying
           /\ m.op = "sync" => m \in Syncing
           /\ m.op \in {"free", "load", "open", "preview", "apply", "sync"}
  BY DEF Waiting, Free, Loads, Opens, Previewing, Applying, Syncing

LEMMA EditorStepsGrow == EditorInv /\ [EditorNext]_editorVars => EditorGrows
  <1> SUFFICES ASSUME EditorInv, [EditorNext]_editorVars PROVE EditorGrows
    OBVIOUS
  <1>0. /\ history \in [Items -> Seq(Texts)] /\ LastVersion \in Nat /\ LastKey \in Nat
        /\ \A k \in Items : Len(history[k]) \in 1..LastVersion
        /\ drawn \in 0..LastKey
    BY EditorAssumption DEF EditorInv, EditorTyped, EditorTypeOK, Version
  <1>a. ASSUME NEW k \in Items, NEW x \in Texts, Len(history[k]) < LastVersion,
               history' = [history EXCEPT ![k] = Append(@, x)],
               requests \subseteq requests', drawn' = drawn
        PROVE  EditorGrows
    BY <1>0, <1>a DEF EditorGrows
  <1>b. ASSUME UNCHANGED history, requests \subseteq requests',
               drawn' = drawn \/ (drawn < LastKey /\ drawn' = drawn + 1)
        PROVE  EditorGrows
    BY <1>0, <1>b DEF EditorGrows
  <1>1. ASSUME NEW s \in Slots, AnswerApply(s) PROVE EditorGrows
    <2>1. waits[s] \in Applying
      BY <1>1, WaitingShape DEF AnswerApply, Awaits, EditorInv, EditorTyped
    <2>2. PICK k, x : k = waits[s].item /\ x = waits[s].text
      OBVIOUS
    <2>3. k \in Items /\ x \in Texts
      BY <2>1, <2>2 DEF Applying
    <2>4. \/ Len(history[k]) < LastVersion /\ history' = [history EXCEPT ![k] = Append(@, x)]
          \/ history' = history
      BY <1>1, <2>2 DEF AnswerApply, Version
    <2>5. requests' = requests /\ drawn' = drawn
      BY <1>1 DEF AnswerApply
    <2> QED BY <1>a, <1>b, <2>3, <2>4, <2>5
  <1>2. ASSUME NEW k \in Items, NEW x \in Typed, OthersRevise(k, x) PROVE EditorGrows
    BY <1>2, <1>a DEF OthersRevise, Version, Texts
  <1>3. ASSUME NEW s \in Slots, AnswerRequest(s) PROVE EditorGrows
    <2>1. requests \subseteq requests' /\ drawn' = drawn /\ history' = history
      BY <1>3 DEF AnswerRequest
    <2> QED BY <1>b, <2>1
  <1>4. ASSUME NEW s \in Slots, RenderConfirmation(s) \/ RequestVariantEdit(s) PROVE EditorGrows
    <2>1. /\ UNCHANGED history /\ requests \subseteq requests'
          /\ drawn < LastKey /\ drawn' = drawn + 1
      BY <1>4 DEF RenderConfirmation, RequestVariantEdit, serviceVars
    <2> QED BY <1>b, <2>1
  <1>5. ASSUME UNCHANGED <<serviceVars, drawn>> PROVE EditorGrows
    BY <1>b, <1>5 DEF serviceVars
  <1>6. CASE UNCHANGED editorVars
    BY <1>5, <1>6 DEF editorVars
  <1>7. ASSUME NEW s \in Slots,
               \/ AnswerProject(s) \/ AnswerMarkdown(s) \/ AnswerPreview(s) \/ Lose(s)
               \/ LoadProject(s) \/ ShowProject(s) \/ (\E k \in Items : OpenItem(s, k))
               \/ ShowItem(s) \/ ShowKept(s) \/ PreviewRevision(s) \/ PreviewRefused(s)
               \/ ApplyPendingUpdate(s) \/ ShowApplied(s) \/ TryAgain(s)
               \/ SyncVariantQueue(s) \/ SyncGoesOn(s)
        PROVE  EditorGrows
    BY <1>5, <1>7
    DEF AnswerProject, AnswerMarkdown, AnswerPreview, Lose, LoadProject, ShowProject, OpenItem,
        ShowItem, ShowKept, PreviewRevision, PreviewRefused, ApplyPendingUpdate, ShowApplied,
        TryAgain, SyncVariantQueue, SyncGoesOn
  <1>8. ASSUME (\E x \in Typed : Type(x)) \/ CloseDialog \/ SetNetwork \/ Reload \/ ClearLocalData
        PROVE  EditorGrows
    BY <1>5, <1>8 DEF Type, CloseDialog, SetNetwork, Reload, ClearLocalData
  <1> QED BY <1>1, <1>2, <1>3, <1>4, <1>6, <1>7, <1>8 DEF EditorNext

LEMMA WaitStays ==
    ASSUME NEW g, NEW h, \A k \in Items : Len(g[k]) \in Nat /\ Len(h[k]) \in Nat /\ Len(g[k]) <= Len(h[k]),
           NEW t, NEW u, NEW rows, NEW more, rows \subseteq more,
           NEW n \in Nat, NEW o \in Nat, n <= o, NEW m \in Waiting \cup {Free},
           m.op = "preview" => (t.current \in Currents => u.current \in Currents),
           WaitStands(m, g, t, rows, n)
    PROVE  WaitStands(m, h, u, more, o)
  <1>1. /\ m.op \in {"open", "apply"} => m.item \in Items
        /\ m.op = "apply" /\ m.reply.status = "ok" => m.reply.answer \in Nat
        /\ m.op \in {"open", "apply"} => m.version \in Nat
        /\ m.op = "load" /\ m.reply.status = "ok" => m.reply.answer \in [Items -> Nat]
    BY WaitingShape, ReplyShape DEF Loads, Opens, Applying
  <1>2. \A k \in Items : \A v : Exists(g, k, v) => Exists(h, k, v)
    BY DEF Exists
  <1>3. m.op = "sync" => \A q \in ToSet(m.todo) \cup ToSet(m.kept) : q.key \in 1..o
    BY DEF WaitStands
  <1> QED BY <1>1, <1>2, <1>3 DEF WaitStands

\* A step that sets at most one of the operations that wait.
LEMMA WaitsStep ==
    ASSUME EditorInv, EditorGrows, NEW s \in Slots, NEW m \in Waiting \cup {Free},
           waits' = [waits EXCEPT ![s] = m], WaitStands(m, history', tab', requests', drawn'),
           tab.current \in Currents => tab'.current \in Currents
    PROVE  waits' \in [Slots -> Waiting \cup {Free}] /\ WaitsStand'
  <1>1. waits' \in [Slots -> Waiting \cup {Free}]
    BY DEF EditorInv, EditorTyped
  <1>2. ASSUME NEW r \in Slots PROVE WaitStands(waits'[r], history', tab', requests', drawn')
    <2>1. CASE r = s
      BY <2>1 DEF EditorInv, EditorTyped
    <2>2. CASE r # s
      <3>1. waits'[r] = waits[r] /\ waits[r] \in Waiting \cup {Free}
        BY <2>2 DEF EditorInv, EditorTyped
      <3>2. \A k \in Items : Len(history[k]) \in Nat /\ Len(history'[k]) \in Nat
                               /\ Len(history[k]) <= Len(history'[k])
        BY DEF EditorInv, EditorTyped, EditorGrows
      <3>3. drawn \in Nat /\ drawn' \in Nat /\ drawn <= drawn' /\ requests \subseteq requests'
        BY EditorAssumption DEF EditorInv, EditorTypeOK, EditorGrows
      <3> QED BY <3>1, <3>2, <3>3, WaitStays DEF EditorInv, WaitsStand
    <2> QED BY <2>1, <2>2
  <1> QED BY <1>1, <1>2 DEF WaitsStand

LEMMA WaitsStay ==
    ASSUME EditorInv, EditorGrows, waits' = waits,
           tab.current \in Currents => tab'.current \in Currents
    PROVE  waits' \in [Slots -> Waiting \cup {Free}] /\ WaitsStand'
  <1>1. \A k \in Items : Len(history[k]) \in Nat /\ Len(history'[k]) \in Nat
                           /\ Len(history[k]) <= Len(history'[k])
    BY DEF EditorInv, EditorTyped, EditorGrows
  <1>2. drawn \in Nat /\ drawn' \in Nat /\ drawn <= drawn' /\ requests \subseteq requests'
    BY EditorAssumption DEF EditorInv, EditorTypeOK, EditorGrows
  <1>3. waits \in [Slots -> Waiting \cup {Free}]
    BY DEF EditorInv, EditorTyped
  <1>4. ASSUME NEW r \in Slots PROVE WaitStands(waits[r], history', tab', requests', drawn')
    BY <1>1, <1>2, <1>3, WaitStays DEF EditorInv, WaitsStand
  <1> QED BY <1>3, <1>4 DEF WaitsStand

LEMMA PageStays ==
    ASSUME EditorInv, EditorGrows, tab' = tab
    PROVE  tab' \in Pages /\ PageStands(tab', history')
  <1>1. tab \in Pages
    BY DEF EditorInv, EditorTyped
  <1>2. \A k \in Items : \A v : Exists(history, k, v) => Exists(history', k, v)
    BY DEF Exists, EditorGrows, EditorInv, EditorTyped
  <1> QED BY <1>1, <1>2 DEF EditorInv, PageStands, Pages, Currents, Pendings

\* The versions that the local storage names exist, and its keys were drawn.
LEMMA StorageStays ==
    ASSUME EditorInv, EditorGrows, UNCHANGED localVars, online' \in BOOLEAN
    PROVE  /\ EditorTypeOK'
           /\ tab' \in Pages /\ waits' \in [Slots -> Waiting \cup {Free}] => EditorTyped'
  <1>1. \A k \in Items : Len(history[k]) \in Nat /\ Len(history'[k]) \in Nat
    BY DEF EditorInv, EditorTyped, EditorGrows
  <1>2. EditorTypeOK'
    <2>1. listed' = listed /\ stored' = stored /\ queue' = queue
      BY DEF localVars
    <2>2. ASSUME NEW k \in Items
          PROVE  Len(history'[k]) \in 1..LastVersion /\ listed'[k] \in 1..Len(history'[k])
      BY <1>1, <2>1, EditorAssumption DEF EditorInv, EditorTypeOK, EditorGrows, Version
    <2>3. ASSUME NEW k \in Items, stored'[k] # Nothing
          PROVE  stored'[k].version \in 1..Len(history'[k])
      BY <1>1, <2>1, <2>3, EditorAssumption DEF EditorInv, EditorTypeOK, EditorGrows, Version
    <2>4. drawn \in Nat /\ drawn' \in Nat /\ drawn' \in 0..LastKey /\ drawn <= drawn'
      BY EditorAssumption DEF EditorInv, EditorTypeOK, EditorGrows
    <2>5. ASSUME NEW i \in DOMAIN queue' PROVE queue'[i].key \in 1..drawn'
      <3>1. queue[i].key \in 1..drawn
        BY <2>1, <2>5 DEF EditorInv, EditorTypeOK
      <3> QED BY <2>1, <2>4, <3>1
    <2> QED BY <2>2, <2>3, <2>4, <2>5 DEF EditorTypeOK, Version
  <1> QED BY <1>2 DEF EditorInv, EditorTyped, EditorGrows, localVars

\* An operation is answered, and nothing else changes that it may see.
LEMMA Replying ==
    ASSUME EditorInv, EditorGrows, UNCHANGED <<localVars, tab, online>>,
           NEW s \in Slots, waits[s] \in Waiting, NEW r, Replies(s, r),
           waits[s].op = "load" => r \in Replied([Items -> Nat]),
           waits[s].op = "open" => r \in Replied(Texts),
           waits[s].op = "preview" => r \in Replied(Previews),
           waits[s].op = "apply" => r \in Replied(Nat),
           waits[s].op = "sync" => r \in Replied(Operations),
           r.status = "ok" =>
              /\ waits[s].op = "load" => \A k \in Items : Exists(history', k, r.answer[k])
              /\ waits[s].op = "apply" => Exists(history', waits[s].item, r.answer)
              /\ waits[s].op = "sync" => Head(waits[s].todo) \in requests'
    PROVE  EditorInv'
  <1>1. PICK m : m = waits[s]
    OBVIOUS
  <1>2. PICK q : q = [m EXCEPT !.reply = r]
    OBVIOUS
  <1>3. m \in Waiting /\ q \in Waiting
    BY <1>1, <1>2, ReplyKeeps
  <1>4. waits' = [waits EXCEPT ![s] = q]
    BY <1>1, <1>2 DEF Replies
  <1>5. /\ q.op = m.op /\ q.reply = r
        /\ m.op \in {"open", "apply"} => q.item = m.item /\ q.version = m.version
        /\ m.op = "sync" => q.began = m.began /\ q.todo = m.todo /\ q.kept = m.kept
    BY <1>2, <1>3 DEF Waiting, Loads, Opens, Previewing, Applying, Syncing
  <1>6. WaitStands(m, history', tab', requests', drawn')
    <2>1. WaitStands(m, history, tab, requests, drawn)
      BY <1>1 DEF EditorInv, WaitsStand
    <2>2. \A k \in Items : Len(history[k]) \in Nat /\ Len(history'[k]) \in Nat
                             /\ Len(history[k]) <= Len(history'[k])
      BY DEF EditorInv, EditorTyped, EditorGrows
    <2>3. drawn \in Nat /\ drawn' \in Nat /\ drawn <= drawn' /\ requests \subseteq requests'
      BY EditorAssumption DEF EditorInv, EditorTypeOK, EditorGrows
    <2> QED BY <1>3, <2>1, <2>2, <2>3, WaitStays
  <1>7. WaitStands(q, history', tab', requests', drawn')
    BY <1>1, <1>5, <1>6 DEF WaitStands
  <1>8. waits' \in [Slots -> Waiting \cup {Free}] /\ WaitsStand'
    BY <1>3, <1>4, <1>7, WaitsStep
  <1>9. online' \in BOOLEAN
    BY DEF EditorInv, EditorTypeOK
  <1> QED BY <1>8, <1>9, PageStays, StorageStays DEF EditorInv

\* A call of the tab for an answer: the service and the storage are as they were.
LEMMA TabSteps ==
    ASSUME EditorInv, EditorGrows, UNCHANGED localVars, online' \in BOOLEAN,
           tab' \in Pages, PageStands(tab', history'),
           tab.current \in Currents => tab'.current \in Currents,
           \/ waits' = waits
           \/ \E s \in Slots, m \in Waiting \cup {Free} :
                 /\ waits' = [waits EXCEPT ![s] = m]
                 /\ WaitStands(m, history', tab', requests', drawn')
    PROVE  EditorInv'
  <1>1. waits' \in [Slots -> Waiting \cup {Free}] /\ WaitsStand'
    BY WaitsStep, WaitsStay
  <1> QED BY <1>1, StorageStays DEF EditorInv

LEMMA FreeStands == \A h, t, rows, n : WaitStands(Free, h, t, rows, n)
  BY DEF WaitStands, Free

\* What the service and the network do.
LEMMA ServiceSteps ==
    ASSUME EditorInv, EditorGrows,
           \/ \E s \in Slots : \/ AnswerProject(s) \/ AnswerMarkdown(s) \/ AnswerPreview(s)
                               \/ AnswerApply(s) \/ AnswerRequest(s) \/ Lose(s)
           \/ \E k \in Items, t \in Typed : OthersRevise(k, t)
    PROVE  EditorInv'
  <1>0. /\ history \in [Items -> Seq(Texts)] /\ waits \in [Slots -> Waiting \cup {Free}]
        /\ \A k \in Items : Len(history[k]) \in 1..LastVersion
        /\ LastVersion \in Nat
    BY EditorAssumption DEF EditorInv, EditorTyped, EditorTypeOK, Version
  <1>a. ASSUME NEW k \in Items
        PROVE  Version(k) \in Nat /\ Version(k) >= 1 /\ Markdown(k) \in Texts
    BY <1>0 DEF Version, Markdown
  <1>b. ASSUME NEW s \in Slots, NEW op \in {"load", "open", "preview", "apply", "sync"}, Awaits(s, op)
        PROVE  waits[s] \in Waiting /\ waits[s].op = op
    BY <1>0, <1>b DEF Awaits, Free
  <1>c. \A A : Failed \in Replied(A) /\ Failed.status # "ok"
    BY DEF Replied, Failed
  <1>d. \A A : \A a \in A : Success(a) \in Replied(A)
    BY DEF Replied
  <1>e. \A a : Success(a).answer = a
    BY DEF Success
  <1>1. ASSUME NEW s \in Slots, AnswerProject(s) PROVE EditorInv'
    <2>1. PICK a : a = [k \in Items |-> Version(k)]
      OBVIOUS
    <2>2. a \in [Items -> Nat] /\ \A k \in Items : Exists(history', k, a[k])
      BY <1>0, <1>1, <2>1 DEF Exists, Version, AnswerProject, serviceVars
    <2>3. waits[s] \in Waiting /\ waits[s].op = "load" /\ Replies(s, Success(a))
      BY <1>1, <1>b, <2>1 DEF AnswerProject
    <2>4. UNCHANGED <<localVars, tab, online>>
      BY <1>1 DEF AnswerProject
    <2> QED BY <1>d, <1>e, <2>2, <2>3, <2>4, Replying
  <1>2. ASSUME NEW s \in Slots, AnswerMarkdown(s) PROVE EditorInv'
    <2>1. waits[s] \in Waiting /\ waits[s].op = "open"
      BY <1>2, <1>b DEF AnswerMarkdown
    <2>2. waits[s].item \in Items
      BY <2>1, WaitingShape DEF Opens
    <2>3. PICK a : a = Markdown(waits[s].item)
      OBVIOUS
    <2>4. a \in Texts
      BY <1>a, <2>2, <2>3
    <2>5. Replies(s, Success(a)) /\ UNCHANGED <<localVars, tab, online>>
      BY <1>2, <2>3 DEF AnswerMarkdown
    <2> QED BY <1>d, <2>1, <2>4, <2>5, Replying
  <1>3. ASSUME NEW s \in Slots, AnswerPreview(s) PROVE EditorInv'
    <2>1. waits[s] \in Waiting /\ waits[s].op = "preview"
      BY <1>3, <1>b DEF AnswerPreview
    <2>2. waits[s].item \in Items /\ waits[s].version \in Nat /\ waits[s].text \in Texts
      BY <2>1, WaitingShape DEF Previewing
    <2>3. PICK a : a = [item |-> waits[s].item, version |-> waits[s].version,
                        base |-> Markdown(waits[s].item), text |-> waits[s].text]
      OBVIOUS
    <2>4. a \in Previews
      BY <1>a, <2>2, <2>3 DEF Previews
    <2>5. Replies(s, Success(a)) \/ Replies(s, Failed)
      BY <1>3, <2>3 DEF AnswerPreview
    <2>6. UNCHANGED <<localVars, tab, online>>
      BY <1>3 DEF AnswerPreview
    <2>7. CASE Replies(s, Success(a))
      BY <1>d, <2>1, <2>4, <2>6, <2>7, Replying
    <2>8. CASE Replies(s, Failed)
      BY <1>c, <2>1, <2>6, <2>8, Replying
    <2> QED BY <2>5, <2>7, <2>8
  <1>4. ASSUME NEW s \in Slots, AnswerApply(s) PROVE EditorInv'
    <2>1. waits[s] \in Waiting /\ waits[s].op = "apply"
      BY <1>4, <1>b DEF AnswerApply
    <2>2. PICK k, v : k = waits[s].item /\ v = waits[s].version
      OBVIOUS
    <2>3. k \in Items /\ v \in Nat
      BY <2>1, <2>2, WaitingShape DEF Applying
    <2>4. UNCHANGED <<localVars, tab, online>>
      BY <1>4 DEF AnswerApply
    <2>5. CASE Replies(s, Failed)
      BY <1>c, <2>1, <2>4, <2>5, Replying
    <2>6. CASE Replies(s, Success(v + 1))
      <3>1. \/ /\ v = Len(history[k])
               /\ history' = [history EXCEPT ![k] = Append(@, waits[s].text)]
            \/ v < Len(history[k]) /\ history' = history
            \/ Replies(s, Failed)
        BY <1>4, <2>2 DEF AnswerApply, Version
      <3>2. Len(history'[k]) \in Nat /\ Len(history[k]) \in Nat
        BY <1>0, <2>3 DEF EditorGrows
      <3>3. CASE v = Len(history[k]) /\ history' = [history EXCEPT ![k] = Append(@, waits[s].text)]
        <4>1. waits[s].text \in Texts
          BY <2>1, WaitingShape DEF Applying
        <4>2. Len(history'[k]) = v + 1
          BY <1>0, <2>3, <3>3, <4>1
        <4>3. Exists(history', k, v + 1)
          BY <2>3, <4>2 DEF Exists
        <4> QED BY <1>d, <1>e, <2>1, <2>2, <2>3, <2>4, <2>6, <4>3, Replying
      <3>4. CASE v < Len(history[k]) /\ history' = history
        <4>1. Exists(history', k, v + 1)
          BY <2>3, <3>2, <3>4 DEF Exists
        <4> QED BY <1>d, <1>e, <2>1, <2>2, <2>3, <2>4, <2>6, <4>1, Replying
      <3> QED BY <2>5, <3>1, <3>3, <3>4
    <2>7. Replies(s, Failed) \/ Replies(s, Success(v + 1))
      BY <1>4, <2>2 DEF AnswerApply
    <2> QED BY <2>5, <2>6, <2>7
  <1>5. ASSUME NEW s \in Slots, AnswerRequest(s) PROVE EditorInv'
    <2>1. waits[s] \in Waiting /\ waits[s].op = "sync"
      BY <1>5, <1>b DEF AnswerRequest
    <2>2. PICK r : r = Head(waits[s].todo)
      OBVIOUS
    <2>3. WaitStands(waits[s], history, tab, requests, drawn)
      BY DEF EditorInv, WaitsStand
    <2>4. r \in Operations
      BY <2>1, <2>2, <2>3, WaitingShape DEF WaitStands, Syncing
    <2>5. (Replies(s, Success(r)) /\ r \in requests') \/ Replies(s, Failed)
      BY <1>5, <2>2 DEF AnswerRequest
    <2>6. UNCHANGED <<localVars, tab, online>>
      BY <1>5 DEF AnswerRequest
    <2>7. CASE Replies(s, Success(r)) /\ r \in requests'
      BY <1>d, <2>1, <2>2, <2>4, <2>6, <2>7, Replying
    <2>8. CASE Replies(s, Failed)
      BY <1>c, <2>1, <2>6, <2>8, Replying
    <2> QED BY <2>5, <2>7, <2>8
  <1>6. ASSUME NEW s \in Slots, Lose(s) PROVE EditorInv'
    <2>1. waits[s] \in Waiting /\ Replies(s, Failed) /\ UNCHANGED <<localVars, tab, online>>
      BY <1>0, <1>6 DEF Lose
    <2> QED BY <1>c, <2>1, Replying
  <1>7. ASSUME NEW k \in Items, NEW t \in Typed, OthersRevise(k, t) PROVE EditorInv'
    <2>1. UNCHANGED <<localVars, waits>> /\ tab' = tab /\ online' = online
      BY <1>7 DEF OthersRevise
    <2>2. online' \in BOOLEAN /\ (tab.current \in Currents => tab'.current \in Currents)
      BY <2>1 DEF EditorInv, EditorTypeOK
    <2> QED BY <2>1, <2>2, PageStays, TabSteps
  <1> QED BY <1>1, <1>2, <1>3, <1>4, <1>5, <1>6, <1>7

StoredTexts == [version : Nat, text : Texts, base : Texts]

\* The versions that are stored exist, also after a step.
StoredStand(st, h) == \A k \in Items : st[k] # Nothing => st[k].version \in 1..Len(h[k])

LEMMA StorageSteps ==
    ASSUME EditorInv, EditorGrows, online' \in BOOLEAN,
           listed' \in [Items -> Nat], stored' \in [Items -> StoredTexts \cup {Nothing}],
           queue' \in Seq(Operations),
           \A k \in Items : listed'[k] \in 1..Len(history'[k]),
           StoredStand(stored', history'),
           \A i \in DOMAIN queue' : queue'[i].key \in 1..drawn',
           tab' \in Pages, PageStands(tab', history'),
           waits' \in [Slots -> Waiting \cup {Free}], WaitsStand'
    PROVE  EditorInv'
  <1>1. EditorTyped'
    BY DEF EditorTyped, EditorGrows, StoredTexts
  <1>2. EditorTypeOK'
    BY DEF EditorTypeOK, EditorGrows, StoredStand, Version
  <1> QED BY <1>1, <1>2 DEF EditorInv

LEMMA StorageNow ==
    ASSUME EditorInv, EditorGrows
    PROVE  /\ listed \in [Items -> Nat] /\ stored \in [Items -> StoredTexts \cup {Nothing}]
           /\ queue \in Seq(Operations) /\ tab \in Pages /\ online \in BOOLEAN
           /\ waits \in [Slots -> Waiting \cup {Free}]
           /\ \A k \in Items : listed[k] \in 1..Len(history'[k])
           /\ StoredStand(stored, history')
           /\ \A i \in DOMAIN queue : queue[i].key \in 1..drawn'
           /\ \A k \in Items : \A v : Exists(history, k, v) => Exists(history', k, v)
  <1>1. /\ listed \in [Items -> Nat] /\ stored \in [Items -> StoredTexts \cup {Nothing}]
        /\ queue \in Seq(Operations) /\ tab \in Pages /\ online \in BOOLEAN
        /\ waits \in [Slots -> Waiting \cup {Free}]
    BY DEF EditorInv, EditorTyped, EditorTypeOK, StoredTexts
  <1>2. \A k \in Items : /\ Len(history[k]) \in Nat /\ Len(history'[k]) \in Nat
                         /\ Len(history[k]) <= Len(history'[k])
    BY DEF EditorInv, EditorTyped, EditorGrows
  <1>3. \A k \in Items : listed[k] \in 1..Len(history'[k])
    BY <1>2 DEF EditorInv, EditorTypeOK, Version
  <1>4. StoredStand(stored, history')
    BY <1>2 DEF EditorInv, EditorTypeOK, Version, StoredStand
  <1>5. drawn \in Nat /\ drawn' \in Nat /\ drawn <= drawn'
    BY EditorAssumption DEF EditorInv, EditorTypeOK, EditorGrows
  <1>6. \A i \in DOMAIN queue : queue[i].key \in 1..drawn'
    BY <1>5 DEF EditorInv, EditorTypeOK
  <1>7. \A k \in Items : \A v : Exists(history, k, v) => Exists(history', k, v)
    BY <1>2 DEF Exists
  <1> QED BY <1>1, <1>3, <1>4, <1>6, <1>7

LEMMA StoresOne ==
    ASSUME EditorInv, EditorGrows, NEW k \in Items, NEW v, Exists(history', k, v),
           NEW x \in Texts, NEW y \in Texts, stored' = [stored EXCEPT ![k] = Kept(v, x, y)]
    PROVE  stored' \in [Items -> StoredTexts \cup {Nothing}] /\ StoredStand(stored', history')
  <1>1. /\ stored \in [Items -> StoredTexts \cup {Nothing}] /\ StoredStand(stored, history')
    BY StorageNow
  <1>2. v \in Nat
    BY DEF Exists, EditorGrows
  <1>3. Kept(v, x, y) \in StoredTexts /\ Kept(v, x, y).version = v
    BY <1>2 DEF Kept, StoredTexts
  <1> HIDE DEF Kept
  <1> QED BY <1>1, <1>3 DEF StoredStand, Exists

\* The text area is of an item that exists.
LEMMA EditableStands ==
    ASSUME EditorInv, EditorGrows, Editable
    PROVE  /\ tab.current \in Currents /\ tab.current.item \in Items
           /\ Exists(history, tab.current.item, tab.current.version)
           /\ Exists(history', tab.current.item, tab.current.version)
           /\ tab.text \in Texts /\ tab.base \in Texts
  <1>1. tab.current \in Currents
    BY DEF Editable, EditorInv, EditorTyped, Pages
  <1>2. tab.current.item \in Items
    BY <1>1 DEF Currents
  <1> QED BY <1>1, <1>2, StorageNow DEF EditorInv, PageStands, Editable

ShownOn(t, k, x, y) == [t EXCEPT !.title = k, !.text = x, !.base = y, !.saves = TRUE]

LEMMA ShowsPage ==
    ASSUME NEW t \in Pages, NEW h, PageStands(t, h), NEW k \in Items, NEW x \in Texts, NEW y \in Texts
    PROVE  /\ ShownOn(t, k, x, y) \in Pages /\ PageStands(ShownOn(t, k, x, y), h)
           /\ ShownOn(t, k, x, y).current = t.current
  <1>0. PICK u : u = [t EXCEPT !.title = k, !.text = x, !.base = y, !.saves = TRUE]
    OBVIOUS
  <1>1. u = [current |-> t.current, title |-> k, text |-> x, base |-> y,
             pending |-> t.pending, saves |-> TRUE]
    BY <1>0 DEF Pages
  <1>2. u \in Pages
    BY <1>1 DEF Pages
  <1>3. PageStands(u, h) /\ u.current = t.current
    BY <1>1 DEF PageStands
  <1> QED BY <1>0, <1>2, <1>3 DEF ShownOn

\* The items: their list, their texts and the text area.
LEMMA ItemSteps ==
    ASSUME EditorInv, EditorGrows,
           \/ \E s \in Slots : \/ LoadProject(s) \/ ShowProject(s) \/ ShowItem(s) \/ ShowKept(s)
                               \/ \E k \in Items : OpenItem(s, k)
           \/ \E x \in Typed : Type(x)
    PROVE  EditorInv'
  <1>0. /\ listed \in [Items -> Nat] /\ stored \in [Items -> StoredTexts \cup {Nothing}]
        /\ queue \in Seq(Operations) /\ tab \in Pages /\ online \in BOOLEAN
        /\ waits \in [Slots -> Waiting \cup {Free}]
        /\ \A k \in Items : listed[k] \in 1..Len(history'[k])
        /\ StoredStand(stored, history')
        /\ \A i \in DOMAIN queue : queue[i].key \in 1..drawn'
    BY StorageNow
  <1>a. tab' = tab => PageStands(tab', history')
    BY PageStays
  <1>1. ASSUME NEW s \in Slots, LoadProject(s) PROVE EditorInv'
    <2>1. PICK m : m = [op |-> "load", reply |-> Unanswered]
      OBVIOUS
    <2>2. m \in Waiting /\ m.op = "load" /\ m.reply.status # "ok"
      BY <2>1 DEF Waiting, Loads, Replied, Unanswered
    <2>3. WaitStands(m, history', tab', requests', drawn')
      BY <2>2 DEF WaitStands
    <2>4. /\ waits' = [waits EXCEPT ![s] = m] /\ tab' = tab /\ online' = online
          /\ UNCHANGED localVars
      BY <1>1, <2>1 DEF LoadProject, Begins
    <2> QED BY <1>0, <1>a, <2>2, <2>3, <2>4, TabSteps
  <1>2. ASSUME NEW s \in Slots, ShowProject(s) PROVE EditorInv'
    <2>1. waits[s] \in Loads /\ waits[s].reply.status = "ok"
      BY <1>0, <1>2, WaitingShape DEF ShowProject, Answered
    <2>2. WaitStands(waits[s], history, tab, requests, drawn)
      BY DEF EditorInv, WaitsStand
    <2>3. listed' = waits[s].reply.answer
      BY <1>2 DEF ShowProject
    <2>4. listed' \in [Items -> Nat]
      BY <2>1, <2>3, ReplyShape DEF Loads
    <2>5. \A k \in Items : listed'[k] \in 1..Len(history'[k])
      BY <2>1, <2>2, <2>3, StorageNow DEF WaitStands, Exists, Loads
    <2>6. /\ stored' = stored /\ queue' = queue /\ tab' = tab /\ online' = online
          /\ waits' = [waits EXCEPT ![s] = Free]
      BY <1>2 DEF ShowProject, Ends
    <2>7. waits' \in [Slots -> Waiting \cup {Free}] /\ WaitsStand'
      BY <2>6, FreeStands, WaitsStep
    <2> QED BY <1>0, <1>a, <2>4, <2>5, <2>6, <2>7, StorageSteps
  <1>3. ASSUME NEW s \in Slots, NEW k \in Items, OpenItem(s, k) PROVE EditorInv'
    <2>1. PICK m, c : /\ m = [op |-> "open", reply |-> Unanswered, item |-> k, version |-> listed[k]]
                      /\ c = [item |-> k, version |-> listed[k]]
      OBVIOUS
    <2>2. /\ m \in Waiting /\ m.op = "open" /\ m.item = k /\ m.version = listed[k]
          /\ c \in Currents /\ c.item = k /\ c.version = listed[k]
      BY <1>0, <2>1 DEF Waiting, Opens, Replied, Currents
    <2>3. WaitStands(m, history', tab', requests', drawn')
      BY <1>0, <2>2 DEF WaitStands, Exists
    <2>4. /\ waits' = [waits EXCEPT ![s] = m] /\ online' = online /\ UNCHANGED localVars
          /\ tab' = [tab EXCEPT !.current = c, !.pending = Nothing]
      BY <1>3, <2>1 DEF OpenItem, Begins
    <2>5. tab' = [current |-> c, title |-> tab.title, text |-> tab.text, base |-> tab.base,
                  pending |-> Nothing, saves |-> tab.saves]
      BY <1>0, <2>4 DEF Pages
    <2>6. tab' \in Pages /\ tab'.current = c /\ tab'.pending = Nothing
      BY <1>0, <2>2, <2>5 DEF Pages
    <2>7. PageStands(tab', history')
      <3>1. Exists(history', k, listed[k])
        BY <1>0 DEF Exists
      <3>2. tab'.title = tab.title /\ tab'.text = tab.text /\ tab'.base = tab.base
        BY <2>5
      <3> QED BY <2>2, <2>6, <3>1, <3>2 DEF PageStands, EditorInv
    <2> QED BY <1>0, <2>2, <2>3, <2>4, <2>6, <2>7, TabSteps
  <1>4. ASSUME NEW s \in Slots, ShowItem(s) PROVE EditorInv'
    <2>1. waits[s] \in Opens /\ waits[s].reply.status = "ok"
      BY <1>0, <1>4, WaitingShape DEF ShowItem, Answered
    <2>2. WaitStands(waits[s], history, tab, requests, drawn)
      BY DEF EditorInv, WaitsStand
    <2>3. PICK k, v, x : k = waits[s].item /\ v = waits[s].version /\ x = waits[s].reply.answer
      OBVIOUS
    <2>4. k \in Items /\ x \in Texts
      BY <2>1, <2>3, ReplyShape DEF Opens
    <2>5. Exists(history', k, v)
      BY <2>1, <2>2, <2>3, <2>4, StorageNow DEF WaitStands, Opens
    <2>6. /\ stored' = [stored EXCEPT ![k] = Kept(v, x, x)]
          /\ tab' = ShownOn(tab, k, x, x)
          /\ listed' = listed /\ queue' = queue /\ online' = online
          /\ waits' = [waits EXCEPT ![s] = Free] /\ history' = history
      BY <1>4, <2>3 DEF ShowItem, Shows, ShownOn, Ends, serviceVars
    <2>7. stored' \in [Items -> StoredTexts \cup {Nothing}] /\ StoredStand(stored', history')
      BY <2>4, <2>5, <2>6, StoresOne
    <2>8. tab' \in Pages /\ PageStands(tab', history') /\ tab'.current = tab.current
      BY <1>0, <2>4, <2>6, ShowsPage DEF EditorInv
    <2>9. waits' \in [Slots -> Waiting \cup {Free}] /\ WaitsStand'
      BY <2>6, <2>8, FreeStands, WaitsStep
    <2> QED BY <1>0, <2>6, <2>7, <2>8, <2>9, StorageSteps
  <1>5. ASSUME NEW s \in Slots, ShowKept(s) PROVE EditorInv'
    <2>1. waits[s] \in Opens
      BY <1>0, <1>5, WaitingShape DEF ShowKept, Broke
    <2>2. PICK k, kept : k = waits[s].item /\ kept = stored[k]
      OBVIOUS
    <2>3. k \in Items
      BY <2>1, <2>2 DEF Opens
    <2>4. /\ waits' = [waits EXCEPT ![s] = Free] /\ online' = online /\ UNCHANGED localVars
          /\ kept = Nothing => tab' = tab
          /\ kept # Nothing =>
                tab' = [Shows(k, kept.text, kept.base) EXCEPT
                           !.current = [item |-> k, version |-> kept.version]]
      BY <1>5, <2>2 DEF ShowKept, Ends
    <2>5. CASE kept = Nothing
      BY <1>0, <1>a, <2>4, <2>5, FreeStands, TabSteps
    <2>6. CASE kept # Nothing
      <3>1. kept \in StoredTexts /\ kept.version \in 1..Len(history'[k])
        BY <1>0, <2>2, <2>3, <2>6 DEF StoredStand
      <3>2. PICK u : u = Shows(k, kept.text, kept.base) /\ u = ShownOn(tab, k, kept.text, kept.base)
        BY DEF Shows, ShownOn
      <3>3. kept.text \in Texts /\ kept.base \in Texts /\ kept.version \in Nat
        BY <3>1 DEF StoredTexts
      <3>4. PageStands(tab, history')
        BY <1>0, PageStays, StorageNow DEF PageStands, EditorInv, Pages, Currents, Pendings
      <3>5. u \in Pages /\ PageStands(u, history')
        BY <1>0, <2>3, <3>2, <3>3, <3>4, ShowsPage
      <3>6. PICK c : c = [item |-> k, version |-> kept.version]
        OBVIOUS
      <3>7. c \in Currents /\ c.item = k /\ c.version = kept.version
        BY <2>3, <3>3, <3>6 DEF Currents
      <3>8. tab' = [u EXCEPT !.current = c]
        BY <2>4, <2>6, <3>2, <3>6
      <3>9. /\ tab' \in Pages /\ tab'.current = c /\ tab'.title = u.title
            /\ tab'.text = u.text /\ tab'.base = u.base /\ tab'.pending = u.pending
        BY <3>5, <3>7, <3>8 DEF Pages
      <3>10. PageStands(tab', history')
        BY <3>1, <3>5, <3>7, <3>9 DEF PageStands, Exists
      <3> QED BY <1>0, <2>4, <3>7, <3>9, <3>10, FreeStands, TabSteps
    <2> QED BY <2>5, <2>6
  <1>6. ASSUME NEW x \in Typed, Type(x) PROVE EditorInv'
    <2>1. PICK k, v, y : k = tab.current.item /\ v = tab.current.version /\ y = tab.base
      OBVIOUS
    <2>2. k \in Items /\ y \in Texts /\ x \in Texts /\ Exists(history', k, v)
      BY <1>6, <2>1, EditableStands DEF Type, Texts
    <2>3. /\ stored' = [stored EXCEPT ![k] = Kept(v, x, y)]
          /\ tab' = [tab EXCEPT !.text = x]
          /\ listed' = listed /\ queue' = queue /\ online' = online /\ waits' = waits
          /\ history' = history
      BY <1>6, <2>1 DEF Type, StoreDraft, serviceVars
    <2>4. stored' \in [Items -> StoredTexts \cup {Nothing}] /\ StoredStand(stored', history')
      BY <2>2, <2>3, StoresOne
    <2>5. /\ tab' \in Pages /\ tab'.current = tab.current /\ tab'.title = tab.title
          /\ tab'.text = x /\ tab'.base = tab.base /\ tab'.pending = tab.pending
      BY <1>0, <2>2, <2>3 DEF Pages
    <2>6. PageStands(tab', history')
      BY <2>2, <2>3, <2>5 DEF PageStands, EditorInv
    <2>7. waits' \in [Slots -> Waiting \cup {Free}] /\ WaitsStand'
      BY <2>3, <2>5, WaitsStay
    <2> QED BY <1>0, <2>3, <2>4, <2>5, <2>6, <2>7, StorageSteps
  <1> QED BY <1>1, <1>2, <1>3, <1>4, <1>5, <1>6

\* The signed update.
LEMMA UpdateSteps ==
    ASSUME EditorInv, EditorGrows,
           \/ \E s \in Slots : \/ PreviewRevision(s) \/ RenderConfirmation(s) \/ PreviewRefused(s)
                               \/ ApplyPendingUpdate(s) \/ ShowApplied(s) \/ TryAgain(s)
           \/ CloseDialog
    PROVE  EditorInv'
  <1>0. /\ listed \in [Items -> Nat] /\ stored \in [Items -> StoredTexts \cup {Nothing}]
        /\ queue \in Seq(Operations) /\ tab \in Pages /\ online \in BOOLEAN
        /\ waits \in [Slots -> Waiting \cup {Free}]
        /\ \A k \in Items : listed[k] \in 1..Len(history'[k])
        /\ StoredStand(stored, history')
        /\ \A i \in DOMAIN queue : queue[i].key \in 1..drawn'
    BY StorageNow
  <1>a. tab' = tab => PageStands(tab', history')
    BY PageStays
  <1>b. PageStands(tab, history')
    BY <1>0, StorageNow DEF PageStands, EditorInv, Pages, Currents, Pendings
  <1>1. ASSUME NEW s \in Slots, PreviewRevision(s) PROVE EditorInv'
    <2>1. PICK k, v, x, y : /\ k = tab.current.item /\ v = tab.current.version
                            /\ x = tab.text /\ y = tab.base
      OBVIOUS
    <2>2. /\ k \in Items /\ x \in Texts /\ y \in Texts /\ Exists(history', k, v) /\ v \in Nat
          /\ tab.current \in Currents
      BY <1>1, <2>1, EditableStands DEF PreviewRevision, Currents
    <2>3. /\ stored' = [stored EXCEPT ![k] = Kept(v, x, y)]
          /\ listed' = listed /\ queue' = queue /\ online' = online
      BY <1>1, <2>1 DEF PreviewRevision, StoreDraft
    <2>4. stored' \in [Items -> StoredTexts \cup {Nothing}] /\ StoredStand(stored', history')
      BY <2>2, <2>3, StoresOne
    <2>5. PICK m : m = [op |-> "preview", reply |-> Unanswered, item |-> k, version |-> v, text |-> x]
      OBVIOUS
    <2>6. \/ UNCHANGED <<tab, waits>>
          \/ waits' = [waits EXCEPT ![s] = m] /\ tab' = [tab EXCEPT !.saves = FALSE]
      BY <1>1, <2>1, <2>5 DEF PreviewRevision, Begins
    <2>7. CASE UNCHANGED <<tab, waits>>
      <3>1. waits' \in [Slots -> Waiting \cup {Free}] /\ WaitsStand'
        BY <2>7, WaitsStay
      <3> QED BY <1>0, <1>a, <2>3, <2>4, <2>7, <3>1, StorageSteps
    <2>8. CASE waits' = [waits EXCEPT ![s] = m] /\ tab' = [tab EXCEPT !.saves = FALSE]
      <3>1. /\ tab' \in Pages /\ tab'.current = tab.current /\ tab'.title = tab.title
            /\ tab'.text = tab.text /\ tab'.base = tab.base /\ tab'.pending = tab.pending
        BY <1>0, <2>8 DEF Pages
      <3>2. PageStands(tab', history')
        BY <1>b, <3>1 DEF PageStands
      <3>3. m \in Waiting /\ m.op = "preview"
        BY <2>2, <2>5 DEF Waiting, Previewing, Replied
      <3>4. WaitStands(m, history', tab', requests', drawn')
        BY <2>2, <3>1, <3>3 DEF WaitStands
      <3>5. waits' \in [Slots -> Waiting \cup {Free}] /\ WaitsStand'
        BY <2>8, <3>1, <3>3, <3>4, WaitsStep
      <3> QED BY <1>0, <2>3, <2>4, <3>1, <3>2, <3>5, StorageSteps
    <2> QED BY <2>6, <2>7, <2>8
  <1>2. ASSUME NEW s \in Slots, RenderConfirmation(s) PROVE EditorInv'
    <2>1. waits[s] \in Previewing /\ waits[s].op = "preview" /\ waits[s].reply.status = "ok"
      BY <1>0, <1>2, WaitingShape DEF RenderConfirmation, Answered
    <2>2. tab.current \in Currents
      BY <2>1 DEF EditorInv, WaitsStand, WaitStands
    <2>3. PICK q : q = [preview |-> waits[s].reply.answer, text |-> waits[s].text, key |-> drawn + 1,
                        item |-> tab.current.item, version |-> tab.current.version]
      OBVIOUS
    <2>4. drawn + 1 \in Nat /\ waits[s].reply.answer \in Previews /\ waits[s].text \in Texts
      BY <2>1, ReplyShape, EditorAssumption DEF Previewing, EditorInv, EditorTypeOK
    <2>5. q \in Pendings /\ q.item = tab.current.item /\ q.version = tab.current.version
      BY <2>2, <2>3, <2>4 DEF Pendings, Currents
    <2>6. /\ tab' = [tab EXCEPT !.saves = TRUE, !.pending = q]
          /\ waits' = [waits EXCEPT ![s] = Free] /\ online' = online /\ UNCHANGED localVars
      BY <1>2, <2>3 DEF RenderConfirmation, Ends
    <2>7. /\ tab' \in Pages /\ tab'.current = tab.current /\ tab'.title = tab.title
          /\ tab'.text = tab.text /\ tab'.base = tab.base /\ tab'.pending = q
      BY <1>0, <2>5, <2>6 DEF Pages
    <2>8. Exists(history', tab.current.item, tab.current.version)
      BY <1>b, <2>2 DEF PageStands
    <2>9. PageStands(tab', history')
      BY <1>b, <2>5, <2>7, <2>8 DEF PageStands
    <2> QED BY <1>0, <2>6, <2>7, <2>9, FreeStands, TabSteps
  <1>3. ASSUME NEW s \in Slots, PreviewRefused(s) PROVE EditorInv'
    <2>1. /\ tab' = [tab EXCEPT !.saves = TRUE]
          /\ waits' = [waits EXCEPT ![s] = Free] /\ online' = online /\ UNCHANGED localVars
      BY <1>3 DEF PreviewRefused, Ends
    <2>2. /\ tab' \in Pages /\ tab'.current = tab.current /\ tab'.title = tab.title
          /\ tab'.text = tab.text /\ tab'.base = tab.base /\ tab'.pending = tab.pending
      BY <1>0, <2>1 DEF Pages
    <2>3. PageStands(tab', history')
      BY <1>b, <2>2 DEF PageStands
    <2> QED BY <1>0, <2>1, <2>2, <2>3, FreeStands, TabSteps
  <1>4. ASSUME NEW s \in Slots, ApplyPendingUpdate(s) PROVE EditorInv'
    <2>1. PICK q : q = tab.pending
      OBVIOUS
    <2>2. q \in Pendings /\ Exists(history', q.item, q.version)
      BY <1>0, <1>4, <1>b, <2>1 DEF ApplyPendingUpdate, Confirming, Pages, PageStands
    <2>3. PICK m : m = [op |-> "apply", reply |-> Unanswered, preview |-> q.preview,
                        text |-> q.text, key |-> q.key, item |-> q.item, version |-> q.version]
      OBVIOUS
    <2>4. /\ m \in Waiting /\ m.op = "apply" /\ m.item = q.item /\ m.version = q.version
          /\ m.reply.status # "ok"
      BY <2>2, <2>3 DEF Pendings, Waiting, Applying, Replied, Unanswered
    <2>5. WaitStands(m, history', tab', requests', drawn')
      BY <2>2, <2>4 DEF WaitStands
    <2>6. /\ waits' = [waits EXCEPT ![s] = m] /\ tab' = tab /\ online' = online
          /\ UNCHANGED localVars
      BY <1>4, <2>1, <2>3 DEF ApplyPendingUpdate, Begins
    <2> QED BY <1>0, <1>a, <2>4, <2>5, <2>6, TabSteps
  <1>5. ASSUME NEW s \in Slots, ShowApplied(s) PROVE EditorInv'
    <2>1. waits[s] \in Applying /\ waits[s].op = "apply" /\ waits[s].reply.status = "ok"
      BY <1>0, <1>5, WaitingShape DEF ShowApplied, Answered
    <2>2. PICK k, v, x : k = waits[s].item /\ v = waits[s].reply.answer /\ x = waits[s].text
      OBVIOUS
    <2>3. k \in Items /\ x \in Texts /\ v \in Nat
      BY <2>1, <2>2, ReplyShape DEF Applying
    <2>4. Exists(history', k, v)
      BY <2>1, <2>2, <2>3, StorageNow DEF WaitStands, WaitsStand, EditorInv
    <2>5. PICK c : c = [item |-> k, version |-> v]
      OBVIOUS
    <2>6. c \in Currents /\ c.item = k /\ c.version = v
      BY <2>3, <2>5 DEF Currents
    <2>7. /\ tab' = [tab EXCEPT !.current = c, !.base = x, !.pending = Nothing]
          /\ listed' = [listed EXCEPT ![k] = v]
          /\ stored' = [stored EXCEPT ![k] = Kept(v, x, x)]
          /\ waits' = [waits EXCEPT ![s] = Free] /\ online' = online /\ queue' = queue
      BY <1>5, <2>2, <2>5 DEF ShowApplied, Ends
    <2>8. stored' \in [Items -> StoredTexts \cup {Nothing}] /\ StoredStand(stored', history')
      BY <2>3, <2>4, <2>7, StoresOne
    <2>9. listed' \in [Items -> Nat] /\ \A i \in Items : listed'[i] \in 1..Len(history'[i])
      BY <1>0, <2>3, <2>4, <2>7 DEF Exists
    <2>10. /\ tab' \in Pages /\ tab'.current = c /\ tab'.title = tab.title
           /\ tab'.text = tab.text /\ tab'.base = x /\ tab'.pending = Nothing
      BY <1>0, <2>3, <2>6, <2>7 DEF Pages
    <2>11. PageStands(tab', history')
      BY <1>b, <2>3, <2>4, <2>6, <2>10 DEF PageStands
    <2>12. waits' \in [Slots -> Waiting \cup {Free}] /\ WaitsStand'
      BY <2>6, <2>7, <2>10, FreeStands, WaitsStep
    <2> QED BY <1>0, <2>7, <2>8, <2>9, <2>10, <2>11, <2>12, StorageSteps
  <1>6. ASSUME NEW s \in Slots, TryAgain(s) PROVE EditorInv'
    <2>1. /\ waits' = [waits EXCEPT ![s] = Free] /\ tab' = tab /\ online' = online
          /\ UNCHANGED localVars
      BY <1>6 DEF TryAgain, Ends
    <2> QED BY <1>0, <1>a, <2>1, FreeStands, TabSteps
  <1>7. ASSUME CloseDialog PROVE EditorInv'
    <2>1. tab' = [tab EXCEPT !.pending = Nothing] /\ UNCHANGED <<localVars, waits, online>>
      BY <1>7 DEF CloseDialog
    <2>2. /\ tab' \in Pages /\ tab'.current = tab.current /\ tab'.title = tab.title
          /\ tab'.text = tab.text /\ tab'.base = tab.base /\ tab'.pending = Nothing
      BY <1>0, <2>1 DEF Pages
    <2>3. PageStands(tab', history')
      BY <1>b, <2>2 DEF PageStands
    <2> QED BY <1>0, <2>1, <2>2, <2>3, TabSteps
  <1> QED BY <1>1, <1>2, <1>3, <1>4, <1>5, <1>6, <1>7

LEMMA AppendSet ==
    ASSUME NEW S, NEW q \in Seq(S), NEW e \in S
    PROVE  /\ Append(q, e) \in Seq(S) /\ Append(q, e) # <<>>
           /\ ToSet(Append(q, e)) = ToSet(q) \cup {e}
  <1>1. /\ Append(q, e) \in Seq(S) /\ Len(Append(q, e)) = Len(q) + 1 /\ Len(q) \in Nat
        /\ DOMAIN q = 1..Len(q) /\ DOMAIN Append(q, e) = 1..(Len(q) + 1)
        /\ \A i \in 1..Len(q) : Append(q, e)[i] = q[i]
        /\ Append(q, e)[Len(q) + 1] = e
    OBVIOUS
  <1>2. ToSet(q) = {q[i] : i \in 1..Len(q)}
    BY <1>1 DEF ToSet
  <1>3. ToSet(Append(q, e)) = {Append(q, e)[i] : i \in 1..(Len(q) + 1)}
    BY <1>1 DEF ToSet
  <1>4. 1..(Len(q) + 1) = (1..Len(q)) \cup {Len(q) + 1}
    BY <1>1
  <1> HIDE DEF ToSet
  <1>5. ToSet(Append(q, e)) = ToSet(q) \cup {e}
    BY <1>1, <1>2, <1>3, <1>4
  <1> QED BY <1>1, <1>5

LEMMA HeadSet ==
    ASSUME NEW S, NEW q \in Seq(S), q # <<>>
    PROVE  /\ Head(q) \in S /\ Tail(q) \in Seq(S) /\ Len(q) \in Nat \ {0}
           /\ ToSet(q) = {Head(q)} \cup ToSet(Tail(q))
           /\ Len(q) = 1 => ToSet(q) = {Head(q)}
           /\ Len(q) # 1 => Tail(q) # <<>>
  <1>1. /\ Len(q) \in Nat \ {0} /\ Head(q) = q[1] /\ Head(q) \in S /\ Tail(q) \in Seq(S)
        /\ Len(Tail(q)) = Len(q) - 1
        /\ \A i \in 1..(Len(q) - 1) : Tail(q)[i] = q[i + 1]
        /\ DOMAIN q = 1..Len(q) /\ DOMAIN Tail(q) = 1..(Len(q) - 1)
    OBVIOUS
  <1>2. ToSet(q) = {q[i] : i \in 1..Len(q)}
    BY <1>1 DEF ToSet
  <1>3. ToSet(Tail(q)) = {Tail(q)[i] : i \in 1..(Len(q) - 1)}
    BY <1>1 DEF ToSet
  <1>4. ASSUME NEW x \in ToSet(q) PROVE x = Head(q) \/ x \in ToSet(Tail(q))
    <2>1. PICK i \in 1..Len(q) : x = q[i]
      BY <1>2
    <2>2. CASE i = 1
      BY <1>1, <2>1, <2>2
    <2>3. CASE i # 1
      <3>1. i - 1 \in 1..(Len(q) - 1) /\ Tail(q)[i - 1] = q[i]
        BY <1>1, <2>3
      <3> QED BY <1>3, <2>1, <3>1
    <2> QED BY <2>2, <2>3
  <1>5. Head(q) \in ToSet(q)
    BY <1>1, <1>2
  <1>6. ASSUME NEW x \in ToSet(Tail(q)) PROVE x \in ToSet(q)
    <2>1. PICK i \in 1..(Len(q) - 1) : x = Tail(q)[i]
      BY <1>3
    <2>2. i + 1 \in 1..Len(q) /\ x = q[i + 1]
      BY <1>1, <2>1
    <2> QED BY <1>2, <2>2
  <1>7. ToSet(q) = {Head(q)} \cup ToSet(Tail(q))
    BY <1>4, <1>5, <1>6
  <1>8. Len(q) = 1 => ToSet(Tail(q)) = {}
    BY <1>1, <1>3
  <1>9. ASSUME Len(q) # 1 PROVE Tail(q) # <<>>
    <2>1. PICK t : t = Tail(q)
      OBVIOUS
    <2>2. t \in Seq(S) /\ Len(t) = Len(q) - 1
      BY <1>1, <2>1
    <2>3. Len(t) # 0
      BY <1>1, <1>9, <2>2
    <2>4. t # <<>>
      BY <2>3, Len(<<>>) = 0
    <2> QED BY <2>1, <2>4
  <1> QED BY <1>1, <1>7, <1>8, <1>9

\* What a synchronization has still to do after an answer, and what it keeps.
LEMMA SyncShape ==
    ASSUME EditorInv, NEW s \in Slots, Answered(s, "sync") \/ Broke(s, "sync")
    PROVE  LET m == waits[s] IN
           /\ m \in Syncing /\ m.todo # <<>> /\ Remaining(s) \in Seq(Operations)
           /\ ToSet(m.began) \subseteq ToSet(Tail(m.todo)) \cup ToSet(Remaining(s)) \cup requests
           /\ Len(m.todo) = 1 => ToSet(m.began) \subseteq ToSet(Remaining(s)) \cup requests
           /\ \A q \in ToSet(Tail(m.todo)) \cup ToSet(Remaining(s)) : q.key \in 1..drawn
  <1>1. PICK m : m = waits[s]
    OBVIOUS
  <1>2. m \in Syncing /\ m.op = "sync"
    BY <1>1, WaitingShape DEF Answered, Broke, EditorInv, EditorTyped
  <1>3. WaitStands(m, history, tab, requests, drawn)
    BY <1>1 DEF EditorInv, WaitsStand
  <1>4. /\ m.todo \in Seq(Operations) /\ m.kept \in Seq(Operations) /\ m.todo # <<>>
        /\ ToSet(m.began) \subseteq ToSet(m.todo) \cup ToSet(m.kept) \cup requests
        /\ \A q \in ToSet(m.todo) \cup ToSet(m.kept) : q.key \in 1..drawn
    BY <1>2, <1>3 DEF WaitStands, Syncing
  <1>5. /\ Head(m.todo) \in Operations
        /\ ToSet(m.todo) = {Head(m.todo)} \cup ToSet(Tail(m.todo))
        /\ Len(m.todo) = 1 => ToSet(m.todo) = {Head(m.todo)}
    BY <1>4, HeadSet
  <1>6. /\ Remaining(s) \in Seq(Operations)
        /\ ToSet(m.kept) \subseteq ToSet(Remaining(s))
        /\ ToSet(Remaining(s)) \subseteq ToSet(m.kept) \cup {Head(m.todo)}
        /\ Head(m.todo) \in ToSet(Remaining(s)) \cup requests
    <2>1. CASE Broke(s, "sync")
      <3>1. Remaining(s) = Append(m.kept, Head(m.todo))
        BY <1>1, <2>1 DEF Remaining
      <3> QED BY <1>4, <1>5, <3>1, AppendSet
    <2>2. CASE ~Broke(s, "sync")
      <3>1. Remaining(s) = m.kept /\ m.reply.status = "ok"
        BY <1>1, <2>2 DEF Remaining, Answered
      <3>2. Head(m.todo) \in requests
        BY <1>2, <1>3, <3>1 DEF WaitStands
      <3> QED BY <1>4, <3>1, <3>2
    <2> QED BY <2>1, <2>2
  <1> QED BY <1>1, <1>2, <1>4, <1>5, <1>6

\* The requests for Hermes, and the browser.
LEMMA QueueSteps ==
    ASSUME EditorInv, EditorGrows,
           \/ \E s \in Slots : RequestVariantEdit(s) \/ SyncVariantQueue(s) \/ SyncGoesOn(s)
           \/ SetNetwork \/ Reload \/ ClearLocalData
    PROVE  EditorInv'
  <1>0. /\ listed \in [Items -> Nat] /\ stored \in [Items -> StoredTexts \cup {Nothing}]
        /\ queue \in Seq(Operations) /\ tab \in Pages /\ online \in BOOLEAN
        /\ waits \in [Slots -> Waiting \cup {Free}]
        /\ \A k \in Items : listed[k] \in 1..Len(history'[k])
        /\ StoredStand(stored, history')
        /\ \A i \in DOMAIN queue : queue[i].key \in 1..drawn'
    BY StorageNow
  <1>a. tab' = tab => PageStands(tab', history')
    BY PageStays
  <1>b. Blank \in Pages /\ PageStands(Blank, history')
    <2>1. Blank \in Pages
      BY DEF Blank, Pages
    <2>2. Blank.current = Nothing /\ Blank.title = Nothing /\ Blank.pending = Nothing
      BY DEF Blank
    <2>3. Nothing \notin Currents
      BY EditorAssumption DEF Currents
    <2> QED BY <2>1, <2>2, <2>3 DEF PageStands
  <1>c. ASSUME NEW s \in Slots, NEW q \in Seq(Operations), q # <<>>, SyncsWith(s, q),
               \A i \in DOMAIN q : q[i].key \in 1..drawn', tab' = tab
        PROVE  waits' \in [Slots -> Waiting \cup {Free}] /\ WaitsStand'
    <2>1. PICK m : m = [op |-> "sync", reply |-> Unanswered, began |-> q, todo |-> q, kept |-> <<>>]
      OBVIOUS
    <2>2. /\ m \in Waiting /\ m.op = "sync" /\ m.began = q /\ m.todo = q /\ m.kept = <<>>
          /\ m.reply.status # "ok"
      BY <2>1 DEF Waiting, Syncing, Replied, Unanswered
    <2>3. ToSet(<<>>) = {} /\ \A r \in ToSet(q) : r.key \in 1..drawn'
      BY <1>c DEF ToSet
    <2>4. WaitStands(m, history', tab', requests', drawn')
      BY <1>c, <2>2, <2>3 DEF WaitStands
    <2>5. waits' = [waits EXCEPT ![s] = m]
      BY <1>c, <2>1 DEF SyncsWith, Begins
    <2> QED BY <1>c, <2>2, <2>4, <2>5, WaitsStep
  <1>1. ASSUME NEW s \in Slots, RequestVariantEdit(s) PROVE EditorInv'
    <2>1. PICK r : r = [key |-> drawn + 1, item |-> tab.current.item,
                        version |-> tab.current.version, selected |-> tab.text]
      OBVIOUS
    <2>2. /\ queue' = Append(queue, r) /\ drawn' = drawn + 1 /\ tab' = tab /\ online' = online
          /\ listed' = listed /\ stored' = stored
          /\ SyncsWith(s, queue') \/ waits' = waits
      BY <1>1, <2>1 DEF RequestVariantEdit
    <2>3. drawn \in Nat
      BY EditorAssumption DEF EditorInv, EditorTypeOK
    <2>4. r \in Operations /\ r.key = drawn'
      BY <1>1, <2>1, <2>2, <2>3, EditableStands DEF RequestVariantEdit, Operations, Currents
    <2>5. queue' \in Seq(Operations) /\ queue' # <<>>
      BY <1>0, <2>2, <2>4, AppendSet
    <2>6. \A i \in DOMAIN queue' : queue'[i].key \in 1..drawn'
      <3> SUFFICES ASSUME NEW i \in DOMAIN queue' PROVE queue'[i].key \in 1..drawn'
        OBVIOUS
      <3>1. CASE i \in DOMAIN queue
        <4>1. queue'[i] = queue[i]
          BY <1>0, <2>2, <3>1
        <4> QED BY <1>0, <3>1, <4>1
      <3>2. CASE i \notin DOMAIN queue
        <4>1. queue'[i] = r
          BY <1>0, <2>2, <3>2
        <4> QED BY <2>2, <2>3, <2>4, <4>1
      <3> QED BY <3>1, <3>2
    <2>7. waits' \in [Slots -> Waiting \cup {Free}] /\ WaitsStand'
      BY <1>c, <2>2, <2>5, <2>6, WaitsStay
    <2> QED BY <1>0, <1>a, <2>2, <2>5, <2>6, <2>7, StorageSteps
  <1>2. ASSUME NEW s \in Slots, SyncVariantQueue(s) PROVE EditorInv'
    <2>1. SyncsWith(s, queue) /\ queue # <<>> /\ tab' = tab /\ online' = online /\ UNCHANGED localVars
      BY <1>2 DEF SyncVariantQueue
    <2>2. waits' \in [Slots -> Waiting \cup {Free}] /\ WaitsStand'
      BY <1>0, <1>c, <2>1
    <2> QED BY <1>0, <1>a, <2>1, <2>2, StorageSteps DEF localVars
  <1>3. ASSUME NEW s \in Slots, SyncGoesOn(s) PROVE EditorInv'
    <2>1. PICK m, q : m = waits[s] /\ q = Remaining(s)
      OBVIOUS
    <2>2. /\ m \in Syncing /\ m.todo # <<>> /\ q \in Seq(Operations)
          /\ ToSet(m.began) \subseteq ToSet(Tail(m.todo)) \cup ToSet(q) \cup requests
          /\ \A r \in ToSet(Tail(m.todo)) \cup ToSet(q) : r.key \in 1..drawn
      BY <1>3, <2>1, SyncShape DEF SyncGoesOn
    <2>3. tab' = tab /\ online' = online /\ listed' = listed /\ stored' = stored
          /\ drawn' = drawn /\ requests' = requests
      BY <1>3 DEF SyncGoesOn, serviceVars
    <2>4. CASE Len(m.todo) = 1
      <3>1. queue' = q /\ waits' = [waits EXCEPT ![s] = Free]
        BY <1>3, <2>1, <2>4 DEF SyncGoesOn, Ends
      <3>2. \A i \in DOMAIN queue' : queue'[i].key \in 1..drawn'
        BY <2>2, <2>3, <3>1 DEF ToSet
      <3>3. waits' \in [Slots -> Waiting \cup {Free}] /\ WaitsStand'
        BY <2>3, <3>1, FreeStands, WaitsStep
      <3> QED BY <1>0, <1>a, <2>2, <2>3, <3>1, <3>2, <3>3, StorageSteps
    <2>5. CASE Len(m.todo) # 1
      <3>1. PICK n : n = [op |-> "sync", reply |-> Unanswered,
                          began |-> m.began, todo |-> Tail(m.todo), kept |-> q]
        OBVIOUS
      <3>2. m.todo \in Seq(Operations) /\ m.began \in Seq(Operations)
        BY <2>2 DEF Syncing
      <3>3. Tail(m.todo) \in Seq(Operations) /\ Tail(m.todo) # <<>>
        BY <2>2, <2>5, <3>2, HeadSet
      <3>4. /\ n \in Waiting /\ n.op = "sync" /\ n.began = m.began /\ n.todo = Tail(m.todo)
            /\ n.kept = q /\ n.reply.status # "ok"
        BY <2>2, <3>1, <3>2, <3>3 DEF Waiting, Syncing, Replied, Unanswered
      <3>5. WaitStands(n, history', tab', requests', drawn')
        BY <2>2, <2>3, <3>3, <3>4 DEF WaitStands
      <3>6. waits' = [waits EXCEPT ![s] = n] /\ queue' = queue
        BY <1>3, <2>1, <2>5, <3>1 DEF SyncGoesOn
      <3>7. waits' \in [Slots -> Waiting \cup {Free}] /\ WaitsStand'
        BY <2>3, <3>4, <3>5, <3>6, WaitsStep
      <3> QED BY <1>0, <1>a, <2>3, <3>6, <3>7, StorageSteps
    <2> QED BY <2>4, <2>5
  <1>4. ASSUME SetNetwork PROVE EditorInv'
    BY <1>0, <1>4, <1>a, TabSteps DEF SetNetwork
  <1>d. ASSUME waits' = [s \in Slots |-> Free]
        PROVE  waits' \in [Slots -> Waiting \cup {Free}] /\ WaitsStand'
    BY <1>d, FreeStands DEF WaitsStand
  <1>5. ASSUME Reload PROVE EditorInv'
    <2>1. tab' = Blank /\ online' = online /\ UNCHANGED localVars
      BY <1>5 DEF Reload
    <2>2. waits' \in [Slots -> Waiting \cup {Free}] /\ WaitsStand'
      BY <1>5, <1>d DEF Reload
    <2> QED BY <1>0, <1>b, <2>1, <2>2, StorageSteps DEF localVars
  <1>6. ASSUME ClearLocalData PROVE EditorInv'
    <2>1. /\ tab' = Blank /\ online' = online /\ queue' = <<>> /\ history' = history
          /\ stored' = [k \in Items |-> Nothing] /\ listed' = [k \in Items |-> Version(k)]
      BY <1>6 DEF ClearLocalData, serviceVars
    <2>2. waits' \in [Slots -> Waiting \cup {Free}] /\ WaitsStand'
      BY <1>6, <1>d DEF ClearLocalData
    <2>3. listed' \in [Items -> Nat] /\ \A k \in Items : listed'[k] \in 1..Len(history'[k])
      BY <2>1, EditorAssumption DEF EditorInv, EditorTyped, EditorGrows, Version
    <2>4. stored' \in [Items -> StoredTexts \cup {Nothing}] /\ StoredStand(stored', history')
      BY <2>1 DEF StoredStand
    <2>5. queue' \in Seq(Operations) /\ DOMAIN queue' = {}
      BY <2>1
    <2> QED BY <1>0, <1>b, <2>1, <2>2, <2>3, <2>4, <2>5, StorageSteps
  <1> QED BY <1>1, <1>2, <1>3, <1>4, <1>5, <1>6

LEMMA EditorStep == EditorInv /\ [EditorNext]_editorVars => EditorInv'
  <1> SUFFICES ASSUME EditorInv, [EditorNext]_editorVars PROVE EditorInv'
    OBVIOUS
  <1>0. EditorGrows
    BY EditorStepsGrow
  <1>1. ASSUME UNCHANGED editorVars PROVE EditorInv'
    <2>1. /\ UNCHANGED localVars /\ tab' = tab /\ waits' = waits /\ online' = online
      BY <1>1 DEF editorVars
    <2>2. online' \in BOOLEAN /\ (tab.current \in Currents => tab'.current \in Currents)
      BY <2>1 DEF EditorInv, EditorTypeOK
    <2> QED BY <1>0, <2>1, <2>2, PageStays, TabSteps
  <1> QED BY <1>0, <1>1, ServiceSteps, ItemSteps, UpdateSteps, QueueSteps DEF EditorNext

LEMMA EditorStarts == EditorInit => EditorInv
  <1> SUFFICES ASSUME EditorInit PROVE EditorInv
    OBVIOUS
  <1>1. /\ history = [k \in Items |-> <<First[k]>>] /\ \A k \in Items : Len(<<First[k]>>) = 1
        /\ \A k \in Items : <<First[k]>> \in Seq(Texts)
        /\ LastVersion \in Nat \ {0} /\ LastKey \in Nat
    BY EditorAssumption DEF EditorInit, Texts
  <1>2. tab \in Pages /\ tab.current = Nothing /\ tab.title = Nothing /\ tab.pending = Nothing
    BY DEF EditorInit, Blank, Pages
  <1>3. Nothing \notin Currents
    BY EditorAssumption DEF Currents
  <1>4. EditorTyped
    BY <1>1, <1>2 DEF EditorInit, EditorTyped
  <1>5. EditorTypeOK
    BY <1>1 DEF EditorInit, EditorTypeOK, Version
  <1>6. WaitsStand
    BY FreeStands DEF EditorInit, WaitsStand
  <1> QED BY <1>2, <1>3, <1>4, <1>5, <1>6 DEF EditorInv, PageStands

\* An update that is new on record was sent with the preview that the service signed.
LEMMA NewUpdates ==
    ASSUME EditorInv, EditorNext, NEW u \in updates' \ updates
    PROVE  \E s \in Slots :
              /\ waits[s].op = "apply" /\ waits[s].key = u.key
              /\ waits[s].preview = [item |-> u.item, version |-> Version(u.item),
                                     base |-> Markdown(u.item), text |-> u.text]
  <1>1. PICK s \in Slots : AnswerApply(s)
    <2>1. updates' # updates
      OBVIOUS
    <2> QED
      BY <2>1
      DEF EditorNext, AnswerProject, AnswerMarkdown, AnswerPreview, AnswerRequest, Lose,
          LoadProject, ShowProject, OpenItem, ShowItem, ShowKept, PreviewRevision,
          RenderConfirmation, PreviewRefused, ApplyPendingUpdate, ShowApplied, TryAgain,
          RequestVariantEdit, SyncVariantQueue, SyncGoesOn, OthersRevise, Type, CloseDialog,
          SetNetwork, Reload, ClearLocalData, serviceVars
  <1>2. PICK m : m = waits[s]
    OBVIOUS
  <1>3. /\ m.op = "apply" /\ IsSigned(m) /\ m.version = Version(m.item)
        /\ Markdown(m.item) = m.preview.base
        /\ updates' = updates \cup {[key |-> m.key, item |-> m.item,
                                     version |-> m.version, text |-> m.text]}
    BY <1>1, <1>2 DEF AnswerApply, Awaits
  <1>4. u = [key |-> m.key, item |-> m.item, version |-> m.version, text |-> m.text]
    BY <1>3
  <1>5. u.key = m.key /\ u.item = m.item /\ u.text = m.text
    BY <1>4
  <1> QED BY <1>2, <1>3, <1>5 DEF IsSigned

\* A request that is new on record selects the text of the version it names.
LEMMA NewRequests ==
    ASSUME EditorInv, EditorNext, NEW r \in requests' \ requests
    PROVE  r.version \in DOMAIN history[r.item] /\ r.selected = history[r.item][r.version]
  <1>1. PICK s \in Slots : AnswerRequest(s)
    <2>1. requests' # requests
      OBVIOUS
    <2> QED
      BY <2>1
      DEF EditorNext, AnswerProject, AnswerMarkdown, AnswerPreview, AnswerApply, Lose,
          LoadProject, ShowProject, OpenItem, ShowItem, ShowKept, PreviewRevision,
          RenderConfirmation, PreviewRefused, ApplyPendingUpdate, ShowApplied, TryAgain,
          RequestVariantEdit, SyncVariantQueue, SyncGoesOn, OthersRevise, Type, CloseDialog,
          SetNetwork, Reload, ClearLocalData, serviceVars
  <1>2. r = Head(waits[s].todo) /\ SelectionFits(r)
    BY <1>1 DEF AnswerRequest
  <1>3. waits[s] \in Syncing /\ waits[s].todo # <<>>
    BY <1>1, WaitingShape
       DEF AnswerRequest, Awaits, EditorInv, EditorTyped, WaitsStand, WaitStands
  <1>4. r.item \in Items
    <2>1. waits[s].todo \in Seq(Operations)
      BY <1>3 DEF Syncing
    <2>2. Head(waits[s].todo) \in Operations
      BY <1>3, <2>1, HeadSet
    <2> QED BY <1>2, <2>2 DEF Operations
  <1>5. history[r.item] \in Seq(Texts) /\ Len(history[r.item]) \in Nat \ {0}
    BY <1>4, EditorAssumption DEF EditorInv, EditorTyped, EditorTypeOK, Version
  <1> QED BY <1>2, <1>5 DEF SelectionFits, Version, Markdown

\* What leaves the queue was not read by the synchronization that ends, or is kept or
\* on record.
LEMMA QueueLoses ==
    ASSUME EditorInv, EditorNext, NEW i \in DOMAIN queue
    PROVE  \/ queue[i] \in ToSet(queue') \cup requests'
           \/ ClearLocalData
           \/ \E s \in Slots : /\ waits[s].op = "sync" /\ waits'[s] = Free
                               /\ queue[i] \notin ToSet(waits[s].began)
  <1>0. queue \in Seq(Operations) /\ waits \in [Slots -> Waiting \cup {Free}]
    BY DEF EditorInv, EditorTyped
  <1>1. queue[i] \in ToSet(queue) /\ queue[i] \in Operations
    BY <1>0 DEF ToSet
  <1>2. CASE queue' = queue
    BY <1>1, <1>2
  <1>3. CASE \E s \in Slots : RequestVariantEdit(s)
    <2>1. PICK r : r = [key |-> drawn + 1, item |-> tab.current.item,
                        version |-> tab.current.version, selected |-> tab.text]
      OBVIOUS
    <2>2. queue' = Append(queue, r)
      BY <1>3, <2>1 DEF RequestVariantEdit
    <2>3. i \in DOMAIN queue' /\ queue'[i] = queue[i]
      BY <1>0, <2>2
    <2> QED BY <2>3 DEF ToSet
  <1>4. ASSUME NEW s \in Slots, SyncGoesOn(s), queue' # queue
        PROVE  \/ queue[i] \in ToSet(queue') \cup requests'
               \/ /\ waits[s].op = "sync" /\ waits'[s] = Free
                  /\ queue[i] \notin ToSet(waits[s].began)
    <2>1. /\ Len(waits[s].todo) = 1 /\ queue' = Remaining(s) /\ waits' = [waits EXCEPT ![s] = Free]
          /\ requests' = requests /\ waits[s].op = "sync"
          /\ Answered(s, "sync") \/ Broke(s, "sync")
      BY <1>4 DEF SyncGoesOn, Ends, serviceVars, Answered, Broke
    <2>2. ToSet(waits[s].began) \subseteq ToSet(queue') \cup requests'
      BY <2>1, SyncShape
    <2>3. waits'[s] = Free
      BY <1>0, <2>1
    <2> QED BY <2>1, <2>2, <2>3
  <1>5. \/ queue' = queue \/ ClearLocalData
        \/ \E s \in Slots : RequestVariantEdit(s) \/ SyncGoesOn(s)
    BY DEF EditorNext, AnswerProject, AnswerMarkdown, AnswerPreview, AnswerApply, AnswerRequest,
           Lose, LoadProject, ShowProject, OpenItem, ShowItem, ShowKept, PreviewRevision,
           RenderConfirmation, PreviewRefused, ApplyPendingUpdate, ShowApplied, TryAgain,
           SyncVariantQueue, OthersRevise, Type, CloseDialog, SetNetwork, Reload, localVars
  <1> QED BY <1>2, <1>3, <1>4, <1>5

\* EditorIsFaithful: however openings, answers, losses, reloads and other editors fall
\* between two awaits, an update writes what its dialog showed, a request is about the
\* text of the version that it names, and a synchronization drops nothing that it read
\* and that is not on record.
THEOREM EditorStaysFaithful == EditorSpec => EditorIsFaithful
  <1>1. EditorInv => EditorTypeOK
    BY DEF EditorInv
  <1>2. EditorInv /\ [EditorNext]_editorVars =>
           [\A u \in updates' \ updates :
               \E s \in Slots :
                  /\ waits[s].op = "apply" /\ waits[s].key = u.key
                  /\ waits[s].preview = [item |-> u.item, version |-> Version(u.item),
                                         base |-> Markdown(u.item), text |-> u.text]]_updates
    BY NewUpdates DEF editorVars, serviceVars
  <1>3. EditorInv /\ [EditorNext]_editorVars =>
           [\A r \in requests' \ requests :
               /\ r.version \in DOMAIN history[r.item]
               /\ r.selected = history[r.item][r.version]]_requests
    BY NewRequests DEF editorVars, serviceVars
  <1>4. EditorInv /\ [EditorNext]_editorVars =>
           [\A i \in DOMAIN queue :
               \/ queue[i] \in ToSet(queue') \cup requests'
               \/ ClearLocalData
               \/ \E s \in Slots : /\ waits[s].op = "sync" /\ waits'[s] = Free
                                   /\ queue[i] \notin ToSet(waits[s].began)]_editorVars
    BY QueueLoses
  <1> QED
    BY <1>1, <1>2, <1>3, <1>4, EditorStarts, EditorStep, PTL
    DEF EditorSpec, EditorIsFaithful, UpdatesAreAsShown, RequestsFitTheirBase, LosesOnlyUnread

================================================================================
